--------------------------- MODULE MCPdrawBackend ---------------------------
(***************************************************************************)
(* Instances of PdrawBackend for TLC.  The calls are chosen so that two    *)
(* read the same member (play, close: mRetStatus), one another member, and *)
(* one none.                                                               *)
(***************************************************************************)
EXTENDS PdrawBackend

CONSTANTS a1, a2, r1

OneApp == {a1}
AppAndRenderer == {a1, r1}
OneRenderer == {r1}
NoThread == {}
FirstApp == {a1}
AppAndLoop == {a1, Loop}

StatusAndGetter == {"play", "isPaused"}
OneCall == {"play"}
NoCall == {}
MetadataCalls == {"getPeerSessionMetadata", "getPeerDroneModel"}
=============================================================================
