-------------------------- MODULE MCPdrawPipeline ---------------------------
(***************************************************************************)
(* Instances of PdrawPipeline for TLC.                                     *)
(***************************************************************************)
EXTENDS PdrawPipeline

CONSTANTS s1, s2

NoSink == {}
OneSink == {s1}
TwoSinks == {s1, s2}

Nothing == {}
OnlyResync == {"Resync"}
AllEvents == Events
=============================================================================
