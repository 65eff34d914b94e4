------------------------------- MODULE MCVsink -------------------------------
(***************************************************************************)
(* Instances of Vsink for TLC.                                             *)
(***************************************************************************)
EXTENDS Vsink

Nothing == {}
=============================================================================
