-------------------------- MODULE MCStreamPipeline ---------------------------
(***************************************************************************)
(* Instances of StreamPipeline for TLC.                                    *)
(***************************************************************************)
EXTENDS StreamPipeline

TwoDecoders == {"dec1", "dec2"}
OneSink == {"sink"}
NoSink == {}
TwoInfos == {"ps1", "ps2"}
TwoSids == {"s1", "s2"}
OneSid == {"s1"}

\* What leaves every promise intact, and what may happen to the connection.
Harmless == {"quiet", "announce", "canceled", "receiver", "lateSink",
             "stopAnytime", "resync"}
Network == {"direct", "close"}
=============================================================================
