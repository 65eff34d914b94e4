-------------------------- MODULE MCRecordPlayback --------------------------
(***************************************************************************)
(* Instances of RecordPlayback for TLC: a record of five samples, of which *)
(* the first, the third and the fourth are synchronization samples.        *)
(***************************************************************************)
EXTENDS RecordPlayback

SyncSamples == {1, 3, 4}
FirstSync == {1}

Seeks == {"play", "playBackward", "seek", "seekExact"}
OnlyNext == {"next"}
OnlySeekExact == {"seekExact"}
=============================================================================
