CONSTANTS
    Media = {"m1", "m2", "m3"}
    Allowed <- Nothing
    MaxFrames = 3
    MaxFaults = 3
SPECIFICATION FairSpec
INVARIANTS PdrawDeleted StartedHasSink QueueAlive SinkFollowsMedia
 
CHECK_DEADLOCK FALSE
