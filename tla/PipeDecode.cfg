CONSTANTS
    D = D
    V = V
    s1 = s1
    s2 = s2
    None = none
    Sinks <- TwoSinks
    H264Sinks <- NoSink
    DecodeAll = TRUE
    Allowed <- OnlyResync
    MaxFrames = 2
    MaxFlushes = 2
    MaxErrors = 0
SPECIFICATION Spec
INVARIANTS NoUseAfterDelete FlushedIsEmpty PlaybackResumes
CHECK_DEADLOCK FALSE
