CONSTANTS
    D = D
    V = V
    s1 = s1
    s2 = s2
    None = none
    Sinks <- TwoSinks
    H264Sinks <- NoSink
    DecodeAll = TRUE
    Allowed <- Nothing
    MaxFrames = 1
    MaxFlushes = 2
    MaxErrors = 0
SPECIFICATION FairSpec
PROPERTIES CloseCompletes FlushAnswered
CHECK_DEADLOCK FALSE
