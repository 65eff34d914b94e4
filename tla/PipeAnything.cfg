CONSTANTS
    D = D
    V = V
    s1 = s1
    s2 = s2
    None = none
    Sinks <- OneSink
    H264Sinks <- OneSink
    DecodeAll = TRUE
    Allowed <- AllEvents
    MaxFrames = 1
    MaxFlushes = 2
    MaxErrors = 1
SPECIFICATION Spec
INVARIANTS TypeOK ReadyToPlayTruth ClosedIsFinal LinkedSourceAlive
CHECK_DEADLOCK FALSE
