CONSTANTS
    Decoders <- TwoDecoders
    Sinks <- OneSink
    Infos <- TwoInfos
    Sids <- TwoSids
    None = "none"
    Transport = "net"
    DecodeAll = TRUE
    Allowed <- Harmless
    MaxReqs = 1
SPECIFICATION Spec
INVARIANTS ReadyToPlayTruth EachAnsweredOnce DeletedClean MediaIsCurrent NothingLeaked
PROPERTIES StopIsFinal
CHECK_DEADLOCK FALSE
