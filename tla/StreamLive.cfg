CONSTANTS
    Decoders <- TwoDecoders
    Sinks <- NoSink
    Infos <- TwoInfos
    Sids <- OneSid
    None = "none"
    Transport = "mux"
    DecodeAll = TRUE
    Allowed <- Network
    MaxReqs = 1
SPECIFICATION FairSpec
INVARIANTS SyncFirst
PROPERTIES StopCompletes FlushEnds
CHECK_DEADLOCK FALSE
