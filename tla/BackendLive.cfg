CONSTANTS
    a1 = a1
    a2 = a2
    r1 = r1
    Loop = loop
    None = none
    App <- AppAndRenderer
    Render <- OneRenderer
    Calls <- OneCall
    CallbackCalls <- NoCall
    Stoppers <- FirstApp
    Restart = FALSE
    StartFails = FALSE
    MaxOps = 2
SPECIFICATION FairSpec
PROPERTIES EveryCallServed StopReturns DeletedUnused
CHECK_DEADLOCK FALSE
