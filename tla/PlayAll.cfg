CONSTANTS
    Samples = 5
    Sync <- SyncSamples
    Calls <- AllCalls
    MaxCalls = 4
    MaxNoBuffer = 1
    MaxReadErrors = 1
SPECIFICATION FairSpec
INVARIANTS OneFramePerStep RequestLandsUnhindered PlayingGoesOn
PROPERTIES SeekAnswered
CHECK_DEADLOCK FALSE
