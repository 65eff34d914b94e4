CONSTANTS
    r1 = r1
    r2 = r2
    m1 = m1
    m2 = m2
    None = none
    Renderers <- OneRenderer
    Media <- OneMedium
    MaxStarts = 1
    Allowed <- Nothing
SPECIFICATION FairSpec
PROPERTIES CloseAnswered
CHECK_DEADLOCK FALSE
