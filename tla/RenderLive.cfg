CONSTANTS
    r1 = r1
    r2 = r2
    m1 = m1
    m2 = m2
    None = none
    Renderers <- OneRenderer
    Media <- OneMedium
    MaxStarts = 2
    Allowed <- Nothing
SPECIFICATION FairSpec
PROPERTIES NoticeComes CloseCompletes
CHECK_DEADLOCK FALSE
