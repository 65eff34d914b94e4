CONSTANTS
    r1 = r1
    r2 = r2
    m1 = m1
    m2 = m2
    None = none
    Renderers <- TwoRenderers
    Media <- OneMedium
    MaxStarts = 2
    Allowed <- Failing
SPECIFICATION Spec
SYMMETRY RendererSymmetry
INVARIANTS DrawnIsHeld DrawnMediaAlive NoticeToOwner NoMediaMissed NotUsedDeleted
CHECK_DEADLOCK FALSE
