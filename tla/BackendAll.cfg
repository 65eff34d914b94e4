CONSTANTS
    a1 = a1
    a2 = a2
    r1 = r1
    Loop = loop
    None = none
    App <- AppAndRenderer
    Render <- OneRenderer
    Calls <- StatusAndGetter
    CallbackCalls <- OneCall
    Stoppers <- AppAndLoop
    Restart = TRUE
    StartFails = TRUE
    MaxOps = 3
SPECIFICATION Spec
INVARIANTS RenderExcludesCalls AnswerIsOwn
PROPERTIES Linearizable
CHECK_DEADLOCK FALSE
