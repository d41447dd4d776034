SPECIFICATION Spec
CONSTANTS
    Proc = {test, p1, p2}
    Test = test
    NULL = NULL
    UserSem = {}
    Device <- OneDisk
    QUANTUM = 2
    Elapsed <- OneTick
    NewAreaAsid = junk
    NewAreaCause = 0
    PastLookup = {}
    MaxSem = 1
    VectorTypes = {1}
    KillTrees = FALSE
    EarlyInterrupts = TRUE
SYMMETRY Interchangeable
INVARIANTS OnePlace
