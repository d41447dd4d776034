SPECIFICATION Spec
CONSTANTS
    Proc = {test, p1, p2}
    Test = test
    NULL = NULL
    UserSem = {mutex}
    Device <- DiskAndTape
    QUANTUM = 2
    Elapsed <- OneTick
    NewAreaAsid = junk
    NewAreaCause = 0
    PastLookup = {}
    MaxSem = 1
    VectorTypes = {2}
    KillTrees = FALSE
    EarlyInterrupts = FALSE
SYMMETRY Interchangeable
INVARIANTS TypeOK DeviceSemaphoresExact NoLostWakeup VerdictIsRight NucleusSound
