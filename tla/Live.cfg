SPECIFICATION FairSpec
CONSTANTS
    Proc = {test, p1, p2}
    Test = test
    NULL = NULL
    UserSem = {}
    Device <- OneDisk
    QUANTUM = 2
    Elapsed <- LongTick
    NewAreaAsid = junk
    NewAreaCause = 0
    PastLookup = {}
    MaxSem = 1
    VectorTypes = {}
    KillTrees = FALSE
    EarlyInterrupts = FALSE
PROPERTIES IOCompletes ClockWakes TopPriorityRuns
