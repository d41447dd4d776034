SPECIFICATION FairSpec
CONSTANTS
    MAXUPROC = 1
    NUMOFSWAMP = 2
    KUSEGPTESIZE = 3
    Blocks <- TwoBlocks
    NULL = NULL
    TicksPerSecond = 2
    MaxVersion = 2
    UserCall <- LegalCalls
    Segment = {2}
    ProgramErrors = TRUE
    FaultAfterCall = TRUE
    DeviceErrors = {"char"}
INVARIANTS TypeOK FaultServed NeverDeadlocks
PROPERTIES MemoryKept TestEnds FaultEnds
