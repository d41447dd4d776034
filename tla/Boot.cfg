SPECIFICATION Spec
CONSTANTS
    MAXUPROC = 2
    NUMOFSWAMP = 1
    KUSEGPTESIZE = 2
    Blocks <- FirstHasTwo
    NULL = NULL
    TicksPerSecond = 1
    MaxVersion = 1
    UserCall <- BootCalls
    Segment = {}
    ProgramErrors = TRUE
    FaultAfterCall = TRUE
    DeviceErrors = {"readTape", "seek", "writeBuffer", "char"}
INVARIANTS DiskMutexExact NoLostWakeup CommandsReachDevice DeadlockIsRight NoChildCutShort
PROPERTIES CallsKept
