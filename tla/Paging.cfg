SPECIFICATION LoadedSpec
CONSTANTS
    MAXUPROC = 2
    NUMOFSWAMP = 2
    KUSEGPTESIZE = 2
    Blocks <- TwoBlocks
    NULL = NULL
    TicksPerSecond = 2
    MaxVersion = 2
    UserCall = {}
    Segment = {2}
    ProgramErrors = FALSE
    FaultAfterCall = TRUE
    DeviceErrors = {"seek"}
INVARIANTS FramesExact LockInv FrameInv
PROPERTIES MemoryStaysKept
