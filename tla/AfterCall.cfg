SPECIFICATION FairSpec
CONSTANTS
    MAXUPROC = 1
    NUMOFSWAMP = 1
    KUSEGPTESIZE = 2
    Blocks <- TwoBlocks
    NULL = NULL
    TicksPerSecond = 2
    MaxVersion = 1
    UserCall <- OneCpuTime
    Segment = {2}
    ProgramErrors = FALSE
    FaultAfterCall = TRUE
    DeviceErrors = {}
PROPERTIES FaultReachesHandler
