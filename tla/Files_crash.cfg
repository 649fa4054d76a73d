SPECIFICATION CrashSpec
CONSTANTS
    NR_DIRECT_BLOCKS = 1
    BLOCK_SIZE = 2
    MaxFsBlocks = 3
    DeviceBlocks = 4
    MaxInodes = 2
    MaxWrite = 2
    WriteAt <- MCWriteAt
    MaxCrashes = 2
INVARIANTS
    FilesKeptApart FinishedWritesSurvive CountsDrift
CHECK_DEADLOCK FALSE
