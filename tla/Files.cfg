SPECIFICATION Spec
CONSTANTS
    NR_DIRECT_BLOCKS = 1
    BLOCK_SIZE = 2
    MaxFsBlocks = 4
    DeviceBlocks = 4
    MaxInodes = 2
    MaxWrite = 2
INVARIANTS
    NothingBeyondSize EveryBlockOnce HoldsWhatWasWritten FreeIsZero
