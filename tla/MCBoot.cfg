CONSTANTS
    BLOCK_SIZE = 8
    AddressMax = 191
    LowSize = 24
    MEMMAP_AREA = 64
    KernelBase = 88
    KernelSize = 16
    Smaps <- MCSmaps
SPECIFICATION BootSpec
INVARIANTS
    BootTypeOK
    ReservedBlocksKept
    OnlyRamIsFree
    HandoffStartsFramePool
CHECK_DEADLOCK FALSE
