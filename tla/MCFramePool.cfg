CONSTANTS
    BLOCK_SIZE = 3
    AddressMax = 32
    LowestFree = 2
    RamTop = 6
    FilePages = {0, 1}
    HeapPages = {10, 11}
    StackPages = {20}
    Dirs = {"files", "low", "stack"}
    BootDirs = {"low"}
    DirOf <- MCDirOf
    MaxGrowth = 2
SPECIFICATION PoolSpec
INVARIANTS
    NoSharing
    GrantedStaysTaken
    CounterDrift
CHECK_DEADLOCK FALSE
