CONSTANTS
    PAGE_SIZE = 24
    HEADER = 2
    malloc_start = 120
    FileTable = 4
    InodeTable = 30
    Sizes = {0, 1, 5, 12, 14, 25}
SPECIFICATION Spec
INVARIANTS
    NodesTileThePage
    PiecesAreMapped
PROPERTIES
    ImplementsAllocator
CHECK_DEADLOCK FALSE
