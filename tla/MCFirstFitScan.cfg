CONSTANTS
    BLOCK_SIZE = 4
    AddressMax = 31
    WordBits = 3
    PadSet = TRUE
SPECIFICATION FairScanSpec
INVARIANT ResultIsFirstFit
PROPERTIES
    SearchReturns
    ImplementsFindFree
CHECK_DEADLOCK FALSE
