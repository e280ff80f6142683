CONSTANTS
    A = A  B = B  C = C
    Files = {A, B, C}
    Missing = Missing
    InitialSize <- MCInitialSize
    PAGE_SIZE = 2
    WORD = 4
    Flags = {1, 3}
    Lengths = {1, 4}
    Offsets = {0}
    MaxOpen = 3
    MaxPages = 5
    MayReopen = FALSE
    OneTransfer = TRUE
SPECIFICATION Spec
INVARIANTS
    TablesInStep
    PagesHoldTheFile
    DiskHoldsTheFiles
    NothingMappedWhenClosed
PROPERTIES
    ImplementsDescriptors
