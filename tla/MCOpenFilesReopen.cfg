CONSTANTS
    A = A  B = B  C = C
    Files = {A, B}
    Missing = Missing
    InitialSize <- MCInitialSize
    PAGE_SIZE = 2
    WORD = 4
    Flags = {3}
    Lengths = {2}
    Offsets = {0}
    MaxOpen = 3
    MaxPages = 4
    MayReopen = TRUE
    OneTransfer = TRUE
SPECIFICATION Spec
INVARIANTS
    DescriptorNamesFile
