CONSTANTS
    DIR_ENTRIES_PER_BLOCK = 8
    first_data_block = 5
    ReservedInodes = 6
    ReservedBlocks = 6
    BootEntries = {7, 8}
    Places = {"relative", "/", "sub", "nodir"}
    Names = {"n1", "n2", "n3"}
    MaxCalls = 3
    MaxCrashes = 1
SPECIFICATION Spec
INVARIANTS
    EntriesLeadToInodes
    OldFilesKept
    CachesAgreeWithDisk
    CreatedFileIsFound
    FirstFileStaysApart
PROPERTIES
    NamesAreKept
CHECK_DEADLOCK FALSE
