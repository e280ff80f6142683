CONSTANTS
    ENTRIES = 13
    Dirs = {0, 1, 2}
    LowestFree = 2
    HoleStart = 5
    RamTop = 12
    Dirty = {2, 3, 4}
    FilePages = {13, 14}
    StackPage = 27
    UserPages = {28}
SPECIFICATION FairSpec
INVARIANTS
    PagesLeadToTheirFrames
    FramesAreOwn
    NoStaleTranslation
PROPERTIES
    FaultsAreResolved
CHECK_DEADLOCK FALSE
