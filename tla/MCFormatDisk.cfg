CONSTANTS
    INODES_PER_BLOCK = 4
    DIR_ENTRIES_PER_BLOCK = 4
    PrekernelNames <- MCPrekernelNames
    Trees <- MCTrees
SPECIFICATION Spec
INVARIANTS
    NumbersAgree
    BlocksApart
    FirstNewBlockIsFree
CHECK_DEADLOCK FALSE
