CONSTANTS
    INPUT_BUFFER_SIZE = 4
    MaxLine = 3
SPECIFICATION FairSpec
INVARIANTS
    TypeOK
PROPERTIES
    ImplementsLineReader
    ShellGoesOn
CHECK_DEADLOCK FALSE
