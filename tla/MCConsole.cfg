CONSTANTS
    VGA_WIDTH = 2
    VGA_HEIGHT = 3
    Letters = {"a"}
    Output = {"text", "newline", "return", "tab"}
    RADIX = 4
    MaxLine = 2
SPECIFICATION Spec
INVARIANTS
    CursorOnScreen
    EchoShowsLine
    CursorShown
