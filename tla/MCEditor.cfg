SPECIFICATION Spec
CONSTANTS
    Char = {"x"}
    NL = "n"
    File <- MCFile
    MAX_BUFFER_SIZE = 4
    TERMINAL_WIDTH = 4
    TERMINAL_HEIGHT = 3
    LINE_NUMBER_WIDTH = 0
    SIZE_MAX = 1000
    MaxDrift = 4
INVARIANTS
    CursorAgrees
    CursorOnItsByte
    UnmodifiedIsSaved
PROPERTY
    IsLineEditor
CHECK_DEADLOCK FALSE
