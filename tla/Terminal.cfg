SPECIFICATION Spec
CONSTANTS
    Rows = 2
    Cols = 3
    TABSTOP = 2
    MAX_PARAMS = 2
    VT_COUNT = 2
    TTY_BUF_SIZE = 4
    TTY_LINE_MAX = 4
    Readers = {1, 2}
    Counts = {1, 4}
    Keys <- MCKeys
    Outputs <- MCOutputs
    MaxOps <- MCMaxOps
    MaxCalls = 5
INVARIANT
    ScreenSound
PROPERTIES
    InputKept
    LineServed
CHECK_DEADLOCK FALSE
