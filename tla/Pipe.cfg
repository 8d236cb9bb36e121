\* A reader and two writers that share one pipe; writes of at most PIPE_BUF_SIZE.
SPECIFICATION Spec
CONSTANTS
    p1 = p1  p2 = p2  p3 = p3
    Proc = {p1, p2, p3}
    First = p1
    MAX_FDS = 2
    Byte = {0, 1}
    PIPE_BUF_SIZE = 2
    Wrap = 4
    MaxRead = 2
    Payload <- SmallPayload
    Reader = {p1}
    Fatal = TRUE
INVARIANTS
    CountsMatch
    
PROPERTY
    ImplementsChannel
SYMMETRY Writers
CHECK_DEADLOCK FALSE
