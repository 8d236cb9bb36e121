SPECIFICATION Spec
CONSTANTS
    IdxMod = 4
    Pages = {1, 2, 3, 4, 5}
    Capacity = 2
    BlkSizes = {2, 4}
    RX_BUF_COUNT = 2
    Loads <- MCLoads
INVARIANTS
    Conserved
    TransfersSound
    FramesDelivered
CHECK_DEADLOCK FALSE
