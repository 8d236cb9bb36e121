SPECIFICATION Spec
CONSTANTS
    MaxRamNodes = 6
    RAMFS_MAX_CHILDREN = 3
    RAMFS_INIT_CAP = 2
    PROCFS_PID_POOL = 2
    PidName <- MCPidName
    PATH_MAX = 16
    VFS_MAX_MOUNTS = 3
    MaxProc = 2
    MAX_FDS = 3
    Users = {0, 1}
    Inputs <- MCInputs
    Opens <- MCOpens
    Modes <- MCModes
    Offsets = {2}
    MaxSize = 6
    MaxOps <- MCMaxOps
    MaxCalls = 4
INVARIANTS
    NamesSound
    StatusOfOpened
    PathMeans
PROPERTY
    FilesKept
CHECK_DEADLOCK FALSE
