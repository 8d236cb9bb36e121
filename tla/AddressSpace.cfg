SPECIFICATION Spec
CONSTANTS
    PAGE_SIZE = 256
    Frames = 45
    MemoryMap <- MCMemoryMap
    BitmapSize = 700
    PT_ENTRIES = 8
    LEVELS = 3
    USER_STACK_PAGES = 2
    KernelPhys = 2
    KernelPages = 2
    HEADER_SIZE = 48
    ALIGN_SIZE = 16
    HEAP_INIT_PAGES = 4
    HEAP_SIZE_MAX = 1536
    RingPages = 2
    StorePages = {3}
    MaxCalls = 5
    MaxProc = 3
    Images <- MCImages
    Argvs <- MCArgvs
    BrkSteps = {0, 600}
    MAX_EXEC_ARGS = 2
    MAX_EXEC_ARG_DATA = 256
    SizeofProcess = 96
    SizeofThread = 48
    SizeofFdTable = 80
    THREAD_STACK_SIZE = 256
    Clients = {1}
    ClientSizes = {0, 64, 300, 720}
INVARIANTS
    MemoryOwned
    
PROPERTIES
    LeaksOnlyOnFailure
    
CHECK_DEADLOCK FALSE
