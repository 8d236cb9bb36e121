SPECIFICATION Spec
CONSTANTS
    ARP_CACHE_SIZE = 2
    SOCKET_MAX = 3
    SOCK_RXBUF_SIZE = 4
    SOCK_BACKLOG_MAX = 3
    META = 1
    MAX_SEG = 1
    FirstPort = 100
    LastPort = 101
    ISN_CLIENT = 1000
    ISN_SERVER = 2000
    Procs = {1, 2}
    MAX_FDS = 2
    Scenarios = {"fresh", "server", "anyaddr", "busy", "client", "udp"}
    MaxOps <- MCMaxOps
    Lens = {1, 2}
    PeerMacs = {"m1", "m2"}
    MaxSockets = 6
INVARIANTS
    OneOwner
    
    
    
CHECK_DEADLOCK FALSE
