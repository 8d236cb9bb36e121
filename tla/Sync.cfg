\* Two producers, two consumers, and a semaphore that starts with one unit.
SPECIFICATION SyncSpec
CONSTANTS
    Thread = {p1, p2, c1, c2}
    Producer = {p1, p2}
    Consumer = {c1, c2}
    NULL = NULL
    Preemptible = FALSE
    Initial = 1
    MaxCount = 2
INVARIANTS
    UnitsAnnounced
    WaitAtomic
PROPERTIES
    UsesMutex
    NobodyLeft
