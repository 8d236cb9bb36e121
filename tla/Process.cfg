\* Two processes with a signal that kills, one that stops and one that continues
\* and may be caught; and three processes that exit, stop and continue.
SPECIFICATION MCSpec
CONSTANTS
    MaxProc = 3
    Sig = {9, 18, 20}
    Caught = {18}
    Group = {0, 1}
    Status = {0}
INVARIANTS
    ThreadMatchesProcess
    JobControlSound
    
PROPERTIES
    ZombieKept
    WaitReturns
