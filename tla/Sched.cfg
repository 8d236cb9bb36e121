\* Three threads and two wait queues: a sleeper, a waker and a thread in between.
SPECIFICATION ListsSpec
CONSTANTS
    Thread = {t1, t2, t3}
    Idle = idle
    WaitQueue = {q1, q2}
    NULL = NULL
INVARIANTS
    QueuesMatchStates
    FlagsReturnToOwner
    ListsAreQueues
PROPERTY
    ReadyThreadRuns
