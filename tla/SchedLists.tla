----------------------------- MODULE SchedLists -----------------------------
(***************************************************************************)
(* The scheduler together with the lists it keeps its threads in: every    *)
(* step of Sched that changes a queue does to the pointers what the code   *)
(* does, in the order of its calls.                                        *)
(***************************************************************************)
EXTENDS Sched, FiniteSets

CONSTANT NULL

\* Thread.next is NULL or a thread, and there are finitely many.
ASSUME ListsAssumption == NULL \notin Thread /\ IsFiniteSet(Thread)

VARIABLE lists      \* Thread.next, and head and tail of every queue

L == INSTANCE ThreadList

\* sched_schedule's own calls, made with thread states st and lists s
Scheduled(s, st) ==
    IF s.run.head # NULL /\ st[current] = "RUNNING" /\ current # Idle
    THEN L!queue_push(L!queue_pop(s), current)
    ELSE L!queue_pop(s)

ListsNext ==
    \/ (syscall_entry \/ sysret \/ thread_trampoline \/ sched_yield) /\ UNCHANGED lists
    \/ exit /\ lists' = Scheduled(lists, [state EXCEPT ![current] = "DEAD"])
    \/ pit_handler /\ lists' = Scheduled(lists, state)
    \/ spinlock_acquire /\ lists' = IF locked THEN lists ELSE Scheduled(lists, state)
    \/ \E t \in Thread : (thread_create(t) \/ sig_continue(t)) /\ lists' = L!queue_push(lists, t)
    \/ \E q \in WaitQueue :
         \/ wq_sleep(q) /\ lists' = L!wq_sleep(lists, q, current)
         \/ wq_wake(q) /\ lists' = L!wq_wake(lists, q)
         \/ wq_wake_all(q) /\ lists' = L!wq_wake_all(lists, q)
         \/ /\ sig_stop(q)
            /\ lists' = Scheduled(L!wq_wake(L!sched_remove_thread(lists, current), q),
                                  [state EXCEPT ![current] = "STOPPED"])

ListsInit == Init /\ lists = L!NoLists
ListsSpec == ListsInit /\ [][ListsNext]_<<vars, lists>> /\ Fairness

-----------------------------------------------------------------------------
(* Properties                                                              *)

End(s) == s[Len(s)]

\* The pointers are the queues: however a thread moves between the run queue and
\* the wait queues through its one next field, no list loses, repeats or reorders
\* a thread (queue_push, queue_pop, wq_sleep, wq_wake, wq_wake_all).  The tail of
\* every list is its last thread, and NULL exactly when the head is: queue_push
\* and wq_sleep test only the tail, the others only the head.
ListsAreQueues ==
    /\ L!Chain(lists.next, lists.run.head) = queue
    /\ \A q \in WaitQueue : L!Chain(lists.next, lists.wq[q].head) = waiting[q]
    /\ \A l \in {lists.run} \cup {lists.wq[q] : q \in WaitQueue} :
         IF l.head = NULL THEN l.tail = NULL
         ELSE /\ l.tail = End(L!Chain(lists.next, l.head))
              /\ lists.next[l.tail] = NULL
=============================================================================
