----------------------------- MODULE ListProofs -----------------------------
(***************************************************************************)
(* The lists of SchedLists hold the queues of Sched, for any threads and   *)
(* wait queues: the lemmas of ListLemmas along the steps of the scheduler. *)
(***************************************************************************)
EXTENDS SchedLists, SchedProofs

LL == INSTANCE ListLemmas

----------------------------------------------------------------------------
(* The operations of L as the lemmas of LL name them                       *)

LEMMA SameLists ==
    /\ L!NoLists = LL!NoLists
    /\ \A s, t : L!queue_push(s, t) = LL!queue_push(s, t)
    /\ \A s : L!queue_pop(s) = LL!queue_pop(s)
    /\ \A s, q, t : L!wq_sleep(s, q, t) = LL!wq_sleep(s, q, t)
    /\ \A s, q : L!wq_wake(s, q) = LL!wq_wake(s, q)
  <1>1. L!NoLists = LL!NoLists
    BY DEF L!NoLists, LL!NoLists, L!Empty, LL!Empty
  <1>2. \A s, t : L!queue_push(s, t) = LL!queue_push(s, t)
    BY DEF L!queue_push, LL!queue_push, L!InRun, LL!InRun, L!link, LL!link
  <1>3. \A s : L!queue_pop(s) = LL!queue_pop(s)
    BY DEF L!queue_pop, LL!queue_pop, L!InRun, LL!InRun, L!unlink, LL!unlink
  <1>4. \A s, q, t : L!wq_sleep(s, q, t) = LL!wq_sleep(s, q, t)
    BY DEF L!wq_sleep, LL!wq_sleep, L!InWait, LL!InWait, L!link, LL!link
  <1>5. \A s, q : L!wq_wake(s, q) = LL!wq_wake(s, q)
    BY <1>2 DEF L!wq_wake, LL!wq_wake, L!InWait, LL!InWait, L!unlink, LL!unlink
  <1> QED
    BY <1>1, <1>2, <1>3, <1>4, <1>5

LEMMA SameBound == L!Cardinality(Thread) = LL!Cardinality(Thread) /\ LL!IsFiniteSet(Thread)
  <1>1. L!Cardinality(Thread) = LL!Cardinality(Thread)
    BY DEF L!Cardinality, LL!Cardinality, L!IsFiniteSet, LL!IsFiniteSet
  <1>2. LL!IsFiniteSet(Thread)
    BY ListsAssumption DEF IsFiniteSet, LL!IsFiniteSet
  <1> QED
    BY <1>1, <1>2

LEMMA SameRange == \A f : LL!Range(f) = Range(f) /\ L!Range(f) = Range(f)
  BY DEF LL!Range, L!Range, Range

LEMMA SameChain == ASSUME NEW n, NEW h PROVE L!Chain(n, h) = LL!Chain(n, h)
  <1> DEFINE On(c) == IF c[Len(c)] = NULL THEN c ELSE Append(c, n[c[Len(c)]])
             Cut(c) == IF c[Len(c)] = NULL THEN SubSeq(c, 1, Len(c) - 1) ELSE c
             G(N) == CHOOSE f : f = [k \in 0..N |-> IF k = 0 THEN <<h>> ELSE On(f[k - 1])]
  <1>1. L!Chain(n, h) = Cut(G(L!Cardinality(Thread))[L!Cardinality(Thread)])
    BY Zenon DEF L!Chain, L!Walk
  <1>2. LL!Chain(n, h) = Cut(G(LL!Cardinality(Thread))[LL!Cardinality(Thread)])
    BY Zenon DEF LL!Chain, LL!Walk
  <1> HIDE DEF G, Cut
  <1> QED
    BY SameBound, <1>1, <1>2

LEMMA SameWakeAll == ASSUME NEW s, NEW q PROVE L!wq_wake_all(s, q) = LL!wq_wake_all(s, q)
  <1> DEFINE a == [next |-> s.next, list |-> s.run, h |-> s.wq[q].head]
             m == [s EXCEPT !.wq[q] = LL!Empty]
             G(N) == CHOOSE f : f = [k \in 0..N |-> IF k = 0 THEN a ELSE LL!drain(f[k - 1])]
  <1>1. L!wq_wake_all(s, q) = LL!InRun(m, G(L!Cardinality(Thread))[L!Cardinality(Thread)])
    BY Zenon DEF L!wq_wake_all, L!InRun, LL!InRun, L!Empty, LL!Empty, L!drain, LL!drain, L!link, LL!link
  <1>2. LL!wq_wake_all(s, q) = LL!InRun(m, G(LL!Cardinality(Thread))[LL!Cardinality(Thread)])
    BY Zenon DEF LL!wq_wake_all
  <1> HIDE DEF G
  <1> QED
    BY SameBound, <1>1, <1>2

----------------------------------------------------------------------------
(* The steps                                                               *)

\* The lists hold the queues.
ListsHeld == LL!Held(lists, queue, waiting)

\* t is in none of the queues q and w.
Away(t, q, w) == t \notin Range(q) /\ \A p \in WaitQueue : t \notin Range(w[p])

\* A thread that is neither READY nor BLOCKED is in no queue.
LEMMA RunningAway ==
    ASSUME IInv, NEW t \in Thread, state[t] \notin {"READY", "BLOCKED"}
    PROVE  Away(t, queue, waiting)
  BY Facts DEF Match, Away

\* queue_push of a thread that is in no queue.
LEMMA PushHeld ==
    ASSUME NEW s, NEW q, NEW w, LL!Held(s, q, w), NEW t \in Thread, Away(t, q, w)
    PROVE  LL!Held(L!queue_push(s, t), Append(q, t), w)
  <1>1. t \notin LL!Range(q) /\ \A p \in WaitQueue : t \notin LL!Range(w[p])
    BY SameRange DEF Away
  <1>2. LL!Held(LL!queue_push(s, t), Append(q, t), w)
    BY <1>1, ListsAssumption, LL!HeldPush
  <1> QED
    BY <1>2, SameLists

\* The calls of queue_pop and queue_push in sched_schedule, from lists s that hold
\* q and w, by a current thread that is in no queue if it may be put back.
LEMMA ScheduledHeld ==
    ASSUME NEW st, NEW q, NEW w, NEW s, LL!Held(s, q, w), current \in AllThread,
           st[current] = "RUNNING" /\ current # Idle => Away(current, q, w),
           NEW how, NEW lk, NEW sf, sched_schedule(st, q, how, lk, sf)
    PROVE  LL!Held(Scheduled(s, st), queue', w)
  <1> DEFINE rest == IF q = <<>> THEN q ELSE Tail(q)
  <1>1. LL!Held(L!queue_pop(s), rest, w)
    BY ListsAssumption, SameLists, LL!HeldPop
  <1>2. s.run.head # NULL <=> q # <<>>
    BY ListsAssumption, LL!HeldHeads
  <1>3. queue' = IF Requeue(st, q) THEN Append(rest, current) ELSE rest
    BY DEF sched_schedule, queue_push
  <1>4. CASE Requeue(st, q)
    <2>1. q # <<>> /\ st[current] = "RUNNING" /\ current # Idle /\ current \in Thread
      BY <1>4 DEF AllThread, Requeue
    <2>2. q \in Seq(Thread) /\ IsInjective(q)
      BY DEF LL!Held, LL!Apart, LL!IsInjective, IsInjective
    <2>3. Away(current, rest, w)
      BY <2>1, <2>2, TailQueue DEF Away
    <2> HIDE DEF rest
    <2>4. LL!Held(L!queue_push(L!queue_pop(s), current), Append(rest, current), w)
      BY <1>1, <2>1, <2>3, PushHeld
    <2> QED
      BY <1>2, <1>3, <1>4, <2>1, <2>4 DEF Scheduled
  <1>5. CASE ~Requeue(st, q)
    BY <1>1, <1>2, <1>3, <1>5 DEF Scheduled, Requeue
  <1> QED
    BY <1>4, <1>5

\* The steps that call sched_schedule and leave the wait queues alone.
LEMMA SwitchHeld ==
    ASSUME IInv, ListsHeld,
           \/ exit /\ lists' = Scheduled(lists, [state EXCEPT ![current] = "DEAD"])
           \/ pit_handler /\ lists' = Scheduled(lists, state)
           \/ spinlock_acquire /\ lists' = IF locked THEN lists ELSE Scheduled(lists, state)
    PROVE  ListsHeld'
  <1> USE DEF ListsHeld
  <1>0. state[current] = "RUNNING" /\ current # Idle => Away(current, queue, waiting)
    BY Facts, RunningAway DEF AllThread
  <1>1. current \in AllThread
    BY Facts
  <1>2. CASE exit /\ lists' = Scheduled(lists, [state EXCEPT ![current] = "DEAD"])
    <2> DEFINE st == [state EXCEPT ![current] = "DEAD"]
    <2>1. st[current] = "DEAD"
      BY <1>1, Facts DEF StateFun
    <2>2. waiting' = waiting /\ sched_schedule(st, queue, "call", locked, saved_flags)
      BY <1>2 DEF exit
    <2> HIDE DEF st
    <2>3. LL!Held(Scheduled(lists, st), queue', waiting)
      BY <1>1, <2>1, <2>2, ScheduledHeld
    <2> QED
      BY <1>2, <2>2, <2>3 DEF st
  <1>3. CASE pit_handler /\ lists' = Scheduled(lists, state)
    <2>1. waiting' = waiting /\ sched_schedule(state, queue, "irq", locked, saved_flags)
      BY <1>3 DEF pit_handler
    <2>2. LL!Held(Scheduled(lists, state), queue', waiting)
      BY <1>0, <1>1, <2>1, ScheduledHeld
    <2> QED
      BY <1>3, <2>1, <2>2
  <1>4. CASE spinlock_acquire /\ lists' = IF locked THEN lists ELSE Scheduled(lists, state)
    <2>1. CASE locked
      BY <1>4, <2>1 DEF spinlock_acquire, vars
    <2>2. CASE ~locked
      <3>1. waiting' = waiting /\ sched_schedule(state, queue, "yield", TRUE, flags[current])
        BY <1>4, <2>2 DEF spinlock_acquire
      <3>2. LL!Held(Scheduled(lists, state), queue', waiting)
        BY <1>0, <1>1, <3>1, ScheduledHeld
      <3> QED
        BY <1>4, <2>2, <3>1, <3>2
    <2> QED
      BY <2>1, <2>2
  <1> QED
    BY <1>2, <1>3, <1>4

\* sched_add_thread, the sleep and the wakes.
LEMMA QueueHeld ==
    ASSUME IInv, ListsHeld,
           \/ \E t \in Thread : (thread_create(t) \/ sig_continue(t)) /\ lists' = L!queue_push(lists, t)
           \/ \E q \in WaitQueue :
                \/ wq_sleep(q) /\ lists' = L!wq_sleep(lists, q, current)
                \/ wq_wake(q) /\ lists' = L!wq_wake(lists, q)
                \/ wq_wake_all(q) /\ lists' = L!wq_wake_all(lists, q)
    PROVE  ListsHeld'
  <1> USE DEF ListsHeld
  <1>1. ASSUME NEW t \in Thread, thread_create(t) \/ sig_continue(t), lists' = L!queue_push(lists, t)
        PROVE  ListsHeld'
    <2>1. state[t] \notin {"READY", "BLOCKED"} /\ queue' = Append(queue, t) /\ waiting' = waiting
      BY <1>1 DEF thread_create, sig_continue, queue_push
    <2> QED
      BY <1>1, <2>1, RunningAway, PushHeld
  <1>2. ASSUME NEW q \in WaitQueue, wq_sleep(q), lists' = L!wq_sleep(lists, q, current)
        PROVE  ListsHeld'
    <2>1. /\ current \in Thread /\ state[current] = "RUNNING" /\ queue' = queue
          /\ waiting' = [waiting EXCEPT ![q] = Append(@, current)]
      BY <1>2, Facts DEF wq_sleep, AllThread
    <2>2. current \notin LL!Range(queue) /\ \A p \in WaitQueue : current \notin LL!Range(waiting[p])
      BY <2>1, RunningAway, SameRange DEF Away
    <2>3. LL!Held(LL!wq_sleep(lists, q, current), queue, waiting')
      BY <2>1, <2>2, ListsAssumption, LL!HeldSleep
    <2> QED
      BY <1>2, <2>1, <2>3, SameLists
  <1>3. ASSUME NEW q \in WaitQueue, wq_wake(q), lists' = L!wq_wake(lists, q)
        PROVE  ListsHeld'
    <2>1. /\ waiting[q] # <<>> /\ queue' = Append(queue, Head(waiting[q]))
          /\ waiting' = [waiting EXCEPT ![q] = Tail(@)]
      BY <1>3 DEF wq_wake, queue_push
    <2>2. LL!Held(LL!wq_wake(lists, q), Append(queue, Head(waiting[q])), waiting')
      BY <2>1, ListsAssumption, LL!HeldWake
    <2> QED
      BY <1>3, <2>1, <2>2, SameLists
  <1>4. ASSUME NEW q \in WaitQueue, wq_wake_all(q), lists' = L!wq_wake_all(lists, q)
        PROVE  ListsHeld'
    <2>1. queue' = queue \o waiting[q] /\ waiting' = [waiting EXCEPT ![q] = <<>>]
      BY <1>4 DEF wq_wake_all
    <2>2. LL!Held(LL!wq_wake_all(lists, q), queue \o waiting[q], waiting')
      BY <2>1, ListsAssumption, SameBound, LL!HeldWakeAll
    <2> QED
      BY <1>4, <2>1, <2>2, SameWakeAll
  <1> QED
    BY <1>1, <1>2, <1>3, <1>4

\* sig_stop takes the current thread, which is in no list, off the run queue, wakes
\* a waiter of the parent and schedules.
LEMMA StopHeld ==
    ASSUME IInv, ListsHeld, NEW q \in WaitQueue, sig_stop(q),
           lists' = Scheduled(L!wq_wake(L!sched_remove_thread(lists, current), q),
                              [state EXCEPT ![current] = "STOPPED"])
    PROVE  ListsHeld'
  <1> USE DEF ListsHeld
  <1> DEFINE st == [state EXCEPT ![current] = "STOPPED"]
             h == Head(waiting[q])
             woken == L!wq_wake(lists, q)
  <1>1. current \in Thread /\ current \in AllThread /\ state[current] = "RUNNING"
    BY Facts DEF sig_stop, AllThread
  <1>2. current \notin Range(queue)
    BY <1>1, RunningAway DEF Away
  <1>3. sched_remove_thread(queue, current) = queue
    BY <1>2, Facts DEF sched_remove_thread, Range
  <1>4. L!sched_remove_thread(lists, current) = lists
    <2>1. L!Chain(lists.next, lists.run.head) = queue
      BY ListsAssumption, SameBound, SameChain, LL!HeldChains
    <2> QED
      BY <1>2, <2>1, SameRange DEF L!sched_remove_thread
  <1>5. st[current] = "STOPPED"
    BY <1>1, Facts DEF StateFun
  <1>6. lists' = Scheduled(woken, st)
    BY <1>4
  <1>7. CASE waiting[q] = <<>>
    <2>1. waiting' = waiting /\ sched_schedule(st, queue, "call", locked, saved_flags)
      BY <1>3, <1>7 DEF sig_stop
    <2>2. lists.wq[q].head = NULL
      BY <1>7, ListsAssumption, LL!HeldHeads
    <2>3. woken = lists
      BY <2>2 DEF L!wq_wake
    <2> HIDE DEF st, woken
    <2>4. LL!Held(Scheduled(lists, st), queue', waiting)
      BY <1>1, <1>5, <2>1, ScheduledHeld
    <2> QED
      BY <1>6, <2>1, <2>3, <2>4
  <1>8. CASE waiting[q] # <<>>
    <2> DEFINE st2 == [st EXCEPT ![h] = "READY"]
    <2>1. /\ waiting' = [waiting EXCEPT ![q] = Tail(@)]
          /\ sched_schedule(st2, Append(queue, h), "call", locked, saved_flags)
      BY <1>3, <1>8 DEF sig_stop, queue_push
    <2>2. LL!Held(woken, Append(queue, h), waiting')
      BY <1>8, <2>1, ListsAssumption, SameLists, LL!HeldWake
    <2>3. st2[current] # "RUNNING"
      BY <1>1, <1>5, Facts DEF StateFun
    <2>4. Scheduled(woken, st2) = Scheduled(woken, st)
      BY <1>5, <2>3 DEF Scheduled
    <2> HIDE DEF st, st2, h, woken
    <2>5. LL!Held(Scheduled(woken, st2), queue', waiting')
      BY <1>1, <2>1, <2>2, <2>3, ScheduledHeld
    <2> QED
      BY <1>6, <2>4, <2>5
  <1> QED
    BY <1>7, <1>8

\* ListsHeld is inductive together with the scheduler's own invariant.
LEMMA ListsStep == ASSUME IInv, ListsHeld, [ListsNext]_<<vars, lists>> PROVE ListsHeld'
  <1>1. CASE (syscall_entry \/ sysret \/ thread_trampoline \/ sched_yield) /\ UNCHANGED lists
    BY <1>1 DEF ListsHeld, syscall_entry, sysret, thread_trampoline, sched_yield
  <1>2. CASE UNCHANGED <<vars, lists>>
    BY <1>2 DEF ListsHeld, vars
  <1> QED
    BY <1>1, <1>2, SwitchHeld, QueueHeld, StopHeld DEF ListsNext

\* Every step of the lists is a step of the scheduler.
LEMMA ListsSched == ASSUME [ListsNext]_<<vars, lists>> PROVE [Next]_vars
  BY DEF ListsNext, Next

\* The three parts of ListsAreQueues, from the lists that hold the queues.
LEMMA HeldIsQueues == ASSUME ListsHeld PROVE ListsAreQueues
  <1> USE DEF ListsHeld
  <1>1. /\ L!Chain(lists.next, lists.run.head) = queue
        /\ \A q \in WaitQueue : L!Chain(lists.next, lists.wq[q].head) = waiting[q]
    BY ListsAssumption, SameBound, SameChain, LL!HeldChains
  <1>2. ASSUME NEW l, NEW s \in Seq(Thread), LL!Linked(lists.next, l, s), L!Chain(lists.next, l.head) = s
        PROVE  IF l.head = NULL THEN l.tail = NULL
               ELSE l.tail = End(L!Chain(lists.next, l.head)) /\ lists.next[l.tail] = NULL
    <2>1. CASE s = <<>>
      BY <1>2, <2>1 DEF LL!Linked, LL!After
    <2>2. CASE s # <<>>
      <3>1. Len(s) \in 1..Len(s) /\ s[1] \in Thread /\ 0 # Len(s) /\ Len(s) \in Nat
        BY <2>2
      <3>2. l.head = s[1] /\ l.tail = s[Len(s)] /\ lists.next[s[Len(s)]] = NULL
        BY <1>2, <2>2, <3>1 DEF LL!Linked, LL!After
      <3> QED
        BY <1>2, <3>1, <3>2, ListsAssumption DEF End
    <2> QED
      BY <2>1, <2>2
  <1>3. /\ queue \in Seq(Thread) /\ LL!Linked(lists.next, lists.run, queue)
        /\ \A q \in WaitQueue : waiting[q] \in Seq(Thread) /\ LL!Linked(lists.next, lists.wq[q], waiting[q])
    BY DEF LL!Held, LL!Apart
  <1> QED
    BY <1>1, <1>2, <1>3 DEF ListsAreQueues

----------------------------------------------------------------------------
(* The theorem                                                             *)

\* The run queue and the wait queues, all linked through the one field Thread.next,
\* hold exactly the threads that the scheduler queued, in order, and their tails are
\* their last threads: after any sequence of queue_push, queue_pop, wq_sleep,
\* wq_wake, wq_wake_all and sched_remove_thread that the scheduler makes.
THEOREM ListsCorrect == ListsSpec => []ListsAreQueues
  <1>1. ListsInit => IInv /\ ListsHeld
    BY InitInv, SameLists, LL!HeldInit DEF ListsInit, Init, ListsHeld
  <1>2. IInv /\ ListsHeld /\ [ListsNext]_<<vars, lists>> => (IInv /\ ListsHeld)'
    BY NextInv, ListsSched, ListsStep
  <1> QED
    BY <1>1, <1>2, HeldIsQueues, PTL DEF ListsSpec
=============================================================================
