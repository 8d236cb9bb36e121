---------------------------- MODULE SchedProofs ----------------------------
(***************************************************************************)
(* Proofs about Sched, for any sets of threads and wait queues.            *)
(***************************************************************************)
EXTENDS Sched, DataLemmas, TLAPS

USE DEF Keep, Requeue, queue_push

----------------------------------------------------------------------------
(* What the queue operations do to Match                                   *)

StateFun == [AllThread -> ThreadState]
WaitFun == [WaitQueue -> Seq(Thread)]

\* sched_add_thread of a thread that is in no queue.
LEMMA MatchAdd ==
    ASSUME NEW st \in StateFun, NEW q \in Seq(Thread), NEW w \in WaitFun,
           Match(st, q, w), NEW t \in Thread, st[t] \notin {"READY", "BLOCKED"}
    PROVE  Match([st EXCEPT ![t] = "READY"], Append(q, t), w) /\ Append(q, t) \in Seq(Thread)
  <1>1. t \notin Range(q) /\ IsInjective(q) /\ Thread \subseteq AllThread
    BY DEF Match, AllThread
  <1>2. /\ Append(q, t) \in Seq(Thread)
        /\ IsInjective(Append(q, t))
        /\ \A u \in Thread : u \in Range(Append(q, t)) <=> u \in Range(q) \/ u = t
    BY <1>1, AppendQueue
  <1> QED
    BY <1>1, <1>2 DEF Match, StateFun

\* queue_pop, the popped thread becoming RUNNING.
LEMMA MatchPop ==
    ASSUME NEW st \in StateFun, NEW q \in Seq(Thread), NEW w \in WaitFun,
           Match(st, q, w), q # <<>>
    PROVE  /\ Match([st EXCEPT ![Head(q)] = "RUNNING"], Tail(q), w)
           /\ Tail(q) \in Seq(Thread) /\ Head(q) \in Thread /\ st[Head(q)] = "READY"
  <1>1. IsInjective(q) /\ Thread \subseteq AllThread
    BY DEF Match, AllThread
  <1>2. /\ Head(q) \in Thread /\ Head(q) \in Range(q)
        /\ Tail(q) \in Seq(Thread) /\ IsInjective(Tail(q))
        /\ \A u \in Thread : u \in Range(Tail(q)) <=> u \in Range(q) /\ u # Head(q)
    BY <1>1, TailQueue
  <1> QED
    BY <1>1, <1>2 DEF Match, StateFun

\* The state of a thread that is in no queue changes, and it stays in none.
LEMMA MatchState ==
    ASSUME NEW st \in StateFun, NEW q \in Seq(Thread), NEW w \in WaitFun,
           Match(st, q, w), NEW t \in AllThread, NEW s \in ThreadState \ {"READY", "BLOCKED"},
           t \in Thread => st[t] \notin {"READY", "BLOCKED"}
    PROVE  Match([st EXCEPT ![t] = s], q, w)
  BY DEF Match, StateFun, AllThread

\* wq_sleep of a thread that is in no queue.
LEMMA MatchSleep ==
    ASSUME NEW st \in StateFun, NEW q \in Seq(Thread), NEW w \in WaitFun,
           Match(st, q, w), NEW t \in Thread, NEW p \in WaitQueue,
           st[t] \notin {"READY", "BLOCKED"}
    PROVE  /\ Match([st EXCEPT ![t] = "BLOCKED"], q, [w EXCEPT ![p] = Append(@, t)])
           /\ [w EXCEPT ![p] = Append(@, t)] \in WaitFun
  <1> DEFINE v == [w EXCEPT ![p] = Append(@, t)]
  <1>1. /\ \A r \in WaitQueue : t \notin Range(w[r]) /\ IsInjective(w[r]) /\ w[r] \in Seq(Thread)
        /\ Thread \subseteq AllThread
    BY DEF Match, AllThread, WaitFun
  <1>2. /\ Append(w[p], t) \in Seq(Thread) /\ IsInjective(Append(w[p], t))
        /\ \A u \in Thread : u \in Range(Append(w[p], t)) <=> u \in Range(w[p]) \/ u = t
    BY <1>1, AppendQueue
  <1>3. v \in WaitFun /\ v[p] = Append(w[p], t) /\ \A r \in WaitQueue : r # p => v[r] = w[r]
    BY <1>2 DEF WaitFun
  <1> HIDE DEF v
  <1>4. /\ \A r \in WaitQueue : IsInjective(v[r])
        /\ \A r \in WaitQueue, u \in Thread :
              u \in Range(v[r]) <=> u \in Range(w[r]) \/ (r = p /\ u = t)
    BY <1>1, <1>2, <1>3
  <1>5. \A r, s \in WaitQueue, u \in Thread : u \in Range(v[r]) /\ u \in Range(v[s]) => r = s
    BY <1>1, <1>4 DEF Match
  <1> DEFINE st2 == [st EXCEPT ![t] = "BLOCKED"]
  <1>6. \A u \in Thread : st2[u] = "READY" <=> u \in Range(q)
    BY <1>1 DEF Match, StateFun
  <1>7. \A u \in Thread : st2[u] = "BLOCKED" <=> st[u] = "BLOCKED" \/ u = t
    BY <1>1 DEF StateFun
  <1>8. \A u \in Thread : st2[u] = "BLOCKED" <=> \E r \in WaitQueue : u \in Range(v[r])
    BY <1>4, <1>7 DEF Match
  <1>9. Match(st2, q, v)
    BY <1>4, <1>5, <1>6, <1>8 DEF Match
  <1> QED
    BY <1>3, <1>9 DEF v

\* What taking the head off a wait queue does to the wait queues.
LEMMA WakeHead ==
    ASSUME IInv, NEW q \in WaitQueue, waiting[q] # <<>>, waiting' = [waiting EXCEPT ![q] = Tail(@)]
    PROVE  /\ waiting' \in WaitFun /\ Head(waiting[q]) \in Thread
           /\ Head(waiting[q]) \in Range(waiting[q]) /\ IsInjective(waiting'[q])
           /\ \A u \in Thread :
                 u \in Range(waiting'[q]) <=> u \in Range(waiting[q]) /\ u # Head(waiting[q])
           /\ \A r \in WaitQueue : r # q => waiting'[r] = waiting[r]
  <1>1. waiting \in WaitFun /\ waiting[q] \in Seq(Thread) /\ IsInjective(waiting[q])
    BY DEF IInv, TypeOK, QueuesMatchStates, Match, WaitFun
  <1> DEFINE s == waiting[q]
  <1>2. /\ Head(s) \in Thread /\ Head(s) \in Range(s)
        /\ Tail(s) \in Seq(Thread) /\ IsInjective(Tail(s))
        /\ \A u \in Thread : u \in Range(Tail(s)) <=> u \in Range(s) /\ u # Head(s)
    BY <1>1, TailQueue
  <1>3. waiting' \in WaitFun /\ waiting'[q] = Tail(s) /\ \A r \in WaitQueue : r # q => waiting'[r] = waiting[r]
    BY <1>1, <1>2 DEF WaitFun
  <1> QED
    BY <1>2, <1>3

\* wq_wake: the first waiter leaves its wait queue for the tail of the run queue.
LEMMA MatchWake ==
    ASSUME IInv, NEW st \in StateFun, Match(st, queue, waiting),
           NEW q \in WaitQueue, waiting[q] # <<>>, waiting' = [waiting EXCEPT ![q] = Tail(@)]
    PROVE  /\ Match([st EXCEPT ![Head(waiting[q])] = "READY"],
                    Append(queue, Head(waiting[q])), waiting')
           /\ Append(queue, Head(waiting[q])) \in Seq(Thread)
           /\ st[Head(waiting[q])] = "BLOCKED"
  <1> DEFINE t == Head(waiting[q])
  <1>0. /\ waiting' \in WaitFun /\ t \in Thread /\ t \in Range(waiting[q]) /\ IsInjective(waiting'[q])
        /\ \A u \in Thread : u \in Range(waiting'[q]) <=> u \in Range(waiting[q]) /\ u # t
        /\ \A r \in WaitQueue : r # q => waiting'[r] = waiting[r]
    BY WakeHead
  <1> HIDE DEF t
  <1>1. /\ st[t] = "BLOCKED" /\ t \notin Range(queue) /\ IsInjective(queue)
        /\ queue \in Seq(Thread) /\ Thread \subseteq AllThread
    BY <1>0 DEF Match, AllThread, IInv, TypeOK
  <1>2. /\ Append(queue, t) \in Seq(Thread) /\ IsInjective(Append(queue, t))
        /\ \A u \in Thread : u \in Range(Append(queue, t)) <=> u \in Range(queue) \/ u = t
    BY <1>0, <1>1, AppendQueue
  <1>3. Match([st EXCEPT ![t] = "READY"], Append(queue, t), waiting')
    BY <1>0, <1>1, <1>2 DEF Match, StateFun
  <1> QED
    BY <1>1, <1>2, <1>3 DEF t

\* wq_wake_all: the whole wait queue moves to the tail of the run queue.
LEMMA MatchWakeAll ==
    ASSUME NEW st \in StateFun, NEW q \in Seq(Thread), NEW w \in WaitFun,
           Match(st, q, w), NEW p \in WaitQueue,
           NEW st2 \in StateFun,
           \A t \in Thread : st2[t] = IF t \in Range(w[p]) THEN "READY" ELSE st[t]
    PROVE  /\ Match(st2, q \o w[p], [w EXCEPT ![p] = <<>>])
           /\ [w EXCEPT ![p] = <<>>] \in WaitFun
           /\ q \o w[p] \in Seq(Thread)
  <1> DEFINE v == [w EXCEPT ![p] = <<>>]
  <1>1. /\ w[p] \in Seq(Thread) /\ IsInjective(w[p]) /\ Thread \subseteq AllThread
        /\ IsInjective(q)
    BY DEF Match, AllThread, WaitFun
  <1>2. \A u \in Thread : ~(u \in Range(q) /\ u \in Range(w[p]))
    BY DEF Match
  <1>3. /\ q \o w[p] \in Seq(Thread) /\ IsInjective(q \o w[p])
        /\ \A u \in Thread : u \in Range(q \o w[p]) <=> u \in Range(q) \/ u \in Range(w[p])
    BY <1>1, <1>2, ConcatQueue
  <1>4. v \in WaitFun /\ v[p] = <<>> /\ \A r \in WaitQueue : r # p => v[r] = w[r]
    BY DEF WaitFun
  <1>5. IsInjective(v[p]) /\ \A u \in Thread : u \notin Range(v[p])
    BY <1>4 DEF IsInjective, Range
  <1> HIDE DEF v
  <1>6. Match(st2, q \o w[p], v)
    BY <1>1, <1>2, <1>3, <1>4, <1>5 DEF Match, StateFun
  <1> QED
    BY <1>3, <1>4, <1>6 DEF v

----------------------------------------------------------------------------
(* The scheduler                                                           *)

\* The facts of IInv that a call of sched_schedule relies on, with the thread
\* states, the run queue and sched_lock as the caller has just left them.
CallReady(st, q) ==
    /\ st \in StateFun /\ q \in Seq(Thread) /\ waiting' \in WaitFun
    /\ Match(st, q, waiting')
    /\ st[Idle] = "RUNNING"
    /\ \A t \in Thread : st[t] = "RUNNING" => t = current

\* sched_schedule keeps the queues in step with the states and leaves exactly
\* the thread it picks RUNNING.
LEMMA ScheduleQueues ==
    ASSUME TypeOK, NEW st, NEW q, NEW how, NEW lk, NEW sf,
           CallReady(st, q), sched_schedule(st, q, how, lk, sf)
    PROVE  /\ state' \in StateFun /\ queue' \in Seq(Thread) /\ current' \in AllThread
           /\ Match(state', queue', waiting')
           /\ state'[Idle] = "RUNNING" /\ state'[current'] = "RUNNING"
           /\ \A t \in Thread : state'[t] = "RUNNING" => t = current'
           /\ \A t \in AllThread : st[t] \in {"NONE", "STOPPED", "DEAD"} => state'[t] = st[t]
           /\ \A t \in Thread : st[t] = "BLOCKED" => state'[t] = "BLOCKED"
  <1> USE IdleAssumption DEF AllThread
  <1>0. /\ st \in StateFun /\ q \in Seq(Thread) /\ waiting' \in WaitFun /\ Match(st, q, waiting')
        /\ st[Idle] = "RUNNING" /\ \A t \in Thread : st[t] = "RUNNING" => t = current
        /\ current \in AllThread
    BY DEF CallReady, TypeOK
  <1>1. CASE q = <<>> /\ st[current] = "RUNNING"
    <2>1. queue' = q /\ state' = st /\ current' = current
      BY <1>0, <1>1 DEF sched_schedule, StateFun
    <2> QED
      BY <2>1, <1>0, <1>1
  <1>2. CASE q = <<>> /\ st[current] # "RUNNING"
    <2>1. queue' = q /\ state' = [st EXCEPT ![Idle] = "RUNNING"] /\ current' = Idle
      BY <1>0, <1>2 DEF sched_schedule, StateFun
    <2>2. state' = st
      BY <2>1, <1>0 DEF StateFun
    <2> QED
      BY <2>1, <2>2, <1>0, <1>2
  <1>3. CASE q # <<>>
    <2> DEFINE n == Head(q)
               st1 == [st EXCEPT ![n] = "RUNNING"]
    <2>1. /\ Match(st1, Tail(q), waiting')
          /\ Tail(q) \in Seq(Thread) /\ n \in Thread /\ st[n] = "READY"
      BY <1>0, <1>3, MatchPop
    <2>2. st1 \in StateFun /\ st1[n] = "RUNNING" /\ \A t \in AllThread : t # n => st1[t] = st[t]
      BY <1>0, <2>1 DEF StateFun, ThreadState
    <2>3. current' = n
      BY <1>3 DEF sched_schedule
    <2>4. CASE st[current] = "RUNNING" /\ current # Idle
      <3>1. current \in Thread /\ current # n /\ st1[current] = "RUNNING"
        BY <1>0, <2>1, <2>2, <2>4
      <3>2. /\ Match([st1 EXCEPT ![current] = "READY"], Append(Tail(q), current), waiting')
            /\ Append(Tail(q), current) \in Seq(Thread)
        BY <1>0, <2>1, <2>2, <3>1, MatchAdd
      <3>3. queue' = Append(Tail(q), current) /\ state' = [st1 EXCEPT ![current] = "READY"]
        BY <1>0, <1>3, <2>1, <2>4, <3>1 DEF sched_schedule, StateFun
      <3> QED
        BY <1>0, <2>1, <2>2, <2>3, <3>1, <3>2, <3>3 DEF StateFun, ThreadState
    <2>5. CASE ~(st[current] = "RUNNING" /\ current # Idle)
      <3>1. queue' = Tail(q) /\ state' = st1
        BY <1>0, <1>3, <2>1, <2>5 DEF sched_schedule, StateFun
      <3>2. \A t \in Thread : st[t] # "RUNNING"
        BY <1>0, <2>5
      <3> QED
        BY <1>0, <2>1, <2>2, <2>3, <3>1, <3>2
    <2> QED
      BY <2>4, <2>5
  <1> QED
    BY <1>1, <1>2, <1>3

\* sched_schedule hands the CPU over: the thread it picks is the one not parked,
\* sched_lock stays held exactly while one thread is switched out in sched_yield,
\* and the lock's saved flag is still that thread's.
LEMMA ScheduleParking ==
    ASSUME IInv, NEW st, NEW q \in Seq(Thread), NEW how \in Parking \ {"cpu", "new"},
           NEW lk \in BOOLEAN, NEW sf \in BOOLEAN, UNCHANGED flags,
           IF how = "yield" THEN ~locked /\ lk /\ sf = flags[current]
                            ELSE lk = locked /\ sf = saved_flags,
           sched_schedule(st, q, how, lk, sf)
    PROVE  /\ locked' \in BOOLEAN /\ saved_flags' \in BOOLEAN /\ intr' \in BOOLEAN
           /\ pc' \in [AllThread -> Place] /\ parked' \in [AllThread -> Parking]
           /\ \A t \in AllThread : pc'[t] \in {pc[t], "run"}
           /\ \A t \in AllThread : parked'[t] = "cpu" <=> t = current'
           /\ LockHeldByOneSleeper' /\ FlagsReturnToOwner'
  <1> DEFINE n == current'
             from == IF n = current THEN how ELSE parked[n]
  <1>1. current \in AllThread /\ n \in AllThread
    BY IdleAssumption, TailQueue DEF IInv, TypeOK, sched_schedule, AllThread
  <1>2. /\ parked \in [AllThread -> Parking] /\ pc \in [AllThread -> Place]
        /\ locked \in BOOLEAN /\ saved_flags \in BOOLEAN /\ flags \in [AllThread -> BOOLEAN]
        /\ \A t \in AllThread : parked[t] = "cpu" <=> t = current
        /\ locked <=> \E t \in AllThread : parked[t] = "yield"
        /\ \A t, u \in AllThread : parked[t] = "yield" /\ parked[u] = "yield" => t = u
        /\ \A t \in AllThread : parked[t] = "yield" => saved_flags = flags[t]
    BY DEF IInv, TypeOK, LockHeldByOneSleeper, FlagsReturnToOwner
  <1>3. parked' = [[parked EXCEPT ![current] = how] EXCEPT ![n] = "cpu"]
    BY DEF sched_schedule
  <1>4. ReturnTo(n, from, lk, sf)
    BY DEF sched_schedule
  <1>5. from \in {"new", "irq", "yield", "call"}
    BY <1>1, <1>2 DEF Parking
  <1> HIDE DEF n, from
  <1>6. parked' \in [AllThread -> Parking] /\ pc' \in [AllThread -> Place]
    BY <1>1, <1>2, <1>3, <1>4 DEF Parking, Place, ReturnTo
  <1>7. locked' \in BOOLEAN /\ saved_flags' = sf /\ intr' \in BOOLEAN
    BY <1>4, <1>5 DEF ReturnTo
  <1>8. \A t \in AllThread : pc'[t] \in {pc[t], "run"}
    BY <1>1, <1>2, <1>4 DEF ReturnTo
  <1>9. \A t \in AllThread : parked'[t] = IF t = n THEN "cpu" ELSE IF t = current THEN how ELSE parked[t]
    BY <1>1, <1>2, <1>3
  <1>10. \A t \in AllThread : parked'[t] = "cpu" <=> t = n
    BY <1>2, <1>9
  <1>11. locked' <=> lk /\ from # "yield"
    BY <1>4, <1>5 DEF ReturnTo
  <1>12. LockHeldByOneSleeper'
    <2>1. CASE how = "yield"
      BY <1>1, <1>2, <1>9, <1>11, <2>1 DEF LockHeldByOneSleeper, from
    <2>2. CASE how # "yield"
      BY <1>1, <1>2, <1>9, <1>11, <2>2 DEF LockHeldByOneSleeper, from
    <2> QED
      BY <2>1, <2>2
  <1>13. FlagsReturnToOwner'
    <2>1. CASE how = "yield"
      BY <1>1, <1>2, <1>7, <1>9, <2>1 DEF FlagsReturnToOwner
    <2>2. CASE how # "yield"
      BY <1>1, <1>2, <1>7, <1>9, <2>2 DEF FlagsReturnToOwner
    <2> QED
      BY <2>1, <2>2
  <1> QED
    BY <1>6, <1>7, <1>8, <1>10, <1>12, <1>13 DEF n

\* Hence a caller that leaves CallReady behind re-establishes the invariant by
\* calling sched_schedule.
LEMMA ScheduleInv ==
    ASSUME IInv, NEW st, NEW q, NEW how \in Parking \ {"cpu", "new"},
           NEW lk \in BOOLEAN, NEW sf \in BOOLEAN, UNCHANGED flags,
           IF how = "yield" THEN ~locked /\ lk /\ sf = flags[current]
                            ELSE lk = locked /\ sf = saved_flags,
           CallReady(st, q),
           \A t \in AllThread : pc[t] = "halt" => st[t] = "DEAD",
           sched_schedule(st, q, how, lk, sf)
    PROVE  IInv'
  <1>1. TypeOK /\ q \in Seq(Thread)
    BY DEF IInv, CallReady
  <1>2. /\ state' \in StateFun /\ queue' \in Seq(Thread) /\ current' \in AllThread
        /\ Match(state', queue', waiting')
        /\ state'[Idle] = "RUNNING" /\ state'[current'] = "RUNNING"
        /\ \A t \in Thread : state'[t] = "RUNNING" => t = current'
        /\ \A t \in AllThread : st[t] \in {"NONE", "STOPPED", "DEAD"} => state'[t] = st[t]
    BY <1>1, ScheduleQueues
  <1>3. /\ locked' \in BOOLEAN /\ saved_flags' \in BOOLEAN /\ intr' \in BOOLEAN
        /\ pc' \in [AllThread -> Place] /\ parked' \in [AllThread -> Parking]
        /\ \A t \in AllThread : pc'[t] \in {pc[t], "run"}
        /\ \A t \in AllThread : parked'[t] = "cpu" <=> t = current'
        /\ LockHeldByOneSleeper' /\ FlagsReturnToOwner'
    BY <1>1, ScheduleParking
  <1>4. TypeOK'
    BY <1>1, <1>2, <1>3 DEF TypeOK, StateFun, WaitFun, CallReady
  <1>5. QueuesMatchStates' /\ OnlyRunnableRuns'
    BY <1>2 DEF QueuesMatchStates, OnlyRunnableRuns
  <1>6. \A t \in AllThread : pc'[t] = "halt" => state'[t] = "DEAD"
    BY <1>2, <1>3
  <1>7. pc'[Idle] = "run"
    BY <1>3 DEF IInv, AllThread
  <1> QED
    BY <1>2, <1>3, <1>4, <1>5, <1>6, <1>7 DEF IInv

\* A step that leaves the CPU and the parking of threads alone, changes the state
\* of threads in no final loop, and keeps the queues matched, keeps IInv.
LEMMA LocalInv ==
    ASSUME IInv,
           state' \in StateFun, queue' \in Seq(Thread), waiting' \in WaitFun,
           Match(state', queue', waiting'),
           intr' \in BOOLEAN, pc' \in [AllThread -> Place], flags' \in [AllThread -> BOOLEAN],
           OnlyRunnableRuns',
           \A t \in AllThread : parked[t] = "yield" => flags'[t] = flags[t],
           \A t \in AllThread : pc'[t] = "halt" => state'[t] = "DEAD",
           pc'[Idle] = "run", state'[Idle] = "RUNNING",
           UNCHANGED <<current, locked, saved_flags, parked>>
    PROVE  IInv'
  <1>1. TypeOK'
    BY DEF IInv, TypeOK, StateFun, WaitFun
  <1>2. LockHeldByOneSleeper' /\ FlagsReturnToOwner'
    BY DEF IInv, LockHeldByOneSleeper, FlagsReturnToOwner
  <1> QED
    BY <1>1, <1>2 DEF IInv, QueuesMatchStates

\* IInv as the lemmas above take it.
LEMMA Facts ==
    ASSUME IInv
    PROVE  /\ state \in StateFun /\ queue \in Seq(Thread) /\ waiting \in WaitFun
           /\ Match(state, queue, waiting) /\ current \in AllThread
           /\ locked \in BOOLEAN /\ saved_flags \in BOOLEAN /\ intr \in BOOLEAN
           /\ pc \in [AllThread -> Place] /\ flags \in [AllThread -> BOOLEAN]
           /\ pc[current] = "run" => state[current] = "RUNNING"
           /\ pc[current] \in {"enq", "spin"} => state[current] \in {"RUNNING", "READY", "BLOCKED"}
           /\ \A t \in Thread : state[t] = "RUNNING" => t = current
           /\ \A t \in AllThread : pc[t] = "halt" => state[t] = "DEAD"
           /\ pc[Idle] = "run" /\ state[Idle] = "RUNNING"
           /\ parked[current] # "yield"
  BY DEF IInv, TypeOK, QueuesMatchStates, OnlyRunnableRuns, StateFun, WaitFun

LEMMA InitInv == Init => IInv
  <1> SUFFICES ASSUME Init PROVE IInv
    OBVIOUS
  <1> USE IdleAssumption DEF AllThread, Init
  <1>1. TypeOK
    <2>1. state \in [AllThread -> ThreadState]
      BY DEF ThreadState
    <2>2. parked \in [AllThread -> Parking]
      BY DEF Parking
    <2>3. queue \in Seq(Thread) /\ waiting \in [WaitQueue -> Seq(Thread)]
      OBVIOUS
    <2>4. pc \in [AllThread -> Place] /\ flags \in [AllThread -> BOOLEAN]
      BY DEF Place
    <2> QED
      BY <2>1, <2>2, <2>3, <2>4 DEF TypeOK
  <1>2. QueuesMatchStates
    BY DEF QueuesMatchStates, Match, IsInjective, Range
  <1>3. OnlyRunnableRuns /\ LockHeldByOneSleeper /\ FlagsReturnToOwner
    BY DEF OnlyRunnableRuns, LockHeldByOneSleeper, FlagsReturnToOwner
  <1> QED
    BY <1>1, <1>2, <1>3 DEF IInv

\* Steps of the current thread that touch no queue.
LEMMA FlagSteps ==
    ASSUME IInv, syscall_entry \/ sysret \/ sched_yield \/ thread_trampoline
    PROVE  IInv'
  <1> USE IdleAssumption, Facts DEF AllThread, ThreadState, Place
  <1>1. CASE syscall_entry \/ sysret
    <2>1. OnlyRunnableRuns' /\ Match(state', queue', waiting')
      BY <1>1 DEF OnlyRunnableRuns, syscall_entry, sysret, Match
    <2> QED
      BY <1>1, <2>1, LocalInv DEF syscall_entry, sysret
  <1>2. CASE sched_yield
    <2>1. OnlyRunnableRuns' /\ Match(state', queue', waiting')
      BY <1>2 DEF OnlyRunnableRuns, sched_yield, Match
    <2>2. current # Idle /\ state[current] # "DEAD"
      BY <1>2 DEF sched_yield
    <2> QED
      BY <1>2, <2>1, <2>2, LocalInv DEF sched_yield
  <1>3. CASE thread_trampoline
    <2>1. state' = [state EXCEPT ![current] = "DEAD"] /\ current \in Thread
      BY <1>3 DEF thread_trampoline
    <2>2. state[current] = "RUNNING" /\ "DEAD" \in ThreadState \ {"READY", "BLOCKED"}
      BY <1>3 DEF thread_trampoline
    <2>3. Match([state EXCEPT ![current] = "DEAD"], queue, waiting)
      BY <2>1, <2>2, MatchState
    <2>4. Match(state', queue', waiting') /\ OnlyRunnableRuns'
      BY <1>3, <2>1, <2>3 DEF OnlyRunnableRuns, thread_trampoline, StateFun
    <2> QED
      BY <1>3, <2>1, <2>4, LocalInv DEF thread_trampoline, StateFun
  <1> QED
    BY <1>1, <1>2, <1>3

\* Steps that move threads between queues without a switch.
LEMMA QueueSteps ==
    ASSUME IInv,
           \/ \E t \in Thread : thread_create(t) \/ sig_continue(t)
           \/ \E q \in WaitQueue : wq_sleep(q) \/ wq_wake(q) \/ wq_wake_all(q)
    PROVE  IInv'
  <1> USE IdleAssumption, Facts DEF AllThread
  <1>1. ASSUME NEW t \in Thread, thread_create(t) \/ sig_continue(t) PROVE IInv'
    <2>1. state[t] \in {"NONE", "STOPPED"} /\ state' = [state EXCEPT ![t] = "READY"]
      BY <1>1 DEF thread_create, sig_continue
    <2>2. /\ Match([state EXCEPT ![t] = "READY"], Append(queue, t), waiting)
          /\ Append(queue, t) \in Seq(Thread)
      BY <2>1, MatchAdd
    <2>3. queue' = Append(queue, t) /\ waiting' = waiting
      BY <1>1 DEF thread_create, sig_continue
    <2>4. OnlyRunnableRuns'
      BY <1>1, <2>1 DEF OnlyRunnableRuns, thread_create, sig_continue, StateFun
    <2>5. state' \in StateFun /\ \A u \in AllThread : u # t => state'[u] = state[u]
      BY <2>1 DEF StateFun, ThreadState
    <2>6. UNCHANGED <<current, locked, saved_flags, intr, pc, parked, flags>>
      BY <1>1 DEF thread_create, sig_continue
    <2> QED
      BY <2>1, <2>2, <2>3, <2>4, <2>5, <2>6, LocalInv
  <1>2. ASSUME NEW q \in WaitQueue, wq_sleep(q) PROVE IInv'
    <2>1. current \in Thread /\ state[current] = "RUNNING"
      BY <1>2 DEF wq_sleep
    <2>2. /\ Match([state EXCEPT ![current] = "BLOCKED"], queue, [waiting EXCEPT ![q] = Append(@, current)])
          /\ [waiting EXCEPT ![q] = Append(@, current)] \in WaitFun
      BY <2>1, MatchSleep
    <2>3. /\ state' = [state EXCEPT ![current] = "BLOCKED"]
          /\ waiting' = [waiting EXCEPT ![q] = Append(@, current)]
          /\ pc' = [pc EXCEPT ![current] = "enq"]
          /\ UNCHANGED <<queue, current, locked, saved_flags, intr, parked, flags>>
      BY <1>2 DEF wq_sleep
    <2>4. state' \in StateFun /\ pc' \in [AllThread -> Place] /\ OnlyRunnableRuns'
      BY <2>1, <2>3 DEF OnlyRunnableRuns, StateFun, ThreadState, Place
    <2>5. \A u \in AllThread : pc'[u] = "halt" => state'[u] = "DEAD"
      BY <2>1, <2>3 DEF StateFun
    <2>6. pc'[Idle] = "run" /\ state'[Idle] = "RUNNING"
      BY <2>1, <2>3 DEF StateFun
    <2> QED
      BY <2>2, <2>3, <2>4, <2>5, <2>6, LocalInv
  <1>3. ASSUME NEW q \in WaitQueue, wq_wake(q) PROVE IInv'
    <2> DEFINE h == Head(waiting[q])
    <2>1. /\ state' = [state EXCEPT ![h] = "READY"] /\ queue' = Append(queue, h)
          /\ waiting' = [waiting EXCEPT ![q] = Tail(@)] /\ waiting[q] # <<>>
          /\ UNCHANGED <<current, locked, saved_flags, intr, pc, parked, flags>>
      BY <1>3 DEF wq_wake
    <2>2. /\ waiting' \in WaitFun /\ h \in Thread /\ h \in Range(waiting[q]) /\ IsInjective(waiting'[q])
          /\ \A u \in Thread : u \in Range(waiting'[q]) <=> u \in Range(waiting[q]) /\ u # h
          /\ \A r \in WaitQueue : r # q => waiting'[r] = waiting[r]
      BY <2>1, WakeHead
    <2> HIDE DEF h
    <2>3. /\ Match([state EXCEPT ![h] = "READY"], Append(queue, h), waiting')
          /\ Append(queue, h) \in Seq(Thread) /\ state[h] = "BLOCKED"
      BY <2>1, MatchWake DEF h
    <2>4. state' \in StateFun /\ OnlyRunnableRuns'
      BY <2>1, <2>2, <2>3 DEF OnlyRunnableRuns, StateFun, ThreadState
    <2>5. \A u \in AllThread : u # h => state'[u] = state[u]
      BY <2>1 DEF StateFun
    <2> QED
      BY <2>1, <2>2, <2>3, <2>4, <2>5, LocalInv
  <1>4. ASSUME NEW q \in WaitQueue, wq_wake_all(q) PROVE IInv'
    <2>1. /\ queue' = queue \o waiting[q] /\ waiting' = [waiting EXCEPT ![q] = <<>>]
          /\ state' = [u \in AllThread |-> IF u \in Range(waiting[q]) THEN "READY" ELSE state[u]]
          /\ UNCHANGED <<current, locked, saved_flags, intr, pc, parked, flags>>
      BY <1>4 DEF wq_wake_all
    <2>2. waiting[q] \in Seq(Thread)
      BY DEF WaitFun
    <2>3. \A u \in AllThread : u \in Range(waiting[q]) => u \in Thread
      BY <2>2, RangeQueue
    <2>4. /\ state' \in StateFun
          /\ \A u \in AllThread : state'[u] = IF u \in Range(waiting[q]) THEN "READY" ELSE state[u]
      BY <2>1, <2>3 DEF StateFun, ThreadState
    <2>5. Match(state', queue', waiting') /\ waiting' \in WaitFun /\ queue' \in Seq(Thread)
      BY <2>1, <2>4, MatchWakeAll
    <2>6. \A u \in Thread : u \in Range(waiting[q]) => state[u] = "BLOCKED"
      BY DEF Match
    <2>7. OnlyRunnableRuns'
      BY <2>1, <2>3, <2>4, <2>6 DEF OnlyRunnableRuns
    <2> QED
      BY <2>1, <2>3, <2>4, <2>5, <2>6, <2>7, LocalInv
  <1> QED
    BY <1>1, <1>2, <1>3, <1>4

\* Steps that end in sched_schedule.
LEMMA SwitchSteps ==
    ASSUME IInv,
           \/ exit \/ pit_handler \/ spinlock_acquire
           \/ \E q \in WaitQueue : sig_stop(q)
    PROVE  IInv'
  <1> USE IdleAssumption, Facts DEF AllThread
  <1>1. CASE exit
    <2> DEFINE st == [state EXCEPT ![current] = "DEAD"]
    <2>1. /\ current \in Thread /\ state[current] = "RUNNING" /\ UNCHANGED <<waiting, flags>>
          /\ sched_schedule(st, queue, "call", locked, saved_flags)
      BY <1>1 DEF exit
    <2>2. "DEAD" \in ThreadState \ {"READY", "BLOCKED"}
      BY DEF ThreadState
    <2>3. Match(st, queue, waiting)
      BY <2>1, <2>2, MatchState
    <2>4. CallReady(st, queue) /\ \A u \in AllThread : pc[u] = "halt" => st[u] = "DEAD"
      BY <2>1, <2>2, <2>3 DEF CallReady, StateFun
    <2> QED
      BY <2>1, <2>4, ScheduleInv DEF Parking
  <1>2. CASE pit_handler
    <2>1. UNCHANGED <<waiting, flags>> /\ sched_schedule(state, queue, "irq", locked, saved_flags)
      BY <1>2 DEF pit_handler
    <2>2. CallReady(state, queue)
      BY <2>1 DEF CallReady
    <2> QED
      BY <2>1, <2>2, ScheduleInv DEF Parking
  <1>3. CASE spinlock_acquire
    <2>1. CASE UNCHANGED vars
      BY <2>1 DEF vars, IInv, TypeOK, QueuesMatchStates, Match, OnlyRunnableRuns,
                  LockHeldByOneSleeper, FlagsReturnToOwner
    <2>2. CASE /\ ~locked /\ UNCHANGED <<waiting, flags>>
               /\ sched_schedule(state, queue, "yield", TRUE, flags[current])
      <3>1. CallReady(state, queue) /\ flags[current] \in BOOLEAN
        BY <2>2 DEF CallReady
      <3> QED
        BY <2>2, <3>1, ScheduleInv DEF Parking
    <2> QED
      BY <1>3, <2>1, <2>2 DEF spinlock_acquire
  <1>4. ASSUME NEW q \in WaitQueue, sig_stop(q) PROVE IInv'
    <2> DEFINE st == [state EXCEPT ![current] = "STOPPED"]
               h == Head(waiting[q])
    <2>1. current \in Thread /\ state[current] = "RUNNING" /\ UNCHANGED flags
      BY <1>4 DEF sig_stop
    <2>2. "STOPPED" \in ThreadState \ {"READY", "BLOCKED"}
      BY DEF ThreadState
    <2>3. /\ st \in StateFun /\ st[current] = "STOPPED"
          /\ \A u \in AllThread : u # current => st[u] = state[u]
      BY <2>1, <2>2 DEF StateFun
    <2>4. Match(st, queue, waiting)
      BY <2>1, <2>2, MatchState
    <2>5. sched_remove_thread(queue, current) = queue
      <3>1. \A i \in 1..Len(queue) : queue[i] # current
        BY <2>1 DEF Match, Range
      <3> QED
        BY <3>1 DEF sched_remove_thread, Range
    <2> HIDE DEF st
    <2>6. CASE UNCHANGED waiting /\ sched_schedule(st, queue, "call", locked, saved_flags)
      <3>1. CallReady(st, queue) /\ \A u \in AllThread : pc[u] = "halt" => st[u] = "DEAD"
        BY <2>1, <2>3, <2>4, <2>6 DEF CallReady
      <3> QED
        BY <2>1, <2>6, <3>1, ScheduleInv DEF Parking
    <2>7. CASE /\ waiting[q] # <<>> /\ waiting' = [waiting EXCEPT ![q] = Tail(@)]
               /\ sched_schedule([st EXCEPT ![h] = "READY"], Append(queue, h),
                                 "call", locked, saved_flags)
      <3> DEFINE st2 == [st EXCEPT ![h] = "READY"]
      <3>0. /\ waiting' \in WaitFun /\ h \in Thread /\ h \in Range(waiting[q]) /\ IsInjective(waiting'[q])
            /\ \A u \in Thread : u \in Range(waiting'[q]) <=> u \in Range(waiting[q]) /\ u # h
            /\ \A r \in WaitQueue : r # q => waiting'[r] = waiting[r]
        BY <2>7, WakeHead
      <3> HIDE DEF h
      <3>1. /\ Match([st EXCEPT ![h] = "READY"], Append(queue, h), waiting')
            /\ Append(queue, h) \in Seq(Thread) /\ st[h] = "BLOCKED"
        BY <2>3, <2>4, <2>7, MatchWake DEF h
      <3>2. st2 \in StateFun /\ st2[h] = "READY" /\ \A u \in AllThread : u # h => st2[u] = st[u]
        BY <2>3, <3>0 DEF StateFun, ThreadState
      <3> HIDE DEF st2, h
      <3>3. CallReady(st2, Append(queue, h)) /\ \A u \in AllThread : pc[u] = "halt" => st2[u] = "DEAD"
        <4>1. /\ st2 \in StateFun /\ Append(queue, h) \in Seq(Thread) /\ waiting' \in WaitFun
              /\ Match(st2, Append(queue, h), waiting')
          BY <3>0, <3>1, <3>2 DEF st2
        <4>2. st2[Idle] = "RUNNING" /\ \A u \in Thread : st2[u] = "RUNNING" => u = current
          BY <2>1, <2>3, <3>0, <3>2
        <4>3. \A u \in AllThread : pc[u] = "halt" => st2[u] = "DEAD"
          BY <2>1, <2>3, <3>1, <3>2
        <4> QED
          BY <4>1, <4>2, <4>3 DEF CallReady
      <3> QED
        BY <2>1, <2>7, <3>3, ScheduleInv DEF Parking, st2
    <2> QED
      BY <1>4, <2>5, <2>6, <2>7 DEF sig_stop, st
  <1> QED
    BY <1>1, <1>2, <1>3, <1>4

\* IInv is inductive.
LEMMA NextInv == IInv /\ [Next]_vars => IInv'
  <1> SUFFICES ASSUME IInv, [Next]_vars PROVE IInv'
    OBVIOUS
  <1>1. CASE UNCHANGED vars
    BY <1>1 DEF vars, IInv, TypeOK, QueuesMatchStates, Match, OnlyRunnableRuns,
                LockHeldByOneSleeper, FlagsReturnToOwner
  <1>2. CASE syscall_entry \/ sysret \/ thread_trampoline \/ sched_yield
    BY <1>2, FlagSteps
  <1>3. CASE exit \/ pit_handler \/ spinlock_acquire
    BY <1>3, SwitchSteps
  <1>4. ASSUME NEW t \in Thread, thread_create(t) \/ sig_continue(t)
        PROVE  IInv'
    BY <1>4, QueueSteps
  <1>5. ASSUME NEW q \in WaitQueue, wq_sleep(q) \/ wq_wake(q) \/ wq_wake_all(q) \/ sig_stop(q)
        PROVE  IInv'
    BY <1>5, QueueSteps, SwitchSteps
  <1> QED
    BY <1>1, <1>2, <1>3, <1>4, <1>5 DEF Next

----------------------------------------------------------------------------
(* The theorems                                                            *)

\* IInv holds in every state the scheduler, the wait queues, the timer interrupt and
\* job control can reach, for any sets of threads and wait queues.
THEOREM Invariance == Spec => []IInv
  BY InitInv, NextInv, PTL DEF Spec

\* TypeOK holds for any set of threads and of wait queues.
THEOREM TypeCorrect == Spec => []TypeOK
  BY Invariance, PTL DEF IInv

\* The run queue and the wait queues always agree with Thread.state, and a thread
\* is in at most one of them, once, so that Thread.next is never overwritten while
\* it links another list (queue_push, wq_sleep, wq_wake, sched_remove_thread).
THEOREM QueuesAgree == Spec => []QueuesMatchStates
  BY Invariance, PTL DEF IInv

\* sched_schedule resumes only threads that may run.
THEOREM RunnableOnly == Spec => []OnlyRunnableRuns
  BY Invariance, PTL DEF IInv

\* sched_lock is held exactly while a single thread sleeps in sched_yield, and the
\* flag it saved is still that thread's when sched_yield releases it.
THEOREM YieldLock == Spec => [](LockHeldByOneSleeper /\ FlagsReturnToOwner)
  BY Invariance, PTL DEF IInv

\* sched_schedule does not resume a dead thread that is not in the run queue.
LEMMA ScheduleDead ==
    ASSUME NEW t \in Thread, NEW st \in StateFun, NEW q \in Seq(Thread), NEW how, NEW lk, NEW sf,
           st[t] = "DEAD", t \notin Range(q), sched_schedule(st, q, how, lk, sf)
    PROVE  state'[t] = "DEAD"
  <1>1. q # <<>> => Head(q) # t
    BY DEF Range
  <1>2. st[current] = "RUNNING" => current # t
    OBVIOUS
  <1> QED
    BY <1>1, <1>2, IdleAssumption DEF sched_schedule, StateFun, AllThread

\* No step revives a dead thread.
LEMMA DeadStep ==
    ASSUME IInv, [Next]_vars, NEW t \in Thread, state[t] = "DEAD"
    PROVE  state'[t] = "DEAD"
  <1> USE Facts, IdleAssumption DEF AllThread
  <1>1. t \notin Range(queue) /\ \A p \in WaitQueue : t \notin Range(waiting[p])
    BY DEF Match
  <1>2. CASE UNCHANGED vars \/ syscall_entry \/ sysret \/ sched_yield
    BY <1>2 DEF vars, syscall_entry, sysret, sched_yield
  <1>3. CASE thread_trampoline
    BY <1>3 DEF thread_trampoline, StateFun
  <1>4. CASE exit
    <2>1. [state EXCEPT ![current] = "DEAD"] \in StateFun
      BY DEF StateFun, ThreadState
    <2>2. [state EXCEPT ![current] = "DEAD"][t] = "DEAD"
      BY DEF StateFun
    <2> QED
      BY <1>1, <1>4, <2>1, <2>2, ScheduleDead DEF exit
  <1>5. CASE pit_handler
    BY <1>1, <1>5, ScheduleDead DEF pit_handler
  <1>6. CASE spinlock_acquire
    BY <1>1, <1>6, ScheduleDead DEF spinlock_acquire, vars
  <1>7. ASSUME NEW u \in Thread, thread_create(u) \/ sig_continue(u)
        PROVE  state'[t] = "DEAD"
    BY <1>7 DEF thread_create, sig_continue, StateFun
  <1>8. ASSUME NEW q \in WaitQueue, wq_sleep(q)
        PROVE  state'[t] = "DEAD"
    BY <1>8 DEF wq_sleep, StateFun
  <1>9. ASSUME NEW q \in WaitQueue, wq_wake(q)
        PROVE  state'[t] = "DEAD"
    BY <1>1, <1>9, WakeHead DEF wq_wake, StateFun
  <1>10. ASSUME NEW q \in WaitQueue, wq_wake_all(q)
         PROVE  state'[t] = "DEAD"
    <2>1. t \notin Range(waiting[q])
      <3>1. waiting[q] \in Seq(Thread)
        BY DEF WaitFun
      <3> QED
        BY <1>1, <3>1, RangeQueue
    <2> QED
      BY <1>10, <2>1 DEF wq_wake_all
  <1>11. ASSUME NEW q \in WaitQueue, sig_stop(q)
         PROVE  state'[t] = "DEAD"
    <2> DEFINE st == [state EXCEPT ![current] = "STOPPED"]
               h == Head(waiting[q])
    <2>1. current # t /\ current \notin Range(queue)
      BY <1>11 DEF sig_stop, Match
    <2>2. st \in StateFun /\ st[t] = "DEAD"
      BY <2>1 DEF StateFun, ThreadState
    <2>3. sched_remove_thread(queue, current) = queue
      BY <2>1 DEF sched_remove_thread, Range
    <2> HIDE DEF st
    <2>4. CASE sched_schedule(st, queue, "call", locked, saved_flags)
      BY <1>1, <2>2, <2>4, ScheduleDead
    <2>5. CASE /\ waiting[q] # <<>> /\ waiting' = [waiting EXCEPT ![q] = Tail(@)]
               /\ sched_schedule([st EXCEPT ![h] = "READY"], Append(queue, h),
                                 "call", locked, saved_flags)
      <3>1. h \in Thread /\ h \in Range(waiting[q]) /\ h \notin Range(queue) /\ IsInjective(queue)
        BY <2>5, WakeHead DEF Match
      <3>2. h # t
        BY <1>1, <3>1
      <3> HIDE DEF h
      <3>3. [st EXCEPT ![h] = "READY"] \in StateFun
        BY <2>2, <3>1 DEF StateFun, ThreadState
      <3>4. [st EXCEPT ![h] = "READY"][t] = "DEAD"
        BY <2>2, <3>2 DEF StateFun
      <3>5. Append(queue, h) \in Seq(Thread) /\ t \notin Range(Append(queue, h))
        <4>1. queue \in Seq(Thread)
          OBVIOUS
        <4>2. /\ Append(queue, h) \in Seq(Thread)
              /\ \A u \in Thread : u \in Range(Append(queue, h)) <=> u \in Range(queue) \/ u = h
          BY <3>1, <4>1, AppendQueue
        <4> QED
          BY <1>1, <3>2, <4>2
      <3> QED
        BY <2>5, <3>3, <3>4, <3>5, ScheduleDead
    <2> QED
      BY <1>11, <2>3, <2>4, <2>5 DEF sig_stop, st
  <1> QED
    BY <1>2, <1>3, <1>4, <1>5, <1>6, <1>7, <1>8, <1>9, <1>10, <1>11 DEF Next

\* A thread that sys_exit, sig_terminate or thread_trampoline made DEAD is never
\* made runnable again by a wake, a tick or SIGCONT.
THEOREM DeadForever == Spec => DeadStaysDead
  <1>1. IInv /\ [Next]_vars => [\A t \in Thread : state[t] = "DEAD" => state'[t] = "DEAD"]_vars
    BY DeadStep
  <1> QED
    BY <1>1, Invariance, PTL DEF Spec, DeadStaysDead
============================================================================
