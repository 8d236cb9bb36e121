----------------------------- MODULE SyncProofs -----------------------------
(***************************************************************************)
(* Proofs about Mutex, Semaphore and Sync, for any threads.  The           *)
(* composition implements module Mutex and module Semaphore, so the        *)
(* theorems about those carry over, and condvar_wait is atomic when its    *)
(* callers are not preempted.                                              *)
(***************************************************************************)
EXTENDS Sync, DataLemmas, FiniteSetTheorems, TLAPS

CurrentOK == current \in Thread \cup {NULL}

----------------------------------------------------------------------------
(* Module Semaphore, for any threads, initial count and bound on the count *)

\* One thread more or less among the woken ones changes their number by one.
LEMMA WokenCount ==
    ASSUME IInv
    PROVE  /\ IsFiniteSet(Woken) /\ Cardinality(Woken) \in Nat
           /\ \A t \in Thread : t \notin Woken =>
                 Cardinality(Woken \cup {t}) = Cardinality(Woken) + 1
           /\ \A t \in Woken : Cardinality(Woken \ {t}) = Cardinality(Woken) - 1
  <1>1. IsFiniteSet(Woken)
    BY SemAssumption, ThreadAssumption, FS_Subset DEF Woken
  <1> QED
    BY <1>1, FS_CardinalityType, FS_AddElement, FS_RemoveElement DEF Woken

LEMMA InitInv == Init => IInv
  BY SemAssumption, ThreadAssumption DEF Init, IInv, TypeOK, Place, SleepersQueued, CountNotNegative,
                       UnitsAnnounced, Range, IsInjective

\* Going to sleep needs an empty count, so that every unit stays announced.
LEMMA SleepInv ==
    ASSUME IInv, NEW t \in Thread, pc[t] \in {"out", "woken"}, count <= 0,
           waiters' = Append(waiters, t), pc' = [pc EXCEPT ![t] = "asleep"], count' = count
    PROVE  IInv'
  <1>1. waiters \in Seq(Thread) /\ IsInjective(waiters) /\ t \notin Range(waiters)
    BY DEF IInv, TypeOK, SleepersQueued
  <1>2. /\ waiters' \in Seq(Thread) /\ IsInjective(waiters')
        /\ \A u \in Thread : u \in Range(waiters') <=> u \in Range(waiters) \/ u = t
    BY <1>1, AppendQueue
  <1>3. TypeOK' /\ SleepersQueued' /\ CountNotNegative'
    BY <1>2 DEF IInv, TypeOK, Place, SleepersQueued, CountNotNegative
  <1>4. IsFiniteSet(Woken') /\ Cardinality(Woken') \in Nat
    BY SemAssumption, ThreadAssumption, FS_Subset, FS_CardinalityType DEF Woken
  <1>5. UnitsAnnounced'
    BY <1>3, <1>4 DEF UnitsAnnounced, TypeOK
  <1> QED
    BY <1>3, <1>5 DEF IInv

\* Taking a unit removes at most one woken thread.
LEMMA TakeInv ==
    ASSUME IInv, NEW t \in Thread, pc[t] \in {"out", "woken"}, count > 0,
           count' = count - 1, pc' = [pc EXCEPT ![t] = "out"], waiters' = waiters
    PROVE  IInv'
  <1>1. TypeOK' /\ SleepersQueued' /\ CountNotNegative'
    BY DEF IInv, TypeOK, Place, SleepersQueued, CountNotNegative
  <1>2. Woken' = Woken \ {t}
    BY DEF IInv, TypeOK, Woken
  <1>3. Cardinality(Woken') \in Nat /\ Cardinality(Woken') >= Cardinality(Woken) - 1
    <2>0. Cardinality(Woken') \in Nat
      BY SemAssumption, ThreadAssumption, FS_Subset, FS_CardinalityType DEF Woken
    <2>1. CASE t \in Woken
      <3>1. Cardinality(Woken') = Cardinality(Woken) - 1
        BY <1>2, <2>1, WokenCount
      <3> QED
        BY <2>0, <3>1
    <2>2. CASE t \notin Woken
      <3>1. Woken' = Woken
        BY <1>2, <2>2
      <3> QED
        BY <3>1, WokenCount
    <2> QED
      BY <2>0, <2>1, <2>2
  <1>4. UnitsAnnounced'
    BY <1>3, WokenCount DEF UnitsAnnounced, IInv, TypeOK
  <1> QED
    BY <1>1, <1>4 DEF IInv

\* A post adds one unit and, if there are sleepers, one woken thread.
LEMMA PostInv == ASSUME IInv, sem_post PROVE IInv'
  <1>1. CASE waiters = <<>>
    BY <1>1 DEF sem_post, IInv, TypeOK, SleepersQueued, CountNotNegative, UnitsAnnounced
  <1>2. CASE waiters # <<>>
    <2> DEFINE h == Head(waiters)
    <2>1. count' = count + 1 /\ waiters' = Tail(waiters) /\ pc' = [pc EXCEPT ![h] = "woken"]
      BY <1>2 DEF sem_post
    <2>2. /\ h \in Thread /\ h \in Range(waiters)
          /\ Tail(waiters) \in Seq(Thread) /\ IsInjective(Tail(waiters))
          /\ \A u \in Thread : u \in Range(Tail(waiters)) <=> u \in Range(waiters) /\ u # h
      BY <1>2, TailQueue DEF IInv, TypeOK, SleepersQueued
    <2> HIDE DEF h
    <2>3. TypeOK' /\ SleepersQueued' /\ CountNotNegative'
      BY <2>1, <2>2 DEF IInv, TypeOK, Place, SleepersQueued, CountNotNegative
    <2>4. Woken' = Woken \cup {h} /\ h \notin Woken
      BY <2>1, <2>2 DEF IInv, TypeOK, SleepersQueued, Woken
    <2>5. Cardinality(Woken') = Cardinality(Woken) + 1
      BY <2>2, <2>4, WokenCount
    <2>6. count <= Cardinality(Woken)
      BY <1>2 DEF IInv, UnitsAnnounced
    <2>7. UnitsAnnounced'
      BY <2>1, <2>5, <2>6, WokenCount DEF UnitsAnnounced, IInv, TypeOK
    <2> QED
      BY <2>3, <2>7 DEF IInv
  <1> QED
    BY <1>1, <1>2

\* A step that takes a unit without having slept.
LEMMA TrywaitInv == ASSUME IInv, NEW t \in Thread, sem_trywait(t) PROVE IInv'
  <1>1. CASE count' = count
    BY <1>1 DEF sem_trywait, IInv, TypeOK, SleepersQueued, CountNotNegative, UnitsAnnounced, Woken
  <1>2. CASE count > 0 /\ count' = count - 1
    <2>1. pc' = [pc EXCEPT ![t] = "out"] /\ waiters' = waiters /\ pc[t] = "out"
      BY DEF sem_trywait, IInv, TypeOK
    <2> QED
      BY <1>2, <2>1, TakeInv
  <1> QED
    BY <1>1, <1>2 DEF sem_trywait

\* The invariant is kept by every step.
THEOREM Invariance == Spec => []IInv
  <1>1. IInv /\ [Next]_vars => IInv'
    <2>1. IInv /\ UNCHANGED vars => IInv'
      BY DEF vars, IInv, TypeOK, SleepersQueued, CountNotNegative, UnitsAnnounced, Woken
    <2>2. ASSUME IInv, NEW t \in Thread, sem_wait(t) PROVE IInv'
      BY <2>2, SleepInv, TakeInv DEF sem_wait
    <2> QED
      BY <2>1, <2>2, PostInv, TrywaitInv DEF Next
  <1> QED
    BY <1>1, InitInv, PTL DEF Spec

\* sem_wait and sem_trywait never take a unit that is not there.
THEOREM NotNegative == Spec => []CountNotNegative
  BY Invariance, PTL DEF IInv

\* sem_post's wakeups are never fewer than the units sleepers could take.
THEOREM Announced == Spec => []UnitsAnnounced
  BY Invariance, PTL DEF IInv

----------------------------------------------------------------------------
(* Module Mutex, for any threads                                           *)

\* Module Mutex has its own copies of the operators on functions.
LEMMA SameOperators == ASSUME NEW f PROVE M!Range(f) = Range(f) /\ (M!IsInjective(f) <=> IsInjective(f))
  BY DEF M!Range, Range, M!IsInjective, IsInjective

LEMMA MutexInit == M!Init => M!IInv
  BY ThreadAssumption DEF M!Init, M!IInv, M!TypeOK, M!Place, M!MutualExclusion, M!SleepersQueued,
                        M!NoLostWakeup, M!Range, M!IsInjective

\* Taking the mutex or going to sleep.
LEMMA LockInv == ASSUME M!IInv, NEW t \in Thread, M!mutex_lock(t) \/ M!mutex_trylock(t) PROVE M!IInv'
  <1> USE ThreadAssumption DEF M!Place
  <1>1. CASE UNCHANGED M!vars
    BY <1>1 DEF M!vars, M!IInv, M!TypeOK, M!MutualExclusion, M!SleepersQueued, M!NoLostWakeup
  <1>2. CASE /\ mpc[t] \in {"out", "woken"} /\ owner = NULL /\ owner' = t
             /\ mpc' = [mpc EXCEPT ![t] = "in"] /\ UNCHANGED mwaiters
    BY <1>2 DEF M!IInv, M!TypeOK, M!MutualExclusion, M!SleepersQueued, M!NoLostWakeup
  <1>3. CASE /\ mpc[t] \in {"out", "woken"} /\ owner # NULL /\ mwaiters' = Append(mwaiters, t)
             /\ mpc' = [mpc EXCEPT ![t] = "asleep"] /\ UNCHANGED owner
    <2>1. mwaiters \in Seq(Thread) /\ IsInjective(mwaiters) /\ t \notin Range(mwaiters)
      BY <1>3, SameOperators DEF M!IInv, M!TypeOK, M!SleepersQueued
    <2>2. /\ mwaiters' \in Seq(Thread) /\ IsInjective(mwaiters')
          /\ \A u \in Thread : u \in Range(mwaiters') <=> u \in Range(mwaiters) \/ u = t
      BY <1>3, <2>1, AppendQueue
    <2> QED
      BY <1>3, <2>2, SameOperators DEF M!IInv, M!TypeOK, M!MutualExclusion, M!SleepersQueued, M!NoLostWakeup
  <1> QED
    BY <1>1, <1>2, <1>3 DEF M!mutex_lock, M!mutex_trylock

\* Releasing it: the first sleeper becomes the woken thread NoLostWakeup asks for.
LEMMA UnlockInv == ASSUME M!IInv, NEW t \in Thread, M!mutex_unlock(t) PROVE M!IInv'
  <1> USE ThreadAssumption DEF M!Place
  <1>1. mpc[t] = "in" /\ owner' = NULL /\ M!wq_wake(t, "out")
    BY DEF M!mutex_unlock
  <1>2. CASE mwaiters = <<>>
    <2>1. mpc' = [mpc EXCEPT ![t] = "out"] /\ mwaiters' = mwaiters
      BY <1>1, <1>2 DEF M!wq_wake
    <2> QED
      BY <1>1, <1>2, <2>1 DEF M!IInv, M!TypeOK, M!MutualExclusion, M!SleepersQueued, M!NoLostWakeup
  <1>3. CASE mwaiters # <<>>
    <2> DEFINE h == Head(mwaiters)
    <2>1. mwaiters' = Tail(mwaiters) /\ mpc' = [mpc EXCEPT ![t] = "out", ![h] = "woken"]
      BY <1>1, <1>3 DEF M!wq_wake
    <2>2. /\ h \in Thread /\ h \in Range(mwaiters)
          /\ Tail(mwaiters) \in Seq(Thread) /\ IsInjective(Tail(mwaiters))
          /\ \A u \in Thread : u \in Range(Tail(mwaiters)) <=> u \in Range(mwaiters) /\ u # h
      BY <1>3, TailQueue, SameOperators DEF M!IInv, M!TypeOK, M!SleepersQueued
    <2> HIDE DEF h
    <2>3. mpc[h] = "asleep" /\ h # t
      BY <1>1, <2>2, SameOperators DEF M!IInv, M!SleepersQueued
    <2> QED
      BY <1>1, <2>1, <2>2, <2>3, SameOperators
         DEF M!IInv, M!TypeOK, M!MutualExclusion, M!SleepersQueued, M!NoLostWakeup
  <1> QED
    BY <1>2, <1>3

\* The invariant is kept by every step, for any set of threads.
THEOREM MutexInvariance == M!Spec => []M!IInv
  <1>1. M!IInv /\ [M!Next]_(M!vars) => M!IInv'
    <2>1. M!IInv /\ UNCHANGED M!vars => M!IInv'
      BY DEF M!vars, M!IInv, M!TypeOK, M!MutualExclusion, M!SleepersQueued, M!NoLostWakeup
    <2> QED
      BY <2>1, LockInv, UnlockInv DEF M!Next
  <1> QED
    BY <1>1, MutexInit, PTL DEF M!Spec

\* mutex_lock, mutex_trylock and mutex_unlock give mutual exclusion.
THEOREM Exclusion == M!Spec => []M!MutualExclusion
  BY MutexInvariance, PTL DEF M!IInv

\* mutex_unlock's single wakeup is never lost, with any number of sleepers.
THEOREM WakeupKept == M!Spec => []M!NoLostWakeup
  BY MutexInvariance, PTL DEF M!IInv

----------------------------------------------------------------------------
(* The mutex and the semaphore in the composition                          *)

\* The condition variable's mutex is module Mutex's.
LEMMA SameMutex ==
    ASSUME NEW t
    PROVE  (CV!M!mutex_lock(t) <=> M!mutex_lock(t)) /\ (CV!M!mutex_unlock(t) <=> M!mutex_unlock(t))
  BY DEF CV!M!mutex_lock, M!mutex_lock, CV!M!mutex_unlock, M!mutex_unlock, CV!M!wq_wake, M!wq_wake

\* What a step of a thread with the condition variable may do.
CVFacts ==
    /\ current' = current
    /\ M!mutex_lock(current) \/ M!mutex_unlock(current) \/ UNCHANGED M!vars
    /\ cond' # cond => mpc[current] = "in"

LEMMA CVStep == ASSUME CV!Step PROVE CVFacts
  <1> USE DEF CVFacts
  <1>1. CASE CV!lock
    BY <1>1, SameMutex DEF CV!lock
  <1>2. CASE CV!condvar_wait
    BY <1>2, SameMutex DEF CV!condvar_wait, M!vars
  <1>3. CASE CV!yield
    BY <1>3 DEF CV!yield, M!vars
  <1>4. CASE CV!relock
    BY <1>4, SameMutex DEF CV!relock
  <1>5. CASE CV!consume
    BY <1>5, SameMutex DEF CV!consume, M!mutex_unlock
  <1>6. CASE CV!produce
    BY <1>6 DEF CV!produce, M!vars
  <1>7. CASE CV!leave
    BY <1>7, SameMutex DEF CV!leave
  <1> QED
    BY <1>1, <1>2, <1>3, <1>4, <1>5, <1>6, <1>7 DEF CV!Step

\* The steps that concern neither the mutex nor the condition variable.
LEMMA OtherStep ==
    ASSUME post \/ idle \/ (\E t \in Thread : switch(t)) \/ UNCHANGED allvars
    PROVE  UNCHANGED cvars /\ UNCHANGED M!vars /\ UNCHANGED cond /\ current' \in {current, NULL} \cup Thread
  BY DEF post, idle, switch, allvars, cvars, M!vars

\* The steps of the current thread.
LEMMA OwnStep ==
    ASSUME CurrentOK, Step
    PROVE  /\ current \in Thread /\ current' = current
           /\ \/ CV!Step /\ CVFacts /\ UNCHANGED vars
              \/ M!mutex_trylock(current) /\ UNCHANGED <<vars, queue, at, cond>>
                    /\ at[current] = "no"
              \/ UNCHANGED <<cvars, M!vars, cond>> /\ (sem_wait(current) \/ sem_trywait(current))
  <1>1. current \in Thread
    BY DEF Step, CurrentOK
  <1> QED
    BY <1>1, CVStep DEF Step, Outside, cvars, M!vars, CVFacts

\* sched_schedule picks a thread, or the idle thread.
LEMMA CurrentAlways == SyncSpec => []CurrentOK
  <1>1. SyncInit => CurrentOK
    BY DEF SyncInit, CV!Init, CurrentOK
  <1>2. CurrentOK /\ [SyncNext]_allvars => CurrentOK'
    BY OwnStep, OtherStep DEF SyncNext, CurrentOK
  <1> QED
    BY <1>1, <1>2, PTL DEF SyncSpec

\* Every step locks, unlocks or leaves the mutex alone.
LEMMA MutexStep == ASSUME CurrentOK, [SyncNext]_allvars PROVE [M!Next]_(M!vars)
  <1>1. CASE Step
    BY <1>1, OwnStep DEF M!Next, CVFacts
  <1> QED
    BY <1>1, OtherStep DEF SyncNext

\* Every step is one of the semaphore's or leaves it alone.
LEMMA SemaphoreStep == ASSUME CurrentOK, [SyncNext]_allvars PROVE [Next]_vars
  <1>1. CASE Step
    BY <1>1, OwnStep DEF Next
  <1>2. CASE post
    BY <1>2 DEF post, Next
  <1>3. CASE idle \/ (\E t \in Thread : switch(t)) \/ UNCHANGED allvars
    BY <1>3 DEF idle, switch, allvars
  <1> QED
    BY <1>1, <1>2, <1>3 DEF SyncNext

\* The composition implements the mutex, and only the owner of the mutex changes
\* the condition: condvar_wait takes the mutex again before it returns.
THEOREM MutexUsed == SyncSpec => UsesMutex
  <1>1. SyncInit => M!Init
    BY DEF SyncInit, CV!Init, CV!M!Init, M!Init
  <1>2. SyncSpec => M!Spec
    BY <1>1, MutexStep, CurrentAlways, PTL DEF SyncSpec, M!Spec
  <1>3. M!IInv /\ CurrentOK /\ [SyncNext]_allvars => [cond' # cond => owner = current]_(CV!vars)
    <2> SUFFICES ASSUME M!IInv, CurrentOK, [SyncNext]_allvars, cond' # cond
                 PROVE  owner = current
      OBVIOUS
    <2>1. Step
      BY OtherStep DEF SyncNext
    <2>2. current \in Thread /\ mpc[current] = "in"
      BY <2>1, OwnStep DEF CVFacts
    <2> QED
      BY <2>2 DEF M!IInv, M!MutualExclusion
  <1>4. SyncSpec => CV!OwnedAcrossWait
    BY <1>2, <1>3, MutexInvariance, CurrentAlways, PTL DEF SyncSpec, CV!OwnedAcrossWait
  <1> QED
    BY <1>2, <1>4 DEF UsesMutex

\* With the mutex and the condition variable in use beside it, the semaphore's
\* sem_post still wakes a sleeper for every unit that sleepers could take.
THEOREM UnitsKept == SyncSpec => []UnitsAnnounced
  <1>1. SyncInit => Init
    BY DEF SyncInit
  <1>2. SyncSpec => Spec
    BY <1>1, SemaphoreStep, CurrentAlways, PTL DEF SyncSpec, Spec
  <1> QED
    BY <1>2, Announced

----------------------------------------------------------------------------
(* condvar_wait                                                            *)

LEMMA SameRange == ASSUME NEW q PROVE CV!Range(q) = Range(q)
  BY DEF CV!Range, Range

\* What the operations of the mutex do to the places of threads.
LEMMA LockPoint ==
    ASSUME M!IInv, NEW t \in Thread, M!mutex_lock(t)
    PROVE  /\ mpc[t] \in {"out", "woken"} /\ mpc'[t] = IF owner = NULL THEN "in" ELSE "asleep"
           /\ \A u \in Thread \ {t} : mpc'[u] = mpc[u]
  BY DEF M!mutex_lock, M!IInv, M!TypeOK

LEMMA TrylockPoint ==
    ASSUME M!IInv, NEW t \in Thread, M!mutex_trylock(t)
    PROVE  mpc[t] = "out" /\ \A u \in Thread \ {t} : mpc'[u] = mpc[u]
  BY DEF M!mutex_trylock, M!vars, M!IInv, M!TypeOK

LEMMA UnlockPoint ==
    ASSUME M!IInv, NEW t \in Thread, M!mutex_unlock(t)
    PROVE  /\ mpc[t] = "in" /\ mpc'[t] = "out"
           /\ \A u \in Thread \ {t} : mpc'[u] = mpc[u] \/ (mpc[u] = "asleep" /\ mpc'[u] = "woken")
  <1>1. mpc[t] = "in" /\ mpc \in [Thread -> M!Place] /\ M!wq_wake(t, "out")
    BY DEF M!mutex_unlock, M!IInv, M!TypeOK
  <1>2. CASE mwaiters = <<>>
    BY <1>1, <1>2 DEF M!wq_wake
  <1>3. CASE mwaiters # <<>>
    <2> DEFINE h == Head(mwaiters)
    <2>1. mpc' = [mpc EXCEPT ![t] = "out", ![h] = "woken"]
      BY <1>1, <1>3 DEF M!wq_wake
    <2>2. h \in Thread /\ mpc[h] = "asleep"
      <3>1. mwaiters \in Seq(Thread) /\ h \in Thread /\ 1 \in DOMAIN mwaiters /\ h = mwaiters[1]
        BY <1>3 DEF M!IInv, M!TypeOK
      <3>2. h \in M!Range(mwaiters)
        BY <3>1 DEF M!Range
      <3> QED
        BY <3>1, <3>2 DEF M!IInv, M!SleepersQueued
    <2> HIDE DEF h
    <2> QED
      BY <1>1, <2>1, <2>2
  <1> QED
    BY <1>2, <1>3

\* The inductive invariant, beside what MutexUsed gives.
WaitInv == WaitPlaces /\ CV!SignalKept

LEMMA WaitInit == SyncInit => WaitInv
  <1> SUFFICES ASSUME SyncInit PROVE WaitInv
    OBVIOUS
  <1>1. queue = <<>> /\ at = [t \in Thread |-> "no"] /\ cond = FALSE
    BY DEF SyncInit, CV!Init
  <1>2. queue \in Seq(Consumer) /\ IsInjective(queue) /\ \A t \in Thread : t \notin Range(queue)
    BY <1>1 DEF IsInjective, Range
  <1>3. WaitPlaces
    BY <1>1, <1>2 DEF WaitPlaces, CV!Place
  <1>4. CV!SignalKept
    BY <1>1 DEF CV!SignalKept
  <1> QED
    BY <1>3, <1>4 DEF WaitInv

\* The threads change places in the mutex only, and a consumer that holds the
\* mutex keeps it.
LEMMA PlacesStep ==
    ASSUME WaitInv, CurrentOK, CurrentOK', UNCHANGED <<queue, at, cond>>,
           \A t \in Thread : at[t] \in {"queued", "unlocked"} => mpc'[t] = mpc[t] /\ t = current',
           \A t \in Thread : at[t] = "yielded" => mpc'[t] # "in",
           \A t \in Consumer : mpc[t] = "in" => mpc'[t] = "in"
    PROVE  WaitInv'
  <1>1. WaitPlaces'
    BY DEF WaitInv, WaitPlaces
  <1>2. CV!SignalKept'
    BY DEF WaitInv, CV!SignalKept, CV!Range
  <1> QED
    BY <1>1, <1>2 DEF WaitInv

\* With interrupts off, a thread on its way to sleep is not switched out.
LEMMA SwitchStep ==
    ASSUME ~Preemptible, M!IInv, CurrentOK, CurrentOK', WaitInv, idle \/ \E t \in Thread : switch(t)
    PROVE  WaitInv'
  <1>1. CanLeave /\ UNCHANGED cvars
    BY DEF idle, switch
  <1>2. \A t \in Thread : at[t] \notin {"queued", "unlocked"}
    <2> SUFFICES ASSUME NEW t \in Thread, at[t] \in {"queued", "unlocked"} PROVE FALSE
      OBVIOUS
    <2>1. t = current /\ mpc[t] \in {"in", "out"} /\ t # NULL
      BY ThreadAssumption DEF WaitInv, WaitPlaces
    <2> QED
      BY <1>1, <2>1 DEF CanLeave, CV!CanLeave
  <1>3. \A t \in Thread : at[t] = "yielded" => mpc[t] # "in"
    BY DEF WaitInv, WaitPlaces
  <1> QED
    BY <1>1, <1>2, <1>3, SyncAssumption, PlacesStep DEF cvars

\* Taking the mutex outside of condvar_wait, and giving it back.
LEMMA LockStep ==
    ASSUME M!IInv, CurrentOK, current \in Thread, WaitInv, CV!lock PROVE WaitInv'
  <1>1. /\ at[current] = "no" /\ M!mutex_lock(current) /\ UNCHANGED <<queue, at, cond, current>>
    BY SameMutex DEF CV!lock
  <1>2. /\ mpc[current] \in {"out", "woken"} /\ \A u \in Thread \ {current} : mpc'[u] = mpc[u]
    BY <1>1, LockPoint
  <1>3. /\ \A t \in Thread : at[t] \in {"queued", "unlocked"} => mpc'[t] = mpc[t] /\ t = current'
        /\ \A t \in Thread : at[t] = "yielded" => mpc'[t] # "in"
    BY <1>1, <1>2 DEF WaitInv, WaitPlaces
  <1> QED
    BY <1>1, <1>2, <1>3, SyncAssumption, PlacesStep DEF CurrentOK

LEMMA TrylockStep ==
    ASSUME M!IInv, CurrentOK, current \in Thread, WaitInv, M!mutex_trylock(current), at[current] = "no",
           UNCHANGED <<queue, at, cond, current>>
    PROVE  WaitInv'
  <1>1. /\ mpc[current] = "out" /\ \A u \in Thread \ {current} : mpc'[u] = mpc[u]
    BY TrylockPoint
  <1>2. /\ \A t \in Thread : at[t] \in {"queued", "unlocked"} => mpc'[t] = mpc[t] /\ t = current'
        /\ \A t \in Thread : at[t] = "yielded" => mpc'[t] # "in"
    BY <1>1 DEF WaitInv, WaitPlaces
  <1> QED
    BY <1>1, <1>2, SyncAssumption, PlacesStep DEF CurrentOK

LEMMA LeaveStep ==
    ASSUME M!IInv, CurrentOK, current \in Thread, WaitInv, CV!leave PROVE WaitInv'
  <1>1. current \in Producer /\ M!mutex_unlock(current) /\ UNCHANGED <<queue, at, cond, current>>
    BY SameMutex DEF CV!leave
  <1>2. /\ mpc[current] = "in"
        /\ \A u \in Thread \ {current} : mpc'[u] = mpc[u] \/ (mpc[u] = "asleep" /\ mpc'[u] = "woken")
    BY <1>1, UnlockPoint
  <1>3. \A t \in Thread : at[t] \notin {"queued", "unlocked"}
    BY <1>1, RangeQueue, SyncAssumption DEF WaitInv, WaitPlaces
  <1>4. \A t \in Thread : at[t] = "yielded" => mpc'[t] # "in"
    BY <1>2 DEF WaitInv, WaitPlaces
  <1>5. \A t \in Consumer : mpc[t] = "in" => mpc'[t] = "in"
    BY <1>1, <1>2, SyncAssumption
  <1> QED
    BY <1>1, <1>3, <1>4, <1>5, PlacesStep DEF CurrentOK

LEMMA ConsumeStep ==
    ASSUME M!IInv, CurrentOK, current \in Thread, WaitInv, CV!consume PROVE WaitInv'
  <1>1. /\ at[current] = "no" /\ M!mutex_unlock(current) /\ cond' = FALSE
        /\ UNCHANGED <<queue, at, current>>
    BY SameMutex DEF CV!consume
  <1>2. /\ mpc[current] = "in"
        /\ \A u \in Thread \ {current} : mpc'[u] = mpc[u] \/ (mpc[u] = "asleep" /\ mpc'[u] = "woken")
    BY <1>1, UnlockPoint
  <1>3. WaitPlaces'
    BY <1>1, <1>2 DEF WaitInv, WaitPlaces
  <1> QED
    BY <1>1, <1>3 DEF WaitInv, CV!SignalKept

\* The steps of condvar_wait.
LEMMA QueueStep ==
    ASSUME CurrentOK, current \in Consumer, WaitInv, at[current] = "no", mpc[current] = "in", ~cond,
           queue' = Append(queue, current), at' = [at EXCEPT ![current] = "queued"],
           UNCHANGED <<mpc, cond, current>>
    PROVE  WaitInv'
  <1>1. /\ queue \in Seq(Consumer) /\ IsInjective(queue) /\ current \notin Range(queue)
        /\ at \in [Thread -> CV!Place] /\ Consumer \subseteq Thread
    BY SyncAssumption DEF WaitInv, WaitPlaces
  <1>2. /\ queue' \in Seq(Consumer) /\ IsInjective(queue')
        /\ \A u \in Consumer : u \in Range(queue') <=> u \in Range(queue) \/ u = current
    BY <1>1, AppendQueue
  <1>3. \A u \in Thread : u \in Range(queue') <=> u \in Range(queue) \/ u = current
    BY <1>1, <1>2, RangeQueue
  <1>4. at' \in [Thread -> CV!Place] /\ \A t \in Thread : at'[t] = IF t = current THEN "queued" ELSE at[t]
    BY <1>1 DEF CV!Place
  <1>5. WaitPlaces'
    BY <1>1, <1>2, <1>3, <1>4 DEF WaitInv, WaitPlaces
  <1> QED
    BY <1>5 DEF WaitInv, CV!SignalKept

LEMMA UnlockStep ==
    ASSUME M!IInv, CurrentOK, current \in Thread, WaitInv, at[current] = "queued",
           M!mutex_unlock(current), at' = [at EXCEPT ![current] = "unlocked"],
           UNCHANGED <<queue, cond, current>>
    PROVE  WaitInv'
  <1>1. /\ mpc[current] = "in" /\ mpc'[current] = "out"
        /\ \A u \in Thread \ {current} : mpc'[u] = mpc[u] \/ (mpc[u] = "asleep" /\ mpc'[u] = "woken")
    BY UnlockPoint
  <1>2. /\ at' \in [Thread -> CV!Place] /\ current \in Range(queue)
        /\ \A t \in Thread : at'[t] = IF t = current THEN "unlocked" ELSE at[t]
    BY DEF CV!Place, WaitInv, WaitPlaces
  <1>3. WaitPlaces'
    BY <1>1, <1>2 DEF WaitInv, WaitPlaces
  <1>4. CV!SignalKept'
    BY <1>1, <1>2, SameRange, SyncAssumption DEF WaitInv, CV!SignalKept
  <1> QED
    BY <1>3, <1>4 DEF WaitInv

LEMMA YieldStep ==
    ASSUME CurrentOK, current \in Thread, WaitInv, CV!yield PROVE WaitInv'
  <1>1. at[current] = "unlocked" /\ UNCHANGED <<mpc, queue, cond, current>>
    BY DEF CV!yield
  <1>2. /\ at' \in [Thread -> CV!Place] /\ current \in Range(queue) /\ mpc[current] = "out"
        /\ \A t \in Thread : at'[t] = IF t = current THEN "yielded" ELSE at[t]
    BY <1>1 DEF CV!yield, CV!Place, WaitInv, WaitPlaces
  <1>3. WaitPlaces'
    BY <1>1, <1>2 DEF WaitInv, WaitPlaces
  <1>4. CV!SignalKept'
    BY <1>1, <1>2, SameRange, SyncAssumption DEF WaitInv, CV!SignalKept
  <1> QED
    BY <1>3, <1>4 DEF WaitInv

LEMMA RelockStep ==
    ASSUME M!IInv, CurrentOK, current \in Thread, WaitInv, CV!relock PROVE WaitInv'
  <1>1. /\ at[current] = "yielded" /\ current \notin Range(queue) /\ M!mutex_lock(current)
        /\ UNCHANGED <<queue, cond, current>>
    BY SameMutex, SameRange DEF CV!relock
  <1>2. /\ mpc'[current] = IF owner = NULL THEN "in" ELSE "asleep"
        /\ \A u \in Thread \ {current} : mpc'[u] = mpc[u]
    BY <1>1, LockPoint
  <1>3. /\ at' \in [Thread -> CV!Place]
        /\ \A t \in Thread : at'[t] = IF t = current /\ owner = NULL THEN "no" ELSE at[t]
    BY <1>1 DEF CV!relock, CV!Place, WaitInv, WaitPlaces
  <1>4. WaitPlaces'
    BY <1>1, <1>2, <1>3 DEF WaitInv, WaitPlaces
  <1>5. CV!SignalKept'
    BY <1>1, <1>2, <1>3, SameRange, SyncAssumption DEF WaitInv, CV!SignalKept
  <1> QED
    BY <1>4, <1>5 DEF WaitInv

\* condvar_signal and condvar_broadcast: the waiter that is unlinked has yielded.
LEMMA ProduceStep ==
    ASSUME CurrentOK, current \in Thread, WaitInv, CV!produce PROVE WaitInv'
  <1>1. current \in Producer /\ cond' = TRUE /\ UNCHANGED <<mpc, at, current>>
    BY DEF CV!produce
  <1>2. /\ queue \in Seq(Consumer) /\ IsInjective(queue) /\ at \in [Thread -> CV!Place]
        /\ \A t \in Thread : at[t] \notin {"queued", "unlocked"}
        /\ \A t \in Thread : t \in Range(queue) => at[t] = "yielded"
    BY <1>1, RangeQueue, SyncAssumption DEF WaitInv, WaitPlaces, CV!Place
  <1>3. CASE queue' = <<>>
    <2>1. queue' \in Seq(Consumer) /\ IsInjective(queue') /\ \A t \in Thread : t \notin Range(queue')
      BY <1>3 DEF IsInjective, Range
    <2>2. WaitPlaces'
      BY <1>1, <1>2, <2>1 DEF WaitInv, WaitPlaces
    <2> QED
      BY <1>3, <2>2 DEF WaitInv, CV!SignalKept
  <1>4. CASE queue # <<>> /\ queue' = Tail(queue)
    <2> DEFINE h == Head(queue)
    <2>1. /\ h \in Consumer /\ h \in Range(queue) /\ queue' \in Seq(Consumer) /\ IsInjective(queue')
          /\ \A u \in Consumer : u \in Range(queue') <=> u \in Range(queue) /\ u # h
      BY <1>2, <1>4, TailQueue
    <2> HIDE DEF h
    <2>2. \A t \in Thread : t \in Range(queue') => at[t] = "yielded"
      BY <1>2, <2>1, RangeQueue
    <2>3. WaitPlaces'
      BY <1>1, <1>2, <2>1, <2>2 DEF WaitInv, WaitPlaces
    <2>4. h \notin Range(queue') /\ at'[h] = "yielded"
      BY <1>1, <1>2, <2>1, SyncAssumption
    <2> QED
      BY <2>1, <2>3, <2>4, SameRange DEF WaitInv, CV!SignalKept
  <1> QED
    BY <1>3, <1>4 DEF CV!produce, CV!condvar_signal, CV!condvar_broadcast

LEMMA WaitStep ==
    ASSUME ~Preemptible, M!IInv, CurrentOK, CurrentOK', WaitInv, [SyncNext]_allvars PROVE WaitInv'
  <1>1. CASE UNCHANGED <<cvars, current>>
    BY <1>1, SyncAssumption, PlacesStep DEF cvars, WaitInv, WaitPlaces
  <1>2. CASE idle \/ \E t \in Thread : switch(t)
    BY <1>2, SwitchStep
  <1>3. CASE Step
    <2>1. current \in Thread /\ current' = current
      BY <1>3, OwnStep
    <2>2. CASE CV!condvar_wait
      BY <2>1, <2>2, SameMutex, QueueStep, UnlockStep DEF CV!condvar_wait
    <2>3. CASE CV!Step
      BY <2>1, <2>2, <2>3, LockStep, YieldStep, RelockStep, ConsumeStep, ProduceStep, LeaveStep
         DEF CV!Step
    <2>4. CASE M!mutex_trylock(current) /\ UNCHANGED <<queue, at, cond>> /\ at[current] = "no"
      BY <2>1, <2>4, TrylockStep
    <2> QED
      BY <1>1, <1>3, <2>1, <2>3, <2>4, OwnStep
  <1> QED
    BY <1>1, <1>2, <1>3 DEF SyncNext, post, allvars

\* When its callers run with interrupts off, as system calls do, condvar_wait
\* releases the mutex and sleeps in one, and no signal is lost.
THEOREM WaitIsAtomic == ASSUME ~Preemptible PROVE SyncSpec => []WaitAtomic
  <1>1. SyncSpec => []M!IInv
    BY MutexUsed, MutexInvariance, PTL DEF UsesMutex
  <1>2. M!IInv /\ CurrentOK /\ CurrentOK' /\ WaitInv /\ [SyncNext]_allvars => WaitInv'
    BY WaitStep
  <1>3. M!IInv /\ WaitInv => WaitAtomic
    <2> SUFFICES ASSUME M!IInv, WaitInv PROVE CV!AtomicRelease
      BY DEF WaitInv, WaitAtomic
    <2>1. ASSUME NEW t \in Thread, t # current, t \in Range(queue) PROVE owner # t
      <3>1. mpc[t] # "in"
        BY <2>1 DEF WaitInv, WaitPlaces, CV!Place
      <3> QED
        BY <3>1 DEF M!IInv, M!MutualExclusion
    <2> QED
      BY <2>1, SameRange DEF CV!AtomicRelease
  <1> QED
    BY <1>1, <1>2, <1>3, WaitInit, CurrentAlways, PTL DEF SyncSpec
============================================================================
