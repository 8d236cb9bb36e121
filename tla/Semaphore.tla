----------------------------- MODULE Semaphore -----------------------------
(***************************************************************************)
(* The counting semaphore of kernel/proc/semaphore.c.  As in Mutex, each   *)
(* section under s->guard is one action and wq_sleep is used by its        *)
(* contract.                                                               *)
(***************************************************************************)
EXTENDS Integers, Sequences, FiniteSets, Functions

CONSTANTS
    Thread,     \* the threads that use it
    NULL,       \* no thread
    Initial,    \* the argument of sem_init
    MaxCount    \* bound on count (INT32_MAX in the code)

ASSUME ThreadAssumption == IsFiniteSet(Thread) /\ NULL \notin Thread

ASSUME SemAssumption == /\ Initial \in Nat
                        /\ MaxCount \in Nat
                        /\ Initial <= MaxCount

VARIABLES
    count,     \* s->count
    waiters,   \* s->waiters
    pc         \* "out", "asleep" in wq_sleep, or "woken" and about to test count again

vars == <<count, waiters, pc>>

Place == {"out", "asleep", "woken"}

\* The threads that were woken and have not tested the count again.
Woken == {t \in Thread : pc[t] = "woken"}

\* sem_init
Init ==
    /\ count = Initial
    /\ waiters = <<>>
    /\ pc = [t \in Thread |-> "out"]

----------------------------------------------------------------------------
\* sem_wait from its entry or from the return of wq_sleep.
sem_wait(t) ==
    /\ pc[t] \in {"out", "woken"}
    /\ \/ /\ count <= 0
          /\ waiters' = Append(waiters, t)
          /\ pc' = [pc EXCEPT ![t] = "asleep"]
          /\ UNCHANGED count
       \/ /\ count > 0
          /\ count' = count - 1
          /\ pc' = [pc EXCEPT ![t] = "out"]
          /\ UNCHANGED waiters

\* Mutant: a waiter is woken only when the count was zero.
sem_post_wake_on_zero ==
    /\ count < MaxCount
    /\ count' = count + 1
    /\ \/ /\ waiters = <<>> \/ count > 0
          /\ UNCHANGED <<waiters, pc>>
       \/ /\ waiters # <<>> /\ count = 0
          /\ waiters' = Tail(waiters)
          /\ pc' = [pc EXCEPT ![Head(waiters)] = "woken"]

\* sem_post, by any thread or by an interrupt handler, with its wq_wake.
sem_post ==
    /\ count < MaxCount
    /\ count' = count + 1
    /\ \/ /\ waiters = <<>>
          /\ UNCHANGED <<waiters, pc>>
       \/ /\ waiters # <<>>
          /\ waiters' = Tail(waiters)
          /\ pc' = [pc EXCEPT ![Head(waiters)] = "woken"]

sem_trywait(t) ==
    /\ pc[t] = "out"
    /\ \/ /\ count <= 0
          /\ UNCHANGED count
       \/ /\ count > 0
          /\ count' = count - 1
    /\ UNCHANGED <<waiters, pc>>

Next == sem_post \/ \E t \in Thread : sem_wait(t) \/ sem_trywait(t)

Spec == Init /\ [][Next]_vars

\* A woken thread gets the CPU (ReadyThreadRuns of Sched).
Fairness == \A t \in Thread : WF_vars(pc[t] = "woken" /\ sem_wait(t))

FairSpec == Spec /\ Fairness

----------------------------------------------------------------------------
(* Properties                                                              *)

\* The types of the variables.
TypeOK ==
    /\ count \in Int
    /\ waiters \in Seq(Thread)
    /\ pc \in [Thread -> Place]

\* The waiters of the queue are exactly the sleepers, each linked once.
SleepersQueued ==
    /\ \A t \in Thread : pc[t] = "asleep" <=> t \in Range(waiters)
    /\ IsInjective(waiters)

\* No more threads pass sem_wait and sem_trywait than the initial count and the
\* posts allow, although a thread can take the unit a woken thread was woken for.
CountNotNegative == count >= 0

\* While threads sleep, every available unit has a woken thread coming for it:
\* sem_post wakes one sleeper per unit, and a unit taken by another thread first
\* leaves a woken thread too many, never one too few.
UnitsAnnounced == waiters # <<>> => count <= Cardinality(Woken)

\* The inductive invariant.
IInv == TypeOK /\ SleepersQueued /\ CountNotNegative /\ UnitsAnnounced

\* Units and sleepers do not coexist for ever ("Wakes one blocked waiter if any",
\* semaphore.h).
SleepersServed == (count > 0 /\ waiters # <<>>) ~> (count = 0 \/ waiters = <<>>)
============================================================================
