------------------------------- MODULE Mutex -------------------------------
(***************************************************************************)
(* The sleeping mutex of kernel/proc/mutex.c.  Each section under m->guard *)
(* runs with interrupts off and is one action; between sections any other  *)
(* thread may run.  wq_sleep is used by its contract (waitqueue.h): the    *)
(* guard is released after the thread is queued, and the thread goes on    *)
(* only after a wake has taken it off the queue.                           *)
(***************************************************************************)
EXTENDS Naturals, Sequences, Functions

CONSTANTS
    Thread,    \* the threads that use it
    NULL       \* no thread

VARIABLES
    owner,     \* m->owner
    waiters,   \* m->waiters
    pc         \* where a thread is

vars == <<owner, waiters, pc>>

\* "out"     outside the critical section
\* "in"      inside it
\* "asleep"  in wq_sleep, not woken
\* "woken"   woken by mutex_unlock, about to take the guard again
Place == {"out", "in", "asleep", "woken"}

Init ==
    /\ owner = NULL
    /\ waiters = <<>>
    /\ pc = [t \in Thread |-> "out"]

----------------------------------------------------------------------------
\* mutex_lock from its entry or from the return of wq_sleep: it sleeps while
\* there is an owner and becomes the owner when there is none.
mutex_lock(t) ==
    /\ pc[t] \in {"out", "woken"}
    /\ \/ /\ owner # NULL
          /\ waiters' = Append(waiters, t)
          /\ pc' = [pc EXCEPT ![t] = "asleep"]
          /\ UNCHANGED owner
       \/ /\ owner = NULL
          /\ owner' = t
          /\ pc' = [pc EXCEPT ![t] = "in"]
          /\ UNCHANGED waiters

\* wq_wake: the first waiter, if any, may run again.
wq_wake(t, place) ==
    \/ /\ waiters = <<>>
       /\ pc' = [pc EXCEPT ![t] = place]
       /\ UNCHANGED waiters
    \/ /\ waiters # <<>>
       /\ waiters' = Tail(waiters)
       /\ pc' = [pc EXCEPT ![t] = place, ![Head(waiters)] = "woken"]

\* Mutant: no waiter is woken.
mutex_unlock_no_wake(t) ==
    /\ pc[t] = "in"
    /\ owner' = NULL
    /\ pc' = [pc EXCEPT ![t] = "out"]
    /\ UNCHANGED waiters

mutex_unlock(t) ==
    /\ pc[t] = "in"
    /\ owner' = NULL
    /\ wq_wake(t, "out")

mutex_trylock(t) ==
    /\ pc[t] = "out"
    /\ \/ /\ owner # NULL
          /\ UNCHANGED vars
       \/ /\ owner = NULL
          /\ owner' = t
          /\ pc' = [pc EXCEPT ![t] = "in"]
          /\ UNCHANGED waiters

Next == \E t \in Thread : mutex_lock(t) \/ mutex_unlock(t) \/ mutex_trylock(t)

Spec == Init /\ [][Next]_vars

\* A woken thread is READY and gets the CPU (ReadyThreadRuns of Sched); a
\* holder leaves its critical section.
Fairness ==
    \A t \in Thread : /\ WF_vars(pc[t] = "woken" /\ mutex_lock(t))
                      /\ WF_vars(mutex_unlock(t))

FairSpec == Spec /\ Fairness

----------------------------------------------------------------------------
(* Properties                                                              *)

\* The types of the variables.
TypeOK ==
    /\ owner \in Thread \cup {NULL}
    /\ waiters \in Seq(Thread)
    /\ pc \in [Thread -> Place]

\* At most one thread is between mutex_lock and mutex_unlock, and it is m->owner,
\* although a thread that calls mutex_lock or mutex_trylock between a wakeup and
\* the woken thread's next section may take the mutex first.
MutualExclusion ==
    \A t \in Thread : pc[t] = "in" <=> owner = t

\* The waiters of the queue are exactly the sleepers, each linked once.
SleepersQueued ==
    /\ \A t \in Thread : pc[t] = "asleep" <=> t \in Range(waiters)
    /\ IsInjective(waiters)

\* No wakeup is lost: whenever the mutex is free and threads sleep on it, some
\* woken thread is on its way to take it.  mutex_unlock wakes only one waiter and
\* that waiter may find the mutex taken again, so the obligation to wake the next
\* one passes to the thread that took it.
NoLostWakeup ==
    owner = NULL /\ waiters # <<>> => \E t \in Thread : pc[t] = "woken"

\* The inductive invariant.
IInv == TypeOK /\ MutualExclusion /\ SleepersQueued /\ NoLostWakeup

\* A free mutex with sleepers does not stay free ("Wakes one blocked waiter if
\* any", mutex.h): some thread takes it.
FreeMutexIsTaken == (owner = NULL /\ waiters # <<>>) ~> (owner # NULL)
============================================================================
