-------------------------------- MODULE Sync --------------------------------
(***************************************************************************)
(* The sleeping primitives together, on one CPU and one set of threads:    *)
(* producers and consumers with the mutex and the condition variable of    *)
(* module CondVar, and between critical sections the semaphore of module   *)
(* Semaphore and mutex_trylock.  A thread sleeps in one place at a time.   *)
(***************************************************************************)
EXTENDS Semaphore

CONSTANTS Producer, Consumer, Preemptible

ASSUME SyncAssumption ==
    /\ Producer \subseteq Thread /\ Consumer \subseteq Thread
    /\ Producer \cap Consumer = {}
    /\ Preemptible \in BOOLEAN

VARIABLES owner, mwaiters, mpc, queue, at, cond, current

CV == INSTANCE CondVar WITH waiters <- mwaiters, pc <- mpc
M == INSTANCE Mutex WITH waiters <- mwaiters, pc <- mpc

cvars == <<owner, mwaiters, mpc, queue, at, cond>>
allvars == <<vars, cvars, current>>

SyncInit == Init /\ CV!Init

\* Not asleep in any of the three primitives.
Runnable(t) == CV!Runnable(t) /\ pc[t] # "asleep"

CanLeave == CV!CanLeave /\ (current # NULL => pc[current] # "woken")

switch(t) ==
    /\ CanLeave
    /\ t # current /\ Runnable(t)
    /\ current' = t
    /\ UNCHANGED <<vars, cvars>>

idle ==
    /\ current # NULL
    /\ \A t \in Thread : ~Runnable(t)
    /\ CanLeave
    /\ current' = NULL
    /\ UNCHANGED <<vars, cvars>>

Outside == at[current] = "no" /\ mpc[current] = "out"

\* The current thread's next step, in the critical section or outside of it.
Step ==
    /\ current # NULL
    /\ \/ pc[current] = "out" /\ CV!Step /\ UNCHANGED vars
       \/ /\ pc[current] = "out" /\ Outside
          /\ M!mutex_trylock(current)
          /\ UNCHANGED <<vars, queue, at, cond, current>>
       \/ /\ Outside
          /\ sem_wait(current) \/ sem_trywait(current)
          /\ UNCHANGED <<cvars, current>>

\* Units are posted by any thread or by an interrupt handler.
post == sem_post /\ UNCHANGED <<cvars, current>>

SyncNext == Step \/ post \/ idle \/ \E t \in Thread : switch(t)

\* The current thread goes on, and round robin gives every READY thread the CPU
\* (ReadyThreadRuns of Sched).
SyncSpec ==
    /\ SyncInit /\ [][SyncNext]_allvars
    /\ WF_allvars(Step) /\ WF_allvars(idle)
    /\ \A t \in Thread : SF_allvars(switch(t))

----------------------------------------------------------------------------
(* The properties of the parts, for the whole                              *)

\* The condition variable uses the mutex only through its operations: whatever
\* condvar_wait does is a behaviour of module Mutex, so what is proved of Mutex,
\* exclusion and no lost wakeup, holds here; and the condition changes only in
\* the hands of the owner, across the sleep inside condvar_wait.
UsesMutex == M!Spec /\ CV!OwnedAcrossWait

\* condvar_wait releases the mutex and sleeps in one, and loses no signal: a
\* sleeper does not own the mutex, and while the condition holds a consumer that
\* will see it is on its way.
WaitAtomic == CV!AtomicRelease /\ CV!SignalKept

\* What WaitAtomic rests on when callers run with interrupts off: between queueing
\* itself and yielding, a waiter keeps the CPU, and it is not the owner once it has
\* yielded.
WaitPlaces ==
    /\ queue \in Seq(Consumer) /\ IsInjective(queue)
    /\ at \in [Thread -> CV!Place]
    /\ cond \in BOOLEAN
    /\ \A t \in Thread :
        /\ t \in Range(queue) => at[t] # "no"
        /\ at[t] \in {"queued", "unlocked"} => t = current /\ t \in Range(queue)
        /\ at[t] = "queued" => mpc[t] = "in"
        /\ at[t] = "unlocked" => mpc[t] = "out"
        /\ at[t] = "yielded" => mpc[t] # "in"

\* Nobody is left asleep: a released mutex with waiters is taken again, and units
\* posted while threads sleep on the semaphore are taken.
NobodyLeft == M!FreeMutexIsTaken /\ SleepersServed
============================================================================
