------------------------------ MODULE CondVar ------------------------------
(***************************************************************************)
(* The condition variable of kernel/proc/condvar.c with the mutex of       *)
(* module Mutex, used as condvar.h prescribes: consumers wait in a loop    *)
(* for a condition, producers make it true and signal, all of them holding *)
(* the mutex (as in tests/test_mutex.c).                                   *)
(*                                                                         *)
(* condvar_wait queues the caller and marks it BLOCKED some way before it  *)
(* yields, so the CPU matters: only the current thread takes steps, and a  *)
(* BLOCKED thread that is switched out is not resumed until it is woken.   *)
(* The order in which the scheduler picks threads is left open.            *)
(***************************************************************************)
EXTENDS Naturals, Sequences, Functions

CONSTANTS
    Thread, NULL,         \* see Mutex
    Producer, Consumer,   \* which of the threads wait and which signal
    Preemptible    \* the callers run with interrupts enabled (kernel threads)
                   \* or disabled (system calls)

VARIABLES
    owner, waiters, pc,   \* the mutex: see Mutex
    queue,                \* cv->waiters
    at,                   \* where a thread is in condvar_wait
    cond,                 \* the condition
    current               \* current_thread; NULL is the idle thread

vars == <<owner, waiters, pc, queue, at, cond, current>>

M == INSTANCE Mutex

\* "no"        not in condvar_wait
\* "queued"    queued and BLOCKED, the mutex still held
\* "unlocked"  the mutex released, about to call sched_yield
\* "yielded"   in sched_yield, or back from it and in mutex_lock
Place == {"no", "queued", "unlocked", "yielded"}

Init ==
    /\ M!Init
    /\ queue = <<>>
    /\ at = [t \in Thread |-> "no"]
    /\ cond = FALSE
    /\ current = NULL

----------------------------------------------------------------------------
(* Scheduling                                                              *)

\* Thread.state is not BLOCKED.
Runnable(t) == t \notin Range(queue) /\ pc[t] # "asleep"

\* The current thread can be switched out: it is asleep, it is in code of its own
\* (where it may sleep for something else, in its critical section too), or a
\* timer interrupt preempts it.
CanLeave ==
    current # NULL =>
        \/ pc[current] = "asleep"
        \/ at[current] = "yielded" /\ current \in Range(queue)
        \/ at[current] = "no" /\ pc[current] \in {"out", "in"}
        \/ Preemptible

\* sched_schedule picks a READY thread, or the idle thread when there is none.
switch(t) ==
    /\ CanLeave
    /\ t # current
    /\ Runnable(t)
    /\ current' = t
    /\ UNCHANGED <<owner, waiters, pc, queue, at, cond>>

idle ==
    /\ current # NULL
    /\ \A t \in Thread : ~Runnable(t)
    /\ CanLeave
    /\ current' = NULL
    /\ UNCHANGED <<owner, waiters, pc, queue, at, cond>>

----------------------------------------------------------------------------
(* The threads                                                             *)

lock ==
    /\ at[current] = "no"
    /\ M!mutex_lock(current)
    /\ UNCHANGED <<queue, at, cond, current>>

\* Mutant: the mutex is not released.
condvar_wait_keep_mutex ==
    \/ /\ at[current] = "no" /\ current \in Consumer
       /\ pc[current] = "in"
       /\ ~cond
       /\ queue' = Append(queue, current)
       /\ at' = [at EXCEPT ![current] = "queued"]
       /\ UNCHANGED <<owner, waiters, pc, cond, current>>
    \/ /\ at[current] = "queued"
       /\ at' = [at EXCEPT ![current] = "unlocked"]
       /\ UNCHANGED <<owner, waiters, pc, queue, cond, current>>

\* condvar_wait up to its second step: the caller is queued and BLOCKED, the
\* wait queue's lock released; then mutex_unlock.
condvar_wait ==
    \/ /\ at[current] = "no" /\ current \in Consumer
       /\ pc[current] = "in"
       /\ ~cond
       /\ queue' = Append(queue, current)
       /\ at' = [at EXCEPT ![current] = "queued"]
       /\ UNCHANGED <<owner, waiters, pc, cond, current>>
    \/ /\ at[current] = "queued"
       /\ M!mutex_unlock(current)
       /\ at' = [at EXCEPT ![current] = "unlocked"]
       /\ UNCHANGED <<queue, cond, current>>

\* sched_yield in condvar_wait.
yield ==
    /\ at[current] = "unlocked"
    /\ at' = [at EXCEPT ![current] = "yielded"]
    /\ UNCHANGED <<owner, waiters, pc, queue, cond, current>>

\* Mutant: the mutex is not taken again.
relock_skip ==
    /\ at[current] = "yielded"
    /\ current \notin Range(queue)
    /\ pc' = [pc EXCEPT ![current] = "in"]
    /\ at' = [at EXCEPT ![current] = "no"]
    /\ UNCHANGED <<owner, waiters, queue, cond, current>>

\* The rest of condvar_wait: mutex_lock, and the return when it has the mutex.
relock ==
    /\ at[current] = "yielded"
    /\ current \notin Range(queue)
    /\ M!mutex_lock(current)
    /\ at' = [at EXCEPT ![current] = IF owner = NULL THEN "no" ELSE @]
    /\ UNCHANGED <<queue, cond, current>>

condvar_signal == queue' = IF queue = <<>> THEN queue ELSE Tail(queue)

condvar_broadcast == queue' = <<>>

consume ==
    /\ at[current] = "no" /\ current \in Consumer
    /\ cond
    /\ M!mutex_unlock(current)
    /\ cond' = FALSE
    /\ UNCHANGED <<queue, at, current>>

produce ==
    /\ current \in Producer
    /\ pc[current] = "in" /\ ~cond
    /\ cond' = TRUE
    /\ condvar_signal \/ condvar_broadcast
    /\ UNCHANGED <<owner, waiters, pc, at, current>>

leave ==
    /\ current \in Producer
    /\ cond
    /\ M!mutex_unlock(current)
    /\ UNCHANGED <<queue, at, cond, current>>

Step ==
    /\ current # NULL
    /\ lock \/ condvar_wait \/ yield \/ relock \/ consume \/ produce \/ leave

Next == Step \/ idle \/ \E t \in Thread : switch(t)

Spec == Init /\ [][Next]_vars

----------------------------------------------------------------------------
(* Properties                                                              *)

\* The types of the variables.
TypeOK ==
    /\ M!TypeOK
    /\ queue \in Seq(Consumer)
    /\ at \in [Thread -> Place]
    /\ cond \in BOOLEAN
    /\ current \in Thread \cup {NULL}

\* "Atomically release mutex and sleep" (condvar.h:26): no thread that is asleep
\* on the condition variable still owns the mutex.
AtomicRelease ==
    \A t \in Thread : t # current /\ t \in Range(queue) => owner # t

\* "Re-acquires mutex before returning" (condvar.h:26): only the owner of the
\* mutex changes the condition, though a consumer has slept in the middle of its
\* critical section.
OwnedAcrossWait == [][cond' # cond => owner = current]_vars

\* condvar_signal loses no signal: while the condition holds and consumers sleep,
\* one of the consumers is awake and on its way to consume it, in condvar_wait
\* with its wakeup or already in the critical section.
SignalKept ==
    cond /\ queue # <<>> =>
        \E t \in Consumer :
            /\ t \notin Range(queue)
            /\ at[t] = "yielded" \/ pc[t] = "in"
============================================================================
