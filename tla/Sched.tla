------------------------------- MODULE Sched -------------------------------
(***************************************************************************)
(* The round-robin scheduler of arc_os and the sleep/wakeup primitive      *)
(* built on it: kernel/proc/sched.c, waitqueue.c, thread.c, the timer      *)
(* interrupt of kernel/arch/x86_64/pit.c and the interrupt-flag discipline *)
(* of kernel/proc/spinlock.h.                                              *)
(*                                                                         *)
(* One CPU runs threads (the application processors only halt), so what    *)
(* executes with the interrupt flag clear is one step.  Everything that    *)
(* runs under a spinlock other than sched_lock is such a step; sched_lock  *)
(* alone is held across a context switch and is a variable here.  What     *)
(* happens between the moment sched_schedule loads a thread's stack and    *)
(* the moment that thread restores the flag is part of the switch.         *)
(***************************************************************************)
EXTENDS Naturals, Sequences, Functions

CONSTANTS
    Thread,      \* the TCBs thread_create can return
    Idle,        \* the boot thread, passed to sched_set_idle_thread
    WaitQueue    \* the WaitQueue objects

ASSUME IdleAssumption == Idle \notin Thread

AllThread == Thread \cup {Idle}

VARIABLES
    state,        \* Thread.state; "NONE" before thread_create
    queue,        \* the run queue, queue_head first
    waiting,      \* per WaitQueue, the threads linked from its head
    current,      \* current_thread
    locked,       \* sched_lock.locked
    saved_flags,  \* the interrupt bit of sched_lock.saved_flags
    intr,         \* the interrupt flag of the CPU (RFLAGS.IF)
    pc,           \* where a thread is in the kernel's code
    parked,       \* how a thread that is not current was switched out
    flags         \* a thread's local `flags` in spinlock_acquire(&sched_lock)

vars == <<state, queue, waiting, current, locked, saved_flags, intr, pc, parked, flags>>

ThreadState == {"NONE", "READY", "RUNNING", "BLOCKED", "DEAD", "STOPPED"}

\* "run"   anywhere outside the functions below, in user or in kernel mode
\* "enq"   in wq_sleep, queued and unlocked, about to call sched_yield
\* "spin"  in sched_yield, interrupts off, in the loop of spinlock_acquire
\* "halt"  in the final hlt loop of thread_trampoline
Place == {"run", "enq", "spin", "halt"}

\* "cpu"    not switched out
\* "new"    never ran: its stack returns to thread_trampoline
\* "irq"    inside sched_schedule called by pit_handler
\* "yield"  inside sched_schedule called by sched_yield
\* "call"   inside sched_schedule called directly (sig_stop, sys_exit, ...)
Parking == {"cpu", "new", "irq", "yield", "call"}

(* Initially the boot thread runs kmain with interrupts off.               *)
Init ==
    /\ state = [t \in AllThread |-> IF t = Idle THEN "RUNNING" ELSE "NONE"]
    /\ queue = <<>>
    /\ waiting = [q \in WaitQueue |-> <<>>]
    /\ current = Idle
    /\ locked = FALSE
    /\ saved_flags = FALSE
    /\ intr = FALSE
    /\ pc = [t \in AllThread |-> "run"]
    /\ parked = [t \in AllThread |-> IF t = Idle THEN "cpu" ELSE "new"]
    /\ flags = [t \in AllThread |-> FALSE]

----------------------------------------------------------------------------
(* sched_schedule, called by the current thread at a moment when the       *)
(* thread states are st, the run queue q, sched_lock is lk and its saved   *)
(* flag sf; how says who called.  The call returns in the thread it picks, *)
(* to that thread's own caller of sched_schedule.                          *)

\* The caller's code after the call, up to the point where interrupts are on
\* again: sched_yield releases sched_lock, pit_handler's interrupt returns,
\* thread_trampoline executes sti, a direct caller continues with them off.
ReturnTo(t, how, lk, sf) ==
    /\ locked' = (lk /\ how # "yield")
    /\ saved_flags' = sf
    /\ intr' = CASE how \in {"new", "irq"} -> TRUE
                 [] how = "yield" -> sf
                 [] how = "call" -> FALSE
    /\ pc' = IF how = "yield" THEN [pc EXCEPT ![t] = "run"] ELSE pc

\* Mutant: the new thread is linked in front of queue_head.
queue_push_front(q, t) == <<t>> \o q

queue_push(q, t) == Append(q, t)

\* The thread is unlinked where it is found; otherwise nothing changes.
sched_remove_thread(q, t) ==
    LET i == CHOOSE i \in DOMAIN q : q[i] = t
    IN  IF t \in Range(q) THEN SubSeq(q, 1, i - 1) \o SubSeq(q, i + 1, Len(q)) ELSE q

\* Mutant: an empty run queue is enough to go on with the current thread.
Keep_any(st, q) == q = <<>>

\* The early return: the run queue is empty and the current thread may go on.
Keep(st, q) == q = <<>> /\ st[current] = "RUNNING"

\* The preempted thread goes back into the run queue.
Requeue(st, q) == q # <<>> /\ st[current] = "RUNNING" /\ current # Idle

sched_schedule(st, q, how, lk, sf) ==
    LET next == IF Keep(st, q) THEN current ELSE IF q = <<>> THEN Idle ELSE Head(q)
        rest == IF q = <<>> THEN q ELSE Tail(q)
    IN  /\ queue' = IF Requeue(st, q) THEN queue_push(rest, current) ELSE rest
        /\ state' = [[st EXCEPT ![current] = IF Requeue(st, q) THEN "READY" ELSE @]
                        EXCEPT ![next] = "RUNNING"]
        /\ current' = next
        /\ parked' = [[parked EXCEPT ![current] = how] EXCEPT ![next] = "cpu"]
        /\ ReturnTo(next, IF next = current THEN how ELSE parked[next], lk, sf)

----------------------------------------------------------------------------
(* Threads                                                                 *)

\* SYSCALL: SFMASK clears the interrupt flag on entry to the kernel.
syscall_entry ==
    /\ intr
    /\ current # Idle
    /\ pc[current] = "run"
    /\ intr' = FALSE
    /\ UNCHANGED <<state, queue, waiting, current, locked, saved_flags, pc, parked, flags>>

\* The system call returns to user mode (SYSRET restores the user's flags);
\* for the boot thread, the sti at the end of kmain.
sysret ==
    /\ ~intr
    /\ pc[current] = "run"
    /\ intr' = TRUE
    /\ UNCHANGED <<state, queue, waiting, current, locked, saved_flags, pc, parked, flags>>

\* thread_create followed by sched_add_thread, as proc_create, init_launch and
\* proc_fork do, with interrupts off.
thread_create(t) ==
    /\ ~intr
    /\ pc[current] = "run"
    /\ state[t] = "NONE"
    /\ state' = [state EXCEPT ![t] = "READY"]
    /\ queue' = queue_push(queue, t)
    /\ UNCHANGED <<waiting, current, locked, saved_flags, intr, pc, parked, flags>>

\* The entry function of a kernel thread returns to thread_trampoline.
thread_trampoline ==
    /\ intr
    /\ current # Idle
    /\ pc[current] = "run"
    /\ state' = [state EXCEPT ![current] = "DEAD"]
    /\ pc' = [pc EXCEPT ![current] = "halt"]
    /\ UNCHANGED <<queue, waiting, current, locked, saved_flags, intr, parked, flags>>

\* The end of sys_exit and of sig_terminate.
exit ==
    /\ ~intr
    /\ current # Idle
    /\ pc[current] = "run"
    /\ sched_schedule([state EXCEPT ![current] = "DEAD"], queue, "call", locked, saved_flags)
    /\ UNCHANGED <<waiting, flags>>

\* pit_handler on a tick that ends a quantum.
pit_handler ==
    /\ intr
    /\ sched_schedule(state, queue, "irq", locked, saved_flags)
    /\ UNCHANGED <<waiting, flags>>

----------------------------------------------------------------------------
(* Wait queues                                                             *)

\* wq_sleep up to its second spinlock_release: the caller's lock restores the
\* interrupt flag the caller had.
wq_sleep(q) ==
    /\ current # Idle
    /\ pc[current] = "run"
    /\ waiting' = [waiting EXCEPT ![q] = Append(@, current)]
    /\ state' = [state EXCEPT ![current] = "BLOCKED"]
    /\ pc' = [pc EXCEPT ![current] = "enq"]
    /\ UNCHANGED <<queue, current, locked, saved_flags, intr, parked, flags>>

\* sched_yield enters spinlock_acquire: the flags are saved, interrupts go off.
sched_yield ==
    /\ pc[current] = "enq"
    /\ flags' = [flags EXCEPT ![current] = intr]
    /\ intr' = FALSE
    /\ pc' = [pc EXCEPT ![current] = "spin"]
    /\ UNCHANGED <<state, queue, waiting, current, locked, saved_flags, parked>>

\* Mutant: the flags are saved in the lock before it is acquired.
spinlock_acquire_save_first ==
    /\ pc[current] = "spin"
    /\ \/ /\ locked
          /\ saved_flags' = flags[current]
          /\ UNCHANGED <<state, queue, waiting, current, locked, intr, pc, parked, flags>>
       \/ /\ ~locked
          /\ sched_schedule(state, queue, "yield", TRUE, flags[current])
          /\ UNCHANGED <<waiting, flags>>

\* One turn of the test-and-set loop on sched_lock: it spins while the lock is
\* held, and otherwise sched_schedule runs with the lock held.
spinlock_acquire ==
    /\ pc[current] = "spin"
    /\ \/ /\ locked
          /\ UNCHANGED vars
       \/ /\ ~locked
          /\ sched_schedule(state, queue, "yield", TRUE, flags[current])
          /\ UNCHANGED <<waiting, flags>>

\* wq_wake and wq_wake_all are called by the current thread, or by an
\* interrupt handler on top of it (the keyboard's, through tty_input_char).
CanCallWake == pc[current] = "run" \/ intr

wq_wake(q) ==
    /\ CanCallWake
    /\ waiting[q] # <<>>
    /\ waiting' = [waiting EXCEPT ![q] = Tail(@)]
    /\ state' = [state EXCEPT ![Head(waiting[q])] = "READY"]
    /\ queue' = queue_push(queue, Head(waiting[q]))
    /\ UNCHANGED <<current, locked, saved_flags, intr, pc, parked, flags>>

wq_wake_all(q) ==
    /\ CanCallWake
    /\ waiting[q] # <<>>
    /\ waiting' = [waiting EXCEPT ![q] = <<>>]
    /\ state' = [t \in AllThread |->
                    IF t \in Range(waiting[q]) THEN "READY" ELSE state[t]]
    /\ queue' = queue \o waiting[q]
    /\ UNCHANGED <<current, locked, saved_flags, intr, pc, parked, flags>>

----------------------------------------------------------------------------
(* Job control                                                             *)

\* sig_stop, reached on the way back to user mode: the current thread leaves
\* the run queue, the first waiter of the parent's queue q is woken, and the
\* thread is switched out.
sig_stop(q) ==
    LET stopped == [state EXCEPT ![current] = "STOPPED"]
        removed == sched_remove_thread(queue, current)
    IN  /\ ~intr
        /\ current # Idle
        /\ pc[current] = "run"
        /\ \/ /\ waiting[q] = <<>>
              /\ sched_schedule(stopped, removed, "call", locked, saved_flags)
              /\ UNCHANGED waiting
           \/ /\ waiting[q] # <<>>
              /\ waiting' = [waiting EXCEPT ![q] = Tail(@)]
              /\ sched_schedule([stopped EXCEPT ![Head(waiting[q])] = "READY"],
                                queue_push(removed, Head(waiting[q])),
                                "call", locked, saved_flags)
        /\ UNCHANGED flags

\* sig_continue, called from sig_send and sig_group_cb in a system call.
sig_continue(t) ==
    /\ ~intr
    /\ pc[current] = "run"
    /\ state[t] = "STOPPED"
    /\ state' = [state EXCEPT ![t] = "READY"]
    /\ queue' = queue_push(queue, t)
    /\ UNCHANGED <<waiting, current, locked, saved_flags, intr, pc, parked, flags>>

----------------------------------------------------------------------------

Next ==
    \/ syscall_entry \/ sysret
    \/ thread_trampoline \/ exit \/ pit_handler
    \/ sched_yield \/ spinlock_acquire
    \/ \E t \in Thread : thread_create(t) \/ sig_continue(t)
    \/ \E q \in WaitQueue : wq_sleep(q) \/ wq_wake(q) \/ wq_wake_all(q) \/ sig_stop(q)

Spec == Init /\ [][Next]_vars

\* A timer tick stays pending in the interrupt controller until interrupts are
\* enabled (strong fairness); a system call that does not sleep returns, and a
\* thread inside wq_sleep or sched_yield goes on, since nothing but interrupts
\* suspends them (weak fairness).
Fairness ==
    /\ SF_vars(pit_handler)
    /\ WF_vars(sysret)
    /\ WF_vars(sched_yield)
    /\ WF_vars(spinlock_acquire)

FairSpec == Spec /\ Fairness

----------------------------------------------------------------------------
(* Properties                                                              *)

\* The types of the variables; the two queues hold created threads only.
TypeOK ==
    /\ state \in [AllThread -> ThreadState]
    /\ queue \in Seq(Thread)
    /\ waiting \in [WaitQueue -> Seq(Thread)]
    /\ current \in AllThread
    /\ locked \in BOOLEAN
    /\ saved_flags \in BOOLEAN
    /\ intr \in BOOLEAN
    /\ pc \in [AllThread -> Place]
    /\ parked \in [AllThread -> Parking]
    /\ flags \in [AllThread -> BOOLEAN]

\* Thread.next links a thread into one list at a time: a thread is READY exactly
\* while it is in the run queue, BLOCKED exactly while it is in some wait queue,
\* and it is in at most one queue, once (sched_add_thread, sched_schedule's
\* requeue, wq_sleep, wq_wake).  Hence a sleeper can always be found by a wake,
\* and a woken thread is always found by sched_schedule.
Match(st, q, w) ==
    /\ \A t \in Thread : st[t] = "READY" <=> t \in Range(q)
    /\ \A t \in Thread : st[t] = "BLOCKED" <=> \E p \in WaitQueue : t \in Range(w[p])
    /\ IsInjective(q)
    /\ \A p \in WaitQueue : IsInjective(w[p])
    /\ \A p, r \in WaitQueue, t \in Thread : t \in Range(w[p]) /\ t \in Range(w[r]) => p = r

\* Match holds of the thread states, the run queue and the wait queues.
QueuesMatchStates == Match(state, queue, waiting)

\* wq_sleep returns only to a thread that a wake took off its wait queue, and
\* code outside wq_sleep runs in a thread that is RUNNING or cannot run at all:
\* sched_schedule never resumes a sleeper, a stopped or a dead thread.
OnlyRunnableRuns ==
    /\ pc[current] = "run" => state[current] = "RUNNING"
    /\ pc[current] \in {"enq", "spin"} => state[current] \in {"RUNNING", "READY", "BLOCKED"}
    /\ \A t \in Thread : state[t] = "RUNNING" => t = current

\* sched_lock is held exactly while one thread is switched out inside
\* sched_yield: no two threads are ever asleep in sched_yield at once.
LockHeldByOneSleeper ==
    /\ locked <=> \E t \in AllThread : parked[t] = "yield"
    /\ \A t, u \in AllThread : parked[t] = "yield" /\ parked[u] = "yield" => t = u

\* spinlock_release in sched_yield restores the interrupt flag of the thread it
\* runs in, although saved_flags lives in the lock and other threads ran since.
FlagsReturnToOwner ==
    \A t \in AllThread : parked[t] = "yield" => saved_flags = flags[t]

\* The inductive invariant behind the five: the current thread is the one that is
\* not parked, only a dead thread sits in the final loop of thread_trampoline, and
\* the boot thread only idles.
IInv ==
    /\ TypeOK
    /\ QueuesMatchStates
    /\ OnlyRunnableRuns
    /\ LockHeldByOneSleeper
    /\ FlagsReturnToOwner
    /\ \A t \in AllThread : parked[t] = "cpu" <=> t = current
    /\ \A t \in AllThread : pc[t] = "halt" => state[t] = "DEAD"
    /\ pc[Idle] = "run" /\ state[Idle] = "RUNNING"

\* A thread that is DEAD is never made runnable again, by any wake, tick or
\* SIGCONT (its stack ends in sys_exit's or thread_trampoline's hlt loop).
DeadStaysDead ==
    [][\A t \in Thread : state[t] = "DEAD" => state'[t] = "DEAD"]_vars

\* Round robin does not starve: as long as no thread is left spinning on
\* sched_lock, every thread that is in the run queue gets the CPU.
ReadyThreadRuns ==
    []<>(pc[current] # "spin") =>
        \A t \in Thread : (state[t] = "READY") ~> (state[t] = "RUNNING")

\* "Schedule away -- returns when another thread calls wq_wake"
\* (waitqueue.c:32): a thread in wq_sleep that has been woken returns.
WokenSleeperReturns ==
    \A t \in Thread :
        (pc[t] \in {"enq", "spin"} /\ state[t] \in {"READY", "RUNNING"}) ~> (pc[t] = "run")
============================================================================
