------------------------------ MODULE Process ------------------------------
(***************************************************************************)
(* Process life cycle, signals and job control: kernel/proc/process.c,     *)
(* kernel/proc/signal.c and the system calls exit, fork, wait, kill,       *)
(* signal, sigreturn, setpgid of kernel/arch/x86_64/syscall.c, with the    *)
(* Ctrl-C and Ctrl-Z of kernel/drivers/tty.c.                              *)
(*                                                                         *)
(* A system call runs with interrupts off, so a handler and the            *)
(* sig_maybe_deliver that syscall_entry.asm runs behind it are one step,   *)
(* cut only where sys_wait sleeps.  Any process that can run may take the  *)
(* next step.  Descriptors are the subject of module Pipe.                 *)
(***************************************************************************)
EXTENDS Naturals, FiniteSets, FiniteSetsExt

CONSTANTS
    MaxProc,   \* bound on the pids handed out
    Sig,       \* the signals sent by kill and the keyboard, by number
    Caught,    \* the signals processes install handlers for
    Group,     \* the arguments of setpgid
    Status     \* the arguments of exit

SIGINT  == 2
SIGKILL == 9
SIGCHLD == 17
SIGCONT == 18
SIGSTOP == 19
SIGTSTP == 20

\* A zombie's status tells how it died: none of Status is 128 + a signal.
ASSUME ProcessAssumption ==
    /\ MaxProc \in Nat \ {0}
    /\ Sig \subseteq Nat
    /\ Group \subseteq 0..MaxProc
    /\ Status \subseteq Nat
    /\ \A x \in Status, s \in Sig \cup {SIGCHLD} : x # 128 + s

Proc == 1..MaxProc          \* pids; 1 is init, and a larger pid is newer
NULL == 0
Handler == {"SIG_DFL", "SIG_IGN", "function"}

VARIABLES
    proc,       \* the process table: pid -> PCB
    next_pid,
    fork_args,  \* g_fork_child_args: the child whose process and context it holds
    image       \* the children whose address space and context a thread started with

vars == <<proc, next_pid, fork_args, image>>

\* thread is main_thread->state (READY also when running); at is where it is:
\*   "born"  created by fork, still to run fork_child_entry
\*   "entered"  between fork_child_entry's two reads of its argument
\*   "user"  in user mode
\*   "wait"  in the loop of sys_wait
PCB == [state : {"NONE", "ALIVE", "STOPPED", "ZOMBIE", "TERMINATED"},
        parent : Proc \cup {NULL},
        pgid : Proc,
        exit_status : Nat,
        pending : SUBSET (Sig \cup {SIGCHLD}),
        handlers : [Caught -> Handler],
        thread : {"NONE", "READY", "BLOCKED", "STOPPED", "DEAD"},
        at : {"born", "entered", "user", "wait"}]

\* proc_setup, for a process with a given pid, parent and group.
proc_setup(state, parent, pgid, thread, at) ==
    [state |-> state, parent |-> parent, pgid |-> pgid, exit_status |-> 0,
     pending |-> {}, handlers |-> [s \in Caught |-> "SIG_DFL"],
     thread |-> thread, at |-> at]

\* init_launch has started process 1.
Init ==
    /\ proc = [p \in Proc |-> IF p = 1 THEN proc_setup("ALIVE", NULL, 1, "READY", "user")
                                       ELSE proc_setup("NONE", NULL, p, "NONE", "born")]
    /\ next_pid = 2
    /\ fork_args = NULL
    /\ image = [p \in Proc |-> [space |-> p, ctx |-> p]]

----------------------------------------------------------------------------
(* Signals, as functions on the process table P                            *)

\* Mutant: SIGCONT resumes a process in any state.
post_any(r, s) ==
    LET a == [r EXCEPT !.pending = @ \cup {s}]
    IN  IF s = SIGCONT
        THEN [a EXCEPT !.state = "ALIVE", !.thread = "READY"] ELSE a

\* One process is sent s; SIGCONT resumes a stopped one (sig_continue).
post(r, s) ==
    LET a == [r EXCEPT !.pending = @ \cup {s}]
    IN  IF s = SIGCONT /\ r.state = "STOPPED"
        THEN [a EXCEPT !.state = "ALIVE", !.thread = "READY"] ELSE a

\* proc_get_by_pid finds p, and proc_foreach visits it.
Exists(P, p) == p # NULL /\ P[p].state \notin {"NONE", "TERMINATED"}

sig_send(P, p, s) == IF Exists(P, p) THEN [P EXCEPT ![p] = post(@, s)] ELSE P

sig_send_group(P, g, s) ==
    [p \in Proc |-> IF Exists(P, p) /\ P[p].pgid = g THEN post(P[p], s) ELSE P[p]]

\* Mutant: the thread is made ready whatever its state.
wake_waiter_any(P, p) == [P EXCEPT ![p].thread = "READY"]

\* wq_wake(&p->child_exit_wq): only p's own thread ever sleeps there.
wake_waiter(P, p) ==
    IF P[p].thread = "BLOCKED" THEN [P EXCEPT ![p].thread = "READY"] ELSE P

\* Mutant: the parent is sent SIGCHLD but not woken.
notify_parent_no_wake(P, p) ==
    LET q == P[p].parent
    IN  IF q = NULL THEN P ELSE sig_send(P, q, SIGCHLD)

notify_parent(P, p) ==
    LET q == P[p].parent
    IN  IF q = NULL THEN P ELSE sig_send(wake_waiter(P, q), q, SIGCHLD)

sig_stop(P, p, s) ==
    notify_parent([P EXCEPT ![p].state = "STOPPED", ![p].exit_status = s,
                            ![p].thread = "STOPPED"], p)

sig_terminate(P, p, s) ==
    [P EXCEPT ![p].exit_status = 128 + s, ![p].state = "ZOMBIE", ![p].thread = "DEAD"]

Disposition(r, s) == IF s \in Caught THEN r.handlers[s] ELSE "SIG_DFL"

\* The signals sig_maybe_deliver passes over.
Ignored(r, s) ==
    /\ s \notin {SIGKILL, SIGSTOP}
    /\ \/ Disposition(r, s) = "SIG_IGN"
       \/ Disposition(r, s) = "SIG_DFL" /\ s \in {SIGCHLD, SIGCONT}

\* Mutant: a signal that is passed over stays pending.
Remaining_ignored(pending, s) == pending \ {s}

\* What is left pending once the loop has come to s.
Remaining(pending, s) == {u \in pending : u > s}

\* Pending signals are looked at in ascending order, up to the first that is not
\* ignored; ok says that the handler's frame fits the user stack.
sig_maybe_deliver(P, p, ok) ==
    LET todo == {s \in P[p].pending : ~Ignored(P[p], s)}
        s    == Min(todo)
        Q    == [P EXCEPT ![p].pending = Remaining(@, s)]
        d    == IF s \in {SIGKILL, SIGSTOP} THEN "SIG_DFL" ELSE Disposition(P[p], s)
    IN  CASE todo = {} -> [P EXCEPT ![p].pending = {}]
          [] todo # {} /\ d = "SIG_DFL" /\ s \in {SIGSTOP, SIGTSTP} -> sig_stop(Q, p, s)
          [] todo # {} /\ d = "SIG_DFL" /\ s \notin {SIGSTOP, SIGTSTP} -> sig_terminate(Q, p, s)
          [] todo # {} /\ d = "function" -> IF ok THEN Q ELSE sig_terminate(Q, p, s)

----------------------------------------------------------------------------
(* System calls                                                            *)

Running(p) == proc[p].thread = "READY" /\ proc[p].at = "user"

\* The end of a system call of p that leaves the table P.
Return(P, p) == \E ok \in BOOLEAN : proc' = sig_maybe_deliver(P, p, ok)

\* sys_exit; the descriptors it closes are in module Pipe.
sys_exit(p, status) ==
    /\ Running(p)
    /\ proc' = [notify_parent([proc EXCEPT ![p].exit_status = status, ![p].state = "ZOMBIE"], p)
                    EXCEPT ![p].thread = "DEAD"]
    /\ UNCHANGED <<next_pid, fork_args, image>>

\* Mutant: the arguments of an earlier fork are not replaced.
sys_fork_keep_args(p) ==
    /\ Running(p)
    /\ next_pid \in Proc
    /\ Return([proc EXCEPT ![next_pid] =
                  proc_setup("ALIVE", p, proc[p].pgid, "READY", "born")], p)
    /\ fork_args' = IF fork_args = NULL THEN next_pid ELSE fork_args
    /\ next_pid' = next_pid + 1
    /\ UNCHANGED image

\* sys_fork and proc_fork; the child's signal state starts afresh.
sys_fork(p) ==
    /\ Running(p)
    /\ next_pid \in Proc
    /\ Return([proc EXCEPT ![next_pid] =
                  proc_setup("ALIVE", p, proc[p].pgid, "READY", "born")], p)
    /\ fork_args' = next_pid
    /\ next_pid' = next_pid + 1
    /\ UNCHANGED image

\* The child's thread runs for the first time: it loads the address space of the
\* child that g_fork_child_args names then ...
fork_child_entry(p) ==
    /\ proc[p].thread = "READY" /\ proc[p].at = "born"
    /\ proc' = [proc EXCEPT ![p].at = "entered"]
    /\ image' = [image EXCEPT ![p].space = fork_args]
    /\ UNCHANGED <<next_pid, fork_args>>

\* ... and, interrupts being on, perhaps later the context that it holds then.
fork_return_to_user(p) ==
    /\ proc[p].thread = "READY" /\ proc[p].at = "entered"
    /\ proc' = [proc EXCEPT ![p].at = "user"]
    /\ image' = [image EXCEPT ![p].ctx = fork_args]
    /\ UNCHANGED <<next_pid, fork_args>>

Children(p) == {c \in Proc : proc[c].parent = p /\ proc[c].state \notin {"NONE", "TERMINATED"}}
Zombies(p) == {c \in Children(p) : proc[c].state = "ZOMBIE"}
Unreported(p) == {c \in Children(p) : proc[c].state = "STOPPED" /\ proc[c].exit_status # 0}

\* A stopped child is reported once.
Reported(P, c) == [P EXCEPT ![c].exit_status = 0]

proc_reap(P, c) == [P EXCEPT ![c].state = "TERMINATED"]

\* sys_wait from its entry (at "user") or from the return of wq_sleep (at "wait").
\* The search is newest first: proc_setup links a process at the list's head.
sys_wait(p, nohang) ==
    LET back == [proc EXCEPT ![p].at = "user"]
    IN  /\ proc[p].thread = "READY"
        /\ proc[p].at = "wait" => ~nohang
        /\ proc[p].at \in {"user", "wait"}
        /\ \/ /\ Zombies(p) # {}
              /\ Return(proc_reap(back, Max(Zombies(p))), p)
           \/ /\ Zombies(p) = {} /\ Unreported(p) # {}
              /\ Return(Reported(back, Max(Unreported(p))), p)
           \/ /\ Zombies(p) = {} /\ Unreported(p) = {}
              /\ Children(p) = {} \/ nohang
              /\ Return(back, p)
           \/ /\ Zombies(p) = {} /\ Unreported(p) = {}
              /\ Children(p) # {} /\ ~nohang
              /\ proc' = [proc EXCEPT ![p].at = "wait", ![p].thread = "BLOCKED"]
        /\ UNCHANGED <<next_pid, fork_args, image>>

\* sys_kill of one process, or of a process group.
sys_kill(p, q, s) ==
    /\ Running(p)
    /\ Return(sig_send(proc, q, s), p)
    /\ UNCHANGED <<next_pid, fork_args, image>>

sys_kill_group(p, g, s) ==
    /\ Running(p)
    /\ Return(sig_send_group(proc, g, s), p)
    /\ UNCHANGED <<next_pid, fork_args, image>>

sys_signal(p, s, h) ==
    /\ Running(p)
    /\ s \notin {SIGKILL, SIGSTOP}
    /\ Return([proc EXCEPT ![p].handlers[s] = h], p)
    /\ UNCHANGED <<next_pid, fork_args, image>>

\* Group 0 stands for the target's own pid.
sys_setpgid(p, q, g) ==
    /\ Running(p)
    /\ Exists(proc, q)
    /\ Return([proc EXCEPT ![q].pgid = IF g = 0 THEN q ELSE g], p)
    /\ UNCHANGED <<next_pid, fork_args, image>>

\* Any other system call: only pending signals matter.
sys_other(p) ==
    /\ Running(p)
    /\ Return(proc, p)
    /\ UNCHANGED <<next_pid, fork_args, image>>

\* Ctrl-C or Ctrl-Z: the keyboard interrupt signals the foreground group.
tty_signal(g, s) ==
    /\ s \in {SIGINT, SIGTSTP}
    /\ proc' = sig_send_group(proc, g, s)
    /\ UNCHANGED <<next_pid, fork_args, image>>

Next ==
    \/ \E p \in Proc : sys_fork(p) \/ fork_child_entry(p) \/ fork_return_to_user(p) \/ sys_other(p)
    \/ \E p \in Proc, n \in BOOLEAN : sys_wait(p, n)
    \/ \E p \in Proc, x \in Status : sys_exit(p, x)
    \/ \E p, q \in Proc, s \in Sig : sys_kill(p, q, s) \/ sys_kill_group(p, q, s)
    \/ \E p, q \in Proc, g \in Group : sys_setpgid(p, q, g)
    \/ \E p \in Proc, s \in Caught, h \in Handler : sys_signal(p, s, h)
    \/ \E g \in Proc, s \in Sig : tty_signal(g, s)

Spec == Init /\ [][Next]_vars

\* A woken thread gets the CPU (ReadyThreadRuns of Sched) and sys_wait goes on.
FairSpec == Spec /\ \A p \in Proc : WF_vars(proc[p].at = "wait" /\ sys_wait(p, FALSE))

----------------------------------------------------------------------------
(* Properties                                                              *)

\* The types of the process table; a process group is the pid of some process.
TypeOK ==
    /\ proc \in [Proc -> PCB]
    /\ next_pid \in 2..(MaxProc + 1)
    /\ fork_args \in Proc \cup {NULL}
    /\ image \in [Proc -> [space : Proc \cup {NULL}, ctx : Proc \cup {NULL}]]

\* The state of a process and the state of its main thread agree: only a live
\* process has a thread that can be scheduled, only a stopped one a stopped
\* thread.  Whatever order stops, continues, exits and reaps come in, no
\* process comes back to the run queue after its death.
ThreadMatchesProcess ==
    /\ TypeOK
    /\ \A p \in Proc :
        /\ proc[p].state = "ALIVE" <=> proc[p].thread \in {"READY", "BLOCKED"}
        /\ proc[p].state = "STOPPED" <=> proc[p].thread = "STOPPED"
        /\ proc[p].state \in {"ZOMBIE", "TERMINATED"} <=> proc[p].thread = "DEAD"
        /\ proc[p].thread = "BLOCKED" => proc[p].at = "wait"

\* A stopped process has no SIGCONT pending: a continue that finds the process
\* stopped resumes it at once, and one that came earlier has been consumed by
\* the pass of sig_maybe_deliver that stopped it, whatever was pending with it.
NoContinuePending ==
    \A p \in Proc : proc[p].state = "STOPPED" => SIGCONT \notin proc[p].pending

\* One step, as ZombieKept wants it.
KeepsZombie(p) ==
    /\ proc[p].state = "ZOMBIE" =>
          /\ proc'[p].state \in {"ZOMBIE", "TERMINATED"}
          /\ proc'[p].exit_status = proc[p].exit_status
          /\ proc'[p].state = "TERMINATED" =>
                LET q == proc[p].parent IN q # NULL /\ proc[q].state = "ALIVE"
    /\ proc[p].state = "TERMINATED" => proc'[p].state = "TERMINATED"

\* A zombie keeps the status it died with until its own parent reaps it, and a
\* reaped process stays reaped.
ZombieKept == [][\A p \in Proc : KeepsZombie(p)]_vars

\* A child that called exit, or one whose stop has not been reported: what sig_stop
\* and sys_exit wake the parent for.  (A child killed by a signal, exit_status >=
\* 128, is the subject of WaitReturnsAlways.)
Reportable(p) == Unreported(p) # {} \/ \E c \in Zombies(p) : proc[c].exit_status \in Status

\* A parent asleep in sys_wait has missed no child: between its search of the
\* children and its sleep, and while it sleeps, no child exits or stops without
\* waking it.
NoMissedChild == \A p \in Proc : proc[p].thread = "BLOCKED" => ~Reportable(p)

\* Stops, continues and waits, in whatever order they come, leave nothing behind:
\* no continue pending on a stopped process, no child that a sleeping parent has
\* missed.
JobControlSound == NoContinuePending /\ NoMissedChild

\* sys_wait's "wait for a child to exit or stop, return child PID": a parent does
\* not stay in sys_wait while a child has exited or is stopped unreported.  (A
\* stop is gone once the child is continued, even if the parent was woken for it
\* and has not looked yet.)
WaitReturns ==
    \A p \in Proc :
        (proc[p].at = "wait" /\ Reportable(p)) ~> (proc[p].at # "wait" \/ ~Reportable(p))

\* The same for any zombie, however it died.
WaitReturnsAlways ==
    \A p \in Proc : (proc[p].at = "wait" /\ Zombies(p) # {}) ~> proc[p].at # "wait"

\* A forked child starts with the address space and the context of its own fork
\* or of a later one, never an earlier one's: g_fork_child_args is filled before
\* the thread that reads it is created, and only forks write it.  The two can
\* also differ, when a fork comes between fork_child_entry's two reads.
StartsNoEarlier ==
    \A p \in Proc : p <= image[p].space /\
                    (proc[p].at \in {"user", "wait"} => image[p].space <= image[p].ctx)

\* Pids are handed out in order, and g_fork_child_args holds the latest fork: what
\* StartsNoEarlier rests on, the threads that have not started yet included.
ForksInOrder ==
    /\ \A p \in Proc : p >= next_pid => proc[p].state = "NONE"
    /\ fork_args = IF next_pid = 2 THEN NULL ELSE next_pid - 1
    /\ proc[1].at \in {"user", "wait"}
    /\ \A p \in Proc : proc[p].at = "entered" => image[p].space <= fork_args

\* The inductive invariant.
IInv == ThreadMatchesProcess /\ JobControlSound /\ StartsNoEarlier /\ ForksInOrder

\* proc_fork's "The child's thread will return to user_ctx location": a forked
\* child starts in its own address space with the context its fork saved.
ChildStartsAsForked ==
    \A p \in Proc : proc[p].at = "user" => image[p] = [space |-> p, ctx |-> p]
============================================================================
