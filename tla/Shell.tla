------------------------------- MODULE Shell -------------------------------
(***************************************************************************)
(* The shell's job control: main, dispatch, the job table, fg, bg, the     *)
(* background, pipe and redirect paths of userland/shell/shell.c, on top   *)
(* of module Process and the foreground group of kernel/drivers/tty.c.     *)
(*                                                                         *)
(* init execs login, which execs the shell: the shell is process 1.  Each  *)
(* of its steps is one system call of Process with what the shell does     *)
(* with the result, up to its next call.  How a line is understood is      *)
(* module ShellLine; here the kind of command typed is chosen freely.  The *)
(* programs the shell starts make system calls, read the terminal and end; *)
(* they start no children, not even where an exec fails and the child      *)
(* goes on with dispatch.                                                  *)
(***************************************************************************)
EXTENDS Process, Sequences

CONSTANT MAX_JOBS

Slot == 1..MAX_JOBS
NoJob == [pid |-> NULL, id |-> 0, stopped |-> FALSE]

\* run stands for execute_with_redirect also: fork, no group of its own, one wait.
CommandKind == {"builtin", "dispatch", "background", "run", "pipe", "fg", "bg"}

VARIABLES
    sh,           \* where the shell is, and the locals of the command it runs
    job,          \* job_table; pgid is always pid
    next_job_id,
    fg_pgid,      \* tty_fg_pgid
    role,         \* whether the child forked as a given pid makes its own group
    began,        \* the children past their setpgid
    lapse         \* history: a foreground wait was answered by another child, or
                  \* job_alloc found the table full

shvars == <<sh, job, next_job_id, fg_pgid, role, began, lapse>>
allvars == <<vars, shvars>>

\* pc names the next system call; kids the children the command waits for; slot
\* the job of fg and bg; stopped WIFSTOPPED of the last wait.
Locals == [pc : {"setpgid", "tcsetpgrp", "signal", "read", "reading", "reap", "fork",
                 "child_setpgid", "give", "continue", "wait", "reclaim", "exit"},
           cmd : CommandKind, kids : SUBSET Proc, slot : Slot \cup {0},
           waits : 0..2, stopped : BOOLEAN]

Prompt == [pc |-> "read", cmd |-> "builtin", kids |-> {}, slot |-> 0,
           waits |-> 0, stopped |-> FALSE]

ShellInit ==
    /\ Init
    /\ sh = [Prompt EXCEPT !.pc = "setpgid"]
    /\ job = [i \in Slot |-> NoJob]
    /\ next_job_id = 1
    /\ fg_pgid = 1                       \* login has read from the terminal
    /\ role = [p \in Proc |-> "shared"]
    /\ began = {}
    /\ lapse = FALSE

----------------------------------------------------------------------------
(* The job table                                                           *)

InUse == {i \in Slot : job[i] # NoJob}

\* job_alloc, with the stopped flag its caller sets.
job_alloc(pid, stopped) ==
    IF InUse = Slot THEN /\ lapse' = TRUE /\ UNCHANGED <<job, next_job_id>>
    ELSE /\ job' = [job EXCEPT ![Min(Slot \ InUse)] =
                       [pid |-> pid, id |-> next_job_id, stopped |-> stopped]]
         /\ next_job_id' = next_job_id + 1
         /\ UNCHANGED lapse

\* The child a wait answers with now, NULL for none, and the table after
\* reap_background_jobs heard of it.
Answer == CASE Zombies(1) # {} -> Max(Zombies(1))
            [] Zombies(1) = {} /\ Unreported(1) # {} -> Max(Unreported(1))
            [] OTHER -> NULL
IsStopped(w) == w # NULL /\ proc[w].state = "STOPPED"

Noted(w) ==
    [i \in Slot |-> IF job[i].pid # w THEN job[i]
                    ELSE IF IsStopped(w) THEN [job[i] EXCEPT !.stopped = TRUE] ELSE NoJob]

----------------------------------------------------------------------------
(* The shell                                                               *)

At(pc) == sh.pc = pc
Goto(pc) == sh' = [sh EXCEPT !.pc = pc]

\* main, up to its loop.
main_setpgid ==
    /\ At("setpgid") /\ sys_setpgid(1, 1, 0) /\ Goto("tcsetpgrp")
    /\ UNCHANGED <<job, next_job_id, fg_pgid, role, began, lapse>>
main_tcsetpgrp ==
    /\ At("tcsetpgrp") /\ sys_other(1) /\ Goto("signal")
    /\ fg_pgid' = 1
    /\ UNCHANGED <<job, next_job_id, role, began, lapse>>
main_signal ==
    /\ At("signal") /\ sys_signal(1, SIGTSTP, "SIG_IGN") /\ sh' = Prompt
    /\ UNCHANGED <<job, next_job_id, fg_pgid, role, began, lapse>>

\* tty_read takes the terminal for the reader's group, then sleeps ...
tty_read(p) ==
    /\ Running(p)
    /\ fg_pgid' = proc[p].pgid
    /\ UNCHANGED <<vars, job, next_job_id, role, began, lapse>>
main_read == At("read") /\ tty_read(1) /\ Goto("reading")

\* ... until there is a line; one too long to expand is given up.
main_line ==
    /\ At("reading") /\ sys_other(1)
    /\ \/ sh' = Prompt
       \/ sh' = [Prompt EXCEPT !.pc = "reap"]
    /\ UNCHANGED <<job, next_job_id, fg_pgid, role, began, lapse>>

\* reap_background_jobs, one child a call.
reap_background_jobs ==
    /\ At("reap") /\ Answer # NULL /\ sys_wait(1, TRUE)
    /\ job' = Noted(Answer)
    /\ UNCHANGED <<sh, next_job_id, fg_pgid, role, began, lapse>>

\* The last call of its loop finds nothing, and the command the line holds is run.
\* fg and bg take the job their argument names, or the last (stopped) one.
dispatch ==
    /\ At("reap") /\ Answer = NULL /\ sys_wait(1, TRUE)
    /\ \/ sh' = Prompt              \* a builtin; fg or bg without such a job
       \/ sh' = [sh EXCEPT !.pc = "exit"]
       \/ \E c \in CommandKind \ {"builtin", "fg", "bg"} :
              sh' = [sh EXCEPT !.pc = "fork", !.cmd = c]
       \/ \E i \in InUse : sh' = [sh EXCEPT !.pc = "give", !.cmd = "fg", !.slot = i,
                                            !.waits = 1, !.kids = {job[i].pid}]
       \/ \E i \in InUse : /\ job[i].stopped
                          /\ sh' = [sh EXCEPT !.pc = "continue", !.cmd = "bg", !.slot = i]
    /\ UNCHANGED <<job, next_job_id, fg_pgid, role, began, lapse>>

\* fork: dispatch and execute_background go on with setpgid, the others wait for
\* one child, execute_pipe for two.
fork ==
    /\ At("fork") /\ sys_fork(1)
    /\ role' = [role EXCEPT ![next_pid] =
                   IF sh.cmd \in {"dispatch", "background"} THEN "own" ELSE "shared"]
    /\ sh' = [sh EXCEPT
                !.kids = @ \cup {next_pid}, !.waits = @ + 1,
                !.pc = CASE sh.cmd \in {"dispatch", "background"} -> "child_setpgid"
                         [] sh.cmd = "pipe" /\ sh.waits = 0 -> "fork"
                         [] OTHER -> "wait"]
    /\ UNCHANGED <<job, next_job_id, fg_pgid, began, lapse>>

\* fork fails; execute_pipe waits for a first child it has already.
fork_fails ==
    /\ At("fork") /\ sys_other(1)
    /\ IF sh.waits = 0 THEN sh' = Prompt ELSE Goto("wait")
    /\ UNCHANGED <<job, next_job_id, fg_pgid, role, began, lapse>>

Child == CHOOSE c \in sh.kids : TRUE

child_setpgid ==
    /\ At("child_setpgid") /\ sys_setpgid(1, Child, Child)
    /\ IF sh.cmd = "background"
       THEN job_alloc(Child, FALSE) /\ sh' = Prompt
       ELSE UNCHANGED <<job, next_job_id, lapse>> /\ Goto("give")
    /\ UNCHANGED <<fg_pgid, role, began>>

\* tcsetpgrp for the foreground job; fg continues it if it is stopped.
give ==
    /\ At("give") /\ sys_other(1)
    /\ fg_pgid' = Child
    /\ Goto(IF sh.cmd = "fg" /\ job[sh.slot].stopped THEN "continue" ELSE "wait")
    /\ UNCHANGED <<job, next_job_id, role, began, lapse>>

\* kill(-pgid, SIGCONT) of fg and bg.
continue ==
    /\ At("continue") /\ sys_kill_group(1, job[sh.slot].pid, SIGCONT)
    /\ job' = [job EXCEPT ![sh.slot].stopped = FALSE]
    /\ IF sh.cmd = "bg" THEN sh' = Prompt ELSE Goto("wait")
    /\ UNCHANGED <<next_job_id, fg_pgid, role, began, lapse>>

\* Mutant: a pipeline is waited for once too often.
wait_once_more ==
    /\ At("wait") /\ sys_wait(1, FALSE)
    /\ IF Answer = NULL /\ Children(1) # {} THEN UNCHANGED <<sh, lapse>>
       ELSE /\ lapse' = (lapse \/ Answer \notin sh.kids)
            /\ sh' = CASE sh.waits > 0 /\ sh.cmd = "pipe" -> [sh EXCEPT !.waits = @ - 1]
                       [] sh.waits = 1 /\ sh.cmd \in {"dispatch", "fg"} ->
                             [sh EXCEPT !.pc = "reclaim", !.stopped = IsStopped(Answer)]
                       [] OTHER -> Prompt
    /\ UNCHANGED <<job, next_job_id, fg_pgid, role, began>>

\* waitpid(-1): any child of the shell answers it.
wait ==
    /\ At("wait") /\ sys_wait(1, FALSE)
    /\ IF Answer = NULL /\ Children(1) # {} THEN UNCHANGED <<sh, lapse>>
       ELSE /\ lapse' = (lapse \/ Answer \notin sh.kids)
            /\ sh' = CASE sh.waits > 1 -> [sh EXCEPT !.waits = @ - 1]
                       [] sh.waits = 1 /\ sh.cmd \in {"dispatch", "fg"} ->
                             [sh EXCEPT !.pc = "reclaim", !.stopped = IsStopped(Answer)]
                       [] OTHER -> Prompt
    /\ UNCHANGED <<job, next_job_id, fg_pgid, role, began>>

\* Mutant: a stopped foreground command is not put into the table.
reclaim_forget ==
    /\ At("reclaim") /\ sys_other(1)
    /\ fg_pgid' = 1 /\ sh' = Prompt
    /\ UNCHANGED <<job, next_job_id, role, began, lapse>>

\* tcsetpgrp back to the shell, and what the wait said goes into the table.
reclaim ==
    /\ At("reclaim") /\ sys_other(1)
    /\ fg_pgid' = 1 /\ sh' = Prompt
    /\ \/ sh.cmd = "dispatch" /\ sh.stopped /\ job_alloc(Child, TRUE)
       \/ sh.cmd = "dispatch" /\ ~sh.stopped /\ UNCHANGED <<job, next_job_id, lapse>>
       \/ /\ sh.cmd = "fg"
          /\ job' = [job EXCEPT ![sh.slot] = IF sh.stopped THEN [@ EXCEPT !.stopped = TRUE]
                                                           ELSE NoJob]
          /\ UNCHANGED <<next_job_id, lapse>>
    /\ UNCHANGED <<role, began>>

cmd_exit ==
    /\ At("exit") /\ \E x \in Status : sys_exit(1, x)
    /\ UNCHANGED shvars

ShellStep ==
    \/ main_setpgid \/ main_tcsetpgrp \/ main_signal \/ main_read \/ main_line
    \/ reap_background_jobs \/ dispatch \/ fork \/ fork_fails \/ child_setpgid
    \/ give \/ continue \/ wait \/ reclaim \/ cmd_exit

----------------------------------------------------------------------------
(* Its children, and the keyboard                                          *)

kid_start(c) == (fork_child_entry(c) \/ fork_return_to_user(c)) /\ UNCHANGED shvars

\* A child runs the code at the context it was given: a group of its own first,
\* where the fork was dispatch's or execute_background's.
OwnGroupDue(c) == role[image[c].ctx] = "own" /\ c \notin began

kid_setpgid(c) ==
    /\ OwnGroupDue(c) /\ sys_setpgid(c, c, 0)
    /\ began' = began \cup {c}
    /\ UNCHANGED <<sh, job, next_job_id, fg_pgid, role, lapse>>

\* Then exec and the program: it makes calls, reads the terminal, and ends.
kid_call(c) == ~OwnGroupDue(c) /\ sys_other(c) /\ UNCHANGED shvars
kid_read(c) == ~OwnGroupDue(c) /\ tty_read(c) /\ UNCHANGED sh
kid_exit(c) == ~OwnGroupDue(c) /\ (\E x \in Status : sys_exit(c, x)) /\ UNCHANGED shvars

\* Ctrl-C and Ctrl-Z signal the foreground group.
key(s) == tty_signal(fg_pgid, s) /\ UNCHANGED shvars

Kid == Proc \ {1}

ShellNext ==
    \/ ShellStep
    \/ \E c \in Kid : kid_start(c) \/ kid_setpgid(c) \/ kid_call(c) \/ kid_read(c) \/ kid_exit(c)
    \/ \E s \in Sig : key(s)

\* The shell's and a starting child's threads get the CPU (ReadyThreadRuns of
\* Sched), somebody types lines, and the programs it starts come to an end.  A
\* child has finitely many such steps, so fairness to all of them together does.
ShellSpec ==
    /\ ShellInit /\ [][ShellNext]_allvars
    /\ WF_allvars(ShellStep)
    /\ WF_allvars(\E c \in Kid : kid_start(c) \/ kid_setpgid(c) \/ kid_exit(c))

----------------------------------------------------------------------------
(* Properties                                                              *)

\* The types of the shell's state.
ShellTypeOK ==
    /\ sh \in Locals
    /\ job \in [Slot -> [pid : Proc \cup {NULL}, id : 0..MaxProc, stopped : BOOLEAN]]
    /\ next_job_id \in 1..(MaxProc + 1)
    /\ fg_pgid \in Proc

\* The job table tells the truth, as long as every foreground wait was answered by
\* the command it waited for and job_alloc found a slot: each entry is a different
\* child, still there to be waited for; one marked stopped is stopped, and its
\* parent has been told; and every command with a group of its own whose stop was
\* reported is in the table as stopped, so fg and bg can bring it back.  (Between
\* the wait and the bookkeeping behind tcsetpgrp, the waited command is exempt.)
\* main's "Ignore SIGTSTP so shell can't be stopped": nor is the shell, then.
JobsTracked ==
    /\ ShellTypeOK
    /\ \A i, k \in InUse : i # k => job[i].pid # job[k].pid /\ job[i].id # job[k].id
    /\ ~At("setpgid") /\ ~At("tcsetpgrp") /\ ~At("signal") => proc[1].state # "STOPPED"
    /\ ~lapse =>
        LET exempt == IF At("reclaim") THEN sh.kids ELSE {}
            Reported1(c) == proc[c].state = "STOPPED" /\ proc[c].exit_status = 0
        IN  /\ \A i \in InUse : job[i].pid \notin exempt =>
                  /\ proc[job[i].pid].state \in {"ALIVE", "STOPPED", "ZOMBIE"}
                  /\ proc[job[i].pid].pgid = job[i].pid
                  /\ job[i].stopped => Reported1(job[i].pid)
            /\ \A c \in Kid \ exempt : role[c] = "own" /\ Reported1(c) =>
                  \E i \in InUse : job[i].pid = c /\ job[i].stopped

\* Whatever the keyboard does to the commands, the shell comes back to its prompt,
\* if the programs it starts end: no wait of it is left without an answer, through
\* stops, continues, pipelines and jobs, until a background child answers a
\* foreground wait (or the shell itself is stopped before main ignores SIGTSTP,
\* or exits).
PromptReturns ==
    (sh.pc # "reading") ~> (sh.pc = "reading" \/ lapse \/ proc[1].state # "ALIVE")
=============================================================================
