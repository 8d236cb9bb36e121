----------------------------- MODULE MCProcess -----------------------------
(***************************************************************************)
(* Two instances of Process in one run: a pair of processes that use every *)
(* system call, and a family of three, as a chain or as siblings, that     *)
(* keep the default handlers and the first group and send no SIGKILL.      *)
(***************************************************************************)
EXTENDS Process

VARIABLE scope

InScope ==
    CASE scope = "pair"   -> next_pid <= 3
      [] scope = "family" -> \A p \in Proc : proc[p].state # "NONE" =>
             /\ proc[p].pgid = 1
             /\ \A s \in Caught : proc[p].handlers[s] = "SIG_DFL"
             /\ SIGKILL \notin proc[p].pending /\ proc[p].exit_status # 128 + SIGKILL

MCInit == Init /\ scope \in {"pair", "family"}
MCNext == Next /\ UNCHANGED scope /\ InScope'

\* The fairness of FairSpec: no step of sys_wait leaves the scope.
MCSpec ==
    /\ MCInit /\ [][MCNext]_<<vars, scope>>
    /\ \A p \in Proc : WF_vars(proc[p].at = "wait" /\ sys_wait(p, FALSE))
=============================================================================
