------------------------------ MODULE Pseudofs ------------------------------
(***************************************************************************)
(* kernel/fs/devfs.c and kernel/fs/procfs.c: file systems of static nodes. *)
(* pids is the set of processes in the process list.                       *)
(***************************************************************************)
EXTENDS Ramfs

CONSTANTS PROCFS_PID_POOL, PidName    \* PidName[p] is the decimal name of p

DevRoot == 100
DevNull == 101
DevZero == 102
DevTty == 103
ProcRoot == 200
Meminfo == 201
Uptime == 202
PidDir(i) == 300 + (i % PROCFS_PID_POOL)
PidStatus(i) == 400 + (i % PROCFS_PID_POOL)
Slots == 0 .. PROCFS_PID_POOL - 1
DirSlots == {PidDir(i) : i \in Slots}
StatusSlots == {PidStatus(i) : i \in Slots}
StaticNode == {DevRoot, DevNull, DevZero, DevTty, ProcRoot, Meminfo, Uptime}
                \cup DirSlots \cup StatusSlots

dev_entries == <<Kid("null", DevNull), Kid("zero", DevZero), Kid("tty", DevTty)>>

devfs_init ==
    [n \in {DevRoot, DevNull, DevZero, DevTty} |->
        CASE n = DevRoot -> [Node("dir", "devdir", Mode0755) EXCEPT !.kids = dev_entries]
          [] n = DevNull -> Node("file", "null", Mode0666)
          [] n = DevZero -> Node("file", "zero", Mode0666)
          [] n = DevTty -> Node("file", "tty", Mode0666)]

procfs_init ==
    [n \in {ProcRoot, Meminfo, Uptime} |->
        IF n = ProcRoot THEN Node("dir", "procroot", Mode0555)
        ELSE Node("file", "procfile", Mode0444)]

-----------------------------------------------------------------------------
\* What a lookup in the directory at.n makes of the file systems at.fs, and
\* the node it finds.
devfs_dir_lookup(at, name) == [at EXCEPT !.n = ramfs_lookup(at.fs.node[at.n], name)]

\* Mutant: the pool index is not advanced.
procfs_pid_lookup_same(at, name) ==
    IF name # "status" THEN [at EXCEPT !.n = NULL]
    ELSE [fs |-> [at.fs EXCEPT !.node[PidStatus(0)] =
                     [Node("file", "procfile", Mode0444) EXCEPT !.pid = at.fs.node[at.n].pid],
                  !.pid_status_next = @ + 1],
          n |-> PidStatus(0)]

procfs_pid_lookup(at, name) ==
    IF name # "status" THEN [at EXCEPT !.n = NULL]
    ELSE [fs |-> [at.fs EXCEPT
                     !.node[PidStatus(at.fs.pid_status_next)].type = "file",
                     !.node[PidStatus(at.fs.pid_status_next)].ops = "procfile",
                     !.node[PidStatus(at.fs.pid_status_next)].mode = Mode0444,
                     !.node[PidStatus(at.fs.pid_status_next)].pid = at.fs.node[at.n].pid,
                     !.pid_status_next = @ + 1],
          n |-> PidStatus(at.fs.pid_status_next)]

procfs_root_lookup(at, name, pids) ==
    CASE name = "meminfo" -> [at EXCEPT !.n = Meminfo]
      [] name = "uptime" -> [at EXCEPT !.n = Uptime]
      [] \E p \in pids : PidName[p] = name ->
           [fs |-> [at.fs EXCEPT
                       !.node[PidDir(at.fs.pid_dirs_next)].type = "dir",
                       !.node[PidDir(at.fs.pid_dirs_next)].ops = "piddir",
                       !.node[PidDir(at.fs.pid_dirs_next)].mode = Mode0555,
                       !.node[PidDir(at.fs.pid_dirs_next)].pid =
                            CHOOSE p \in pids : PidName[p] = name,
                       !.pid_dirs_next = @ + 1],
            n |-> PidDir(at.fs.pid_dirs_next)]
      [] name \notin {"meminfo", "uptime"} \cup {PidName[p] : p \in pids} ->
           [at EXCEPT !.n = NULL]

\* The text a procfs file generates, as the facts in it: what a read returns
\* while offset is inside it.  A process that is gone generates nothing.
gen_pid_status(n, procs) ==
    IF n.pid \in DOMAIN procs /\ procs[n.pid].state # "NONE"
    THEN <<[pid |-> n.pid, state |-> procs[n.pid].state,
            uid |-> procs[n.pid].uid, gid |-> procs[n.pid].gid]>>
    ELSE <<>>
=============================================================================
