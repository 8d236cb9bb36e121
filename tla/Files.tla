-------------------------------- MODULE Files --------------------------------
(***************************************************************************)
(* The file system calls of kernel/arch/x86_64/syscall.c and the           *)
(* descriptor tables of kernel/proc/fd.c, over Vfs.  A system call runs    *)
(* with interrupts off and is one step; any live process may make the next *)
(* one.  An operation on a freed node is a fault and stops the machine.    *)
(***************************************************************************)
EXTENDS Vfs

CONSTANTS MaxProc, MAX_FDS, Users, Inputs, Opens, Modes, Offsets, MaxSize,
          MaxOps, MaxCalls    \* calls of kind k, and of any kind, that change something

VARIABLES fs, procs, ops, fault
vars == <<fs, procs, ops, fault>>

Pid == 1 .. MaxProc
FD == 0 .. MAX_FDS - 1
Pids == {p \in Pid : procs[p].state \in {"ALIVE", "ZOMBIE"}}

NoFlags == [acc |-> "r", creat |-> FALSE, trunc |-> FALSE, append |-> FALSE]
\* opened and at are history: the process whose status the node was when the
\* descriptor was opened, and how many status lookups there had been.
NoFile == [node |-> NULL, offset |-> 0, flags |-> NoFlags, opened |-> 0, at |-> 0]
fd_table_init == [f \in FD |-> [in_use |-> FALSE, file |-> NoFile]]

NoProc == [state |-> "NONE", cwd |-> Root, uid |-> 0, gid |-> 0, euid |-> 0, egid |-> 0,
           umask |-> {}, fds |-> fd_table_init, dup2 |-> FALSE]
Umask022 == {"g", "o"} \X {"w"}

FreeFds(p) == {f \in FD : ~procs[p].fds[f].in_use}
fd_alloc(p) == Min(FreeFds(p))
fd_get(p, f) == procs[p].fds[f].in_use

\* process 1 is init: root, its table empty (init_launch); vfs_setup has made
\* a directory and two programs, and mounted devfs and procfs.
Boot ==
    LET root == [NoProc EXCEPT !.state = "ALIVE"]
        ram == [n \in RamNode |-> IF n = RootNode THEN ramfs_init ELSE FreeNode]
        table == [n \in RamNode \cup StaticNode |->
                    CASE n \in RamNode -> ram[n]
                      [] n \in DOMAIN devfs_init -> devfs_init[n]
                      [] n \in DOMAIN procfs_init -> procfs_init[n]
                      [] n \in DirSlots \cup StatusSlots -> FreeNode]
        empty == [node |-> table, mounts |-> <<>>, pid_dirs_next |-> 0, pid_status_next |-> 0]
        program == [NoFlags EXCEPT !.acc = "w", !.creat = TRUE]
        Written(at) == [at.fs EXCEPT !.node[at.n] = ramfs_write(@, <<1, 1>>, 0)]
        Home(f) == vfs_mkdir(f, <<"a">>, Mode0755, root, {}).fs
        Install(f, name) == Written(vfs_open(f, <<"a", name>>, program, root, {}))
        Programs(f) == Install(Install(f, "b"), "d")
    IN vfs_mount(vfs_mount(Programs(Home(empty)), "dev", DevRoot), "proc", ProcRoot)

Init ==
    /\ fs = Boot
    /\ procs = [p \in Pid |-> IF p = 1 THEN [NoProc EXCEPT !.state = "ALIVE", !.umask = Umask022]
                              ELSE NoProc]
    /\ ops = [k \in DOMAIN MaxOps |-> 0]
    /\ fault = FALSE

-----------------------------------------------------------------------------
CallsLeft(k) == ops[k] < MaxOps[k] /\ ops["file"] + ops["path"] + ops["process"] < MaxCalls
Running(p, k) == procs[p].state = "ALIVE" /\ ~fault /\ CallsLeft(k)
Spend(k) == ops' = [ops EXCEPT ![k] = IF <<fs, procs>>' = <<fs, procs>> THEN @ ELSE @ + 1]

\* resolve_user_path
Abs(p, input) == path_normalize(procs[p].cwd, input)

\* The entry sys_open leaves: fd_free puts a failed one back.
Entry(p, at, flags) ==
    IF at.n = NULL THEN procs[p].fds[fd_alloc(p)]
    ELSE [in_use |-> TRUE,
          file |-> [node |-> at.n, offset |-> OpenOffset(at, flags), flags |-> flags,
                    opened |-> at.fs.node[at.n].pid, at |-> at.fs.pid_status_next]]

sys_open(p, input, flags) ==
    /\ Running(p, "file")
    /\ FreeFds(p) # {}
    /\ \E abs \in {Abs(p, input)} :
        /\ ~abs.err
        /\ \E at \in {vfs_open(fs, abs.out, flags, procs[p], Pids)} :
            /\ fs' = at.fs
            /\ procs' = [procs EXCEPT ![p].fds[fd_alloc(p)] = Entry(p, at, flags)]
    /\ UNCHANGED fault
    /\ Spend("file")

\* A descriptor whose node was freed under it: its ops table is not one.
Dangling(p, f) == fd_get(p, f) /\ fs.node[procs[p].fds[f].file.node].type = "free"

\* The number of bytes ops->read returns.
ReadLen(n, offset, size) ==
    CASE n.ops = "ramfs" -> Len(ramfs_read(n, offset, size))
      [] n.ops = "zero" -> size
      [] n.ops = "procfile" /\ n.pid = 0 -> Min({size, Max({0, 1 - offset})})
      [] n.ops = "procfile" /\ n.pid # 0 ->
           Min({size, Max({0, Len(gen_pid_status(n, procs)) - offset})})
      [] n.ops \in {"null", "tty", "none"} -> 0

sys_read(p, f, size) ==
    /\ Running(p, "file")
    /\ fd_get(p, f)
    /\ procs[p].fds[f].file.flags.acc # "w"
    /\ \E file \in {procs[p].fds[f].file} :
        /\ fault' = Dangling(p, f)
        /\ procs' = [procs EXCEPT ![p].fds[f].file.offset =
                        @ + ReadLen(fs.node[file.node], file.offset, size)]
    /\ UNCHANGED fs
    /\ Spend("file")

\* vfs_write; ramfs is the only file system here that keeps what it is given,
\* and a procfs file has no write.
sys_write(p, f, byte) ==
    /\ Running(p, "file")
    /\ fd_get(p, f)
    /\ procs[p].fds[f].file.flags.acc # "r"
    /\ \E file \in {procs[p].fds[f].file} : \E n \in {fs.node[file.node]} :
        /\ n.ops # "procfile"
        /\ WriteOffset(n, file) + 2 <= MaxSize
        /\ fault' = Dangling(p, f)
        /\ fs' = [fs EXCEPT !.node[file.node] =
                    IF n.ops = "ramfs"
                    THEN ramfs_write(n, <<byte, byte>>, WriteOffset(n, file)) ELSE n]
        /\ procs' = [procs EXCEPT ![p].fds[f].file.offset = WriteOffset(n, file) + 2]
    /\ Spend("file")

sys_close(p, f) ==
    /\ Running(p, "file")
    /\ fd_get(p, f)
    /\ procs' = [procs EXCEPT ![p].fds[f] = [in_use |-> FALSE, file |-> NoFile]]
    /\ fault' = Dangling(p, f)
    /\ UNCHANGED fs
    /\ Spend("file")

sys_lseek(p, f, offset, whence) ==
    /\ Running(p, "file")
    /\ fd_get(p, f)
    /\ \E file \in {procs[p].fds[f].file} :
         \E to \in {SeekTo(fs.node[file.node], file, offset, whence)} :
            /\ 0 <= to /\ to <= MaxSize
            /\ procs' = [procs EXCEPT ![p].fds[f].file.offset = to]
    /\ UNCHANGED <<fs, fault>>
    /\ Spend("file")

sys_dup(p, f) ==
    /\ Running(p, "file")
    /\ fd_get(p, f)
    /\ FreeFds(p) # {}
    /\ procs' = [procs EXCEPT ![p].fds[fd_alloc(p)] = procs[p].fds[f]]
    /\ UNCHANGED <<fs, fault>>
    /\ Spend("file")

sys_dup2(p, f, g) ==
    /\ Running(p, "file")
    /\ fd_get(p, f) /\ f # g
    /\ procs' = [procs EXCEPT ![p].fds[g] = procs[p].fds[f], ![p].dup2 = TRUE]
    /\ UNCHANGED <<fs, fault>>
    /\ Spend("file")

-----------------------------------------------------------------------------
\* The calls by path: Abs, then the operation, which may recycle /proc nodes.
ByPath(p, input, Op(_)) ==
    /\ Running(p, "path")
    /\ \E abs \in {Abs(p, input)} : ~abs.err /\ Op(abs.out)
    /\ UNCHANGED fault
    /\ Spend("path")

sys_stat(p, input) ==
    LET Op(path) == fs' = vfs_resolve(fs, path, Pids).fs /\ UNCHANGED procs
    IN ByPath(p, input, Op)

sys_mkdir(p, input, mode) ==
    LET Op(path) == /\ fs' = vfs_mkdir(fs, path, mode, procs[p], Pids).fs
                    /\ UNCHANGED procs
    IN ByPath(p, input, Op)

sys_unlink(p, input) ==
    LET Op(path) == fs' = vfs_unlink(fs, path, procs[p], Pids) /\ UNCHANGED procs
    IN ByPath(p, input, Op)

sys_chdir(p, input) ==
    LET Op(path) == \E at \in {vfs_resolve(fs, path, Pids)} :
            /\ fs' = at.fs
            /\ procs' = [procs EXCEPT ![p].cwd =
                            IF at.n # NULL /\ at.fs.node[at.n].type = "dir" THEN path ELSE @]
    IN ByPath(p, input, Op)

sys_chmod(p, input, mode) ==
    LET Op(path) == \E at \in {vfs_resolve(fs, path, Pids)} :
            /\ fs' = IF at.n # NULL /\ procs[p].euid \in {0, at.fs.node[at.n].uid}
                     THEN [at.fs EXCEPT !.node[at.n].mode = mode] ELSE at.fs
            /\ UNCHANGED procs
    IN ByPath(p, input, Op)

sys_chown(p, input, uid, gid) ==
    LET Op(path) == \E at \in {vfs_resolve(fs, path, Pids)} :
            /\ fs' = IF at.n # NULL /\ procs[p].euid = 0
                     THEN [at.fs EXCEPT !.node[at.n].uid = uid, !.node[at.n].gid = gid]
                     ELSE at.fs
            /\ UNCHANGED procs
    IN ByPath(p, input, Op)

\* exec_read_elf opens the program for reading and gives up on an empty one;
\* elf_load accepts an image that begins with byte 1.
Program(at) == at.n # NULL /\ ramfs_read(at.fs.node[at.n], 0, 1) = <<1>>

\* The path is resolved again for the set-id bits.  Descriptors stay open.
sys_exec(p, input) ==
    LET Op(path) == \E at \in {vfs_open(fs, path, NoFlags, procs[p], Pids)} :
            /\ fs' = at.fs
            /\ procs' = IF ~Program(at) THEN procs
                        ELSE [procs EXCEPT
                          ![p].euid = IF <<"s", "u">> \in at.fs.node[at.n].mode
                                      THEN at.fs.node[at.n].uid ELSE @,
                          ![p].egid = IF <<"s", "g">> \in at.fs.node[at.n].mode
                                      THEN at.fs.node[at.n].gid ELSE @]
    IN ByPath(p, input, Op)

-----------------------------------------------------------------------------
Own(p, rec) ==
    /\ Running(p, "process")
    /\ procs' = [procs EXCEPT ![p] = rec]
    /\ UNCHANGED <<fs, fault>>
    /\ Spend("process")

sys_setuid(p, u) == procs[p].euid = 0 /\ Own(p, [procs[p] EXCEPT !.uid = u, !.euid = u])

sys_setgid(p, g) == procs[p].euid = 0 /\ Own(p, [procs[p] EXCEPT !.gid = g, !.egid = g])

sys_umask(p, mask) == Own(p, [procs[p] EXCEPT !.umask = mask \cap (Who \X {"r", "w", "x"})])

\* Every descriptor goes; the process stays in the list until it is reaped.
sys_exit(p) ==
    p # 1 /\ Own(p, [procs[p] EXCEPT !.state = "ZOMBIE",
                     !.fds = [f \in FD |-> [procs[p].fds[f] EXCEPT !.in_use = FALSE]]])

\* proc_reap by the parent's waitpid, which takes the child off the list.
proc_reap(p) ==
    /\ procs[p].state = "ZOMBIE" /\ ~fault /\ CallsLeft("process")
    /\ procs' = [procs EXCEPT ![p] = [NoProc EXCEPT !.state = "GONE"]]
    /\ UNCHANGED <<fs, fault>>
    /\ Spend("process")

\* proc_fork: fd_table_dup, the working directory and the identities.  Process
\* numbers are not used again.
sys_fork(p, c) ==
    /\ Running(p, "process")
    /\ procs[c].state = "NONE"
    /\ procs' = [procs EXCEPT ![c] = procs[p]]
    /\ UNCHANGED <<fs, fault>>
    /\ Spend("process")

FileCall(p) ==
    \/ \E o \in Opens : sys_open(p, o.input, o.flags)
    \/ \E f \in FD, n \in {2} : sys_read(p, f, n)
    \/ \E f \in FD, b \in {1, 2} : sys_write(p, f, b)
    \/ \E f \in FD : sys_close(p, f) \/ sys_dup(p, f)
    \/ \E f \in FD : sys_dup2(p, f, 1)
    \/ \E f \in FD, o \in Offsets, w \in {"SET", "CUR", "END"} : sys_lseek(p, f, o, w)

PathCall(p) ==
    \/ \E i \in Inputs : sys_stat(p, i) \/ sys_unlink(p, i) \/ sys_chdir(p, i) \/ sys_exec(p, i)
    \/ \E i \in Inputs, m \in Modes : sys_mkdir(p, i, m) \/ sys_chmod(p, i, m)
    \/ \E i \in Inputs, u \in Users : sys_chown(p, i, u, u)

ProcessCall(p) ==
    \/ \E u \in Users : sys_setuid(p, u) \/ sys_setgid(p, u)
    \/ \E m \in Modes : sys_umask(p, m)
    \/ \E c \in Pid : sys_fork(p, c)
    \/ sys_exit(p)
    \/ proc_reap(p)

Next == \E p \in Pid : FileCall(p) \/ PathCall(p) \/ ProcessCall(p)

Spec == Init /\ [][Next]_vars

-----------------------------------------------------------------------------
File ==
    [node : {NULL} \cup DOMAIN fs.node, offset : 0 .. MaxSize, flags : {NoFlags} \cup {o.flags : o \in Opens},
     opened : 0 .. MaxProc, at : Nat]

\* The state has its shape; a descriptor in use is one whose open succeeded,
\* with a node behind it, and a size never exceeds the buffer that holds it.
TypeOK ==
    /\ \A p \in Pid :
        /\ procs[p].state \in {"NONE", "ALIVE", "ZOMBIE", "GONE"}
        /\ \A f \in FD :
            /\ procs[p].fds[f].file \in File
            /\ procs[p].fds[f].in_use => procs[p].fds[f].file.node # NULL
    /\ \A n \in RamNode : fs.node[n].size <= Len(fs.node[n].data)
    /\ fault \in BOOLEAN

KidNodes(d) == {fs.node[d].kids[i].node : i \in DOMAIN fs.node[d].kids}
RamDirs == {d \in RamNode : fs.node[d].type = "dir"}

\* ramfs stays a tree whatever order mkdir, open and unlink come in: every
\* live node but the root is in exactly one directory, under one name, every
\* entry is a live node, and every node is reached from the root.
TreeSound ==
    /\ \A d \in RamDirs :
        /\ KidNodes(d) \subseteq RamNode \ (FreeRamNodes(fs.node) \cup {RootNode})
        /\ Cardinality(KidNodes(d)) = Len(fs.node[d].kids)
        /\ Cardinality({fs.node[d].kids[i].name : i \in DOMAIN fs.node[d].kids})
             = Len(fs.node[d].kids)
    /\ \A n \in RamNode \ (FreeRamNodes(fs.node) \cup {RootNode}) :
        Cardinality({d \in RamDirs : n \in KidNodes(d)}) = 1
    /\ \A X \in SUBSET RamDirs :
        (RootNode \in X /\ \A d \in X : KidNodes(d) \cap RamDirs \subseteq X) => X = RamDirs

\* What readdir of "/" lists is what a lookup finds: the names are distinct,
\* and each resolves to the node listed beside it; no mount point is ever
\* hidden by a file or directory of the root.
ListedIsFound ==
    \E listed \in {vfs_readdir(fs, RootNode, 2 * RAMFS_MAX_CHILDREN, Pids)} :
        /\ {"dev", "proc"} \subseteq {listed[i].name : i \in DOMAIN listed}
        /\ \A i \in DOMAIN listed :
            vfs_resolve(fs, <<listed[i].name>>, Pids).n = listed[i].node

\* The file system is a tree and its root lists what it holds.
NamesSound == TypeOK /\ TreeSound /\ ListedIsFound

\* procfs recycles its PROCFS_PID_POOL status nodes: a descriptor opened on
\* the status of a process reads that process until as many status lookups
\* have been made since as there are nodes.
StatusOfOpened ==
    \A p \in Pid, f \in FD :
        \E e \in {procs[p].fds[f]} :
            (e.in_use /\ e.file.node \in StatusSlots
               /\ fs.pid_status_next - e.file.at < PROCFS_PID_POOL)
            => fs.node[e.file.node].pid = e.file.opened

Asked == Inputs \cup {o.input : o \in Opens}

\* The path a call works on names what its argument means: walking its
\* components from the root goes where walking the argument's components
\* from the working directory goes, one directory at a time.
PathMeans ==
    \A p \in Pids, i \in Asked :
        \E abs \in {Abs(p, i)} : ~abs.err => Names(abs.out) = Reference(procs[p].cwd, i)

\* path.h: "a normalized absolute path", with "//" collapsed.
\* No component of the path a call works on is empty, the root's apart.
PathNormalized ==
    \A p \in Pids, i \in Asked :
        \E abs \in {Abs(p, i)} : ~abs.err => abs.out = Root \/ Names(abs.out) = abs.out

\* sys_write's comment: descriptors 1 and 2 are the terminal "unless
\* redirected via dup2": no process that never called dup2, nor any ancestor
\* of it, has a file behind one of them.
StdoutIsTty ==
    \A p \in Pids, f \in {1, 2} : procs[p].fds[f].in_use => procs[p].dup2

-----------------------------------------------------------------------------
Content(n) == SubSeq(fs.node[n].data, 1, fs.node[n].size)

Writers(n) == {<<p, f>> \in Pid \X FD :
                  procs[p].fds[f].in_use /\ procs[p].fds[f].file.node = n
                    /\ procs[p].fds[f].file.flags.acc # "r"}

\* A file all of whose writers opened it to append is never overwritten,
\* however many descriptors with however old an offset write to it: what it
\* held stays its beginning until it is truncated or removed.
AppendOnly ==
    [][\A n \in RamNode :
         (\A w \in Writers(n) : procs[w[1]].fds[w[2]].file.flags.append)
         => \/ Content(n)' = <<>>
            \/ IsPrefix(Content(n), Content(n)')]_vars

Store == INSTANCE FileStore WITH
    FileId <- RamNode, Byte <- 0 .. 2, file <- [n \in RamNode |-> Content(n)]

\* The files keep what they were given: the store of the contents is one in
\* which a write overlays bytes at its offset, after zeros when it starts
\* past the end, whatever the buffer held before it grew or was freed, and files
\* opened to append only grow.
FilesKept == Store!StoreSpec /\ AppendOnly
=============================================================================
