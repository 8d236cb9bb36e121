--------------------------------- MODULE Vfs ---------------------------------
(***************************************************************************)
(* kernel/fs/path.c and kernel/fs/vfs.c.  A name is a string of one        *)
(* character, "" stands for nothing; an absolute path is the sequence of   *)
(* what follows each '/', so <<"">> is "/" and <<"", "b">> is "//b".  An   *)
(* input is [abs, comps].                                                  *)
(*                                                                         *)
(* The file systems are a record                                           *)
(*   [node, mounts, pid_dirs_next, pid_status_next]                        *)
(* and every operation that resolves a path returns it, because a lookup   *)
(* in /proc recycles nodes.  cred is the calling process; NULL is a failed *)
(* call, whose errno is left out.                                          *)
(***************************************************************************)
EXTENDS Pseudofs

CONSTANTS PATH_MAX, VFS_MAX_MOUNTS

ASSUME PathAssumption == PATH_MAX \in Nat \ {0, 1}

Root == <<"">>
Length(out) == FoldLeft(LAMBDA n, c : n + (IF c = "" THEN 1 ELSE 2), 0, out)

\* acc = [out, err]; '/', the name and a NUL must fit.
append_component(acc, comp) ==
    IF Length(acc.out) + 2 >= PATH_MAX THEN [acc EXCEPT !.err = TRUE]
    ELSE [acc EXCEPT !.out = Append(@, comp)]

\* Back to the previous '/', which goes too unless it is the first character.
pop_component(acc) ==
    [acc EXCEPT !.out = IF Len(@) > 1 THEN Front(@) ELSE IF @ = <<>> THEN @ ELSE Root]

\* Mutant: ".." is skipped like ".".
process_input_flat(comps, acc) ==
    FoldLeft(LAMBDA a, c : IF a.err \/ c \in {"", ".", ".."} THEN a ELSE append_component(a, c),
             acc, comps)

process_input(comps, acc) ==
    FoldLeft(LAMBDA a, c : CASE a.err -> a
                             [] ~a.err /\ c \in {"", "."} -> a
                             [] ~a.err /\ c = ".." -> pop_component(a)
                             [] ~a.err /\ c \notin {"", ".", ".."} -> append_component(a, c),
             acc, comps)

path_normalize(cwd, input) ==
    LET empty == [out |-> <<>>, err |-> FALSE]
        start == IF input.abs THEN empty ELSE process_input(cwd, empty)
        Whole(a) == [a EXCEPT !.out = IF @ = <<>> THEN Root ELSE @]
    IN Whole(process_input(input.comps, start))

-----------------------------------------------------------------------------
\* What the components of an input mean, one directory at a time.
Reference(cwd, input) ==
    FoldLeft(LAMBDA at, c : CASE c \in {"", "."} -> at
                              [] c = ".." -> IF at = <<>> THEN at ELSE Front(at)
                              [] c \notin {"", ".", ".."} -> Append(at, c),
             <<>>, (IF input.abs THEN <<>> ELSE cwd) \o input.comps)

Names(path) == SelectSeq(path, LAMBDA c : c # "")

-----------------------------------------------------------------------------

MayAll(node, cred) ==
    CASE cred.euid = node.uid -> "u"
      [] cred.euid # node.uid /\ cred.egid = node.gid -> "g"
      [] cred.euid # node.uid /\ cred.egid # node.gid -> "o"

vfs_check_perm(node, cred, want) ==
    cred.euid = 0 \/ {MayAll(node, cred)} \X want \subseteq node.mode

vfs_find_mount(fs, name) ==
    LET At(i) == IF i = 0 THEN NULL ELSE fs.mounts[i].node
    IN At(SelectInSeq(fs.mounts, LAMBDA m : m.name = name))

\* node->ops->lookup
lookup(at, name, pids) ==
    CASE at.fs.node[at.n].type # "dir" -> [at EXCEPT !.n = NULL]
      [] at.fs.node[at.n].ops = "ramfs" ->
           [at EXCEPT !.n = ramfs_lookup(at.fs.node[at.n], name)]
      [] at.fs.node[at.n].ops = "devdir" -> devfs_dir_lookup(at, name)
      [] at.fs.node[at.n].ops = "procroot" -> procfs_root_lookup(at, name, pids)
      [] at.fs.node[at.n].ops = "piddir" -> procfs_pid_lookup(at, name)

\* One component: the directory first, the mount table for the root only.
Step(at, name, pids) ==
    LET Mounted(c) == IF c.n = NULL /\ at.n = RootNode
                      THEN [c EXCEPT !.n = vfs_find_mount(c.fs, name)] ELSE c
    IN IF at.n = NULL THEN at ELSE Mounted(lookup(at, name, pids))

Walk(fs, names, pids) ==
    FoldLeft(LAMBDA at, name : Step(at, name, pids), [fs |-> fs, n |-> RootNode], names)

vfs_resolve(fs, path, pids) == Walk(fs, Names(path), pids)

\* The parent is what precedes the last '/'; the components are consumed up
\* to it, and a component that ends past it is consumed too.
vfs_resolve_parent(fs, path, pids) ==
    LET Dir(at) == IF at.n # NULL /\ at.fs.node[at.n].type # "dir"
                   THEN [at EXCEPT !.n = NULL] ELSE at
    IN CASE path = Root -> [fs |-> fs, n |-> NULL]
         [] Len(path) = 1 /\ path # Root -> [fs |-> fs, n |-> RootNode]
         [] Len(path) > 1 /\ Names(Front(path)) = <<>> ->
              Dir(Walk(fs, SubSeq(Names(path), 1, 1), pids))
         [] Len(path) > 1 /\ Names(Front(path)) # <<>> ->
              Dir(Walk(fs, Names(Front(path)), pids))

\* ops->create after the checks vfs_open and vfs_mkdir share, and the
\* ownership they set on the new node.
Create(at, path, cred, type, mode) ==
    IF /\ at.n # NULL
       /\ vfs_check_perm(at.fs.node[at.n], cred, {"w", "x"})
       /\ at.fs.node[at.n].ops = "ramfs"
       /\ CanCreate(at.fs.node, at.n, Last(path))
    THEN LET new == NewNode(at.fs.node)
         IN [fs |-> [at.fs EXCEPT !.node =
                       [ramfs_create(@, at.n, Last(path), type) EXCEPT
                            ![new].uid = cred.euid, ![new].gid = cred.egid,
                            ![new].mode = mode \ cred.umask]],
             n |-> new]
    ELSE [at EXCEPT !.n = NULL]

Want(flags) == (IF flags.acc \in {"r", "rw"} THEN {"r"} ELSE {})
                 \cup (IF flags.acc \in {"w", "rw"} THEN {"w"} ELSE {})

vfs_open(fs, path, flags, cred, pids) ==
    LET Checked(at) == IF vfs_check_perm(at.fs.node[at.n], cred, Want(flags))
                       THEN at ELSE [at EXCEPT !.n = NULL]
        NodeFor(at) ==
            CASE at.n # NULL -> Checked(at)
              [] at.n = NULL /\ ~flags.creat -> at
              [] at.n = NULL /\ flags.creat ->
                   Create(vfs_resolve_parent(at.fs, path, pids), path, cred, "file", Mode0666)
        Truncated(at) ==
            IF flags.trunc /\ at.fs.node[at.n].ops = "ramfs"
            THEN [at EXCEPT !.fs.node[at.n] = ramfs_truncate(@)] ELSE at
        Finish(at) ==
            CASE at.n = NULL -> at
              [] at.n # NULL /\ at.fs.node[at.n].type = "dir" -> [at EXCEPT !.n = NULL]
              [] at.n # NULL /\ at.fs.node[at.n].type # "dir" -> Truncated(at)
    IN Finish(NodeFor(vfs_resolve(fs, path, pids)))

OpenOffset(at, flags) == IF flags.append THEN at.fs.node[at.n].size ELSE 0

\* Where vfs_write puts the bytes.
WriteOffset(node, file) == IF file.flags.append THEN node.size ELSE file.offset

\* What vfs_seek computes; negative is refused.
SeekTo(node, file, offset, whence) ==
    CASE whence = "SET" -> offset
      [] whence = "CUR" -> file.offset + offset
      [] whence = "END" -> node.size + offset

vfs_mkdir(fs, path, mode, cred, pids) ==
    LET Fresh(at) == IF at.n # NULL THEN [at EXCEPT !.n = NULL]
                     ELSE Create(vfs_resolve_parent(at.fs, path, pids),
                                 path, cred, "dir", mode)
    IN Fresh(vfs_resolve(fs, path, pids))

vfs_unlink(fs, path, cred, pids) ==
    LET Gone(at) ==
            IF /\ at.n # NULL
               /\ vfs_check_perm(at.fs.node[at.n], cred, {"w", "x"})
               /\ at.fs.node[at.n].ops = "ramfs"
               /\ CanUnlink(at.fs.node, at.n, Last(path))
            THEN [at.fs EXCEPT !.node = ramfs_unlink(@, at.n, Last(path))]
            ELSE at.fs
    IN Gone(vfs_resolve_parent(fs, path, pids))

vfs_mount(fs, name, root) ==
    IF vfs_find_mount(fs, name) # NULL \/ Len(fs.mounts) >= VFS_MAX_MOUNTS THEN fs
    ELSE [fs EXCEPT !.mounts = Append(@, Kid(name, root))]

\* Names and nodes vfs_readdir lists for directory d.
vfs_readdir(fs, d, max, pids) ==
    LET listed == CASE fs.node[d].ops \in {"ramfs", "devdir"} -> fs.node[d].kids
                    [] fs.node[d].ops = "procroot" ->
                         <<Kid("meminfo", Meminfo), Kid("uptime", Uptime)>>
                           \o SetToSeq({Kid(PidName[p], NULL) : p \in pids})
                    [] fs.node[d].ops = "piddir" -> <<Kid("status", NULL)>>
        Cut(s) == SubSeq(s, 1, Min({Len(s), max}))
    IN Cut(IF d = RootNode THEN listed \o fs.mounts ELSE listed)
=============================================================================
