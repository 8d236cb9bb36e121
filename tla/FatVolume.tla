----------------------------- MODULE FatVolume -----------------------------
(***************************************************************************)
(* A FAT32 volume mounted at /disk and the calls of vfs.c that reach it.   *)
(* A system call is one step; in the course of it a transfer or a kmalloc  *)
(* may fail, or the machine may stop and boot again.                       *)
(*                                                                         *)
(* Programs open a file once at a time, do not remove a file they have     *)
(* open, and remove a directory when it is empty: the VFS checks none of   *)
(* this.  After an error, or a crash in a call that takes clusters, and    *)
(* where the node cache names a cluster that now belongs to another entry, *)
(* no further call is made.                                                *)
(***************************************************************************)
EXTENDS Fat32

CONSTANTS Handles, Paths, Dirs, Offsets, MaxFault, FaultOps, MaxOps, Byte, MaxSize

VARIABLES v,        \* the volume
          h,        \* h[i] = [node, path]: open files
          hist,     \* bad: no further calls; short: a call gave up half way;
                    \* crashed; path: of the last call; made: what mkdir got
          file,     \* what the files hold, as the tree on the volume has it
          ops
vars == <<v, h, hist, file, ops>>

Closed == [node |-> NULL, path |-> <<>>]
NoFault == [kind |-> "none", at |-> 0]
Faults == {NoFault} \cup (IF ops < FaultOps THEN [kind : {"error", "crash"}, at : 0 .. MaxFault] ELSE {})

\* The names a path stands for on the volume.
Names(path) == [i \in DOMAIN path |-> fat32_str_to_name(path[i])]
FileId == {Names(p) : p \in Paths}

\* A disk with one file, A; free clusters hold what they held before.
NameA == fat32_str_to_name(<<"a">>)
Init ==
    /\ v = fat32_mount([c \in Cluster |-> IF c \in {2, 3} THEN EOC ELSE FREE],
                       [c \in Cluster |->
                          IF c = 2 THEN [ZeroCluster EXCEPT ![1] = [Dirent(NameA, FALSE, 3) EXCEPT !.size = 2]]
                          ELSE [i \in 1 .. EPC |-> Data(9)]])
    /\ h = [i \in Handles |-> Closed]
    /\ hist = [bad |-> FALSE, short |-> FALSE, crashed |-> FALSE, stale |-> FALSE, made |-> NULL, path |-> <<>>]
    /\ file = [f \in FileId |-> IF f = <<NameA>> THEN <<9, 9>> ELSE <<>>]
    /\ ops = 0

-----------------------------------------------------------------------------
(* What is on the volume *)
Before(cells) == SubSeq(cells, 1, Min({i \in DOMAIN cells : cells[i].tag = "zero"} \cup {Len(cells) + 1}) - 1)
EntriesOf(m, dc) ==
    LET In(cells) == {[dc |-> dc, idx |-> i - 1, e |-> cells[i]] :
                        i \in {j \in DOMAIN cells : cells[j].tag = "ent" /\ ~IsDot(cells[j].name)}}
    IN In(Before(Stored(m, dc)))
DirClusters(m) == {RootCluster} \cup {x.e.fc : x \in {y \in EntriesOf(m, RootCluster) : y.e.dir}}
Entries(m) == UNION {EntriesOf(m, dc) : dc \in DirClusters(m)}

Value(cell) == CASE cell.tag = "data" -> cell.val [] cell.tag = "zero" -> 0 [] OTHER -> -1
Contents(m, e) ==
    IF e.fc = 0 THEN <<>>
    ELSE LET Values(cells) == [i \in 1 .. Min({e.size, Len(cells)}) |-> Value(cells[i])]
         IN Values(Stored(m, e.fc))

\* The entry a list of names leads to, as a set of at most one.
At(m, names) ==
    LET In(dcs, n) == {x \in UNION {EntriesOf(m, dc) : dc \in dcs} : x.e.name = n}
    IN IF Len(names) = 1 THEN In({RootCluster}, names[1])
       ELSE In({x.e.fc : x \in {y \in In({RootCluster}, names[1]) : y.e.dir}}, names[2])
FileOf(m) ==
    [f \in FileId |-> LET xs == {x \in At(m, f) : ~x.e.dir}
                      IN IF xs = {} THEN <<>> ELSE Contents(m, (CHOOSE x \in xs : TRUE).e)]

\* The cache would return, for an entry, the node of another one.
Stale(m) ==
    \E x \in Entries(m) : cache_lookup(m, x.e.fc) # NULL /\
        LET n == m.node[cache_lookup(m, x.e.fc)]
        IN <<n.dir, n.fc, n.dc, n.idx>> # <<x.e.dir, x.e.fc, x.dc, x.idx>>

-----------------------------------------------------------------------------
(* Calls *)
vfs_resolve(m, path) ==
    LET Step(r, s) == IF r.node = NULL \/ ~r.v.node[r.node].dir THEN [r EXCEPT !.node = NULL]
                      ELSE fat32_lookup(r.v, r.node, s)
    IN FoldLeft(Step, [v |-> m, node |-> 1], path)

\* A call at path that leaves volume m and descriptors nh.  A fault that it
\* never meets is no case of its own.  allocates: the call may take clusters.
Finish(f, m, nh, path, allocates, short, made) ==
    /\ f.kind # "none" => m.io > f.at
    /\ v' = IF f.kind = "crash" THEN fat32_mount(m.dfat, m.data)
            ELSE [m EXCEPT !.io = 0, !.fault = NoFault]
    /\ h' = IF f.kind = "crash" THEN [i \in Handles |-> Closed] ELSE nh
    /\ hist' = [bad |-> f.kind = "error" \/ (f.kind = "crash" /\ allocates),
                short |-> hist.short \/ (f.kind = "none" /\ short),
                crashed |-> hist.crashed \/ f.kind = "crash", stale |-> Stale(v'),
                made |-> made, path |-> path]
    /\ file' = FileOf(v')

Ready == ~hist.bad /\ ~hist.stale /\ ops < MaxOps /\ ops' = ops + 1
Struck(f) == [v EXCEPT !.fault = f]
Open(path) == \E i \in Handles : h[i].path = Names(path)

\* open with O_CREAT: the file is found or made, and emptied with O_TRUNC.
Opened(r, path, trunc) ==
    LET Cut(q) == IF trunc THEN [q EXCEPT !.v = fat32_truncate(q.v, q.node)] ELSE q
        Plain(q) == IF q.node = NULL \/ q.v.node[q.node].dir THEN [q EXCEPT !.node = NULL] ELSE Cut(q)
        In(p) == IF p.node = NULL \/ ~p.v.node[p.node].dir THEN [p EXCEPT !.node = NULL]
                 ELSE fat32_create(p.v, p.node, Last(path), FALSE)
    IN IF r.node # NULL THEN Plain(r) ELSE Plain(In(vfs_resolve(r.v, Front(path))))

sys_open(path, trunc, f) ==
    /\ Ready /\ ~Open(path)
    /\ \E i \in {j \in Handles : h[j] = Closed} :
        /\ \A j \in Handles : h[j] = Closed => i <= j
        /\ \E r \in {Opened(vfs_resolve(Struck(f), path), path, trunc)} :
              Finish(f, r.v, [h EXCEPT ![i] = IF r.node = NULL THEN Closed
                                              ELSE [node |-> r.node, path |-> Names(path)]],
                     Names(path), At(v, Names(path)) = {}, r.node = NULL /\ At(v, Names(path)) = {}, NULL)

sys_write(i, off, len, f) ==
    /\ Ready /\ h[i] # Closed
    /\ \E r \in {fat32_write(Struck(f), h[i].node, off, [k \in 1 .. len |-> Data(ops + 1)])} :
          Finish(f, r.v, h, h[i].path, TRUE, ~r.ok, NULL)

sys_close(i) ==
    /\ Ready /\ h[i] # Closed
    /\ h' = [h EXCEPT ![i] = Closed] /\ UNCHANGED <<v, hist, file>>

sys_unlink(path, f) ==
    /\ Ready /\ ~Open(path)
    /\ \A x \in At(v, Names(path)) : x.e.dir => EntriesOf(v, x.e.fc) = {}
    /\ \E r \in {vfs_resolve(Struck(f), Front(path))} :
        /\ r.node # NULL /\ r.v.node[r.node].dir
        /\ Finish(f, fat32_unlink(r.v, r.node, Last(path)), h, Names(path), FALSE, FALSE, NULL)

sys_mkdir(path, f) ==
    /\ Ready
    /\ \E x \in {vfs_resolve(Struck(f), path)} : x.node = NULL /\
       \E r \in {vfs_resolve(x.v, Front(path))} :
        /\ r.node # NULL
        /\ \E q \in {fat32_create(r.v, r.node, Last(path), TRUE)} :
              Finish(f, q.v, h, Names(path), TRUE, q.node = NULL /\ At(v, Names(path)) = {}, q.node)

Next ==
    \/ \E f \in Faults :
         \/ \E path \in Paths : (\E trunc \in BOOLEAN : sys_open(path, trunc, f)) \/ sys_unlink(path, f)
         \/ \E path \in Dirs : sys_mkdir(path, f) \/ sys_unlink(path, f)
         \/ \E i \in Handles, off \in Offsets, len \in {0, 2} : sys_write(i, off, len, f)
    \/ \E i \in Handles : sys_close(i)
Spec == Init /\ [][Next]_vars

-----------------------------------------------------------------------------
\* Volume, nodes and descriptors: a FAT entry is a cluster, free or an end, a
\* descriptor and a cached cluster have nodes that exist.
TypeOK ==
    /\ v.fat \in [Cluster -> Cluster \cup {FREE, EOC}]
    /\ \A i \in Handles : h[i].node \in 0 .. Len(v.node)
    /\ \A i \in DOMAIN v.node : v.node[i].fc \in Cluster \cup {0}
    /\ Len(v.cache) <= NODE_CACHE_SIZE /\ \A i \in DOMAIN v.cache : v.cache[i].node \in DOMAIN v.node

ClustersOf(m, fc) == IF fc = 0 THEN {} ELSE ToSet(Chain(m.fat, fc))

\* The FAT describes the tree: every entry's chain is made of clusters in use,
\* ends, is long enough for the size in the entry, and shares no cluster with
\* another chain; also after a crash in unlink or truncate.
ChainsSound ==
    ~hist.bad =>
        LET xs == Entries(v)
        IN \A x \in xs :
            /\ \A c \in ClustersOf(v, x.e.fc) : v.fat[c] # FREE
            /\ ~x.e.dir => Cardinality(ClustersOf(v, x.e.fc)) * EPC >= x.e.size
            /\ \A dc \in DirClusters(v) :
                 dc # x.e.fc => ClustersOf(v, dc) \cap ClustersOf(v, x.e.fc) = {}
            /\ \A y \in xs : x # y => ClustersOf(v, y.e.fc) \cap ClustersOf(v, x.e.fc) = {}

InUse == {c \in Cluster : v.fat[c] # FREE}

\* No cluster is lost: what is in use belongs to the tree, until a call gives up
\* half way because the disk is full, or writes nothing, or the machine stops.
NoClusterLost ==
    ~hist.bad /\ ~hist.short /\ ~hist.crashed =>
        InUse \subseteq UNION {ClustersOf(v, fc) : fc \in DirClusters(v) \cup {x.e.fc : x \in Entries(v)}}

\* Every call writes through: booting from the disk between two calls shows
\* the same files.
WriteThrough ==
    ~hist.bad /\ ~hist.short => FileOf(fat32_mount(v.dfat, v.data)) = file

\* An open file reads as the file its path names, whatever happened to other
\* files meanwhile.
HandlesRead ==
    ~hist.bad /\ ~hist.short /\ ~hist.stale =>
        \A i \in Handles : h[i] # Closed =>
            LET got == fat32_read(v, h[i].node, 0, MaxSize)
            IN [k \in DOMAIN got |-> Value(got[k])] = file[h[i].path]

\* A directory lists every name once, and each name it prints leads back to
\* the entry it was printed for.
NamesFound ==
    ~hist.bad => \A dc \in DirClusters(v) :
        LET shown == fat32_readdir(v, dc)
            Hits(s) == {x \in EntriesOf(v, dc) : fat32_name_match(x.e.name, s)}
        IN \A i \in DOMAIN shown : Cardinality(Hits(shown[i])) = 1

\* Between two calls the volume is sound: FAT, tree and names agree.
VolumeSound == TypeOK /\ ChainsSound /\ NoClusterLost /\ NamesFound

\* A file is the same through its path, through an open descriptor and after a
\* boot from the disk.
FilesSeen == WriteThrough /\ HandlesRead

\* A call at one path leaves the other files as they were, with an error in the
\* middle of it, and after a crash in the middle of it and a boot from the disk.
OthersKept ==
    [][~hist.short => \A f \in FileId \ {hist'.path} :
            file[f] # <<>> => file'[f] = file[f]]_vars

Store == INSTANCE FileStore

\* The volume is a store of files: a step without a fault changes one file, by
\* laying bytes over it, with zeros where none were written, or by emptying it.
StoreStep ==
    [][~hist'.bad /\ ~hist'.short => Store!StoreNext \/ UNCHANGED file]_vars

\* A call changes the file it is about, as a store of bytes does, and no other.
FilesKept == OthersKept /\ StoreStep

\* The node mkdir gets for the directory it made is a directory.
MadeDirectory == hist.made # NULL => v.node[hist.made].dir
=============================================================================
