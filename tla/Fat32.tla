------------------------------- MODULE Fat32 -------------------------------
(***************************************************************************)
(* kernel/fs/fat32.c.  A volume is a record v: the cached FAT and its      *)
(* dirty flag, the node cache, the nodes allocated so far, and what is on  *)
(* the disk, v.dfat and v.data.  A cluster holds EPC cells of the size of  *)
(* a directory entry; a file's bytes are counted in cells too.             *)
(*                                                                         *)
(* v.io counts the block transfers and the kmallocs of an operation.  One  *)
(* of them, v.fault.at, may fail (kind error), or the machine may stop     *)
(* there (kind crash), after which nothing reaches the disk.  A write of a *)
(* cluster or of a FAT sector is one request of the device: it happens or  *)
(* it does not.                                                            *)
(***************************************************************************)
EXTENDS Integers, Sequences, SequencesExt, FiniteSets, FiniteSetsExt

CONSTANTS total_clusters, EPC, BASE_MAX, EXT_MAX, NODE_CACHE_SIZE, FatPerSector

FREE == 0
EOC == -1
NULL == 0
Cluster == 2 .. total_clusters + 1
RootCluster == 2

\* What a cell holds: zeros (the end of a directory), a deleted entry, an entry
\* or a file's data.
Zero == [tag |-> "zero"]
Deleted == [tag |-> "del"]
Data(x) == [tag |-> "data", val |-> x]
Dirent(name, dir, fc) == [tag |-> "ent", name |-> name, dir |-> dir, fc |-> fc, size |-> 0]
ZeroCluster == [i \in 1 .. EPC |-> Zero]

-----------------------------------------------------------------------------
(* Block transfers and allocations *)
Do(v, k) == [v EXCEPT !.io = @ + k]

\* One of the next k transfers fails.
Broken(v, k) == v.fault.kind = "error" /\ v.fault.at \in v.io .. v.io + k - 1
Lands(v, io) == CASE v.fault.kind = "none" -> TRUE
                  [] v.fault.kind = "error" -> io # v.fault.at
                  [] v.fault.kind = "crash" -> io < v.fault.at

fat32_write_cluster(v, c, cells) == [Do(v, 1) EXCEPT !.data[c] = IF Lands(v, v.io) THEN cells ELSE @]

-----------------------------------------------------------------------------
(* The FAT *)
fat32_next_cluster(fat, c) == IF fat[c] \in Cluster THEN fat[c] ELSE 0

\* The clusters from c to the end of its chain, by following the FAT.
Chain(fat, c) ==
    LET F[k \in 0 .. total_clusters] ==
            IF k = 0 THEN <<c>> ELSE LET G(q) == IF Last(q) = 0 THEN q ELSE Append(q, fat32_next_cluster(fat, Last(q)))
                                     IN G(F[k - 1])
        Cut(q) == IF Last(q) = 0 THEN Front(q) ELSE q
    IN Cut(F[total_clusters - 1])
Stored(v, c) ==
    LET Along(chain) == [j \in 1 .. Len(chain) * EPC |->
                            v.data[chain[(j - 1) \div EPC + 1]][((j - 1) % EPC) + 1]]
    IN Along(Chain(v.fat, c))

\* Mutant: an entry that ends a chain counts as free.
NewCluster_eoc(v) ==
    LET free == {c \in Cluster \ {RootCluster} : v.fat[c] \in {FREE, EOC}}
    IN IF free = {} THEN 0 ELSE Min(free)

\* The cluster fat32_alloc_cluster takes, 0 when the disk is full.
NewCluster(v) ==
    LET free == {c \in Cluster : v.fat[c] = FREE} IN IF free = {} THEN 0 ELSE Min(free)

\* Cluster c, taken and put behind the chain that ends with last.
fat32_extend_chain(v, last, c) ==
    [v EXCEPT !.fat = [d \in Cluster |-> IF d = c THEN EOC ELSE IF d = last THEN c ELSE @[d]],
              !.dirty = TRUE]

fat32_free_chain(v, c) ==
    IF c = 0 THEN v
    ELSE [v EXCEPT !.fat = [d \in Cluster |-> IF d \in ToSet(Chain(v.fat, c)) THEN FREE ELSE @[d]],
                   !.dirty = TRUE]

\* Mutant: the dirty flag goes, the last sector does not go out.
fat32_sync_short(v) ==
    [v EXCEPT !.dfat = [c \in Cluster |-> IF c \div FatPerSector = 0 THEN v.fat[c] ELSE @[c]],
              !.dirty = FALSE]

\* The FAT is written sector by sector up to the first that fails.
fat32_sync(v) ==
    LET sectors == (total_clusters + 1) \div FatPerSector + 1
        Out(s) == \A t \in 0 .. s : Lands(v, v.io + t)
    IN IF ~v.dirty THEN v
       ELSE [Do(v, sectors) EXCEPT
               !.dfat = [c \in Cluster |-> IF Out(c \div FatPerSector) THEN v.fat[c] ELSE @[c]],
               !.dirty = Broken(v, sectors)]

-----------------------------------------------------------------------------
(* 8.3 names: a name is a base and an extension of capital letters *)
Upper(c) == CASE c = "a" -> "A" [] c = "d" -> "D" [] OTHER -> c
Lower(c) == CASE c = "A" -> "a" [] c = "D" -> "d" [] OTHER -> c
Capitals(s) == [i \in DOMAIN s |-> Upper(s[i])]
Smalls(s) == [i \in DOMAIN s |-> Lower(s[i])]
Unfit == [base |-> <<>>, ext |-> <<>>]

\* The name a string stands for: split at the first dot, unless too long.
fat32_str_to_name(s) ==
    LET Fit(base, ext) == IF Len(base) \in 1 .. BASE_MAX /\ Len(ext) <= EXT_MAX
                          THEN [base |-> Capitals(base), ext |-> Capitals(ext)] ELSE Unfit
        Split(k) == Fit(SubSeq(s, 1, k - 1), SubSeq(s, k + 1, Len(s)))
    IN Split(Min({i \in DOMAIN s : s[i] = "."} \cup {Len(s) + 1}))

fat32_name_to_str(n) ==
    Smalls(n.base) \o (IF n.ext = <<>> THEN <<>> ELSE <<".">> \o Smalls(n.ext))

fat32_name_match(n, s) ==
    IF fat32_str_to_name(s) = Unfit THEN fat32_name_to_str(n) = Smalls(s)
    ELSE n = fat32_str_to_name(s)

-----------------------------------------------------------------------------
(* Nodes *)
Node(dir, fc, dc, idx) == [dir |-> dir, fc |-> fc, dc |-> dc, idx |-> idx, size |-> 0]
cache_lookup(v, fc) ==
    LET hits == {i \in DOMAIN v.cache : v.cache[i].fc = fc}
    IN IF fc = 0 \/ hits = {} THEN NULL ELSE v.cache[Min(hits)].node

\* The node cached for the cluster, or a new one; NULL without memory.
fat32_alloc_node(v, dir, fc, dc, idx) ==
    LET Cached(m) == IF fc = 0 \/ Len(m.cache) = NODE_CACHE_SIZE THEN m
                     ELSE [m EXCEPT !.cache = Append(@, [fc |-> fc, node |-> Len(m.node)])]
        New(m) == [v |-> Cached(m), node |-> Len(m.node)]
    IN IF cache_lookup(v, fc) # NULL THEN [v |-> v, node |-> cache_lookup(v, fc)]
       ELSE IF Broken(v, 2) THEN [v |-> Do(v, 2), node |-> NULL]
       ELSE New([Do(v, 2) EXCEPT !.node = Append(@, Node(dir, fc, dc, idx))])

-----------------------------------------------------------------------------
(* Reading and writing along a chain *)

\* The transfers of a read: a buffer, and every cluster it touches.
fat32_read_chain(v, start, offset, size) ==
    LET Read(all, k) == [v |-> Do(v, k), err |-> Broken(v, k),
                         cells |-> SubSeq(all, offset + 1, Min({offset + size, Len(all)}))]
        Touched(n) == {i \in 0 .. n - 1 : (i + 1) * EPC > offset /\ i * EPC < offset + size}
    IN IF start = 0 THEN [v |-> v, err |-> FALSE, cells |-> <<>>]
       ELSE Read(Stored(v, start), 1 + Cardinality(Touched(Len(Chain(v.fat, start)))))

\* The cells of the i-th cluster of a chain after a write at offset.
Overwritten(old, i, offset, cells) ==
    [j \in 1 .. EPC |-> IF i * EPC + j - offset \in DOMAIN cells THEN cells[i * EPC + j - offset]
                        ELSE old[j]]

\* Cluster after cluster from the first: one that is missing is taken and zeroed,
\* one that is written is read, changed and written back.  The first transfer
\* that fails, or the full disk, ends it; zeroing may fail unnoticed.
fat32_write_chain(v, first, offset, cells) ==
    LET last == (offset + Max({Len(cells), 1}) - 1) \div EPC
        Take(a, i, c) ==
            IF c = 0 THEN [a EXCEPT !.err = "NOSPC"]
            ELSE [a EXCEPT !.v = fat32_write_cluster(fat32_extend_chain(@, a.cur, c), c, ZeroCluster),
                           !.cur = c, !.first = IF i = 0 THEN c ELSE @]
        Have(a, i, here) == IF here # 0 THEN [a EXCEPT !.cur = here] ELSE Take(a, i, NewCluster(a.v))
        Change(a, i) ==
            IF a.err # "" \/ (i + 1) * EPC <= offset \/ cells = <<>> THEN a
            ELSE IF Broken(a.v, 2) THEN [a EXCEPT !.v = Do(@, 2), !.err = "IO"]
            ELSE [a EXCEPT !.v = fat32_write_cluster(Do(@, 1), a.cur,
                                     Overwritten(a.v.data[a.cur], i, offset, cells))]
        Step(a, i) ==
            IF a.err # "" THEN a
            ELSE Change(Have(a, i, IF i = 0 THEN a.first ELSE fat32_next_cluster(a.v.fat, a.cur)), i)
        Start(err) == [v |-> Do(v, 1), first |-> first, cur |-> 0, err |-> err]
    IN IF Broken(v, 1) THEN Start("NOMEM")
       ELSE FoldLeft(Step, Start(""), [k \in 1 .. last + 1 |-> k - 1])

fat32_write_dir_entry(v, dc, idx, e) == fat32_write_chain(v, dc, idx, <<e>>).v

-----------------------------------------------------------------------------
(* Directories *)

\* A walk over the cells of the directory at dc with a visitor that stops at the
\* hits: a buffer and a read for each cluster up to the first of them, whose index
\* is at, or -1.
fat32_walk_dir(v, dc, cells, hits) ==
    LET End(n) == IF hits = {} THEN n ELSE (Min(hits) - 1) \div EPC + 1
        Out(k) ==
            [v |-> Do(v, 2 * k), err |-> Broken(v, 2 * k),
             at |-> IF hits = {} \/ Broken(v, 2 * k) THEN -1 ELSE Min(hits) - 1,
             cell |-> IF hits = {} THEN Zero ELSE cells[Min(hits)]]
    IN Out(End(Len(Chain(v.fat, dc))))

IsDot(n) == n.base \in {<<".">>, <<".", ".">>}

\* lookup in the directory of node dn
fat32_lookup(v, dn, s) ==
    LET Stop(e) == \/ e.tag = "zero"
                   \/ e.tag = "ent" /\ ~IsDot(e.name) /\ fat32_name_match(e.name, s)
        Sized(r, size) == IF r.node = NULL THEN r ELSE [r EXCEPT !.v.node[r.node].size = size]
        Found(w) == IF w.at = -1 \/ w.cell.tag # "ent" THEN [v |-> w.v, node |-> NULL]
                    ELSE Sized(fat32_alloc_node(w.v, w.cell.dir, w.cell.fc, v.node[dn].fc, w.at),
                               w.cell.size)
        In(cells) == Found(fat32_walk_dir(v, v.node[dn].fc, cells, {i \in DOMAIN cells : Stop(cells[i])}))
    IN In(Stored(v, v.node[dn].fc))

\* A slot for an entry, behind a new cluster when there is none; -1 on failure.
fat32_find_free_dir_slot(v, dc) ==
    LET Stop(e) == e.tag \in {"zero", "del"}
        Extended(m) == IF Broken(m, 1) THEN [v |-> Do(m, 1), at |-> -1]
                       ELSE [v |-> fat32_write_cluster(Do(m, 1), NewCluster(v), ZeroCluster),
                             at |-> Len(Chain(v.fat, dc)) * EPC]
        Slot(w) == IF w.err \/ w.at # -1 THEN [v |-> w.v, at |-> w.at]
                   ELSE IF NewCluster(v) = 0 THEN [v |-> w.v, at |-> -1]
                   ELSE Extended(fat32_extend_chain(w.v, Last(Chain(v.fat, dc)), NewCluster(v)))
        In(cells) == Slot(fat32_walk_dir(v, dc, cells, {i \in DOMAIN cells : Stop(cells[i])}))
    IN In(Stored(v, dc))

\* The new directory's cluster, with its dot entries; c is 0 if there is none.
WithCluster(v, dir, c, parent) ==
    IF ~dir \/ c = 0 THEN v
    ELSE IF Broken(v, 1) THEN Do(fat32_extend_chain(v, 0, c), 1)
    ELSE fat32_write_cluster(Do(fat32_extend_chain(v, 0, c), 1), c,
             [ZeroCluster EXCEPT ![1] = Dirent([base |-> <<".">>, ext |-> <<>>], TRUE, c),
                                 ![2] = Dirent([base |-> <<".", ".">>, ext |-> <<>>], TRUE, parent)])

fat32_create(v, dn, s, dir) ==
    LET dc == v.node[dn].fc
        Fail(m) == [v |-> m, node |-> NULL]
        Written(r, c) == fat32_sync(fat32_write_dir_entry(r.v, dc, r.at, Dirent(fat32_str_to_name(s), dir, c)))
        Entered(r, c) == IF r.at = -1 THEN Fail(r.v)
                         ELSE fat32_alloc_node(Written(r, c), dir, c, dc, r.at)
        Fresh(m, c) == IF dir /\ (c = 0 \/ Broken(m, 1)) THEN Fail(WithCluster(m, dir, c, dc))
                       ELSE Entered(fat32_find_free_dir_slot(WithCluster(m, dir, c, dc), dc), c)
        Old(r) == IF r.node # NULL \/ fat32_str_to_name(s) = Unfit THEN Fail(r.v)
                  ELSE Fresh(r.v, IF dir THEN NewCluster(r.v) ELSE 0)
    IN Old(fat32_lookup(v, dn, s))

\* Mutant: the FAT goes out before the entry does.
Removed_swapped(w, dc) ==
    fat32_write_dir_entry(fat32_sync(fat32_free_chain(w.v, w.cell.fc)), dc, w.at, Deleted)

\* The chain is freed, the entry marked, and the FAT written.
Removed(w, dc) ==
    fat32_sync(fat32_write_dir_entry(fat32_free_chain(w.v, w.cell.fc), dc, w.at, Deleted))

fat32_unlink(v, dn, s) ==
    LET Stop(e) == e.tag = "zero" \/ (e.tag = "ent" /\ fat32_name_match(e.name, s))
        Found(w) == IF w.at = -1 \/ w.cell.tag # "ent" THEN w.v ELSE Removed(w, v.node[dn].fc)
        In(cells) == Found(fat32_walk_dir(v, v.node[dn].fc, cells, {i \in DOMAIN cells : Stop(cells[i])}))
    IN In(Stored(v, v.node[dn].fc))

\* The names readdir shows, in order: up to the end, without the dot entries.
fat32_readdir(v, dc) ==
    LET Shown(cells, end) ==
            SelectSeq(SubSeq(cells, 1, end - 1), LAMBDA e : e.tag = "ent" /\ e.name.base[1] # ".")
        Listed(cells) ==
            Shown(cells, Min({i \in DOMAIN cells : cells[i].tag = "zero"} \cup {Len(cells) + 1}))
        Strings(es) == [i \in DOMAIN es |-> fat32_name_to_str(es[i].name)]
    IN Strings(Listed(Stored(v, dc)))

-----------------------------------------------------------------------------
(* Files *)
fat32_read(v, nd, offset, size) ==
    IF offset >= v.node[nd].size THEN <<>>
    ELSE fat32_read_chain(v, v.node[nd].fc, offset, Min({size, v.node[nd].size - offset})).cells

\* The directory entry of node n gets its size and first cluster; a deleted one
\* stays deleted.
UpdateEntry(v, n) ==
    LET New(e) == IF e.tag = "ent" THEN [e EXCEPT !.size = n.size, !.fc = n.fc] ELSE e
        With(r) == IF r.err \/ r.cells = <<>> THEN r.v
                   ELSE fat32_write_dir_entry(r.v, n.dc, n.idx, New(r.cells[1]))
    IN With(fat32_read_chain(v, n.dc, n.idx, 1))

\* ok when more than nothing was written
fat32_write(v, nd, offset, cells) ==
    LET Sized(m) == [m EXCEPT !.node[nd].size = Max({@, offset + Len(cells)})]
        Entered(m) == fat32_sync(UpdateEntry(m, m.node[nd]))
        After(a) ==
            IF a.err # "" \/ cells = <<>> THEN [v |-> [a.v EXCEPT !.node[nd].fc = a.first], ok |-> FALSE]
            ELSE [v |-> Entered(Sized([a.v EXCEPT !.node[nd].fc = a.first])), ok |-> TRUE]
    IN After(fat32_write_chain(v, v.node[nd].fc, offset, cells))

\* truncate to nothing, the only length the VFS asks for
fat32_truncate(v, nd) ==
    LET Emptied(m) == [m EXCEPT !.node[nd].fc = 0, !.node[nd].size = 0]
        Entered(m) == fat32_sync(UpdateEntry(m, m.node[nd]))
    IN Entered(Emptied(fat32_free_chain(v, v.node[nd].fc)))

\* The volume of a disk: its FAT is loaded, and the cache holds the root.
fat32_mount(dfat, data) ==
    [fat |-> dfat, dirty |-> FALSE, dfat |-> dfat, data |-> data,
     cache |-> <<[fc |-> RootCluster, node |-> 1]>>, node |-> <<Node(TRUE, RootCluster, 0, 0)>>,
     io |-> 0, fault |-> [kind |-> "none", at |-> 0]]
=============================================================================
