-------------------------------- MODULE Ramfs --------------------------------
(***************************************************************************)
(* kernel/fs/ramfs.c.  A table of vnodes is a function from addresses to   *)
(* nodes; the addresses RamNode are the blocks the kernel heap can give to *)
(* ramfs.  data is the buffer of a file, its length the capacity; a byte   *)
(* is a number, 0 the byte zero.                                           *)
(***************************************************************************)
EXTENDS Integers, Sequences, SequencesExt, FiniteSets, FiniteSetsExt

CONSTANTS MaxRamNodes, RAMFS_MAX_CHILDREN, RAMFS_INIT_CAP

NULL == -1
RootNode == 0
RamNode == 0 .. MaxRamNodes - 1

Who == {"u", "g", "o"}
Mode(u, g, o) == ({"u"} \X u) \cup ({"g"} \X g) \cup ({"o"} \X o)
Mode0755 == Mode({"r", "w", "x"}, {"r", "x"}, {"r", "x"})
Mode0666 == Who \X {"r", "w"}
Mode0555 == Who \X {"r", "x"}
Mode0444 == Who \X {"r"}

\* VfsNode, with the fields the file systems keep behind it.
Node(type, ops, mode) ==
    [type |-> type, ops |-> ops, mode |-> mode, uid |-> 0, gid |-> 0,
     size |-> 0, data |-> <<>>, kids |-> <<>>, pid |-> 0]
FreeNode == Node("free", "none", {})

ramfs_alloc_node(type) == Node(type, "ramfs", {})

ramfs_init == [Node("dir", "ramfs", {}) EXCEPT !.mode = Mode0755]

-----------------------------------------------------------------------------
ramfs_read(n, offset, size) ==
    IF n.type # "file" \/ offset >= n.size THEN <<>>
    ELSE SubSeq(n.data, offset + 1, Min({offset + size, n.size}))

NewCap[cap \in Nat, end \in Nat] == IF cap >= end THEN cap ELSE NewCap[2 * cap, end]

\* Mutant: the buffer is grown without clearing what krealloc returns.
grow_junk(data, end) ==
    data \o [i \in 1 .. NewCap[IF data = <<>> THEN RAMFS_INIT_CAP ELSE Len(data), end]
                        - Len(data) |-> 1]

\* Buffer for end bytes: doubled until it is large enough, the new part cleared.
grow(data, end) ==
    data \o [i \in 1 .. NewCap[IF data = <<>> THEN RAMFS_INIT_CAP ELSE Len(data), end]
                        - Len(data) |-> 0]

ramfs_write(n, bytes, offset) ==
    LET end == offset + Len(bytes)
        Into(data) == [i \in 1 .. Len(data) |->
                          IF offset < i /\ i <= end THEN bytes[i - offset] ELSE data[i]]
    IN [n EXCEPT !.data = Into(IF end > Len(@) THEN grow(@, end) ELSE @),
                 !.size = Max({@, end})]

ramfs_truncate(n) ==
    IF n.type = "file" THEN [n EXCEPT !.data = <<>>, !.size = 0] ELSE n

-----------------------------------------------------------------------------
Kid(name, node) == [name |-> name, node |-> node]

ramfs_find_child(dir, name) == SelectInSeq(dir.kids, LAMBDA k : k.name = name)

ramfs_lookup(dir, name) ==
    LET At(i) == IF i = 0 THEN NULL ELSE dir.kids[i].node
    IN At(ramfs_find_child(dir, name))

FreeRamNodes(table) == {i \in RamNode : table[i].type = "free"}

CanCreate(table, d, name) ==
    /\ Len(table[d].kids) < RAMFS_MAX_CHILDREN
    /\ ramfs_lookup(table[d], name) = NULL
    /\ FreeRamNodes(table) # {}

\* The address of the node ramfs_create makes; the heap is first fit.
NewNode(table) == Min(FreeRamNodes(table))

ramfs_create(table, d, name, type) ==
    [table EXCEPT ![d].kids = Append(@, Kid(name, NewNode(table))),
                  ![NewNode(table)] = ramfs_alloc_node(type)]

CanUnlink(table, d, name) ==
    LET c == ramfs_lookup(table[d], name)
    IN c # NULL /\ ~(table[c].type = "dir" /\ table[c].kids # <<>>)

ramfs_free_node(table, n) == [table EXCEPT ![n] = FreeNode]

\* Mutant: the children array is not compacted, its last entry is dropped.
ramfs_unlink_last(table, d, name) ==
    [ramfs_free_node(table, ramfs_lookup(table[d], name)) EXCEPT ![d].kids = Front(@)]

ramfs_unlink(table, d, name) ==
    [ramfs_free_node(table, ramfs_lookup(table[d], name))
        EXCEPT ![d].kids = RemoveAt(@, ramfs_find_child(table[d], name))]
=============================================================================
