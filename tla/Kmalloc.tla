------------------------------ MODULE Kmalloc ------------------------------
(***************************************************************************)
(* The kernel heap of kernel/mm/kmalloc.c, on top of Vmm: m.heap is the    *)
(* list of blocks in list order, each [addr, size, free] with addr the     *)
(* offset of its header from HEAP_START, and m.heap_end is                 *)
(* heap_current_end.  A pointer is the offset of the usable bytes; 0 is    *)
(* NULL.                                                                   *)
(***************************************************************************)
EXTENDS Vmm

CONSTANTS HEADER_SIZE, ALIGN_SIZE, HEAP_INIT_PAGES, HEAP_SIZE_MAX

\* Mutant: rounds down.
align_up_down(size) == (size \div ALIGN_SIZE) * ALIGN_SIZE

align_up(size) == ((size + ALIGN_SIZE - 1) \div ALIGN_SIZE) * ALIGN_SIZE

\* Maps page after page; the pages mapped before a failure stay mapped and
\* heap_current_end stays advanced.
heap_grow(m, min_bytes) ==
    LET pages == PAGE_ALIGN_UP(min_bytes) \div PAGE_SIZE
        room == (HEAP_SIZE_MAX - m.heap_end) \div PAGE_SIZE
        first == HeapBase + m.heap_end \div PAGE_SIZE
        Grown(r) == [m |-> [r.m EXCEPT !.kern = r.s, !.data = m.data,
                                       !.heap_end = @ + r.mapped * PAGE_SIZE],
                     ok |-> r.ok /\ pages <= room]
        vs == UpTo(first, first + Min({pages, room}) - 1)
    IN Grown(vmm_map_page_in([m |-> m, s |-> m.kern], vs,
                             Each(vs, 0), Each(vs, {"WRITABLE", "NOEXEC"})))

kmalloc_init(m) ==
    LET First(g) ==
            IF ~g.ok THEN [g.m EXCEPT !.panic = TRUE]
            ELSE [g.m EXCEPT !.heap = <<[addr |-> 0, free |-> TRUE,
                                         size |-> HEAP_INIT_PAGES * PAGE_SIZE - HEADER_SIZE]>>]
    IN First(heap_grow(m @@ [heap |-> <<>>, heap_end |-> 0], HEAP_INIT_PAGES * PAGE_SIZE))

-----------------------------------------------------------------------------
\* h: the list of blocks; i: an index into it.
split_block(h, i, size) ==
    IF h[i].size < size + HEADER_SIZE + ALIGN_SIZE THEN h
    ELSE InsertAt([h EXCEPT ![i].size = size], i + 1,
                  [addr |-> h[i].addr + HEADER_SIZE + size,
                   size |-> h[i].size - size - HEADER_SIZE, free |-> TRUE])

\* Absorbs the run of free blocks that follows block i.
coalesce_forward(h, i) ==
    LET used == {j \in i + 1 .. Len(h) : ~h[j].free}
        last == Min(used \cup {Len(h) + 1}) - 1
        Grown(n, b) == n + HEADER_SIZE + b.size
    IN SubSeq(h, 1, i - 1)
         \o <<[h[i] EXCEPT !.size = FoldLeft(Grown, h[i].size, SubSeq(h, i + 1, last))]>>
         \o SubSeq(h, last + 1, Len(h))

block_allocate(m, i, size) ==
    [m |-> [m EXCEPT !.heap = [split_block(m.heap, i, size) EXCEPT ![i].free = FALSE]],
     ptr |-> m.heap[i].addr + HEADER_SIZE]

\* Extends the last block when it is free, else appends a block that starts
\* at the old end of the heap.
heap_grow_for(m, size) ==
    LET last == m.heap[Len(m.heap)]
        need == IF last.free THEN size - last.size + HEADER_SIZE ELSE size + 2 * HEADER_SIZE
        Grown(g, grown) ==
            IF ~g.ok THEN g
            ELSE [g EXCEPT !.m.heap =
                    IF last.free THEN [@ EXCEPT ![Len(m.heap)].size = last.size + grown]
                    ELSE Append(@, [addr |-> m.heap_end, size |-> grown - HEADER_SIZE, free |-> TRUE])]
        By(g) == Grown(g, g.m.heap_end - m.heap_end)
    IN By(heap_grow(m, need))

kmalloc(m, bytes) ==
    LET size == align_up(bytes)
        fit == {i \in DOMAIN m.heap : m.heap[i].free /\ m.heap[i].size >= size}
        Grown(g) == IF g.ok THEN block_allocate(g.m, Len(g.m.heap), size) ELSE [m |-> g.m, ptr |-> 0]
    IN IF bytes = 0 THEN [m |-> m, ptr |-> 0]
       ELSE IF fit # {} THEN block_allocate(m, Min(fit), size)
       ELSE Grown(heap_grow_for(m, size))

\* A pointer that is not the start of a block has no magic: the kernel panics.
kfree(m, ptr) ==
    LET Blocks == {i \in DOMAIN m.heap : m.heap[i].addr + HEADER_SIZE = ptr}
        Back(h, i) == IF i > 1 /\ h[i - 1].free THEN coalesce_forward(h, i - 1) ELSE h
        Freed(i) == [m EXCEPT !.heap = Back(coalesce_forward([@ EXCEPT ![i].free = TRUE], i), i)]
    IN IF ptr = 0 THEN m
       ELSE IF Blocks = {} THEN [m EXCEPT !.panic = TRUE]
       ELSE IF m.heap[Min(Blocks)].free THEN m
       ELSE Freed(Min(Blocks))

krealloc(m, ptr, new_bytes) ==
    LET size == align_up(new_bytes)
        h == m.heap
        Resized(i) ==
            IF h[i].size >= size
            THEN [m |-> [m EXCEPT !.heap = split_block(h, i, size)], ptr |-> ptr]
            ELSE IF i < Len(h) /\ h[i + 1].free /\ h[i].size + HEADER_SIZE + h[i + 1].size >= size
            THEN [m |-> [m EXCEPT !.heap = split_block(coalesce_forward(h, i), i, size)], ptr |-> ptr]
            ELSE [m |-> m, ptr |-> 0]
        Moved(r) == IF r.ptr = 0 THEN r ELSE [r EXCEPT !.m = kfree(@, ptr)]
        InPlace(r) == IF r.ptr # 0 THEN r ELSE Moved(kmalloc(m, size))
    IN IF ptr = 0 THEN kmalloc(m, new_bytes)
       ELSE IF new_bytes = 0 THEN [m |-> kfree(m, ptr), ptr |-> 0]
       ELSE InPlace(Resized(CHOOSE i \in DOMAIN h : h[i].addr + HEADER_SIZE = ptr))

-----------------------------------------------------------------------------
End(b) == b.addr + HEADER_SIZE + b.size

\* The list is in address order, blocks do not overlap and end inside the
\* mapped heap.  A growth that fails half way leaves mapped bytes outside
\* every block (heap_grow's early return), never a block outside the map.
HeapSound(m) ==
    \A i \in DOMAIN m.heap :
        /\ End(m.heap[i]) <= IF i = Len(m.heap) THEN m.heap_end ELSE m.heap[i + 1].addr
        /\ m.heap[i].size > 0
        /\ \A o \in {m.heap[i].addr, End(m.heap[i]) - 1} :
              HeapBase + o \div PAGE_SIZE \in DOMAIN m.kern.leaf
=============================================================================
