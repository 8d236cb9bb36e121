-------------------------------- MODULE Pmm --------------------------------
(***************************************************************************)
(* The physical page allocator of kernel/mm/pmm.c: a bitmap of allocated   *)
(* pages and a count of free ones, behind one spinlock.  Each operation    *)
(* takes the allocator m = [used, free_pages, ...] and returns it changed, *)
(* so that a handler that allocates many pages is still one step.          *)
(***************************************************************************)
EXTENDS Integers, Sequences, FiniteSets, FiniteSetsExt, SequencesExt, Functions

CONSTANTS PAGE_SIZE,    \* bytes per page
          MemoryMap,    \* the boot memory map: <<[base, length, usable]>>
          BitmapSize    \* bytes taken by the bitmap itself

ASSUME PmmAssumption ==
    /\ PAGE_SIZE \in Nat \ {0}
    /\ BitmapSize \in Nat \ {0}

PAGE_ALIGN_UP(x) == ((x + PAGE_SIZE - 1) \div PAGE_SIZE) * PAGE_SIZE

Top(e) == e.base + e.length
highest_addr == Max({Top(MemoryMap[i]) : i \in DOMAIN MemoryMap})
total_pages == highest_addr \div PAGE_SIZE
Page == 0 .. total_pages - 1

-----------------------------------------------------------------------------
\* The first usable region that holds size bytes; 0 stands for none.
pmm_find_bitmap_region(size) ==
    LET Fits(e) == /\ e.usable /\ e.length >= size
                   /\ PAGE_ALIGN_UP(e.base) + size <= Top(e)
        ok == SelectSeq(MemoryMap, Fits)
    IN IF ok = <<>> THEN 0 ELSE PAGE_ALIGN_UP(Head(ok).base)

\* Everything allocated, then usable regions freed, then page 0 and the
\* pages of the bitmap taken again.
pmm_init ==
    LET region == pmm_find_bitmap_region(BitmapSize)
        PagesOf(e) == (PAGE_ALIGN_UP(e.base) \div PAGE_SIZE) .. (Top(e) \div PAGE_SIZE) - 1
        clear == UNION {PagesOf(MemoryMap[i]) : i \in {j \in DOMAIN MemoryMap : MemoryMap[j].usable}}
        cleared == FoldLeft(LAMBDA n, e : n + (IF e.usable THEN Cardinality(PagesOf(e)) ELSE 0),
                            0, MemoryMap)
        first == region \div PAGE_SIZE
        taken == {0} \cup (first .. first + PAGE_ALIGN_UP(BitmapSize) \div PAGE_SIZE - 1)
    IN [used |-> Page \ (clear \ taken),
        free_pages |-> cleared - Cardinality(taken \cap clear),
        panic |-> region = 0]

\* The frames that successive searches find, as many as the count admits.
bitmap_find_first_free(m) ==
    LET free == SelectSeq([i \in 1 .. total_pages |-> i - 1], LAMBDA p : p \notin m.used)
    IN SubSeq(free, 1, Min({m.free_pages, Len(free)}))

bitmap_find_contiguous(m, count) ==
    Min({p \in Page : p + count <= total_pages /\ (p .. p + count - 1) \cap m.used = {}}
        \cup {total_pages})

\* n calls in a row, all of which find a frame.
pmm_alloc_page(m, n) ==
    [m EXCEPT !.used = @ \cup Range(SubSeq(bitmap_find_first_free(m), 1, n)),
              !.free_pages = @ - n]

\* One call for each of the pages; page 0 and a page that is free are skipped.
pmm_free_page(m, pages) ==
    LET freed == {p \in pages : p # 0 /\ p < total_pages /\ p \in m.used}
    IN [m EXCEPT !.used = @ \ freed, !.free_pages = @ + Cardinality(freed)]

pmm_alloc_contiguous(m, count) ==
    LET start == bitmap_find_contiguous(m, count)
    IN IF count = 0 \/ m.free_pages < count \/ start >= total_pages
       THEN [m |-> m, page |-> 0]
       ELSE [m |-> [m EXCEPT !.used = @ \cup (start .. start + count - 1),
                             !.free_pages = @ - count],
             page |-> start]

\* The count answers pmm_alloc_page's first test, the bitmap its second; they
\* must tell the same story (pmm.c keeps both by hand in four places).
CountMatches(m) == m.free_pages = Cardinality(Page \ m.used)
=============================================================================
