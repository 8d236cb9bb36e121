-------------------------------- MODULE Vmm --------------------------------
(***************************************************************************)
(* Address spaces of kernel/mm/vmm.c.  A virtual page has one index per    *)
(* level; a space is its top table, the frames of its other tables (tab,   *)
(* by the indices that lead to them), its page leaves and its huge leaves. *)
(* m is the allocator of Pmm plus data, the contents of user frames, and   *)
(* kern, the kernel's own space.  A handler asks pmm_alloc_page for frame  *)
(* after frame, so its requests are a sequence and the k-th one gets the   *)
(* k-th free frame.                                                        *)
(***************************************************************************)
EXTENDS Pmm

CONSTANTS LEVELS,            \* 4 in the code
          PT_ENTRIES,        \* 512 in the code
          USER_STACK_PAGES,
          KernelPhys,        \* first physical page of the kernel image
          KernelPages        \* and how many

ASSUME VmmAssumption ==
    /\ PT_ENTRIES \in {2 * k : k \in 1 .. 256} /\ LEVELS \in 3 .. 4
    /\ USER_STACK_PAGES \in Nat \ {0}

PML4_KERNEL_START == PT_ENTRIES \div 2
Span(l) == PT_ENTRIES ^ l                    \* pages under an entry of level l
Index(v) == [d \in 1 .. LEVELS |-> (v \div Span(LEVELS - d)) % PT_ENTRIES]

UserEnd == PML4_KERNEL_START * Span(LEVELS - 1)
StackTop == UserEnd - 2                      \* USER_STACK_TOP
StackPages == StackTop - USER_STACK_PAGES .. StackTop - 1
HHDM == UserEnd
\* The kernel image and the heap lie under the last entry of the top table.
KernelVma == Span(LEVELS) - 2 * Span(LEVELS - 2)
HeapBase == Span(LEVELS) - Span(LEVELS - 2)

NoEntries == [x \in {} |-> 0]
EmptySpace(page, khalf) ==
    [pml4 |-> page, tab |-> NoEntries, leaf |-> NoEntries, huge |-> NoEntries, khalf |-> khalf]

UpTo(first, last) == [i \in 1 .. last - first + 1 |-> first + i - 1]

-----------------------------------------------------------------------------
\* The tables on the way to page v, down to depth, that s does not have yet.
ensure_table(s, v, depth) ==
    SelectSeq([d \in 1 .. depth |-> SubSeq(Index(v), 1, d)], LAMBDA t : t \notin DOMAIN s.tab)

\* The requests of mapping the pages vs one after the other: for each page
\* its frame, when it needs one, then the tables missing at that moment.
Requests(s, vs, own, depth) ==
    LET seen(i) == {SubSeq(Index(vs[j]), 1, d) : j \in 1 .. i - 1, d \in 1 .. depth}
    IN FlattenSeq([i \in DOMAIN vs |->
          (IF own THEN <<Index(vs[i])>> ELSE <<>>)
            \o SelectSeq(ensure_table(s, vs[i], depth), LAMBDA t : t \notin seen(i))])

\* A table that cannot be had is a panic; a page that cannot be had is for
\* the caller to handle.
alloc_table_page(m, reqs, n) == [m EXCEPT !.panic = @ \/ (n < Len(reqs) /\ Len(reqs[n + 1]) < LEVELS)]

vmm_flags_to_pte(flags) == {"PRESENT"} \cup (flags \cap {"WRITABLE", "USER", "NOEXEC"})
pte_to_vmm_flags(pte) == pte \cap {"WRITABLE", "USER", "NOEXEC"}

\* The same for every page of vs.
Each(vs, x) == [v \in Range(vs) |-> x]

\* Maps the pages vs of space s to frames of their own, v with contents
\* fill[v] and flags flags[v], until frames run out.
vmm_map_page_in(ms, vs, fill, flags) ==
    LET Grant(reqs, free, n) ==
            LET Frame(r) == free[CHOOSE i \in 1 .. n : reqs[i] = r]
                tables == {reqs[i] : i \in {j \in 1 .. n : Len(reqs[j]) < LEVELS}}
                pages == {v \in Range(vs) : \E i \in 1 .. n : reqs[i] = Index(v)}
                Content(f) == fill[CHOOSE v \in pages : Frame(Index(v)) = f]
                Leaf(v) == [page |-> Frame(Index(v)), pte |-> vmm_flags_to_pte(flags[v])]
            IN [m |-> [alloc_table_page(pmm_alloc_page(ms.m, n), reqs, n) EXCEPT
                          !.data = [f \in {Frame(Index(v)) : v \in pages} |-> Content(f)] @@ @],
                s |-> [ms.s EXCEPT !.tab = [t \in tables |-> Frame(t)] @@ @,
                                   !.leaf = [v \in pages |-> Leaf(v)] @@ @],
                ok |-> n = Len(reqs), mapped |-> Cardinality(pages)]
        AsFar(reqs, free) == Grant(reqs, free, Min({Len(reqs), Len(free)}))
    IN AsFar(Requests(ms.s, vs, TRUE, LEVELS - 1), bitmap_find_first_free(ms.m))

\* The tables for vs alone, in the kernel's space.
MapTables(m, vs, depth) ==
    LET Grant(reqs, free, n) ==
            [alloc_table_page(pmm_alloc_page(m, n), reqs, n) EXCEPT
                !.kern.tab = [t \in {reqs[i] : i \in 1 .. n} |->
                                 free[CHOOSE i \in 1 .. n : reqs[i] = t]] @@ @]
        AsFar(reqs, free) == Grant(reqs, free, Min({Len(reqs), Len(free)}))
    IN AsFar(Requests(m.kern, vs, FALSE, depth), bitmap_find_first_free(m))

vmm_map_page(m, vs, phys, flags) ==
    [MapTables(m, vs, LEVELS - 1) EXCEPT
        !.kern.leaf = [v \in Range(vs) |-> [page |-> phys + v - vs[1],
                                            pte |-> vmm_flags_to_pte(flags)]] @@ @]

\* What the kernel's tables translate v to; it has no 1G leaves.
vmm_get_phys(s, v) ==
    LET pd == SubSeq(Index(v), 1, LEVELS - 1)
    IN IF pd \in DOMAIN s.huge THEN s.huge[pd] + (v % PT_ENTRIES)
       ELSE IF v \in DOMAIN s.leaf THEN s.leaf[v].page
       ELSE 0

-----------------------------------------------------------------------------
\* The kernel half is copied entry by entry at this moment.
vmm_create_user_pml4(m) ==
    LET free == bitmap_find_first_free(m)
        K == {i \in PML4_KERNEL_START .. PT_ENTRIES - 1 : <<i>> \in DOMAIN m.kern.tab}
    IN IF free = <<>> THEN [m |-> [m EXCEPT !.panic = TRUE], s |-> EmptySpace(0, NoEntries)]
       ELSE [m |-> pmm_alloc_page(m, 1),
             s |-> EmptySpace(free[1], [i \in K |-> m.kern.tab[<<i>>]])]

LeafPages(s) == {s.leaf[v].page : v \in DOMAIN s.leaf}
\* A freed frame's contents are never read again: whoever takes it fills it.
Forget(m) == [m EXCEPT !.data = [f \in DOMAIN @ \cap m.used |-> @[f]]]

\* The tables only: what the leaves point to stays allocated.
vmm_destroy_user_pml4(m, s) == pmm_free_page(m, Range(s.tab) \cup {s.pml4})
\* Mutant: the leaves are forgotten.
vmm_free_user_pages_tables(m, s) == Forget(pmm_free_page(m, Range(s.tab) \cup {s.pml4}))

vmm_free_user_pages(m, s) == Forget(pmm_free_page(m, Range(s.tab) \cup LeafPages(s) \cup {s.pml4}))

\* Page by page in ascending order, each copy with the flags of its source.
vmm_fork_address_space(m, src) ==
    LET pages == SelectSeq(UpTo(0, UserEnd - 1), LAMBDA v : v \in DOMAIN src.leaf)
        fork_copy_page == [v \in DOMAIN src.leaf |-> m.data[src.leaf[v].page]]
        flags == [v \in DOMAIN src.leaf |-> pte_to_vmm_flags(src.leaf[v].pte)]
        Copied(r) == IF r.ok THEN r ELSE [r EXCEPT !.m = vmm_destroy_user_pml4(r.m, r.s)]
    IN Copied(vmm_map_page_in(vmm_create_user_pml4(m), pages, fork_copy_page, flags))

\* Mutant: the lowest page is left out.
vmm_map_user_stack_short(ms) ==
    LET vs == UpTo(StackTop - USER_STACK_PAGES + 1, StackTop - 1)
    IN vmm_map_page_in(ms, vs, Each(vs, 0), Each(vs, {"USER", "WRITABLE"}))

vmm_map_user_stack(ms) ==
    LET vs == UpTo(StackTop - USER_STACK_PAGES, StackTop - 1)
    IN vmm_map_page_in(ms, vs, Each(vs, 0), Each(vs, {"USER", "WRITABLE"}))

-----------------------------------------------------------------------------
\* An aligned range, mapped by leaves one level above the pages.
map_range_2mb(m, virt, phys, pages) ==
    LET chunks == [k \in 1 .. pages \div PT_ENTRIES |-> virt + (k - 1) * PT_ENTRIES]
    IN [MapTables(m, chunks, LEVELS - 2) EXCEPT
           !.kern.huge = [x \in {SubSeq(Index(c), 1, LEVELS - 1) : c \in Range(chunks)} |->
               phys + (CHOOSE c \in Range(chunks) : SubSeq(Index(c), 1, LEVELS - 1) = x) - virt]]

\* The direct map of all memory, then the kernel image page by page; the
\* image's own frames are not the allocator's.
vmm_init(m) ==
    LET top == bitmap_find_first_free(m)[1]
        k0 == pmm_alloc_page(m, 1) @@ [data |-> NoEntries, kern |-> EmptySpace(top, NoEntries)]
        highest == ((highest_addr + PAGE_SIZE * PT_ENTRIES - 1) \div (PAGE_SIZE * PT_ENTRIES)) * PT_ENTRIES
        k1 == map_range_2mb(k0, HHDM, 0, highest)
    IN vmm_map_page(k1, UpTo(KernelVma, KernelVma + KernelPages - 1), KernelPhys, {"WRITABLE"})
=============================================================================
