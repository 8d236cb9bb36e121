---------------------------- MODULE AddressSpace ----------------------------
(***************************************************************************)
(* Processes and their memory: init_launch, fork, exec, brk, exit, the     *)
(* switch of CR3 in sched_schedule and the stores of user code, on top of  *)
(* the frame allocator, the page tables and the kernel heap.  System calls *)
(* run with interrupts off on one CPU, so each is one step; its calls to   *)
(* the allocators are threaded through it in program order.                *)
(***************************************************************************)
EXTENDS Kmalloc

CONSTANTS MaxProc,            \* bound: processes ever created
          Images,             \* executables: [tag, valid, size, segs]
          Argvs,              \* argument vectors: lengths with their NUL
          BrkSteps,           \* brk is asked for brk_start + one of these
          MAX_EXEC_ARGS, MAX_EXEC_ARG_DATA,
          SizeofProcess, SizeofThread, SizeofFdTable, THREAD_STACK_SIZE,
          Clients, ClientSizes,   \* other users of the kernel heap
          RingPages,              \* frames of a device ring, taken at boot
          StorePages,             \* bound: pages that user code stores to
          MaxCalls                \* bound: calls that allocate

ASSUME SpaceAssumption == MaxProc \in Nat \ {0}

VARIABLES mem,       \* frames, page tables and heap (Pmm, Vmm, Kmalloc)
          procs,     \* process table
          current,   \* running process, 0 for a kernel thread
          cr3,       \* PML4 page the CPU translates with
          client,    \* client[c] = [ptr, size] of heap client c
          calls      \* calls that allocate, so far
vars == <<mem, procs, current, cr3, client, calls>>

Proc == 1 .. MaxProc
Tag == 100      \* what argv leaves on a stack page
Stored == 200   \* what user code stores

NoSpace == EmptySpace(0, NoEntries)
NoProc == [st |-> "none", space |-> NoSpace, brk_start |-> 0, brk |-> 0, sp |-> 0,
           ptrs |-> <<0, 0, 0, 0>>]

-----------------------------------------------------------------------------
(* kernel/proc/elf.c *)

\* Magic, class, type, machine and a program header table inside the file.
elf_validate_header(img) == img.valid

\* A page holds file data when the segment's file part overlaps it.
elf_copy_page_data(img, seg, v) ==
    IF /\ seg.filesz > 0
       /\ seg.vaddr < (v + 1) * PAGE_SIZE
       /\ v * PAGE_SIZE < seg.vaddr + seg.filesz
    THEN img.tag ELSE 0

SegPages(seg) == (seg.vaddr \div PAGE_SIZE) .. (PAGE_ALIGN_UP(seg.vaddr + seg.memsz) \div PAGE_SIZE) - 1
SegFlags(seg) == {"USER"} \cup (IF seg.w THEN {"WRITABLE"} ELSE {})
                          \cup (IF seg.x THEN {} ELSE {"NOEXEC"})

elf_load_segment(acc, img, seg) ==
    LET Loaded(r) == [m |-> r.m, s |-> r.s, ok |-> r.ok, top |-> Max({acc.top, seg.vaddr + seg.memsz})]
    IN IF ~acc.ok \/ seg.vaddr + seg.memsz > (UserEnd * PAGE_SIZE) \/ ~seg.inFile
       THEN [acc EXCEPT !.ok = FALSE]
       ELSE Loaded(vmm_map_page_in([m |-> acc.m, s |-> acc.s],
                                   UpTo(Min(SegPages(seg)), Max(SegPages(seg))),
                                   [v \in SegPages(seg) |-> elf_copy_page_data(img, seg, v)],
                                   [v \in SegPages(seg) |-> SegFlags(seg)]))

\* Stops at the first segment that fails; what it mapped stays mapped.
elf_load(ms, img) ==
    LET start == [m |-> ms.m, s |-> ms.s, ok |-> elf_validate_header(img), top |-> 0]
    IN FoldLeft(LAMBDA acc, seg : elf_load_segment(acc, img, seg), start,
                SelectSeq(img.segs, LAMBDA seg : seg.memsz > 0))

-----------------------------------------------------------------------------
(* exec *)

Sum(lens) == FoldLeft(LAMBDA n, l : n + l, 0, lens)
exec_copy_argv(argv) == Len(argv) <= MAX_EXEC_ARGS /\ Sum(argv) <= MAX_EXEC_ARG_DATA

\* Strings, then the pointers and their NULL, then 16-byte alignment.
exec_setup_user_stack(argv) ==
    LET strings == (StackTop * PAGE_SIZE - Sum(argv)) \div 8
    IN ((strings - 1 - Len(argv)) \div 2) * 16

\* The pages between the new stack pointer and the top now hold argv.
WriteArgv(m, s, argv) ==
    LET bottom == exec_setup_user_stack(argv) \div PAGE_SIZE
        top == {s.leaf[v].page : v \in {w \in DOMAIN s.leaf : bottom <= w /\ w < StackTop}}
    IN [m EXCEPT !.data = [f \in DOMAIN @ |-> IF argv # <<>> /\ f \in top THEN Tag ELSE @[f]]]

\* The user image: loader, then stack.
BuildImage(ms, img) ==
    LET WithStack(e, t) == [m |-> t.m, s |-> t.s, loaded |-> TRUE, ok |-> t.ok,
                            brk |-> PAGE_ALIGN_UP(e.top)]
        Loaded(e) == IF e.ok THEN WithStack(e, vmm_map_user_stack([m |-> e.m, s |-> e.s]))
                     ELSE [m |-> e.m, s |-> e.s, loaded |-> FALSE, ok |-> FALSE, brk |-> 0]
    IN Loaded(elf_load(ms, img))

Running == procs[current]
Halted == mem.panic

\* KERNEL_PANIC halts the machine where it is called.
Outcome(m, ps, top) ==
    /\ calls < MaxCalls /\ calls' = calls + 1
    /\ mem' = IF m.panic THEN [mem EXCEPT !.panic = TRUE] ELSE m
    /\ procs' = IF m.panic THEN procs ELSE ps
    /\ cr3' = IF m.panic THEN cr3 ELSE top

sys_exec(img, argv) ==
    /\ ~Halted /\ current # 0
    /\ exec_copy_argv(argv)
    /\ UNCHANGED <<current, client>>
    /\ \E buf \in {kmalloc(mem, img.size)} :
          \/ buf.ptr = 0 /\ Outcome(buf.m, procs, cr3)
          \/ /\ buf.ptr # 0
             /\ \E b \in {BuildImage(vmm_create_user_pml4(buf.m), img)} :
                \E freed \in {kfree(b.m, buf.ptr)} :
                   \/ ~b.loaded /\ Outcome(vmm_destroy_user_pml4(freed, b.s), procs, cr3)
                   \/ b.loaded /\ ~b.ok /\ Outcome(vmm_free_user_pages(freed, b.s), procs, cr3)
                   \/ /\ b.ok
                      /\ Outcome(WriteArgv(vmm_free_user_pages(freed, Running.space), b.s, argv),
                                 [procs EXCEPT ![current].space = b.s,
                                               ![current].brk_start = b.brk, ![current].brk = b.brk,
                                               ![current].sp = exec_setup_user_stack(argv)],
                                 b.s.pml4)

-----------------------------------------------------------------------------
(* brk *)

\* Pages are mapped one by one; when they run out the break stays where it
\* was and the pages mapped so far stay mapped.
sys_brk(new_brk) ==
    LET old_page == PAGE_ALIGN_UP(Running.brk) \div PAGE_SIZE
        new_page == PAGE_ALIGN_UP(new_brk) \div PAGE_SIZE
        vs == UpTo(old_page, new_page - 1)
    IN /\ ~Halted /\ current # 0
       /\ new_brk >= Running.brk_start
       /\ \E r \in {vmm_map_page_in([m |-> mem, s |-> Running.space], vs,
                                    Each(vs, 0), Each(vs, {"USER", "WRITABLE", "NOEXEC"}))} :
             Outcome(r.m, [procs EXCEPT ![current].space = r.s,
                                        ![current].brk = IF r.ok THEN new_brk ELSE @], cr3)
       /\ UNCHANGED <<current, client>>

-----------------------------------------------------------------------------
(* fork and process creation *)

thread_create(m) ==
    LET WithStack(t, k) ==
            IF k.ptr = 0 THEN [m |-> kfree(k.m, t), ok |-> FALSE, ptrs |-> <<0, 0>>]
            ELSE [m |-> k.m, ok |-> TRUE, ptrs |-> <<t, k.ptr>>]
        Thread(t) == IF t.ptr = 0 THEN [m |-> t.m, ok |-> FALSE, ptrs |-> <<0, 0>>]
                     ELSE WithStack(t.ptr, kmalloc(t.m, THREAD_STACK_SIZE))
    IN Thread(kmalloc(m, SizeofThread))

\* The copy is made first; every later failure gives back tables and blocks,
\* but not the copied pages.  A child whose table of descriptors could not be
\* had goes on without one.
proc_fork(child) ==
    /\ ~Halted /\ current # 0
    /\ procs[child].st = "none" /\ \A q \in Proc : q < child => procs[q].st # "none"
    /\ UNCHANGED <<current, client>>
    /\ \E f \in {vmm_fork_address_space(mem, Running.space)} :
          \/ ~f.ok /\ Outcome(f.m, procs, cr3)
          \/ /\ f.ok
             /\ \E pcb \in {kmalloc(f.m, SizeofProcess)} :
                \/ pcb.ptr = 0 /\ Outcome(vmm_destroy_user_pml4(pcb.m, f.s), procs, cr3)
                \/ /\ pcb.ptr # 0
                   /\ \E fdt \in {kmalloc(pcb.m, IF Running.ptrs[2] = 0 THEN 0 ELSE SizeofFdTable)} :
                      \E t \in {thread_create(fdt.m)} :
                         \/ /\ ~t.ok
                            /\ Outcome(kfree(vmm_destroy_user_pml4(kfree(t.m, fdt.ptr), f.s), pcb.ptr),
                                       procs, cr3)
                         \/ /\ t.ok
                            /\ Outcome(t.m, [procs EXCEPT ![child] =
                                     [Running EXCEPT !.space = f.s,
                                         !.ptrs = <<pcb.ptr, fdt.ptr>> \o t.ptrs]], cr3)

\* Boot: proc_create_user, the descriptor table and the thread of init.
init_launch(m) ==
    LET Launched(t, s, pcb, fdt) ==
            [m |-> t.m, p |-> [NoProc EXCEPT !.st = "new", !.space = s, !.ptrs = <<pcb, fdt>> \o t.ptrs]]
        WithFds(fdt, s, pcb) == Launched(thread_create(fdt.m), s, pcb, fdt.ptr)
        WithSpace(c, pcb) == WithFds(kmalloc(c.m, SizeofFdTable), c.s, pcb)
        WithPcb(pcb) == WithSpace(vmm_create_user_pml4(pcb.m), pcb.ptr)
    IN WithPcb(kmalloc(m, SizeofProcess))

\* The thread of init loads the first image; on an error it returns and ends.
init_thread_entry(img) ==
    /\ ~Halted /\ procs[1].st = "new"
    /\ \E b \in {BuildImage([m |-> mem, s |-> procs[1].space], img)} :
          /\ Outcome(b.m, [procs EXCEPT ![1].st = IF b.ok THEN "alive" ELSE "dead",
                                        ![1].space = b.s, ![1].sp = StackTop * PAGE_SIZE,
                                        ![1].brk_start = b.brk, ![1].brk = b.brk],
                     IF b.ok THEN b.s.pml4 ELSE cr3)
          /\ current' = IF b.ok /\ ~b.m.panic THEN 1 ELSE 0
    /\ UNCHANGED client

-----------------------------------------------------------------------------
(* the CPU *)

proc_get_cr3(p) == IF p = 0 THEN mem.kern.pml4 ELSE procs[p].space.pml4

\* Mutant: CR3 is not loaded.
SwitchTo_stale(next) == current' = next /\ UNCHANGED cr3

\* sched_schedule's choice of CR3 when the CPU goes to thread next.
SwitchTo(next) ==
    /\ current' = next
    /\ cr3' = IF proc_get_cr3(next) # proc_get_cr3(current) THEN proc_get_cr3(next) ELSE cr3

sched_schedule(next) ==
    /\ ~Halted /\ next # current
    /\ next # 0 => procs[next].st = "alive"
    /\ next = 0 => \A p \in Proc : procs[p].st # "alive"
    /\ SwitchTo(next)
    /\ UNCHANGED <<mem, procs, client, calls>>

\* Exit frees no page: the address space stays with the zombie for ever.
sys_exit(next) ==
    /\ ~Halted /\ current # 0
    /\ next # current
    /\ next # 0 => procs[next].st = "alive"
    /\ next = 0 => \A p \in Proc \ {current} : procs[p].st # "alive"
    /\ procs' = [procs EXCEPT ![current].st = "dead"]
    /\ SwitchTo(next)
    /\ UNCHANGED <<mem, client, calls>>

\* A store translates through CR3, whosever tables it points to.
UserStore(v) ==
    \E p \in Proc :
        /\ ~Halted /\ current # 0
        /\ procs[p].st # "none" /\ procs[p].space.pml4 = cr3
        /\ v \in DOMAIN procs[p].space.leaf
        /\ {"USER", "WRITABLE"} \subseteq procs[p].space.leaf[v].pte
        /\ mem' = [mem EXCEPT !.data[procs[p].space.leaf[v].page] = Stored]
        /\ UNCHANGED <<procs, current, cr3, client, calls>>

\* Another user of the kernel heap: krealloc covers kmalloc and kfree.
HeapClient(c, size) ==
    /\ ~Halted
    /\ \E r \in {krealloc(mem, client[c].ptr, size)} :
          /\ Outcome(r.m, procs, cr3)
          /\ client' = IF r.m.panic \/ (size # 0 /\ r.ptr = 0) THEN client
                       ELSE [client EXCEPT ![c] = [ptr |-> r.ptr, size |-> size]]
    /\ UNCHANGED current

Init ==
    /\ \E ring \in {pmm_alloc_contiguous(kmalloc_init(vmm_init(pmm_init)), RingPages)} :
       \E boot \in {init_launch(ring.m)} :
          /\ mem = boot.m @@ [ring |-> ring.page]
          /\ procs = [p \in Proc |-> IF p = 1 THEN boot.p ELSE NoProc]
          /\ cr3 = boot.m.kern.pml4
    /\ current = 0
    /\ client = [c \in Clients |-> [ptr |-> 0, size |-> 0]]
    /\ calls = 0

Next ==
    \/ \E img \in Images : init_thread_entry(img)
    \/ \E img \in Images, argv \in Argvs : sys_exec(img, argv)
    \/ \E d \in BrkSteps : sys_brk(Running.brk_start + d)
    \/ \E p \in Proc : proc_fork(p)
    \/ \E p \in 0 .. MaxProc : sched_schedule(p) \/ sys_exit(p)
    \/ \E v \in StorePages : UserStore(v)
    \/ \E c \in Clients, size \in ClientSizes : HeapClient(c, size)

Spec == Init /\ [][Next]_vars

-----------------------------------------------------------------------------
Exists == {p \in Proc : procs[p].st # "none"}
Alive == {p \in Proc : procs[p].st = "alive"}

SpacePages(s) == Range(s.tab) \cup LeafPages(s) \cup {s.pml4}
SpaceCount(s) == Cardinality(DOMAIN s.tab) + Cardinality(DOMAIN s.leaf) + 1
\* The kernel's own space without the leaves of its image.
KernelOwned == [mem.kern EXCEPT !.leaf = [v \in {w \in DOMAIN @ : w >= HeapBase} |-> @[v]]]
Ring == mem.ring .. mem.ring + RingPages - 1
Owned == Ring \cup SpacePages(KernelOwned) \cup UNION {SpacePages(procs[p].space) : p \in Exists}

Reserved == pmm_init.used
Leaked == mem.used \ (Reserved \cup Owned)

\* The frames, the processes and the heap clients have their types, and a
\* process that runs is alive (sched_schedule never picks a dead one).
TypeOK ==
    /\ mem.used \subseteq Page /\ mem.free_pages \in 0 .. total_pages
    /\ DOMAIN procs = Proc /\ \A p \in Proc : procs[p].st \in {"none", "new", "alive", "dead"}
    /\ current \in Alive \cup {0}
    /\ cr3 \in Page
    /\ client \in [Clients -> [ptr : Nat, size : ClientSizes \cup {0}]]

\* No frame has two owners, an owned frame is never free, and the two records
\* of free frames agree, after any mix of fork, exec, brk and heap growth,
\* failed ones included (pmm.c, vmm_free_user_pages, vmm_destroy_user_pml4).
FramesExclusive ==
    ~Halted =>
        /\ Owned \subseteq mem.used \ Reserved
        /\ RingPages + SpaceCount(KernelOwned) + MapThenSumSet(LAMBDA p : SpaceCount(procs[p].space), Exists)
             = Cardinality(Owned)
        /\ CountMatches(mem)
        /\ \A f \in Page : vmm_get_phys(mem.kern, HHDM + f) = f

Held == {<<0, c, client[c].ptr, client[c].size>> : c \in {d \in Clients : client[d].ptr # 0}}
        \cup {<<p, i, procs[p].ptrs[i],
                <<SizeofProcess, SizeofFdTable, SizeofThread, THREAD_STACK_SIZE>>[i]>> :
                <<p, i>> \in {x \in Exists \X (1 .. 4) : procs[x[1]].ptrs[x[2]] # 0}}

\* The heap is sound and every block somebody holds is there, marked used and
\* large enough; no two holders share one (kmalloc.c; a failed growth, a
\* failed fork and krealloc in place included).
BlocksHeld ==
    ~Halted =>
        /\ HeapSound(mem)
        /\ \A h \in Held : \E b \in Range(mem.heap) :
              b.addr + HEADER_SIZE = h[3] /\ ~b.free /\ b.size >= h[4]
        /\ Cardinality(Held) = Cardinality({b \in Range(mem.heap) : ~b.free})

\* Memory has one owner: each frame and each block of the kernel heap.
MemoryOwned == TypeOK /\ FramesExclusive /\ BlocksHeld

\* Below the break, and on the stack down to the initial pointer, user code
\* does not fault (sys_brk's partial failure, exec's argv of any legal size),
\* and it runs on its own tables under the kernel's current upper half.
ImageMapped ==
    ~Halted => \A p \in Alive :
        LET s == procs[p].space IN
        /\ \A a \in procs[p].brk_start .. procs[p].brk - 1 : a \div PAGE_SIZE \in DOMAIN s.leaf
        /\ procs[p].sp >= (StackTop - USER_STACK_PAGES) * PAGE_SIZE
        /\ StackPages \subseteq DOMAIN s.leaf
        /\ p = current => cr3 = s.pml4
        /\ s.khalf = [i \in DOMAIN s.khalf |-> mem.kern.tab[<<i>>]]
        /\ {Index(v)[1] : v \in DOMAIN mem.kern.leaf} \subseteq DOMAIN s.khalf

Remapped == \E p \in Proc : \E v \in DOMAIN procs[p].space.leaf :
    /\ procs'[p].brk_start = procs[p].brk_start /\ procs'[p].space.pml4 = procs[p].space.pml4
    /\ procs'[p].space.leaf[v].page # procs[p].space.leaf[v].page

\* A step loses frames only when a call fails half way, leaving every process
\* as it was, or when brk maps over a page it had mapped before: a completed
\* fork, exec or exit never does (vmm_free_user_pages frees leaves and tables).
LeaksOnlyOnFailure ==
    [][Leaked' \subseteq Leaked \/ procs' = procs \/ Remapped]_vars

\* The memory a program starts with: its image, and its argv on the stack.
ProgramOf(img, argv) ==
    [v \in UNION {SegPages(img.segs[i]) : i \in DOMAIN img.segs} \cup StackPages |->
        IF v \in StackPages
        THEN IF argv # <<>> /\ (v + 1) * PAGE_SIZE > exec_setup_user_stack(argv) THEN Tag ELSE 0
        ELSE IF \E i \in DOMAIN img.segs, o \in 0 .. PAGE_SIZE - 1 :
                    LET a == v * PAGE_SIZE + o
                    IN img.segs[i].vaddr <= a /\ a < img.segs[i].vaddr + img.segs[i].filesz
             THEN img.tag ELSE 0]

Abstract == INSTANCE PrivateMemory WITH
    Programs <- {ProgramOf(img, argv) : img \in {i \in Images : i.valid}, argv \in Argvs \cup {<<>>}},
    Grown <- {v \in 0 .. StackTop - USER_STACK_PAGES - 1 :
                \E img \in Images, d \in BrkSteps :
                    LET top == Max({img.segs[i].vaddr + img.segs[i].memsz : i \in DOMAIN img.segs})
                    IN top <= v * PAGE_SIZE /\ v * PAGE_SIZE < PAGE_ALIGN_UP(top) + d},
    Written <- Stored,
    runs <- current,
    memory <- [p \in Proc |->
                IF procs[p].st = "alive"
                THEN [v \in DOMAIN procs[p].space.leaf |-> mem.data[procs[p].space.leaf[v].page]]
                ELSE [v \in {} |-> 0]]

\* Every process has a private memory: fork copies it, exec replaces it by the
\* image and its argv, brk adds zero pages, and nothing else touches it.
PrivateMemory == Abstract!PrivateSpec
=============================================================================
