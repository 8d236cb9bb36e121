-------------------------------- MODULE Pipe --------------------------------
(***************************************************************************)
(* Pipes and the descriptors that refer to them: kernel/fs/pipe.c,         *)
(* kernel/proc/fd.c and the system calls pipe, read, write, close, dup,    *)
(* dup2, fork and exit as far as they touch a pipe.                        *)
(*                                                                         *)
(* One pipe exists at a time.  A system call runs with interrupts off, so  *)
(* it is one step up to its end or to the wq_sleep in it; wq_sleep is used *)
(* by its contract (the caller continues once it is woken).                *)
(***************************************************************************)
EXTENDS Naturals, Sequences, FiniteSets, FiniteSetsExt

CONSTANTS
    Proc, First,    \* processes; the one that exists at the start
    MAX_FDS,
    Byte,
    PIPE_BUF_SIZE,
    Wrap,           \* the counters are uint32_t: 2^32 in the code
    MaxRead,        \* bound on the size argument of read
    Payload,        \* what is written
    Reader,         \* the processes that read
    Fatal           \* whether signals (SIGPIPE too) are left at their default

ASSUME PipeAssumption ==
    /\ IsFiniteSet(Proc) /\ First \in Proc /\ Reader \subseteq Proc
    /\ MAX_FDS \in Nat /\ MaxRead \in Nat /\ Fatal \in BOOLEAN
    /\ PIPE_BUF_SIZE \in Nat \ {0}
    /\ Byte # {} /\ Payload \subseteq Seq(Byte) \ {<<>>}
    /\ Wrap \in Nat /\ Wrap > PIPE_BUF_SIZE /\ Wrap % PIPE_BUF_SIZE = 0

Fd == 0..(MAX_FDS - 1)

VARIABLES
    pipe,   \* the PipeNode; see PipeNode below
    table,  \* each process's descriptors: "free", "r" or "w"
    alive,  \* "none", "alive" or "dead"
    call,   \* the read or write a process is in
    moved   \* the bytes the last step copied from or to a user buffer

vars == <<pipe, table, alive, call, moved>>

PipeNode == [buf : [0..(PIPE_BUF_SIZE - 1) -> Byte],
             head : 0..(Wrap - 1), tail : 0..(Wrap - 1),
             reader_count : Nat, writer_count : Nat,
             readers_wq : Seq(Proc), writers_wq : Seq(Proc),
             exists : BOOLEAN]

\* In user mode; in pipe_read with size wanted; in pipe_write with src left to
\* write, total > 0 or not.
User == [op |-> "user"]
Reading(n) == [op |-> "read", size |-> n]
Writing(d, some) == [op |-> "write", src |-> d, some |-> some]

Nothing == [by |-> "none", bytes |-> <<>>]
From(d) == IF d = <<>> THEN Nothing ELSE [by |-> "writer", bytes |-> d]
To(d) == [by |-> "reader", bytes |-> d]

\* A zeroed PipeNode; exists is set by pipe_create and cleared by kfree.
NoPipe == [buf |-> [i \in 0..(PIPE_BUF_SIZE - 1) |-> CHOOSE b \in Byte : TRUE],
           head |-> 0, tail |-> 0, reader_count |-> 0, writer_count |-> 0,
           readers_wq |-> <<>>, writers_wq |-> <<>>, exists |-> FALSE]

Init ==
    /\ pipe = NoPipe
    /\ table = [p \in Proc |-> [f \in Fd |-> "free"]]
    /\ alive = [p \in Proc |-> IF p = First THEN "alive" ELSE "none"]
    /\ call = [p \in Proc |-> User]
    /\ moved = Nothing

----------------------------------------------------------------------------
(* The pipe                                                                *)

\* Mutant: the counters are compared before they are subtracted.
Used_compare(P) == IF P.head > P.tail THEN P.head - P.tail ELSE 0

\* head - tail, in uint32_t.
Used(P) == (P.head + Wrap - P.tail) % Wrap
Space(P) == PIPE_BUF_SIZE - Used(P)

\* The next k bytes at the tail.
Taken(P, k) == [i \in 1..k |-> P.buf[(P.tail + i - 1) % PIPE_BUF_SIZE]]

WakeOne(q) == IF q = <<>> THEN q ELSE Tail(q)

\* The first k bytes of d go into the ring.
put(P, d, k) ==
    [P EXCEPT !.buf = [i \in DOMAIN @ |->
                          LET j == (i + Wrap - P.head) % PIPE_BUF_SIZE
                          IN  IF j < k THEN d[j + 1] ELSE @[i]],
              !.head = (@ + k) % Wrap]

\* Mutant: the writers are not woken when the last reader goes.
pipe_close_no_wake(P, r, w) ==
    LET Q == [P EXCEPT !.reader_count = @ - r, !.writer_count = @ - w]
    IN  IF Q.reader_count = 0 /\ Q.writer_count = 0 /\ r + w > 0 THEN NoPipe ELSE Q

\* pipe_close of r references to the read end and w to the write end: the other
\* side is woken, and the last reference frees the pipe.
pipe_close(P, r, w) ==
    LET Q == [P EXCEPT !.reader_count = @ - r,
                       !.writers_wq = IF r > 0 THEN <<>> ELSE @,
                       !.writer_count = @ - w,
                       !.readers_wq = IF w > 0 THEN <<>> ELSE @]
    IN  IF Q.reader_count = 0 /\ Q.writer_count = 0 /\ r + w > 0 THEN NoPipe ELSE Q

pipe_addref(P, r, w) == [P EXCEPT !.reader_count = @ + r, !.writer_count = @ + w]

One(e, end) == IF e = end THEN 1 ELSE 0
Held(t, end) == Cardinality({f \in Fd : t[f] = end})

----------------------------------------------------------------------------
(* System calls                                                            *)

InUser(p) == alive[p] = "alive" /\ call[p] = User
Asleep(p) == p \in Range(pipe.readers_wq)
Blocked(p) == p \in Range(pipe.writers_wq)

\* pipe_read, from its start or from the return of wq_sleep: take what is there,
\* return 0 at the end of file, or sleep.
pipe_read(p, n) ==
    /\ \/ /\ Used(pipe) > 0
          /\ pipe' = [pipe EXCEPT !.tail = (@ + Min({n, Used(pipe)})) % Wrap,
                                  !.writers_wq = WakeOne(@)]
          /\ call' = [call EXCEPT ![p] = User]
          /\ moved' = To(Taken(pipe, Min({n, Used(pipe)})))
       \/ /\ Used(pipe) = 0 /\ pipe.writer_count = 0
          /\ call' = [call EXCEPT ![p] = User]
          /\ moved' = Nothing
          /\ UNCHANGED pipe
       \/ /\ Used(pipe) = 0 /\ pipe.writer_count > 0
          /\ pipe' = [pipe EXCEPT !.readers_wq = Append(@, p)]
          /\ call' = [call EXCEPT ![p] = Reading(n)]
          /\ moved' = Nothing
    /\ UNCHANGED <<table, alive>>

\* pipe_write and the SIGPIPE of sys_write, from the start or from the return of
\* wq_sleep.  Only a write that has come to its end wakes a reader.
pipe_write(p, d, some) ==
    \/ /\ pipe.reader_count = 0
       /\ call' = [call EXCEPT ![p] = User]
       /\ alive' = [alive EXCEPT ![p] = IF Fatal /\ ~some THEN "dead" ELSE @]
       /\ moved' = Nothing
       /\ UNCHANGED <<pipe, table>>
    \/ /\ pipe.reader_count > 0 /\ Len(d) <= Space(pipe)
       /\ pipe' = [put(pipe, d, Len(d)) EXCEPT !.readers_wq = WakeOne(@)]
       /\ call' = [call EXCEPT ![p] = User]
       /\ moved' = From(d)
       /\ UNCHANGED <<table, alive>>
    \/ /\ pipe.reader_count > 0 /\ Len(d) > Space(pipe)
       /\ pipe' = [put(pipe, d, Space(pipe)) EXCEPT !.writers_wq = Append(@, p)]
       /\ call' = [call EXCEPT ![p] = Writing(SubSeq(d, Space(pipe) + 1, Len(d)),
                                              some \/ Space(pipe) > 0)]
       /\ moved' = From(SubSeq(d, 1, Space(pipe)))
       /\ UNCHANGED <<table, alive>>

sys_read(p, f, n) == InUser(p) /\ table[p][f] = "r" /\ pipe_read(p, n)
sys_write(p, f, d) == InUser(p) /\ table[p][f] = "w" /\ pipe_write(p, d, FALSE)

\* A woken reader or writer goes on with its loop.
read_on(p) == call[p].op = "read" /\ ~Asleep(p) /\ pipe_read(p, call[p].size)
write_on(p) == call[p].op = "write" /\ ~Blocked(p) /\ pipe_write(p, call[p].src, call[p].some)

FreeFds(p) == {f \in Fd : table[p][f] = "free"}

\* fd_alloc takes the lowest two descriptors; without two the new pipe is closed
\* again at both ends.
sys_pipe(p) ==
    /\ InUser(p) /\ ~pipe.exists
    /\ IF Cardinality(FreeFds(p)) < 2 THEN UNCHANGED <<pipe, table>>
       ELSE LET r == Min(FreeFds(p))
                w == Min(FreeFds(p) \ {r})
            IN  /\ pipe' = [NoPipe EXCEPT !.exists = TRUE, !.reader_count = 1, !.writer_count = 1]
                /\ table' = [table EXCEPT ![p][r] = "r", ![p][w] = "w"]
    /\ moved' = Nothing
    /\ UNCHANGED <<alive, call>>

sys_close(p, f) ==
    LET e == table[p][f]
    IN  /\ InUser(p) /\ e # "free"
        /\ pipe' = pipe_close(pipe, One(e, "r"), One(e, "w"))
        /\ table' = [table EXCEPT ![p][f] = "free"]
        /\ moved' = Nothing
        /\ UNCHANGED <<alive, call>>

sys_dup(p, f) ==
    LET e == table[p][f]
    IN  /\ InUser(p) /\ e # "free" /\ FreeFds(p) # {}
        /\ pipe' = pipe_addref(pipe, One(e, "r"), One(e, "w"))
        /\ table' = [table EXCEPT ![p][Min(FreeFds(p))] = e]
        /\ moved' = Nothing
        /\ UNCHANGED <<alive, call>>

\* Mutant: the descriptor that is replaced is not closed.
sys_dup2_no_close(p, f, g) ==
    LET e == table[p][f]
    IN  /\ InUser(p) /\ e # "free" /\ f # g
        /\ pipe' = pipe_addref(pipe, One(e, "r"), One(e, "w"))
        /\ table' = [table EXCEPT ![p][g] = e]
        /\ moved' = Nothing
        /\ UNCHANGED <<alive, call>>

\* The target is closed first if it is open.
sys_dup2(p, f, g) ==
    LET e == table[p][f]
        h == table[p][g]
    IN  /\ InUser(p) /\ e # "free" /\ f # g
        /\ pipe' = pipe_addref(pipe_close(pipe, One(h, "r"), One(h, "w")), One(e, "r"), One(e, "w"))
        /\ table' = [table EXCEPT ![p][g] = e]
        /\ moved' = Nothing
        /\ UNCHANGED <<alive, call>>

\* proc_fork's fd_table_dup: each copied descriptor is a reference.
fork(p, c) ==
    /\ InUser(p) /\ alive[c] = "none"
    /\ alive' = [alive EXCEPT ![c] = "alive"]
    /\ table' = [table EXCEPT ![c] = table[p]]
    /\ pipe' = pipe_addref(pipe, Held(table[p], "r"), Held(table[p], "w"))
    /\ moved' = Nothing
    /\ UNCHANGED call

\* sys_exit closes every descriptor.
sys_exit(p) ==
    /\ InUser(p)
    /\ alive' = [alive EXCEPT ![p] = "dead"]
    /\ table' = [table EXCEPT ![p] = [f \in Fd |-> "free"]]
    /\ pipe' = pipe_close(pipe, Held(table[p], "r"), Held(table[p], "w"))
    /\ moved' = Nothing
    /\ UNCHANGED call

\* sig_terminate, at the end of some system call, leaves the descriptors alone.
sig_terminate(p) ==
    /\ Fatal /\ InUser(p)
    /\ alive' = [alive EXCEPT ![p] = "dead"]
    /\ moved' = Nothing
    /\ UNCHANGED <<pipe, table, call>>

Continue == \E p \in Proc : read_on(p) \/ write_on(p)

Next ==
    \/ Continue
    \/ \E p \in Reader, f \in Fd, n \in 1..MaxRead : sys_read(p, f, n)
    \/ \E p \in Proc, f \in Fd, d \in Payload : sys_write(p, f, d)
    \/ \E p \in Proc : sys_pipe(p) \/ sys_exit(p) \/ sig_terminate(p)
    \/ \E p \in Proc, f \in Fd : sys_close(p, f) \/ sys_dup(p, f)
    \/ \E p \in Proc, f, g \in Fd : sys_dup2(p, f, g)
    \/ \E p, c \in Proc : fork(p, c)

Spec == Init /\ [][Next]_vars

----------------------------------------------------------------------------
(* Properties                                                              *)

\* Types, and never more bytes in the ring than it holds.
TypeOK ==
    /\ pipe \in PipeNode
    /\ Used(pipe) <= PIPE_BUF_SIZE
    /\ table \in [Proc -> [Fd -> {"free", "r", "w"}]]
    /\ alive \in [Proc -> {"none", "alive", "dead"}]

Refs(end) == Cardinality({pf \in Proc \X Fd : table[pf[1]][pf[2]] = end})

\* The counts of pipe.c are the number of descriptors that refer to each end, in
\* all tables, through every order of dup, dup2, close, fork and exit; so the
\* pipe is freed with its last descriptor and never while one refers to it or a
\* process is inside pipe_read or pipe_write.
CountsMatch ==
    /\ TypeOK
    /\ pipe.reader_count = Refs("r") /\ pipe.writer_count = Refs("w")
    /\ pipe.exists <=> Refs("r") + Refs("w") > 0
    /\ \A p \in Proc : call[p] # User => pipe.exists

\* What CountsMatch rests on: a process in a call waits in the queue of that call,
\* once, and still holds the descriptor it was made with; no process, and no
\* pipe, is left over from before its creation.
CallsSound ==
    /\ IsInjective(pipe.readers_wq) /\ IsInjective(pipe.writers_wq)
    /\ ~pipe.exists => pipe = NoPipe
    /\ DOMAIN call = Proc
    /\ \A p \in Proc :
         /\ \/ call[p] = User
            \/ /\ call[p].op = "read" /\ p \in Reader /\ call[p].size \in 1..MaxRead
               /\ \E f \in Fd : table[p][f] = "r"
            \/ /\ call[p].op = "write" /\ call[p].src \in Seq(Byte) \ {<<>>}
               /\ call[p].some \in BOOLEAN
               /\ \E f \in Fd : table[p][f] = "w"
         /\ Asleep(p) => call[p].op = "read"
         /\ Blocked(p) => call[p].op = "write"
         /\ alive[p] = "none" => call[p] = User /\ \A f \in Fd : table[p][f] = "free"

IInv == CountsMatch /\ CallsSound

\* A blocked writer has something to wait for: there are readers, and either
\* bytes for them to take or a woken writer that will provide some.
NoStrandedWriter ==
    \A p \in Proc : Blocked(p) =>
        /\ pipe.reader_count > 0
        /\ Used(pipe) > 0 \/ \E q \in Proc : call[q].op = "write" /\ ~Blocked(q)

\* "writers wake readers" (pipe.c): while there are bytes to read, the reader is
\* not asleep, or another that was woken is about to take them.
NoStrandedReader ==
    \A p \in Proc : Asleep(p) =>
        Used(pipe) = 0 \/ \E q \in Proc : call[q].op = "read" /\ ~Asleep(q)

\* A reader sleeps only while there is a descriptor someone could write to: the
\* close of the last one wakes every reader, and each then sees the end of file.
SleeperHasWriter == \A p \in Proc : Asleep(p) => Refs("w") > 0

\* Nobody sleeps on a pipe without a cause that someone can remove.
NobodyStranded == NoStrandedWriter /\ NoStrandedReader /\ SleeperHasWriter

\* sys_exit's "critical for pipe EOF signaling" (syscall.c:87): a reader that is
\* asleep has a living process with a write end.  Death by a signal breaks it.
WriterAlive ==
    \A p \in Proc : Asleep(p) =>
        \E q \in Proc : alive[q] = "alive" /\ Held(table[q], "w") > 0

Abstract == INSTANCE Channel WITH
    chan <- Taken(pipe, Used(pipe)), open <- pipe.exists, Capacity <- PIPE_BUF_SIZE

\* The ring buffer with its wrapping counters is a bounded FIFO channel.
ImplementsChannel == Abstract!Spec
============================================================================
