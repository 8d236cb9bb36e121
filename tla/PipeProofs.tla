----------------------------- MODULE PipeProofs -----------------------------
(***************************************************************************)
(* Proofs about Pipe, for any number of processes and descriptors, any     *)
(* ring whose size divides the range of its counters, and any payload.     *)
(***************************************************************************)
EXTENDS PipeLemmas

----------------------------------------------------------------------------
(* Reading and writing                                                     *)

\* wq_wake takes the first sleeper out, if there is one.
LEMMA WakeOneIs ==
    ASSUME NEW q \in Seq(Proc), IsInjective(q)
    PROVE  /\ WakeOne(q) \in Seq(Proc) /\ IsInjective(WakeOne(q))
           /\ \A u \in Proc : u \in Range(WakeOne(q)) => u \in Range(q)
           /\ q # <<>> => \E h \in Proc : h \in Range(q) /\ h \notin Range(WakeOne(q))
           /\ q = <<>> => WakeOne(q) = <<>>
  <1>1. CASE q = <<>>
    BY <1>1 DEF WakeOne
  <1>2. CASE q # <<>>
    <2>1. /\ Head(q) \in Proc /\ Head(q) \in Range(q) /\ Tail(q) \in Seq(Proc) /\ IsInjective(Tail(q))
          /\ \A u \in Proc : u \in Range(Tail(q)) <=> u \in Range(q) /\ u # Head(q)
      BY <1>2, TailQueue
    <2> QED
      BY <1>2, <2>1 DEF WakeOne
  <1> QED
    BY <1>1, <1>2

\* Process p is at the start of pipe_read's loop, or of pipe_write's.
AtRead(p, n) ==
    /\ p \in Reader /\ n \in 1..MaxRead /\ \E f \in Fd : table[p][f] = "r"
    /\ ~Asleep(p) /\ ~Blocked(p) /\ alive[p] # "none" /\ call[p].op \in {"user", "read"}
AtWrite(p, d, some) ==
    /\ d \in Seq(Byte) /\ d # <<>> /\ some \in BOOLEAN /\ \E f \in Fd : table[p][f] = "w"
    /\ d \in Payload \/ (call[p].op = "write" /\ d = call[p].src)
    /\ ~Asleep(p) /\ ~Blocked(p) /\ alive[p] # "none" /\ call[p].op \in {"user", "write"}

LEMMA UserAwake ==
    ASSUME IInv, NEW p \in Proc, InUser(p)
    PROVE  ~Asleep(p) /\ ~Blocked(p) /\ alive[p] # "none" /\ call[p].op = "user"
  BY DEF IInv, CallsSound, InUser, User

LEMMA ReadStarts ==
    ASSUME IInv, NEW p \in Reader, NEW f \in Fd, NEW n \in 1..MaxRead, sys_read(p, f, n)
    PROVE  p \in Proc /\ AtRead(p, n) /\ pipe_read(p, n)
  <1>1. p \in Proc
    BY PipeAssumption
  <1> QED
    BY <1>1, UserAwake DEF sys_read, AtRead

LEMMA ReadGoesOn ==
    ASSUME IInv, NEW p \in Proc, read_on(p)
    PROVE  AtRead(p, call[p].size) /\ pipe_read(p, call[p].size)
  <1>1. call[p].op = "read" /\ ~Asleep(p) /\ pipe_read(p, call[p].size)
    BY DEF read_on
  <1>2. call[p] # User
    BY <1>1 DEF User
  <1> QED
    BY <1>1, <1>2 DEF IInv, CallsSound, AtRead

LEMMA WriteStarts ==
    ASSUME IInv, NEW p \in Proc, NEW f \in Fd, NEW d \in Payload, sys_write(p, f, d)
    PROVE  AtWrite(p, d, FALSE) /\ pipe_write(p, d, FALSE)
  <1>1. d \in Seq(Byte) /\ d # <<>>
    BY PipeAssumption
  <1> QED
    BY <1>1, UserAwake, Zenon DEF sys_write, AtWrite

LEMMA WriteGoesOn ==
    ASSUME IInv, NEW p \in Proc, write_on(p)
    PROVE  AtWrite(p, call[p].src, call[p].some) /\ pipe_write(p, call[p].src, call[p].some)
  <1>1. call[p].op = "write" /\ ~Blocked(p) /\ pipe_write(p, call[p].src, call[p].some)
    BY DEF write_on
  <1>2. call[p] # User
    BY <1>1 DEF User
  <1> QED
    BY <1>1, <1>2 DEF IInv, CallsSound, AtWrite

\* A step of a call keeps the invariant if it leaves the tables and counts alone
\* and puts nobody but its own process into a queue, the one of its new call.
LEMMA CallInv ==
    ASSUME IInv, NEW p \in Proc, ~Asleep(p), ~Blocked(p), alive[p] # "none",
           \E f \in Fd : table[p][f] = "r" \/ table[p][f] = "w",
           table' = table, alive' \in [Proc -> {"none", "alive", "dead"}], alive'[p] # "none",
           \A q \in Proc \ {p} : alive'[q] = alive[q],
           NEW x, call' = [call EXCEPT ![p] = x],
           \/ x = User
           \/ /\ x.op = "read" /\ p \in Reader /\ x.size \in 1..MaxRead
              /\ \E f \in Fd : table[p][f] = "r"
           \/ /\ x.op = "write" /\ x.src \in Seq(Byte) \ {<<>>} /\ x.some \in BOOLEAN
              /\ \E f \in Fd : table[p][f] = "w",
           pipe' \in PipeNode, Used(pipe') <= PIPE_BUF_SIZE,
           pipe'.reader_count = pipe.reader_count, pipe'.writer_count = pipe.writer_count,
           pipe'.exists = pipe.exists,
           IsInjective(pipe'.readers_wq), IsInjective(pipe'.writers_wq),
           \A q \in Proc : Asleep(q)' => Asleep(q) \/ (q = p /\ x.op = "read"),
           \A q \in Proc : Blocked(q)' => Blocked(q) \/ (q = p /\ x.op = "write")
    PROVE  IInv' /\ pipe.exists
  <1>1. pipe.exists
    BY InvCounted, InCall
  <1>2. TypeOK'
    BY InvCounted, SMTT(30) DEF TypeOK, Row, End
  <1>3. CountsMatch'
    BY <1>1, <1>2, Zenon DEF IInv, CountsMatch, Refs
  <1>4. call'[p] = x /\ DOMAIN call' = Proc /\ \A q \in Proc \ {p} : call'[q] = call[q]
    BY SMTT(30) DEF IInv, CallsSound
  <1>5. ASSUME NEW q \in Proc
        PROVE  /\ \/ call'[q] = User
                  \/ /\ call'[q].op = "read" /\ q \in Reader /\ call'[q].size \in 1..MaxRead
                     /\ \E f \in Fd : table'[q][f] = "r"
                  \/ /\ call'[q].op = "write" /\ call'[q].src \in Seq(Byte) \ {<<>>}
                     /\ call'[q].some \in BOOLEAN
                     /\ \E f \in Fd : table'[q][f] = "w"
               /\ Asleep(q)' => call'[q].op = "read"
               /\ Blocked(q)' => call'[q].op = "write"
               /\ alive'[q] = "none" => call'[q] = User /\ \A f \in Fd : table'[q][f] = "free"
    <2>1. CASE q = p
      BY <1>4, <2>1
    <2>2. CASE q # p
      BY <1>4, <2>2, SMTT(30) DEF IInv, CallsSound
    <2> QED
      BY <2>1, <2>2
  <1>6. CallsSound'
    BY <1>1, <1>4, <1>5 DEF CallsSound
  <1> QED
    BY <1>1, <1>3, <1>6 DEF IInv

\* The bytes in the pipe, oldest first.
Bytes(P) == Taken(P, Used(P))

\* What a step inside a call leaves alone.
NodeKept ==
    /\ table' = table /\ pipe' \in PipeNode
    /\ pipe'.reader_count = pipe.reader_count /\ pipe'.writer_count = pipe.writer_count
    /\ pipe'.exists = pipe.exists

\* The three ways through pipe_read's loop, in terms of the bytes in the pipe.
ReadTakes(p) ==
    /\ call' = [call EXCEPT ![p] = User]
    /\ \E k \in 1..Used(pipe) :
         /\ moved' = To(Taken(pipe, k)) /\ Taken(pipe, k) # <<>>
         /\ Bytes(pipe) = Taken(pipe, k) \o Bytes(pipe') /\ Used(pipe') = Used(pipe) - k
    /\ pipe'.readers_wq = pipe.readers_wq /\ pipe'.writers_wq = WakeOne(pipe.writers_wq)
ReadEnds(p) ==
    /\ Used(pipe) = 0 /\ pipe.writer_count = 0
    /\ call' = [call EXCEPT ![p] = User] /\ moved' = Nothing /\ pipe' = pipe
ReadSleeps(p, n) ==
    /\ Used(pipe) = 0 /\ pipe.writer_count > 0
    /\ call' = [call EXCEPT ![p] = Reading(n)] /\ moved' = Nothing
    /\ Used(pipe') = Used(pipe) /\ Bytes(pipe') = Bytes(pipe)
    /\ pipe'.readers_wq = Append(pipe.readers_wq, p) /\ pipe'.writers_wq = pipe.writers_wq

\* A node with a new queue.
LEMMA ReadersSet ==
    ASSUME NEW P \in PipeNode, NEW rq \in Seq(Proc), NEW Q, Q = [P EXCEPT !.readers_wq = rq]
    PROVE  /\ Q \in PipeNode
           /\ Q.buf = P.buf /\ Q.head = P.head /\ Q.tail = P.tail /\ Q.exists = P.exists
           /\ Q.reader_count = P.reader_count /\ Q.writer_count = P.writer_count
           /\ Q.readers_wq = rq /\ Q.writers_wq = P.writers_wq
  BY Zenon DEF PipeNode

LEMMA WritersSet ==
    ASSUME NEW P \in PipeNode, NEW wq \in Seq(Proc), NEW Q, Q = [P EXCEPT !.writers_wq = wq]
    PROVE  /\ Q \in PipeNode
           /\ Q.buf = P.buf /\ Q.head = P.head /\ Q.tail = P.tail /\ Q.exists = P.exists
           /\ Q.reader_count = P.reader_count /\ Q.writer_count = P.writer_count
           /\ Q.readers_wq = P.readers_wq /\ Q.writers_wq = wq
  BY SMTT(30) DEF PipeNode

LEMMA QueuesAre ==
    ASSUME IInv
    PROVE  /\ pipe.readers_wq \in Seq(Proc) /\ IsInjective(pipe.readers_wq)
           /\ pipe.writers_wq \in Seq(Proc) /\ IsInjective(pipe.writers_wq)
  BY InvCounted DEF IInv, CallsSound, PipeNode

LEMMA ReadIs ==
    ASSUME IInv, NEW p \in Proc, NEW n \in 1..MaxRead, AtRead(p, n), pipe_read(p, n)
    PROVE  NodeKept /\ alive' = alive /\ (ReadTakes(p) \/ ReadEnds(p) \/ ReadSleeps(p, n))
  <1>1. table' = table /\ alive' = alive
    BY DEF pipe_read
  <1>2. pipe \in PipeNode /\ Used(pipe) \in Nat
    BY InvCounted, UsedIs, PipeAssumption
  <1>3. CASE Used(pipe) > 0
    <2> DEFINE k == Min({n, Used(pipe)})
               t == (pipe.tail + k) % Wrap
               wq == WakeOne(pipe.writers_wq)
    <2>1. /\ pipe' = [pipe EXCEPT !.tail = t, !.writers_wq = wq]
          /\ call' = [call EXCEPT ![p] = User]
          /\ moved' = To(Taken(pipe, k))
      BY <1>2, <1>3 DEF pipe_read
    <2>2. n \in Nat /\ n >= 1
      BY PipeAssumption
    <2>3. k = IF n <= Used(pipe) THEN n ELSE Used(pipe)
      BY <1>2, <2>2, MinTwo
    <2> HIDE DEF k
    <2>4. k \in 1..Used(pipe) /\ k \in 0..Used(pipe) /\ k \in Nat
      BY <1>2, <1>3, <2>2, <2>3
    <2>5. t \in 0..(Wrap - 1)
      <3>1. pipe.tail + k \in Int /\ Wrap \in Nat \ {0}
        BY <1>2, <2>4, PipeAssumption DEF PipeNode
      <3> QED
        BY <3>1, ModRange, Zenon
    <2>6. wq \in Seq(Proc)
      BY QueuesAre, WakeOneIs
    <2> HIDE DEF wq
    <2>7. /\ pipe' \in PipeNode
          /\ pipe'.buf = pipe.buf /\ pipe'.head = pipe.head /\ pipe'.tail = t
          /\ pipe'.exists = pipe.exists
          /\ pipe'.reader_count = pipe.reader_count /\ pipe'.writer_count = pipe.writer_count
          /\ pipe'.readers_wq = pipe.readers_wq /\ pipe'.writers_wq = wq
      <3> HIDE DEF t
      <3> QED
        BY <1>2, <2>1, <2>5, <2>6, Zenon DEF PipeNode
    <2>8. /\ Used(pipe') = Used(pipe) - k
          /\ Taken(pipe, Used(pipe)) = Taken(pipe, k) \o Taken(pipe', Used(pipe'))
      BY <1>2, <2>4, <2>7, ReadRing
    <2>9. Taken(pipe, k) # <<>>
      <3>1. Len(Taken(pipe, k)) = k
        BY <1>2, <2>4, TakenSeq
      <3>2. Len(<<>>) = 0 /\ k # 0
        BY <2>4
      <3> QED
        BY <3>1, <3>2
    <2>10. ReadTakes(p)
      BY <2>1, <2>4, <2>7, <2>8, <2>9 DEF ReadTakes, Bytes, wq
    <2> QED
      BY <1>1, <2>7, <2>10 DEF NodeKept
  <1>4. CASE Used(pipe) = 0 /\ pipe.writer_count = 0
    <2>1. pipe' = pipe /\ ReadEnds(p)
      BY <1>2, <1>4 DEF pipe_read, ReadEnds
    <2> QED
      BY <1>1, <1>2, <2>1 DEF NodeKept
  <1>5. CASE Used(pipe) = 0 /\ pipe.writer_count > 0
    <2> DEFINE rq == Append(pipe.readers_wq, p)
    <2>1. pipe' = [pipe EXCEPT !.readers_wq = rq]
          /\ call' = [call EXCEPT ![p] = Reading(n)] /\ moved' = Nothing
      BY <1>2, <1>5 DEF pipe_read
    <2>2. rq \in Seq(Proc)
      BY QueuesAre, SMTT(30)
    <2> HIDE DEF rq
    <2>3. /\ pipe' \in PipeNode
          /\ pipe'.buf = pipe.buf /\ pipe'.head = pipe.head /\ pipe'.tail = pipe.tail
          /\ pipe'.exists = pipe.exists
          /\ pipe'.reader_count = pipe.reader_count /\ pipe'.writer_count = pipe.writer_count
          /\ pipe'.readers_wq = rq /\ pipe'.writers_wq = pipe.writers_wq
      BY <1>2, <2>1, <2>2, ReadersSet
    <2>4. Used(pipe') = Used(pipe) /\ Bytes(pipe') = Bytes(pipe)
      BY <2>3, SameRing DEF Bytes
    <2>5. ReadSleeps(p, n)
      BY <1>5, <2>1, <2>3, <2>4 DEF ReadSleeps, rq
    <2> QED
      BY <1>1, <2>3, <2>5 DEF NodeKept
  <1>6. pipe.writer_count \in Nat
    BY InvCounted
  <1> QED
    BY <1>2, <1>3, <1>4, <1>5, <1>6

LEMMA ReadInv ==
    ASSUME IInv, NEW p \in Proc, NEW n \in 1..MaxRead, AtRead(p, n), NodeKept, alive' = alive,
           ReadTakes(p) \/ ReadEnds(p) \/ ReadSleeps(p, n)
    PROVE  IInv' /\ pipe.exists
  <1>1. /\ pipe \in PipeNode /\ Used(pipe) \in Nat /\ Used(pipe) <= PIPE_BUF_SIZE
        /\ alive \in [Proc -> {"none", "alive", "dead"}]
    BY InvCounted, UsedIs, PipeAssumption
  <1>2. /\ ~Asleep(p) /\ ~Blocked(p) /\ alive[p] # "none" /\ p \in Reader
        /\ \E f \in Fd : table[p][f] = "r"
    BY DEF AtRead
  <1>3. /\ pipe.readers_wq \in Seq(Proc) /\ IsInjective(pipe.readers_wq)
        /\ pipe.writers_wq \in Seq(Proc) /\ IsInjective(pipe.writers_wq)
    BY QueuesAre
  <1>4. CASE ReadTakes(p)
    <2>1. Used(pipe') <= PIPE_BUF_SIZE
      BY <1>1, <1>4, PipeAssumption DEF ReadTakes
    <2>2. /\ IsInjective(pipe'.readers_wq) /\ IsInjective(pipe'.writers_wq)
          /\ \A q \in Proc : Asleep(q)' => Asleep(q)
          /\ \A q \in Proc : Blocked(q)' => Blocked(q)
      BY <1>3, <1>4, WakeOneIs DEF ReadTakes, Asleep, Blocked
    <2>3. call' = [call EXCEPT ![p] = User]
      BY <1>4 DEF ReadTakes
    <2> QED
      BY <1>1, <1>2, <2>1, <2>2, <2>3, CallInv, ZenonT(30) DEF NodeKept
  <1>5. CASE ReadEnds(p)
    <2>1. pipe' = pipe /\ call' = [call EXCEPT ![p] = User]
      BY <1>5 DEF ReadEnds
    <2>2. \A q \in Proc : (Asleep(q)' => Asleep(q)) /\ (Blocked(q)' => Blocked(q))
      BY <2>1 DEF Asleep, Blocked
    <2>3. Used(pipe') <= PIPE_BUF_SIZE
      BY <1>1, <2>1
    <2> QED
      BY <1>1, <1>2, <1>3, <2>1, <2>2, <2>3, CallInv, Zenon DEF NodeKept
  <1>6. CASE ReadSleeps(p, n)
    <2>1. call' = [call EXCEPT ![p] = Reading(n)]
      BY <1>6 DEF ReadSleeps
    <2>2. Reading(n).op = "read" /\ Reading(n).size \in 1..MaxRead
      BY DEF Reading
    <2>3. Used(pipe') <= PIPE_BUF_SIZE
      BY <1>1, <1>6 DEF ReadSleeps
    <2>4. /\ IsInjective(pipe'.readers_wq) /\ IsInjective(pipe'.writers_wq)
          /\ \A q \in Proc : Asleep(q)' => Asleep(q) \/ q = p
          /\ \A q \in Proc : Blocked(q)' => Blocked(q)
      BY <1>2, <1>3, <1>6, AppendQueue, SMTT(30) DEF ReadSleeps, Asleep, Blocked
    <2> QED
      BY <1>1, <1>2, <2>1, <2>2, <2>3, <2>4, CallInv, Zenon DEF NodeKept
  <1> QED
    BY <1>4, <1>5, <1>6

\* The three ways through pipe_write's loop.
WriteBroken(p) ==
    /\ pipe.reader_count = 0 /\ pipe' = pipe
    /\ call' = [call EXCEPT ![p] = User] /\ moved' = Nothing
WriteEnds(p, d) ==
    /\ pipe.reader_count > 0 /\ alive' = alive
    /\ call' = [call EXCEPT ![p] = User] /\ moved' = From(d)
    /\ Used(pipe') = Used(pipe) + Len(d) /\ Used(pipe') <= PIPE_BUF_SIZE
    /\ Bytes(pipe') = Bytes(pipe) \o d
    /\ pipe'.readers_wq = WakeOne(pipe.readers_wq) /\ pipe'.writers_wq = pipe.writers_wq
WriteBlocks(p, d, rest, some) ==
    /\ pipe.reader_count > 0 /\ alive' = alive
    /\ rest \in Seq(Byte) /\ rest # <<>> /\ Len(rest) <= Len(d) /\ some \in BOOLEAN
    /\ Len(d) > PIPE_BUF_SIZE - Used(pipe)
    /\ call' = [call EXCEPT ![p] = Writing(rest, some)]
    /\ Used(pipe') = PIPE_BUF_SIZE
    /\ \E b \in Seq(Byte) : moved' = From(b) /\ Bytes(pipe') = Bytes(pipe) \o b
    /\ pipe'.readers_wq = pipe.readers_wq /\ pipe'.writers_wq = Append(pipe.writers_wq, p)

LEMMA WriteIs ==
    ASSUME IInv, NEW p \in Proc, NEW d, NEW some, AtWrite(p, d, some), pipe_write(p, d, some)
    PROVE  /\ NodeKept /\ alive' \in [Proc -> {"none", "alive", "dead"}] /\ alive'[p] # "none"
           /\ \A q \in Proc \ {p} : alive'[q] = alive[q]
           /\ \/ WriteBroken(p) \/ WriteEnds(p, d)
              \/ \E rest, s : WriteBlocks(p, d, rest, s)
  <1>1. /\ pipe \in PipeNode /\ Used(pipe) \in Nat /\ Used(pipe) <= PIPE_BUF_SIZE
        /\ alive \in [Proc -> {"none", "alive", "dead"}] /\ PIPE_BUF_SIZE \in Nat
        /\ pipe.reader_count \in Nat
    BY InvCounted, UsedIs, PipeAssumption
  <1>2. d \in Seq(Byte) /\ d # <<>> /\ some \in BOOLEAN /\ alive[p] # "none" /\ Len(d) \in Nat
    BY DEF AtWrite
  <1>3. CASE pipe.reader_count = 0
    <2>1. /\ call' = [call EXCEPT ![p] = User]
          /\ alive' = [alive EXCEPT ![p] = IF Fatal /\ ~some THEN "dead" ELSE @]
          /\ moved' = Nothing /\ pipe' = pipe /\ table' = table
      BY <1>1, <1>3 DEF pipe_write
    <2>2. /\ alive' \in [Proc -> {"none", "alive", "dead"}] /\ alive'[p] # "none"
          /\ \A q \in Proc \ {p} : alive'[q] = alive[q]
      BY <1>1, <1>2, <2>1
    <2>3. WriteBroken(p)
      BY <1>3, <2>1 DEF WriteBroken
    <2> QED
      BY <1>1, <2>1, <2>2, <2>3 DEF NodeKept
  <1>4. CASE pipe.reader_count > 0 /\ Len(d) <= Space(pipe)
    <2> DEFINE P == put(pipe, d, Len(d))
               rq == WakeOne(pipe.readers_wq)
    <2>1. /\ pipe' = [P EXCEPT !.readers_wq = WakeOne(@)]
          /\ call' = [call EXCEPT ![p] = User] /\ moved' = From(d) /\ table' = table /\ alive' = alive
      BY <1>1, <1>2, <1>4 DEF pipe_write, Space
    <2>2. Len(d) \in 0..Len(d) /\ Used(pipe) + Len(d) <= PIPE_BUF_SIZE
      BY <1>1, <1>2, <1>4 DEF Space
    <2>3. /\ P \in PipeNode /\ Used(P) = Used(pipe) + Len(d)
          /\ Taken(P, Used(pipe) + Len(d)) = Taken(pipe, Used(pipe)) \o SubSeq(d, 1, Len(d))
      BY <1>1, <1>2, <2>2, PutRing
    <2>4. SubSeq(d, 1, Len(d)) = d
      BY <1>2
    <2>5. /\ P.readers_wq = pipe.readers_wq /\ P.writers_wq = pipe.writers_wq /\ P.exists = pipe.exists
          /\ P.reader_count = pipe.reader_count /\ P.writer_count = pipe.writer_count
      BY <1>1 DEF put, PipeNode
    <2>6. rq \in Seq(Proc)
      BY QueuesAre, WakeOneIs
    <2> HIDE DEF P
    <2>7. pipe' = [P EXCEPT !.readers_wq = rq]
      BY <2>1, <2>3, <2>5 DEF PipeNode
    <2> HIDE DEF rq
    <2>8. /\ pipe' \in PipeNode
          /\ pipe'.buf = P.buf /\ pipe'.head = P.head /\ pipe'.tail = P.tail
          /\ pipe'.exists = P.exists
          /\ pipe'.reader_count = P.reader_count /\ pipe'.writer_count = P.writer_count
          /\ pipe'.readers_wq = rq /\ pipe'.writers_wq = P.writers_wq
      BY <2>3, <2>6, <2>7, ReadersSet
    <2>9. Used(pipe') = Used(pipe) + Len(d) /\ Bytes(pipe') = Bytes(pipe) \o d
      <3>1. Used(pipe') = Used(P) /\ Taken(pipe', Used(P)) = Taken(P, Used(P))
        BY <2>8, SameRing
      <3> QED
        BY <2>3, <2>4, <3>1 DEF Bytes
    <2>10. WriteEnds(p, d)
      BY <1>4, <2>1, <2>2, <2>5, <2>8, <2>9, ZenonT(30) DEF WriteEnds, rq
    <2> QED
      BY <1>1, <1>2, <2>1, <2>5, <2>8, <2>10 DEF NodeKept
  <1>5. CASE pipe.reader_count > 0 /\ Len(d) > Space(pipe)
    <2> DEFINE k == Space(pipe)
               P == put(pipe, d, k)
               wq == Append(pipe.writers_wq, p)
               rest == SubSeq(d, k + 1, Len(d))
               s == some \/ k > 0
               b == SubSeq(d, 1, k)
    <2>1. /\ pipe' = [P EXCEPT !.writers_wq = Append(@, p)]
          /\ call' = [call EXCEPT ![p] = Writing(rest, s)] /\ moved' = From(b)
          /\ table' = table /\ alive' = alive
      BY <1>1, <1>2, <1>5 DEF pipe_write, Space
    <2>2. k \in 0..Len(d) /\ Used(pipe) + k = PIPE_BUF_SIZE /\ k \in Nat /\ k < Len(d)
      BY <1>1, <1>2, <1>5 DEF Space
    <2> HIDE DEF k
    <2>3. /\ P \in PipeNode /\ Used(P) = Used(pipe) + k
          /\ Taken(P, Used(pipe) + k) = Taken(pipe, Used(pipe)) \o b
      <3>1. Used(pipe) + k <= PIPE_BUF_SIZE
        BY <1>1, <2>2
      <3> QED
        BY <1>1, <1>2, <2>2, <3>1, PutRing, SMTT(30)
    <2>4. /\ P.readers_wq = pipe.readers_wq /\ P.writers_wq = pipe.writers_wq /\ P.exists = pipe.exists
          /\ P.reader_count = pipe.reader_count /\ P.writer_count = pipe.writer_count
      BY <1>1 DEF put, PipeNode
    <2>5. wq \in Seq(Proc)
      BY QueuesAre
    <2>6. b \in Seq(Byte)
      <3>1. 1 \in Int /\ k \in Int /\ \A i \in 1..k : d[i] \in Byte
        BY <1>2, <2>2
      <3> QED
        BY <3>1
    <2>7. rest \in Seq(Byte) /\ rest # <<>> /\ Len(rest) <= Len(d) /\ s \in BOOLEAN
      <3>1. k + 1 \in Int /\ Len(d) \in Int /\ k + 1 <= Len(d) /\ \A i \in (k + 1)..Len(d) : d[i] \in Byte
        BY <1>2, <2>2
      <3>2. rest \in Seq(Byte) /\ Len(rest) = Len(d) - (k + 1) + 1
        BY <3>1
      <3> HIDE DEF rest
      <3>3. Len(rest) <= Len(d) /\ Len(rest) # 0
        BY <1>2, <2>2, <3>2
      <3> QED
        BY <3>2, <3>3
    <2> HIDE DEF P, b, rest, s
    <2>8. pipe' = [P EXCEPT !.writers_wq = wq]
      BY <2>1, <2>3, <2>4 DEF PipeNode
    <2> HIDE DEF wq
    <2>9. /\ pipe' \in PipeNode
          /\ pipe'.buf = P.buf /\ pipe'.head = P.head /\ pipe'.tail = P.tail
          /\ pipe'.exists = P.exists
          /\ pipe'.reader_count = P.reader_count /\ pipe'.writer_count = P.writer_count
          /\ pipe'.readers_wq = P.readers_wq /\ pipe'.writers_wq = wq
      BY <2>3, <2>5, <2>8, WritersSet
    <2>10. Used(pipe') = PIPE_BUF_SIZE /\ Bytes(pipe') = Bytes(pipe) \o b
      <3>1. Used(pipe') = Used(P) /\ Taken(pipe', Used(P)) = Taken(P, Used(P))
        BY <2>9, SameRing
      <3> QED
        BY <2>2, <2>3, <3>1 DEF Bytes
    <2>11. Len(d) > PIPE_BUF_SIZE - Used(pipe)
      BY <1>5 DEF Space
    <2>12. WriteBlocks(p, d, rest, s)
      BY <1>5, <2>1, <2>4, <2>6, <2>7, <2>9, <2>10, <2>11, ZenonT(30) DEF WriteBlocks, wq
    <2> QED
      BY <1>1, <1>2, <2>1, <2>4, <2>9, <2>12, SMTT(30) DEF NodeKept
  <1>6. Space(pipe) \in Nat
    BY <1>1 DEF Space
  <1> QED
    BY <1>1, <1>2, <1>3, <1>4, <1>5, <1>6

LEMMA WriteInv ==
    ASSUME IInv, NEW p \in Proc, NEW d, NEW some, AtWrite(p, d, some), NodeKept,
           alive' \in [Proc -> {"none", "alive", "dead"}], alive'[p] # "none",
           \A q \in Proc \ {p} : alive'[q] = alive[q],
           WriteBroken(p) \/ WriteEnds(p, d) \/ \E rest, s : WriteBlocks(p, d, rest, s)
    PROVE  IInv' /\ pipe.exists
  <1>1. /\ pipe \in PipeNode /\ Used(pipe) \in Nat /\ Used(pipe) <= PIPE_BUF_SIZE
    BY InvCounted, UsedIs, PipeAssumption
  <1>2. /\ ~Asleep(p) /\ ~Blocked(p) /\ alive[p] # "none"
        /\ \E f \in Fd : table[p][f] = "w"
    BY DEF AtWrite
  <1>3. /\ pipe.readers_wq \in Seq(Proc) /\ IsInjective(pipe.readers_wq)
        /\ pipe.writers_wq \in Seq(Proc) /\ IsInjective(pipe.writers_wq)
    BY QueuesAre
  <1>4. CASE WriteBroken(p)
    <2>1. pipe' = pipe /\ call' = [call EXCEPT ![p] = User]
      BY <1>4 DEF WriteBroken
    <2>2. \A q \in Proc : (Asleep(q)' => Asleep(q)) /\ (Blocked(q)' => Blocked(q))
      BY <2>1 DEF Asleep, Blocked
    <2>3. Used(pipe') <= PIPE_BUF_SIZE
      BY <1>1, <2>1
    <2> QED
      BY <1>1, <1>2, <1>3, <2>1, <2>2, <2>3, CallInv, ZenonT(30) DEF NodeKept
  <1>5. CASE WriteEnds(p, d)
    <2>1. Used(pipe') <= PIPE_BUF_SIZE /\ call' = [call EXCEPT ![p] = User]
      BY <1>5 DEF WriteEnds
    <2>2. /\ IsInjective(pipe'.readers_wq) /\ IsInjective(pipe'.writers_wq)
          /\ \A q \in Proc : Asleep(q)' => Asleep(q)
          /\ \A q \in Proc : Blocked(q)' => Blocked(q)
      BY <1>3, <1>5, WakeOneIs, SMTT(30) DEF WriteEnds, Asleep, Blocked
    <2> QED
      BY <1>1, <1>2, <2>1, <2>2, CallInv, Zenon DEF NodeKept
  <1>6. ASSUME NEW rest, NEW s, WriteBlocks(p, d, rest, s) PROVE IInv' /\ pipe.exists
    <2>1. /\ call' = [call EXCEPT ![p] = Writing(rest, s)]
          /\ rest \in Seq(Byte) \ {<<>>} /\ s \in BOOLEAN /\ Used(pipe') <= PIPE_BUF_SIZE
      BY <1>6, PipeAssumption DEF WriteBlocks
    <2>2. Writing(rest, s).op = "write" /\ Writing(rest, s).src = rest /\ Writing(rest, s).some = s
      BY DEF Writing
    <2>3. /\ IsInjective(pipe'.readers_wq) /\ IsInjective(pipe'.writers_wq)
          /\ \A q \in Proc : Asleep(q)' => Asleep(q)
          /\ \A q \in Proc : Blocked(q)' => Blocked(q) \/ q = p
      BY <1>2, <1>3, <1>6, AppendQueue, SMTT(30) DEF WriteBlocks, Asleep, Blocked
    <2> QED
      BY <1>1, <1>2, <2>1, <2>2, <2>3, CallInv, ZenonT(30) DEF NodeKept
  <1> QED
    BY <1>4, <1>5, <1>6

----------------------------------------------------------------------------
(* Every step                                                              *)

ReadStep(p, n) ==
    /\ n \in 1..MaxRead /\ AtRead(p, n) /\ NodeKept /\ alive' = alive
    /\ ReadTakes(p) \/ ReadEnds(p) \/ ReadSleeps(p, n)
WriteStep(p, d, some) ==
    /\ AtWrite(p, d, some) /\ NodeKept
    /\ alive' \in [Proc -> {"none", "alive", "dead"}] /\ alive'[p] # "none"
    /\ \A q \in Proc \ {p} : alive'[q] = alive[q]
    /\ WriteBroken(p) \/ WriteEnds(p, d) \/ \E rest, s : WriteBlocks(p, d, rest, s)

LEMMA StepIs ==
    ASSUME IInv, Next
    PROVE  \E p \in Proc :
              OnDescriptors(p) \/ (\E n : ReadStep(p, n)) \/ (\E d, some : WriteStep(p, d, some))
  <1>1. ASSUME NEW p \in Proc, read_on(p) PROVE \E n : ReadStep(p, n)
    <2>1. AtRead(p, call[p].size) /\ pipe_read(p, call[p].size) /\ call[p].size \in 1..MaxRead
      BY <1>1, ReadGoesOn DEF AtRead
    <2> QED
      BY <2>1, ReadIs, Zenon DEF ReadStep
  <1>2. ASSUME NEW p \in Proc, write_on(p) PROVE \E d, some : WriteStep(p, d, some)
    <2>1. AtWrite(p, call[p].src, call[p].some) /\ pipe_write(p, call[p].src, call[p].some)
      BY <1>2, WriteGoesOn
    <2> QED
      BY <2>1, WriteIs DEF WriteStep
  <1>3. ASSUME NEW p \in Reader, NEW f \in Fd, NEW n \in 1..MaxRead, sys_read(p, f, n)
        PROVE  p \in Proc /\ ReadStep(p, n)
    BY <1>3, ReadStarts, ReadIs DEF ReadStep
  <1>4. ASSUME NEW p \in Proc, NEW f \in Fd, NEW d \in Payload, sys_write(p, f, d)
        PROVE  WriteStep(p, d, FALSE)
    BY <1>4, WriteStarts, WriteIs, Zenon DEF WriteStep
  <1>5. CASE Continue
    BY <1>1, <1>2, <1>5 DEF Continue
  <1>6. CASE \E p \in Reader, f \in Fd, n \in 1..MaxRead : sys_read(p, f, n)
    BY <1>3, <1>6
  <1>7. CASE \E p \in Proc, f \in Fd, d \in Payload : sys_write(p, f, d)
    BY <1>4, <1>7, Zenon
  <1>8. CASE \E p \in Proc : sys_pipe(p) \/ sys_exit(p) \/ sig_terminate(p)
    BY <1>8, PipeMakes, ExitIs, TerminateIs
  <1>9. CASE \E p \in Proc, f \in Fd : sys_close(p, f) \/ sys_dup(p, f)
    BY <1>9, CloseIs, DupIs
  <1>10. CASE \E p \in Proc, f, g \in Fd : sys_dup2(p, f, g)
    BY <1>10, Dup2Is
  <1>11. CASE \E p, c \in Proc : fork(p, c)
    BY <1>11, ForkIs
  <1> QED
    BY <1>5, <1>6, <1>7, <1>8, <1>9, <1>10, <1>11, SMTT(30) DEF Next

LEMMA InitInv == Init => IInv
  <1> SUFFICES ASSUME Init PROVE IInv
    OBVIOUS
  <1>1. table \in [Proc -> Row] /\ \A p \in Proc, f \in Fd : table[p][f] = "free"
    BY DEF Init, Row, End
  <1>2. Refs("r") = 0 /\ Refs("w") = 0
    <2>1. RefSet(table, "r") = {} /\ RefSet(table, "w") = {}
      BY <1>1 DEF RefSet
    <2> QED
      BY <2>1, FS_EmptySet, Zenon DEF Refs, RefSet
  <1>3. /\ pipe = NoPipe /\ ~pipe.exists /\ pipe.reader_count = 0 /\ pipe.writer_count = 0
        /\ pipe.readers_wq = <<>> /\ pipe.writers_wq = <<>>
        /\ pipe \in PipeNode /\ Used(pipe) = 0
    BY NoPipeIs DEF Init, NoPipe
  <1>4. TypeOK
    BY <1>1, <1>3, PipeAssumption DEF Init, TypeOK, Row, End
  <1>5. CountsMatch
    BY <1>2, <1>3, <1>4 DEF CountsMatch, Init
  <1>6. IsInjective(<<>>) /\ Range(<<>>) = {}
    BY DEF IsInjective, Range
  <1>7. CallsSound
    BY <1>1, <1>3, <1>6 DEF CallsSound, Init, Asleep, Blocked
  <1> QED
    BY <1>5, <1>7 DEF IInv

LEMMA NextInv == IInv /\ [Next]_vars => IInv'
  <1>1. ASSUME IInv, Next PROVE IInv'
    <2>1. PICK p \in Proc :
            OnDescriptors(p) \/ (\E n : ReadStep(p, n)) \/ (\E d, some : WriteStep(p, d, some))
      BY <1>1, StepIs
    <2>2. ASSUME NEW n, ReadStep(p, n) PROVE IInv'
      BY <1>1, <2>2, ReadInv DEF ReadStep
    <2>3. ASSUME NEW d, NEW some, WriteStep(p, d, some) PROVE IInv'
      BY <1>1, <2>3, WriteInv, SMTT(30) DEF WriteStep
    <2> QED
      BY <1>1, <2>1, <2>2, <2>3, DescriptorsInv
  <1>2. ASSUME IInv, UNCHANGED vars PROVE IInv'
    BY <1>2, SMTT(30) DEF vars, IInv, CountsMatch, CallsSound, TypeOK, Used, Refs, Asleep, Blocked
  <1> QED
    BY <1>1, <1>2

\* The counts are the references, and a call keeps the descriptor and the one
\* place in a queue that its process has, in every reachable state.
THEOREM Invariance == Spec => []IInv
  BY InitInv, NextInv, PTL DEF Spec

\* Whatever the order of dup, dup2, close, fork and exit, pipe.c's counts are the
\* descriptors that refer to each end, and the node is freed with the last of
\* them and never under a process inside pipe_read or pipe_write.
THEOREM Counts == Spec => []CountsMatch
  <1>1. IInv => CountsMatch
    BY DEF IInv
  <1> QED
    BY <1>1, Invariance, PTL

----------------------------------------------------------------------------
(* A bounded first-in first-out channel                                    *)

LEMMA ChannelInit == Init => Abstract!Init
  BY NoPipeIs, SMTT(30) DEF Init, Abstract!Init, Nothing, NoPipe

LEMMA BytesLen ==
    ASSUME NEW P \in PipeNode
    PROVE  Bytes(P) \in Seq(Byte) /\ Len(Bytes(P)) = Used(P)
  <1>1. Used(P) \in Nat
    BY UsedIs, PipeAssumption
  <1> QED
    BY <1>1, TakenSeq DEF Bytes

\* What a writer has brought, or nothing, goes to the end of the channel.
LEMMA ChannelGrows ==
    ASSUME IInv, pipe' \in PipeNode, pipe.exists, pipe'.exists, NEW b \in Seq(Byte), moved' = From(b),
           Bytes(pipe') = Bytes(pipe) \o b, Used(pipe') <= PIPE_BUF_SIZE
    PROVE  Abstract!Write \/ Abstract!Other
  <1>1. Bytes(pipe) \in Seq(Byte) /\ Len(Bytes(pipe')) = Used(pipe')
    BY InvCounted, BytesLen, Zenon
  <1>2. CASE b = <<>>
    <2>1. Bytes(pipe') = Bytes(pipe)
      BY <1>1, <1>2
    <2> QED
      BY <1>2, <2>1 DEF Abstract!Other, From, Nothing, Bytes
  <1>3. CASE b # <<>>
    <2>1. moved' = [by |-> "writer", bytes |-> b]
      BY <1>3 DEF From
    <2>2. moved'.by = "writer" /\ moved'.bytes = b
      BY <2>1
    <2> QED
      BY <1>1, <2>2 DEF Abstract!Write, Bytes
  <1> QED
    BY <1>2, <1>3

LEMMA ChannelStep ==
    ASSUME IInv, [Next]_vars
    PROVE  [Abstract!Write \/ Abstract!Read \/ Abstract!Other]_<<Bytes(pipe), pipe.exists, moved>>
  <1>1. CASE UNCHANGED vars
    BY <1>1 DEF vars, Bytes, Taken, Used
  <1>2. CASE Next
    <2>1. PICK p \in Proc :
            OnDescriptors(p) \/ (\E n : ReadStep(p, n)) \/ (\E d, some : WriteStep(p, d, some))
      BY <1>2, StepIs
    <2>2. CASE OnDescriptors(p)
      <3>1. moved' = [by |-> "none", bytes |-> <<>>]
        BY <2>2 DEF OnDescriptors, Nothing
      <3>2. Bytes(NoPipe) = <<>> /\ ~NoPipe.exists
        BY NoPipeIs DEF Bytes, NoPipe
      <3>3. CASE pipe' = NoPipe
        BY <3>1, <3>2, <3>3 DEF Abstract!Other, Bytes
      <3>4. CASE pipe' # NoPipe
        <4>1. pipe'.buf = pipe.buf /\ pipe'.head = pipe.head /\ pipe'.tail = pipe.tail /\ pipe'.exists
          BY <2>2, <3>4 DEF OnDescriptors, Counted
        <4>2. Bytes(pipe') = Bytes(pipe)
          BY <4>1, SameRing DEF Bytes
        <4> QED
          BY <3>1, <4>1, <4>2 DEF Abstract!Other, Bytes
      <3> QED
        BY <3>3, <3>4
    <2>3. ASSUME NEW n, ReadStep(p, n)
          PROVE  Abstract!Read \/ Abstract!Other
      <3>1. pipe.exists /\ pipe'.exists
        BY <2>3, ReadInv DEF ReadStep, NodeKept
      <3>2. CASE ReadTakes(p)
        <4>1. PICK k \in 1..Used(pipe) :
                 /\ moved' = To(Taken(pipe, k)) /\ Taken(pipe, k) # <<>>
                 /\ Bytes(pipe) = Taken(pipe, k) \o Bytes(pipe')
          BY <3>2 DEF ReadTakes
        <4>2. moved'.by = "reader" /\ moved'.bytes = Taken(pipe, k)
          BY <4>1 DEF To
        <4> QED
          BY <3>1, <4>1, <4>2 DEF Abstract!Read, Bytes
      <3>3. CASE ReadEnds(p)
        BY <3>1, <3>3 DEF ReadEnds, Abstract!Other, Nothing
      <3>4. CASE ReadSleeps(p, n)
        BY <3>1, <3>4 DEF ReadSleeps, Abstract!Other, Nothing, Bytes
      <3> QED
        BY <2>3, <3>2, <3>3, <3>4 DEF ReadStep
    <2>4. ASSUME NEW d, NEW some, WriteStep(p, d, some)
          PROVE  Abstract!Write \/ Abstract!Other
      <3>1. pipe.exists /\ pipe'.exists /\ pipe' \in PipeNode
        BY <2>4, WriteInv DEF WriteStep, NodeKept
      <3>2. CASE WriteBroken(p)
        BY <3>1, <3>2 DEF WriteBroken, Abstract!Other, Nothing
      <3>3. CASE WriteEnds(p, d)
        <4>1. d \in Seq(Byte)
          BY <2>4 DEF WriteStep, AtWrite
        <4> QED
          BY <3>1, <3>3, <4>1, ChannelGrows, Zenon DEF WriteEnds
      <3>4. ASSUME NEW rest, NEW s, WriteBlocks(p, d, rest, s)
            PROVE  Abstract!Write \/ Abstract!Other
        <4>1. PICK b \in Seq(Byte) : moved' = From(b) /\ Bytes(pipe') = Bytes(pipe) \o b
          BY <3>4, Zenon DEF WriteBlocks
        <4>2. Used(pipe') <= PIPE_BUF_SIZE
          BY <3>4, PipeAssumption DEF WriteBlocks
        <4> QED
          BY <3>1, <4>1, <4>2, ChannelGrows
      <3> QED
        BY <2>4, <3>2, <3>3, <3>4 DEF WriteStep
    <2> QED
      BY <2>1, <2>2, <2>3, <2>4
  <1> QED
    BY <1>1, <1>2

\* The ring buffer of pipe.c, with its wrapping counters, its partial reads and
\* its writes in pieces, is a bounded first-in first-out channel: no byte is
\* lost, repeated, reordered or overwritten before it is read.
THEOREM Refinement == Spec => ImplementsChannel
  <1>1. ASSUME IInv, [Next]_vars
        PROVE  [Abstract!Write \/ Abstract!Read \/ Abstract!Other]_<<Taken(pipe, Used(pipe)), pipe.exists, moved>>
    BY <1>1, ChannelStep DEF Bytes
  <1> QED
    BY <1>1, ChannelInit, Invariance, PTL DEF Spec, ImplementsChannel, Abstract!Spec

----------------------------------------------------------------------------
(* Nobody sleeps without a cause                                           *)

\* What each kind of step does to the sleepers.
LEMMA DescriptorsSleepers ==
    ASSUME IInv, NEW c \in Proc, OnDescriptors(c)
    PROVE  /\ \A q \in Proc : Asleep(q)' => /\ Asleep(q) /\ Used(pipe') = Used(pipe)
                                            /\ pipe'.writer_count >= pipe.writer_count
           /\ \A q \in Proc : Blocked(q)' => /\ Used(pipe') = Used(pipe)
                                             /\ pipe'.writers_wq = pipe.writers_wq
                                             /\ pipe'.reader_count >= pipe.reader_count
  <1>1. \A q : q \notin Range(<<>>)
    BY DEF Range
  <1>2. pipe' = NoPipe \/ Used(pipe') = Used(pipe)
    BY SameRing DEF OnDescriptors
  <1>3. NoPipe.readers_wq = <<>> /\ NoPipe.writers_wq = <<>>
    BY DEF NoPipe
  <1> QED
    BY <1>1, <1>2, <1>3 DEF OnDescriptors, Asleep, Blocked

LEMMA CallKept ==
    ASSUME IInv, NEW p \in Proc, NEW x, call' = [call EXCEPT ![p] = x]
    PROVE  call'[p] = x /\ \A q \in Proc \ {p} : call'[q] = call[q]
  BY DEF IInv, CallsSound

LEMMA WriterStep ==
    ASSUME IInv, NoStrandedWriter, [Next]_vars
    PROVE  NoStrandedWriter'
  <1>1. CASE UNCHANGED vars
    BY <1>1 DEF vars, NoStrandedWriter, Blocked, Used
  <1>2. CASE Next
    <2>1. PICK p \in Proc :
            OnDescriptors(p) \/ (\E n : ReadStep(p, n)) \/ (\E d, some : WriteStep(p, d, some))
      BY <1>2, StepIs
    <2> SUFFICES ASSUME NEW q \in Proc, Blocked(q)'
                 PROVE  /\ pipe'.reader_count > 0
                        /\ \/ Used(pipe') > 0
                           \/ \E u \in Proc : call'[u].op = "write" /\ ~Blocked(u)'
      BY DEF NoStrandedWriter, Used
    <2>2. /\ pipe \in PipeNode /\ Used(pipe) \in Nat /\ pipe.reader_count \in Nat
          /\ PIPE_BUF_SIZE \in Nat \ {0}
      BY InvCounted, UsedIs, PipeAssumption
    <2>3. pipe.writers_wq \in Seq(Proc) /\ IsInjective(pipe.writers_wq)
      BY QueuesAre
    <2>4. CASE OnDescriptors(p)
      <3>1. /\ Used(pipe') = Used(pipe) /\ pipe'.writers_wq = pipe.writers_wq
            /\ pipe'.reader_count >= pipe.reader_count /\ call' = call
        BY <2>4, DescriptorsSleepers, Zenon DEF OnDescriptors
      <3>2. \A u : Blocked(u)' <=> Blocked(u)
        BY <3>1 DEF Blocked
      <3>3. pipe'.reader_count \in Nat
        BY <2>4 DEF OnDescriptors, PipeNode
      <3> QED
        BY <2>2, <3>1, <3>2, <3>3, SMTT(30) DEF NoStrandedWriter
    <2>5. ASSUME NEW n, ReadStep(p, n)
          PROVE  /\ pipe'.reader_count > 0
                 /\ \/ Used(pipe') > 0
                    \/ \E u \in Proc : call'[u].op = "write" /\ ~Blocked(u)'
      <3>1. /\ pipe'.reader_count = pipe.reader_count /\ ~Blocked(p)
            /\ call[p].op \in {"user", "read"}
        BY <2>5 DEF ReadStep, NodeKept, AtRead
      <3>2. CASE ReadTakes(p)
        <4>1. pipe'.writers_wq = WakeOne(pipe.writers_wq) /\ call' = [call EXCEPT ![p] = User]
          BY <3>2 DEF ReadTakes
        <4>2. Blocked(q) /\ pipe.writers_wq # <<>>
          <5>1. q \notin Range(<<>>)
            BY DEF Range
          <5> QED
            BY <2>3, <4>1, <5>1, WakeOneIs DEF Blocked
        <4>3. PICK h \in Proc : Blocked(h) /\ ~Blocked(h)'
          BY <2>3, <4>1, <4>2, WakeOneIs, SMTT(30) DEF Blocked
        <4>4. h # p /\ call[h].op = "write"
          BY <3>1, <4>3 DEF IInv, CallsSound
        <4>5. call'[h].op = "write"
          BY <4>1, <4>4, CallKept
        <4> QED
          BY <3>1, <4>2, <4>3, <4>5 DEF NoStrandedWriter
      <3>3. CASE ReadEnds(p) \/ ReadSleeps(p, n)
        <4>1. /\ pipe'.writers_wq = pipe.writers_wq /\ Used(pipe) = 0
              /\ \E x : call' = [call EXCEPT ![p] = x]
          BY <3>3 DEF ReadEnds, ReadSleeps
        <4>2. \A u : Blocked(u)' <=> Blocked(u)
          BY <4>1 DEF Blocked
        <4>3. PICK u \in Proc : call[u].op = "write" /\ ~Blocked(u)
          BY <4>1, <4>2 DEF NoStrandedWriter
        <4>4. u # p
          BY <3>1, <4>3
        <4>5. call'[u].op = "write"
          BY <4>1, <4>3, <4>4, CallKept
        <4> QED
          BY <3>1, <4>2, <4>3, <4>5 DEF NoStrandedWriter
      <3> QED
        BY <2>5, <3>2, <3>3 DEF ReadStep
    <2>6. ASSUME NEW d, NEW some, WriteStep(p, d, some)
          PROVE  pipe'.reader_count > 0 /\ Used(pipe') > 0
      <3>1. pipe'.reader_count = pipe.reader_count /\ d \in Seq(Byte) /\ d # <<>>
        BY <2>6 DEF WriteStep, NodeKept, AtWrite
      <3>2. CASE WriteBroken(p)
        <4>1. Blocked(q) /\ pipe.reader_count = 0
          BY <3>2 DEF WriteBroken, Blocked
        <4> QED
          BY <4>1 DEF NoStrandedWriter
      <3>3. CASE WriteEnds(p, d)
        <4>1. Len(d) \in Nat /\ Len(d) # 0
          BY <3>1
        <4> QED
          BY <2>2, <3>1, <3>3, <4>1 DEF WriteEnds
      <3>4. ASSUME NEW rest, NEW s, WriteBlocks(p, d, rest, s)
            PROVE  pipe'.reader_count > 0 /\ Used(pipe') > 0
        BY <2>2, <3>1, <3>4 DEF WriteBlocks
      <3> QED
        BY <2>6, <3>2, <3>3, <3>4 DEF WriteStep
    <2> QED
      BY <2>1, <2>4, <2>5, <2>6
  <1> QED
    BY <1>1, <1>2

LEMMA SleeperStep ==
    ASSUME IInv, IInv', SleeperHasWriter, [Next]_vars
    PROVE  SleeperHasWriter'
  <1>1. CASE UNCHANGED vars
    BY <1>1 DEF vars, SleeperHasWriter, Asleep, Refs
  <1>2. CASE Next
    <2>1. PICK p \in Proc :
            OnDescriptors(p) \/ (\E n : ReadStep(p, n)) \/ (\E d, some : WriteStep(p, d, some))
      BY <1>2, StepIs
    <2>2. pipe.writer_count = Refs("w") /\ pipe'.writer_count = Refs("w")'
      BY DEF IInv, CountsMatch
    <2>3. pipe.writer_count \in Nat /\ pipe.readers_wq \in Seq(Proc) /\ IsInjective(pipe.readers_wq)
      BY InvCounted, QueuesAre
    <2> SUFFICES ASSUME NEW q \in Proc, Asleep(q)'
                 PROVE  pipe'.writer_count > 0
      BY <2>2 DEF SleeperHasWriter
    <2>4. CASE OnDescriptors(p)
      <3>1. Asleep(q) /\ pipe'.writer_count >= pipe.writer_count
        BY <2>4, DescriptorsSleepers
      <3>2. pipe'.writer_count \in Nat
        BY <2>4 DEF OnDescriptors, PipeNode
      <3> QED
        BY <2>2, <2>3, <3>1, <3>2 DEF SleeperHasWriter
    <2>5. ASSUME NEW n, ReadStep(p, n) PROVE pipe'.writer_count > 0
      <3>1. pipe'.writer_count = pipe.writer_count
        BY <2>5 DEF ReadStep, NodeKept
      <3>2. CASE ReadTakes(p) \/ ReadEnds(p)
        <4>1. Asleep(q)
          BY <3>2 DEF ReadTakes, ReadEnds, Asleep
        <4> QED
          BY <2>2, <3>1, <4>1 DEF SleeperHasWriter
      <3>3. CASE ReadSleeps(p, n)
        BY <3>1, <3>3, SMTT(30) DEF ReadSleeps
      <3> QED
        BY <2>5, <3>2, <3>3 DEF ReadStep
    <2>6. ASSUME NEW d, NEW some, WriteStep(p, d, some) PROVE pipe'.writer_count > 0
      <3>1. pipe'.writer_count = pipe.writer_count
        BY <2>6 DEF WriteStep, NodeKept
      <3>2. Asleep(q)
        <4>1. CASE WriteBroken(p)
          BY <4>1 DEF WriteBroken, Asleep
        <4>2. CASE WriteEnds(p, d)
          BY <2>3, <4>2, WakeOneIs DEF WriteEnds, Asleep
        <4>3. ASSUME NEW rest, NEW s, WriteBlocks(p, d, rest, s) PROVE Asleep(q)
          BY <4>3 DEF WriteBlocks, Asleep
        <4> QED
          BY <2>6, <4>1, <4>2, <4>3 DEF WriteStep
      <3> QED
        BY <2>2, <3>1, <3>2 DEF SleeperHasWriter
    <2> QED
      BY <2>1, <2>4, <2>5, <2>6
  <1> QED
    BY <1>1, <1>2

\* One reader, and no write longer than the ring, which is what the programs of
\* the repository do with a pipe.
OneReader == \A p, q \in Reader : p = q
ShortPayload == \A d \in Payload : Len(d) <= PIPE_BUF_SIZE

\* The reader sleeps only on an empty pipe, because a write that comes to its end
\* wakes it and a write that does not has found the pipe filled by others.
ReaderInv ==
    /\ \A p \in Proc : Asleep(p) => Used(pipe) = 0
    /\ \A p \in Proc : call[p].op = "write" => Len(call[p].src) <= PIPE_BUF_SIZE

LEMMA OneSleeper ==
    ASSUME IInv, OneReader, NEW p \in Proc, NEW q \in Proc, Asleep(p), Asleep(q)
    PROVE  p = q
  <1>1. call[p].op = "read" /\ call[q].op = "read"
    BY DEF IInv, CallsSound
  <1>2. p \in Reader /\ q \in Reader
    BY <1>1, SMTT(30) DEF IInv, CallsSound, User
  <1> QED
    BY <1>2 DEF OneReader

LEMMA ReaderStep ==
    ASSUME IInv, ReaderInv, OneReader, ShortPayload, [Next]_vars
    PROVE  ReaderInv'
  <1>1. CASE UNCHANGED vars
    BY <1>1 DEF vars, ReaderInv, Asleep, Used
  <1>2. CASE Next
    <2>1. PICK p \in Proc :
            OnDescriptors(p) \/ (\E n : ReadStep(p, n)) \/ (\E d, some : WriteStep(p, d, some))
      BY <1>2, StepIs
    <2>2. /\ pipe \in PipeNode /\ Used(pipe) \in Nat /\ PIPE_BUF_SIZE \in Nat \ {0}
          /\ pipe.readers_wq \in Seq(Proc) /\ IsInjective(pipe.readers_wq)
      BY InvCounted, UsedIs, QueuesAre, PipeAssumption, SMTT(30)
    <2>3. CASE OnDescriptors(p)
      <3>1. \A q \in Proc : Asleep(q)' => Used(pipe') = 0
        BY <2>3, DescriptorsSleepers DEF ReaderInv
      <3>2. call' = call
        BY <2>3 DEF OnDescriptors
      <3> QED
        BY <3>1, <3>2 DEF ReaderInv, Used
    <2>4. ASSUME NEW n, ReadStep(p, n) PROVE ReaderInv'
      <3>1. \A q \in Proc : Asleep(q)' => Used(pipe') = 0
        <4>1. CASE ReadTakes(p)
          <5>1. \A q : Asleep(q)' <=> Asleep(q)
            BY <4>1 DEF ReadTakes, Asleep
          <5>2. Used(pipe) # 0
            BY <2>2, <4>1 DEF ReadTakes
          <5> QED
            BY <5>1, <5>2 DEF ReaderInv
        <4>2. CASE ReadEnds(p)
          BY <4>2 DEF ReadEnds
        <4>3. CASE ReadSleeps(p, n)
          BY <4>3 DEF ReadSleeps
        <4> QED
          BY <2>4, <4>1, <4>2, <4>3 DEF ReadStep
      <3>2. PICK x : call' = [call EXCEPT ![p] = x] /\ x.op # "write"
        <4>1. User.op # "write" /\ Reading(n).op # "write"
          BY DEF User, Reading
        <4> QED
          BY <2>4, <4>1 DEF ReadStep, ReadTakes, ReadEnds, ReadSleeps
      <3>3. \A q \in Proc : call'[q].op = "write" => Len(call'[q].src) <= PIPE_BUF_SIZE
        BY <3>2, CallKept DEF ReaderInv
      <3> QED
        BY <3>1, <3>3 DEF ReaderInv, Used
    <2>5. ASSUME NEW d, NEW some, WriteStep(p, d, some) PROVE ReaderInv'
      <3>1. d \in Seq(Byte) /\ Len(d) \in Nat /\ Len(d) <= PIPE_BUF_SIZE
        BY <2>5, SMTT(30) DEF WriteStep, AtWrite, ReaderInv, ShortPayload
      <3>2. CASE WriteBroken(p)
        <4>1. pipe' = pipe /\ call' = [call EXCEPT ![p] = User] /\ User.op # "write"
          BY <3>2 DEF WriteBroken, User
        <4>2. \A q \in Proc : Asleep(q)' => Used(pipe') = 0
          BY <4>1 DEF Asleep, ReaderInv
        <4>3. \A q \in Proc : call'[q].op = "write" => Len(call'[q].src) <= PIPE_BUF_SIZE
          BY <4>1, CallKept DEF ReaderInv
        <4> QED
          BY <4>2, <4>3 DEF ReaderInv, Used
      <3>3. CASE WriteEnds(p, d)
        <4>1. /\ pipe'.readers_wq = WakeOne(pipe.readers_wq)
              /\ call' = [call EXCEPT ![p] = User] /\ User.op # "write"
          BY <3>3 DEF WriteEnds, User
        <4>2. ASSUME NEW q \in Proc, Asleep(q)' PROVE FALSE
          <5>1. Asleep(q) /\ pipe.readers_wq # <<>>
            <6>1. q \notin Range(<<>>)
              BY DEF Range
            <6> QED
              BY <2>2, <4>1, <4>2, <6>1, WakeOneIs DEF Asleep
          <5>2. PICK h \in Proc : Asleep(h) /\ ~Asleep(h)'
            BY <2>2, <4>1, <5>1, WakeOneIs DEF Asleep
          <5> QED
            BY <4>2, <5>1, <5>2, OneSleeper, SMTT(30)
        <4>3. \A q \in Proc : call'[q].op = "write" => Len(call'[q].src) <= PIPE_BUF_SIZE
          BY <4>1, CallKept DEF ReaderInv
        <4> QED
          BY <4>2, <4>3 DEF ReaderInv
      <3>4. ASSUME NEW rest, NEW s, WriteBlocks(p, d, rest, s) PROVE ReaderInv'
        <4>1. /\ call' = [call EXCEPT ![p] = Writing(rest, s)]
              /\ rest \in Seq(Byte) /\ Len(rest) <= Len(d)
              /\ Len(d) > PIPE_BUF_SIZE - Used(pipe)
              /\ pipe'.readers_wq = pipe.readers_wq
          BY <3>4 DEF WriteBlocks
        <4>2. Writing(rest, s).src = rest /\ Len(rest) \in Nat
          BY <4>1 DEF Writing
        <4>3. Used(pipe) # 0
          BY <2>2, <3>1, <4>1
        <4>4. \A q \in Proc : ~Asleep(q)'
          BY <4>1, <4>3 DEF ReaderInv, Asleep
        <4>5. Len(rest) <= PIPE_BUF_SIZE
          BY <2>2, <3>1, <4>1, <4>2
        <4>6. \A q \in Proc : call'[q].op = "write" => Len(call'[q].src) <= PIPE_BUF_SIZE
          BY <4>1, <4>2, <4>5, CallKept, SMTT(30) DEF ReaderInv
        <4> QED
          BY <4>4, <4>6 DEF ReaderInv
      <3> QED
        BY <2>5, <3>2, <3>3, <3>4 DEF WriteStep
    <2> QED
      BY <2>1, <2>3, <2>4, <2>5
  <1> QED
    BY <1>1, <1>2

LEMMA NobodyAsleep == Init => NoStrandedWriter /\ SleeperHasWriter /\ ReaderInv
  <1> SUFFICES ASSUME Init PROVE NoStrandedWriter /\ SleeperHasWriter /\ ReaderInv
    OBVIOUS
  <1>1. pipe.readers_wq = <<>> /\ pipe.writers_wq = <<>> /\ \A p \in Proc : call[p].op = "user"
    BY DEF Init, NoPipe, User
  <1>2. \A p : p \notin Range(<<>>)
    BY DEF Range
  <1> QED
    BY <1>1, <1>2 DEF NoStrandedWriter, SleeperHasWriter, ReaderInv, Asleep, Blocked

\* For any readers and any payload: a blocked writer has readers to wait for, and
\* bytes for them to take or a woken writer that will bring some (pipe_read's
\* wq_wake); a sleeping reader has a write end that someone could use or close
\* (pipe_close's wq_wake_all).
THEOREM SleepersHaveCause == Spec => [](NoStrandedWriter /\ SleeperHasWriter)
  <1> DEFINE W == NoStrandedWriter /\ SleeperHasWriter
  <1>1. ASSUME IInv, IInv', W, [Next]_vars PROVE W'
    BY <1>1, WriterStep, SleeperStep
  <1>2. Init => W
    BY NobodyAsleep
  <1> QED
    BY <1>1, <1>2, Invariance, PTL DEF Spec

\* With one reader, and writes of at most PIPE_BUF_SIZE bytes, the reader is also
\* never asleep while there are bytes for it, although pipe_write wakes a reader
\* only at its end.
THEOREM NobodyIsStranded ==
    ASSUME OneReader, ShortPayload
    PROVE  Spec => []NobodyStranded
  <1>1. ASSUME IInv, ReaderInv, [Next]_vars PROVE ReaderInv'
    BY <1>1, ReaderStep
  <1>2. Init => ReaderInv
    BY NobodyAsleep
  <1>3. ReaderInv /\ NoStrandedWriter /\ SleeperHasWriter => NobodyStranded
    BY DEF ReaderInv, NobodyStranded, NoStrandedReader
  <1> QED
    BY <1>1, <1>2, <1>3, Invariance, SleepersHaveCause, PTL DEF Spec
============================================================================
