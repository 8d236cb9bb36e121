----------------------------- MODULE PipeLemmas -----------------------------
(***************************************************************************)
(* The ring, the references and the system calls on descriptors of Pipe,   *)
(* for any number of processes and descriptors, any ring whose size        *)
(* divides the range of its counters, and any payload.                     *)
(***************************************************************************)
EXTENDS Pipe, DataLemmas, FiniteSetTheorems

----------------------------------------------------------------------------
(* The ring                                                                *)

LEMMA UsedIs ==
    ASSUME NEW P \in PipeNode
    PROVE  /\ Used(P) \in 0..(Wrap - 1)
           /\ Used(P) = IF P.head >= P.tail THEN P.head - P.tail ELSE P.head + Wrap - P.tail
  <1> DEFINE x == P.head + Wrap - P.tail
  <1>1. Wrap \in Nat \ {0} /\ P.head \in 0..(Wrap - 1) /\ P.tail \in 0..(Wrap - 1)
    BY PipeAssumption DEF PipeNode
  <1>2. x \in 0..(2 * Wrap - 1)
    BY <1>1
  <1>3. x % Wrap = IF x < Wrap THEN x ELSE x - Wrap
    BY <1>1, <1>2, ModSmall
  <1> QED
    BY <1>1, <1>3 DEF Used

\* A counter that wraps around points to the same cell: the size of the ring
\* divides the range of the counters.
LEMMA CellKept ==
    ASSUME NEW x \in 0..(2 * Wrap - 1), NEW y \in Int
    PROVE  ((x % Wrap) + y) % PIPE_BUF_SIZE = (x + y) % PIPE_BUF_SIZE
  <1>1. /\ Wrap \in Nat \ {0} /\ PIPE_BUF_SIZE \in Nat \ {0} /\ Wrap % PIPE_BUF_SIZE = 0
        /\ x \in Int /\ Wrap \in Int
    BY PipeAssumption
  <1>2. PICK m \in Int : Wrap = PIPE_BUF_SIZE * m
    BY <1>1, ModMultiple, Zenon
  <1>3. x % Wrap = IF x < Wrap THEN x ELSE x - Wrap
    BY <1>1, ModSmall, Zenon
  <1>4. CASE x < Wrap
    BY <1>3, <1>4
  <1>5. CASE ~(x < Wrap)
    <2>1. (x % Wrap) + y = (x + y) + PIPE_BUF_SIZE * (-m)
      BY <1>1, <1>2, <1>3, <1>5
    <2>2. ((x + y) + PIPE_BUF_SIZE * (-m)) % PIPE_BUF_SIZE = (x + y) % PIPE_BUF_SIZE
      <3>1. x + y \in Int /\ -m \in Int
        BY <1>1
      <3> QED
        BY <1>1, <3>1, ModShift, Zenon
    <2> QED
      BY <2>1, <2>2
  <1> QED
    BY <1>4, <1>5

LEMMA TakenSeq ==
    ASSUME NEW P \in PipeNode, NEW k \in Nat
    PROVE  /\ Taken(P, k) \in Seq(Byte) /\ Len(Taken(P, k)) = k
           /\ \A i \in 1..k : Taken(P, k)[i] = P.buf[(P.tail + i - 1) % PIPE_BUF_SIZE]
  <1>1. \A i \in 1..k : (P.tail + i - 1) % PIPE_BUF_SIZE \in 0..(PIPE_BUF_SIZE - 1)
    <2>1. \A i \in 1..k : P.tail + i - 1 \in Int
      BY PipeAssumption DEF PipeNode
    <2> QED
      BY <2>1, PipeAssumption, ModRange, Zenon
  <1>2. Taken(P, k) \in [1..k -> Byte]
    BY <1>1, Zenon DEF Taken, PipeNode
  <1> QED
    BY <1>2 DEF Taken

\* A sequence is the concatenation of its front and its rest.
LEMMA JoinSeq ==
    ASSUME NEW s \in Seq(Byte), NEW a \in Seq(Byte), NEW b \in Seq(Byte), Len(s) = Len(a) + Len(b),
           \A i \in 1..Len(a) : s[i] = a[i], \A i \in 1..Len(b) : s[Len(a) + i] = b[i]
    PROVE  s = a \o b
  <1> DEFINE c == a \o b
  <1>1. /\ c \in Seq(Byte) /\ Len(c) = Len(s) /\ Len(a) \in Nat /\ Len(b) \in Nat
        /\ \A i \in 1..Len(s) : c[i] = IF i <= Len(a) THEN a[i] ELSE b[i - Len(a)]
    OBVIOUS
  <1> HIDE DEF c
  <1>2. ASSUME NEW i \in 1..Len(s) PROVE s[i] = c[i]
    <2>1. CASE i <= Len(a)
      BY <1>1, <2>1
    <2>2. CASE ~(i <= Len(a))
      <3>1. i - Len(a) \in 1..Len(b) /\ Len(a) + (i - Len(a)) = i
        BY <1>1, <2>2
      <3>2. s[Len(a) + (i - Len(a))] = b[i - Len(a)]
        BY <3>1
      <3> QED
        BY <1>1, <2>2, <3>1, <3>2
    <2> QED
      BY <2>1, <2>2
  <1>3. s = c
    BY <1>1, <1>2
  <1> QED
    BY <1>3 DEF c

\* Moving the tail on by k takes the first k bytes off.
LEMMA ReadRing ==
    ASSUME NEW P \in PipeNode, NEW Q \in PipeNode, NEW k \in 0..Used(P),
           Q.buf = P.buf, Q.head = P.head, Q.tail = (P.tail + k) % Wrap
    PROVE  /\ Used(Q) = Used(P) - k
           /\ Taken(P, Used(P)) = Taken(P, k) \o Taken(Q, Used(Q))
  <1> DEFINE u == Used(P)
             v == Used(Q)
  <1>1. /\ Wrap \in Nat \ {0} /\ PIPE_BUF_SIZE \in Nat \ {0}
        /\ P.head \in 0..(Wrap - 1) /\ P.tail \in 0..(Wrap - 1)
        /\ u \in 0..(Wrap - 1) /\ k \in 0..u
    BY UsedIs, PipeAssumption, SMTT(30) DEF PipeNode
  <1>2. P.tail + k \in 0..(2 * Wrap - 1)
    BY <1>1
  <1>3. Q.tail = IF P.tail + k < Wrap THEN P.tail + k ELSE P.tail + k - Wrap
    <2> DEFINE x == P.tail + k
    <2>1. x \in 0..(2 * Wrap - 1)
      BY <1>2
    <2> HIDE DEF x
    <2>2. x % Wrap = IF x < Wrap THEN x ELSE x - Wrap
      BY <1>1, <2>1, ModSmall, Zenon
    <2> QED
      BY <1>1, <2>2 DEF x
  <1>4. v = u - k
    <2>1. u = IF P.head >= P.tail THEN P.head - P.tail ELSE P.head + Wrap - P.tail
      BY UsedIs
    <2>2. v = IF Q.head >= Q.tail THEN Q.head - Q.tail ELSE Q.head + Wrap - Q.tail
      BY UsedIs
    <2> HIDE DEF u, v
    <2> QED
      BY <1>1, <1>3, <2>1, <2>2
  <1>5. u \in Nat /\ v \in Nat /\ k \in Nat
    BY <1>1, <1>4
  <1> DEFINE s == Taken(P, u)
             a == Taken(P, k)
             b == Taken(Q, v)
  <1>6. /\ s \in Seq(Byte) /\ Len(s) = u
        /\ \A i \in 1..u : s[i] = P.buf[(P.tail + i - 1) % PIPE_BUF_SIZE]
    BY <1>5, TakenSeq, Zenon
  <1>7. /\ a \in Seq(Byte) /\ Len(a) = k
        /\ \A i \in 1..k : a[i] = P.buf[(P.tail + i - 1) % PIPE_BUF_SIZE]
    BY <1>5, TakenSeq, Zenon
  <1>8. /\ b \in Seq(Byte) /\ Len(b) = v
        /\ \A i \in 1..v : b[i] = Q.buf[(Q.tail + i - 1) % PIPE_BUF_SIZE]
    BY <1>5, TakenSeq, Zenon
  <1> HIDE DEF u, v, s, a, b
  <1>9. ASSUME NEW i \in 1..v
        PROVE  b[i] = s[k + i]
    <2>1. (Q.tail + (i - 1)) % PIPE_BUF_SIZE = (P.tail + k + (i - 1)) % PIPE_BUF_SIZE
      <3>1. i - 1 \in Int
        BY <1>5
      <3> QED
        BY <1>2, <3>1, CellKept
    <2>2. Q.tail + (i - 1) = Q.tail + i - 1 /\ P.tail + k + (i - 1) = P.tail + (k + i) - 1
      BY <1>1, <1>3, <1>5
    <2>3. k + i \in 1..u
      BY <1>4, <1>5
    <2> QED
      BY <1>6, <1>8, <2>1, <2>2, <2>3
  <1>10. s = a \o b
    <2>1. \A i \in 1..Len(a) : s[i] = a[i]
      <3>1. Len(a) = k /\ \A i \in 1..k : i \in 1..u
        BY <1>1, <1>7
      <3> QED
        BY <1>6, <1>7, <3>1
    <2>2. \A i \in 1..Len(b) : s[Len(a) + i] = b[i]
      BY <1>7, <1>8, <1>9
    <2>3. Len(s) = Len(a) + Len(b)
      BY <1>4, <1>5, <1>6, <1>7, <1>8
    <2> QED
      BY <1>6, <1>7, <1>8, <2>1, <2>2, <2>3, JoinSeq, Zenon
  <1> QED
    BY <1>4, <1>10 DEF u, v, s, a, b

\* Where a byte stands, counted from the head as put counts it.
LEMMA CellFromHead ==
    ASSUME NEW P \in PipeNode, NEW n \in Nat
    PROVE  (((P.tail + n) % PIPE_BUF_SIZE) + Wrap - P.head) % PIPE_BUF_SIZE
              = (n - Used(P)) % PIPE_BUF_SIZE
  <1> DEFINE u == Used(P)
             x == P.tail + n
             i == x % PIPE_BUF_SIZE
             q == x \div PIPE_BUF_SIZE
  <1>1. /\ Wrap \in Nat \ {0} /\ PIPE_BUF_SIZE \in Nat \ {0} /\ Wrap % PIPE_BUF_SIZE = 0
        /\ Wrap \in Int /\ P.head \in 0..(Wrap - 1) /\ P.tail \in 0..(Wrap - 1) /\ x \in Int
    BY PipeAssumption DEF PipeNode
  <1>2. u \in Nat /\ u = IF P.head >= P.tail THEN P.head - P.tail ELSE P.head + Wrap - P.tail
    BY <1>1, UsedIs
  <1>3. i \in Int /\ q \in Int /\ x = PIPE_BUF_SIZE * q + i
    <2> HIDE DEF x
    <2>1. i \in 0..(PIPE_BUF_SIZE - 1)
      BY <1>1, ModRange
    <2>2. q \in Int /\ x = PIPE_BUF_SIZE * q + i
      BY <1>1, Division
    <2> QED
      BY <1>1, <2>1, <2>2
  <1>4. PICK m \in Int : Wrap = PIPE_BUF_SIZE * m
    BY <1>1, ModMultiple, Zenon
  <1> DEFINE e == IF P.head >= P.tail THEN m - q ELSE 2 * m - q
  <1>5. x = P.tail + n /\ P.tail \in Int /\ P.head \in Int
    BY <1>1
  <1> HIDE DEF u, x, i, q
  <1>6. e \in Int /\ n - u \in Int
    BY <1>2, <1>3
  <1> DEFINE bm == PIPE_BUF_SIZE * m
             bq == PIPE_BUF_SIZE * q
             be == PIPE_BUF_SIZE * e
  <1>p. bm \in Int /\ bq \in Int /\ be = IF P.head >= P.tail THEN bm - bq ELSE 2 * bm - bq
    BY <1>1, <1>3
  <1>w. Wrap = bm /\ x = bq + i
    BY <1>3, <1>4
  <1>7. i + Wrap - P.head = (n - u) + PIPE_BUF_SIZE * e
    <2> HIDE DEF bm, bq, be, e
    <2>1. i + Wrap - P.head = (n - u) + be
      BY <1>2, <1>3, <1>5, <1>p, <1>w
    <2> QED
      BY <2>1 DEF be
  <1> HIDE DEF e
  <1>8. ((n - u) + PIPE_BUF_SIZE * e) % PIPE_BUF_SIZE = (n - u) % PIPE_BUF_SIZE
    BY <1>1, <1>6, ModShift, Zenon
  <1> QED
    BY <1>7, <1>8 DEF u, x, i

\* The copy loop of pipe_write: k bytes that fit go behind those already there,
\* and overwrite none of them.
LEMMA PutRing ==
    ASSUME NEW P \in PipeNode, NEW d \in Seq(Byte), NEW k \in 0..Len(d),
           Used(P) + k <= PIPE_BUF_SIZE
    PROVE  /\ put(P, d, k) \in PipeNode
           /\ Used(put(P, d, k)) = Used(P) + k
           /\ Taken(put(P, d, k), Used(P) + k) = Taken(P, Used(P)) \o SubSeq(d, 1, k)
  <1> DEFINE Q == put(P, d, k)
             u == Used(P)
             Cell == 0..(PIPE_BUF_SIZE - 1)
             at(i) == (i + Wrap - P.head) % PIPE_BUF_SIZE
  <1>1. /\ Wrap \in Nat \ {0} /\ PIPE_BUF_SIZE \in Nat \ {0} /\ Wrap > PIPE_BUF_SIZE
        /\ P.head \in 0..(Wrap - 1) /\ P.tail \in 0..(Wrap - 1)
        /\ u \in 0..(Wrap - 1) /\ Len(d) \in Nat /\ k \in 0..Len(d) /\ u + k <= PIPE_BUF_SIZE
    BY UsedIs, PipeAssumption DEF PipeNode
  <1>2. k \in Nat /\ k < Wrap /\ P.head + k \in 0..(2 * Wrap - 1) /\ u \in Nat /\ u + k \in Nat
    BY <1>1
  <1>3. (P.head + k) % Wrap = (IF P.head + k < Wrap THEN P.head + k ELSE P.head + k - Wrap)
    <2> DEFINE x == P.head + k
    <2>1. x \in 0..(2 * Wrap - 1)
      BY <1>2
    <2> HIDE DEF x
    <2>2. x % Wrap = IF x < Wrap THEN x ELSE x - Wrap
      BY <1>1, <2>1, ModSmall, Zenon
    <2> QED
      BY <1>1, <1>2, <2>2 DEF x
  <1>h. Q.head = (P.head + k) % Wrap /\ Q.tail = P.tail
    BY DEF put, PipeNode
  <1>4. Q.buf = [i \in Cell |-> IF at(i) < k THEN d[at(i) + 1] ELSE P.buf[i]]
    BY DEF put, PipeNode
  <1>e. Q.head = IF P.head + k < Wrap THEN P.head + k ELSE P.head + k - Wrap
    <2> HIDE DEF Q
    <2> QED
      BY <1>3, <1>h, Zenon
  <1>u. u = IF P.head >= P.tail THEN P.head - P.tail ELSE P.head + Wrap - P.tail
    BY UsedIs
  <1>g. /\ Q.head \in 0..(Wrap - 1)
        /\ (IF Q.head >= P.tail THEN Q.head - P.tail ELSE Q.head + Wrap - P.tail) = u + k
    <2>1. /\ Wrap \in Nat /\ u + k < Wrap /\ u \in Nat /\ k \in Nat
          /\ P.head \in 0..(Wrap - 1) /\ P.tail \in 0..(Wrap - 1)
      BY <1>1, <1>2
    <2> HIDE DEF Q, u
    <2>2. CASE P.head >= P.tail
      <3>1. u = P.head - P.tail
        BY <1>u, <2>2
      <3>2. CASE P.head + k < Wrap
        BY <1>e, <2>1, <2>2, <3>1, <3>2, SMTT(30)
      <3>3. CASE ~(P.head + k < Wrap)
        BY <1>e, <2>1, <2>2, <3>1, <3>3, SMTT(30)
      <3> QED
        BY <3>2, <3>3
    <2>3. CASE ~(P.head >= P.tail)
      <3>1. u = P.head + Wrap - P.tail
        BY <1>u, <2>3
      <3>2. P.head + k < Wrap
        BY <2>1, <2>3, <3>1
      <3> QED
        BY <1>e, <2>1, <2>3, <3>1, <3>2, SMTT(30)
    <2> QED
      BY <2>2, <2>3
  <1>5. ASSUME NEW i \in Cell PROVE at(i) \in Cell
    <2>1. i + Wrap - P.head \in Int
      BY <1>1
    <2> QED
      BY <1>1, <2>1, ModRange, Zenon
  <1>6. Q \in PipeNode
    <2>1. ASSUME NEW i \in Cell PROVE (IF at(i) < k THEN d[at(i) + 1] ELSE P.buf[i]) \in Byte
      <3>1. at(i) \in Cell
        BY <1>5
      <3> HIDE DEF at
      <3>2. CASE at(i) < k
        <4>1. at(i) + 1 \in 1..Len(d)
          BY <1>1, <3>1, <3>2
        <4> QED
          BY <3>2, <4>1
      <3>3. CASE ~(at(i) < k)
        BY <3>3, Zenon DEF PipeNode
      <3> QED
        BY <3>2, <3>3
    <2> HIDE DEF at
    <2>2. Q.buf \in [Cell -> Byte]
      BY <1>4, <2>1
    <2>4. Q = [P EXCEPT !.buf = Q.buf, !.head = Q.head]
      BY DEF put, PipeNode
    <2> HIDE DEF Q
    <2> QED
      BY <1>g, <2>2, <2>4, Zenon DEF PipeNode
  <1>7. Used(Q) = u + k
    <2>1. Used(Q) = IF Q.head >= Q.tail THEN Q.head - Q.tail ELSE Q.head + Wrap - Q.tail
      BY <1>6, UsedIs
    <2> HIDE DEF Q, u
    <2> QED
      BY <1>h, <1>g, <2>1
  <1> DEFINE s == Taken(Q, u + k)
             a == Taken(P, u)
             b == SubSeq(d, 1, k)
  <1>8. /\ s \in Seq(Byte) /\ Len(s) = u + k
        /\ \A i \in 1..(u + k) : s[i] = Q.buf[(Q.tail + i - 1) % PIPE_BUF_SIZE]
    <2> HIDE DEF u, Q
    <2> QED
      BY <1>2, <1>6, TakenSeq, Zenon
  <1>9. /\ a \in Seq(Byte) /\ Len(a) = u
        /\ \A i \in 1..u : a[i] = P.buf[(P.tail + i - 1) % PIPE_BUF_SIZE]
    BY <1>2, TakenSeq, Zenon
  <1>10. b \in Seq(Byte) /\ Len(b) = k /\ \A i \in 1..k : b[i] = d[i]
    <2>1. 1 \in Int /\ k \in Int /\ \A i \in 1..k : d[i] \in Byte
      BY <1>1, <1>2
    <2>2. /\ b \in Seq(Byte) /\ Len(b) = IF 1 <= k THEN k - 1 + 1 ELSE 0
          /\ \A i \in 1..(k - 1 + 1) : b[i] = d[1 + i - 1]
      BY <2>1
    <2> HIDE DEF b
    <2>3. \A i \in 1..k : i \in 1..(k - 1 + 1) /\ 1 + i - 1 = i
      BY <1>2
    <2> QED
      BY <1>2, <2>2, <2>3
  <1>11. ASSUME NEW n \in 1..(u + k)
         PROVE  LET i == (P.tail + n - 1) % PIPE_BUF_SIZE
                IN  /\ i \in Cell
                    /\ at(i) = IF n <= u THEN PIPE_BUF_SIZE + (n - 1 - u) ELSE n - 1 - u
    <2> DEFINE i == (P.tail + n - 1) % PIPE_BUF_SIZE
               y == n - 1 - u
    <2>1. n - 1 \in Nat /\ P.tail + n - 1 = P.tail + (n - 1) /\ P.tail + n - 1 \in Int /\ y = (n - 1) - u
      BY <1>1, <1>2
    <2>2. i \in Cell
      BY <1>1, <2>1, ModRange, Zenon
    <2>3. at(i) = y % PIPE_BUF_SIZE
      BY <2>1, CellFromHead
    <2> HIDE DEF at, i
    <2>4. CASE n <= u
      <3>1. y \in Int /\ y < 0 /\ -y <= PIPE_BUF_SIZE
        <4> HIDE DEF u
        <4> QED
          BY <1>1, <1>2, <2>4
      <3> HIDE DEF y
      <3>2. (y + PIPE_BUF_SIZE) % PIPE_BUF_SIZE = y % PIPE_BUF_SIZE
        BY <1>1, <3>1, ModPlus, Zenon
      <3> DEFINE z == y + PIPE_BUF_SIZE
      <3>3. z \in 0..(2 * PIPE_BUF_SIZE - 1) /\ z < PIPE_BUF_SIZE
        BY <1>1, <3>1
      <3> HIDE DEF z
      <3>4. z % PIPE_BUF_SIZE = z
        BY <1>1, <3>3, ModSmall, Zenon
      <3>5. y % PIPE_BUF_SIZE = PIPE_BUF_SIZE + y
        BY <1>1, <3>1, <3>2, <3>4 DEF z
      <3> QED
        BY <2>2, <2>3, <2>4, <3>5 DEF y, i
    <2>5. CASE ~(n <= u)
      <3>1. y \in 0..(2 * PIPE_BUF_SIZE - 1) /\ y < PIPE_BUF_SIZE
        <4> HIDE DEF u
        <4> QED
          BY <1>1, <1>2, <2>5
      <3> HIDE DEF y
      <3>2. y % PIPE_BUF_SIZE = y
        BY <1>1, <3>1, ModSmall, Zenon
      <3> QED
        BY <2>2, <2>3, <2>5, <3>2 DEF y, i
    <2> QED
      BY <2>4, <2>5
  <1>12. ASSUME NEW n \in 1..u PROVE s[n] = a[n]
    <2> DEFINE i == (P.tail + n - 1) % PIPE_BUF_SIZE
    <2>1. n \in 1..(u + k)
      BY <1>1, <1>2
    <2>2. i \in Cell /\ at(i) = PIPE_BUF_SIZE + (n - 1 - u)
      BY <1>11, <2>1
    <2> HIDE DEF at, i
    <2>3. ~(at(i) < k)
      BY <1>1, <1>2, <2>2
    <2>4. Q.buf[i] = P.buf[i]
      <3> HIDE DEF Q
      <3> QED
        BY <1>4, <2>2, <2>3
    <2> HIDE DEF s, a, Q
    <2> QED
      BY <1>h, <1>8, <1>9, <2>1, <2>4 DEF i
  <1>13. ASSUME NEW n \in 1..k PROVE s[u + n] = b[n]
    <2> DEFINE i == (P.tail + (u + n) - 1) % PIPE_BUF_SIZE
    <2>1. u + n \in 1..(u + k) /\ ~(u + n <= u) /\ (u + n) - 1 - u = n - 1 /\ n - 1 + 1 = n
      <3> HIDE DEF u
      <3> QED
        BY <1>2
    <2>2. i \in Cell /\ at(i) = n - 1
      BY <1>11, <2>1
    <2> HIDE DEF at, i
    <2>3. at(i) < k /\ at(i) + 1 = n
      BY <1>1, <1>2, <2>2
    <2>4. Q.buf[i] = d[n]
      <3> HIDE DEF Q
      <3> QED
        BY <1>4, <2>2, <2>3
    <2> HIDE DEF s, b, Q
    <2> QED
      BY <1>h, <1>8, <1>10, <2>1, <2>4 DEF i
  <1>14. s = a \o b
    <2> HIDE DEF s, a, b, u
    <2> QED
      BY <1>8, <1>9, <1>10, <1>12, <1>13, JoinSeq, Zenon
  <1> QED
    BY <1>6, <1>7, <1>14

----------------------------------------------------------------------------
(* Descriptors and references                                              *)

End == {"free", "r", "w"}
Row == [Fd -> End]

RefSet(T, end) == {pf \in Proc \X Fd : T[pf[1]][pf[2]] = end}
HeldSet(t, end) == {f \in Fd : t[f] = end}

\* Descriptor f, of process p, replaced by x.
WithEntry(t, f, x) == [t EXCEPT ![f] = x]
WithFd(T, p, f, x) == [T EXCEPT ![p] = WithEntry(T[p], f, x)]

LEMMA RefsFinite ==
    /\ \A t, end : IsFiniteSet(HeldSet(t, end)) /\ Held(t, end) = Cardinality(HeldSet(t, end))
                   /\ Held(t, end) \in Nat
    /\ \A T, end : IsFiniteSet(RefSet(T, end)) /\ Cardinality(RefSet(T, end)) \in Nat
  <1>1. IsFiniteSet(Fd)
    <2>1. 0 \in Int /\ MAX_FDS - 1 \in Int
      BY PipeAssumption
    <2> QED
      BY <2>1, FS_Interval DEF Fd
  <1>2. IsFiniteSet(Proc \X Fd)
    BY <1>1, PipeAssumption, FS_Product
  <1>3. ASSUME NEW t, NEW end
        PROVE  IsFiniteSet(HeldSet(t, end)) /\ Cardinality(HeldSet(t, end)) \in Nat
    <2>1. HeldSet(t, end) \in SUBSET Fd
      BY DEF HeldSet
    <2>2. IsFiniteSet(HeldSet(t, end))
      BY <1>1, <2>1, FS_Subset
    <2> QED
      BY <2>2, FS_CardinalityType
  <1>4. ASSUME NEW T, NEW end
        PROVE  IsFiniteSet(RefSet(T, end)) /\ Cardinality(RefSet(T, end)) \in Nat
    <2>1. RefSet(T, end) \in SUBSET (Proc \X Fd)
      BY DEF RefSet
    <2>2. IsFiniteSet(RefSet(T, end))
      BY <1>2, <2>1, FS_Subset
    <2> QED
      BY <2>2, FS_CardinalityType
  <1>5. \A t, end : Held(t, end) = Cardinality(HeldSet(t, end))
    BY DEF Held, HeldSet
  <1> QED
    BY <1>3, <1>4, <1>5

\* A row with one entry changed holds one reference less to the old end and one
\* more to the new.
LEMMA HeldEntry ==
    ASSUME NEW t \in Row, NEW f \in Fd, NEW x \in End, NEW end \in {"r", "w"}
    PROVE  /\ WithEntry(t, f, x) \in Row
           /\ Held(WithEntry(t, f, x), end) = Held(t, end) - One(t[f], end) + One(x, end)
  <1> DEFINE u == WithEntry(t, f, x)
             S == HeldSet(t, end)
             R == S \ {f}
  <1>1. u \in Row /\ u[f] = x /\ \A g \in Fd \ {f} : u[g] = t[g]
    BY DEF WithEntry, Row
  <1>2. IsFiniteSet(S) /\ Cardinality(S) \in Nat /\ Held(t, end) = Cardinality(S)
        /\ Held(u, end) = Cardinality(HeldSet(u, end))
    BY RefsFinite
  <1>3. f \in S <=> t[f] = end
    BY DEF HeldSet
  <1>4. IsFiniteSet(R) /\ Cardinality(R) = Cardinality(S) - One(t[f], end)
    BY <1>2, <1>3, FS_RemoveElement DEF One
  <1>5. HeldSet(u, end) = IF x = end THEN R \cup {f} ELSE R
    <2> HIDE DEF u
    <2> QED
      BY <1>1 DEF HeldSet
  <1>6. Cardinality(R \cup {f}) = Cardinality(R) + 1
    BY <1>4, FS_AddElement
  <1>7. Cardinality(R) \in Nat
    BY <1>4, FS_CardinalityType
  <1> HIDE DEF u, S, R
  <1>8. Cardinality(HeldSet(u, end)) = Cardinality(R) + One(x, end)
    BY <1>5, <1>6, <1>7 DEF One
  <1> QED
    BY <1>1, <1>2, <1>4, <1>8 DEF One, u

\* The references in one row are those of its process.
LEMMA RowCount ==
    ASSUME NEW T, NEW c \in Proc, NEW end
    PROVE  LET mine == {pf \in RefSet(T, end) : pf[1] = c}
           IN  IsFiniteSet(mine) /\ Cardinality(mine) = Held(T[c], end)
  <1> DEFINE mine == {pf \in RefSet(T, end) : pf[1] = c}
             S == HeldSet(T[c], end)
             F == [f \in S |-> <<c, f>>]
  <1>1. F \in [S -> mine]
    BY DEF HeldSet, RefSet
  <1>2. \A f, g \in S : F[f] = F[g] => f = g
    OBVIOUS
  <1>3. \A pf \in mine : \E f \in S : F[f] = pf
    <2> SUFFICES ASSUME NEW pf \in mine PROVE \E f \in S : F[f] = pf
      OBVIOUS
    <2>1. pf \in Proc \X Fd /\ T[pf[1]][pf[2]] = end /\ pf[1] = c
      BY DEF RefSet
    <2>2. pf[2] \in S /\ pf = <<c, pf[2]>>
      BY <2>1 DEF HeldSet
    <2> QED
      BY <2>2
  <1>4. F \in Bijection(S, mine)
    <2> HIDE DEF F, S, mine
    <2>1. F \in Injection(S, mine)
      BY <1>1, <1>2 DEF Injection, IsInjective
    <2>2. F \in Surjection(S, mine)
      BY <1>1, <1>3 DEF Surjection
    <2> QED
      BY <2>1, <2>2 DEF Bijection
  <1>5. ExistsBijection(S, mine)
    BY <1>4 DEF ExistsBijection
  <1>6. IsFiniteSet(S) /\ Held(T[c], end) = Cardinality(S)
    BY RefsFinite
  <1> HIDE DEF S, mine
  <1>7. IsFiniteSet(mine) /\ Cardinality(mine) = Cardinality(S)
    BY <1>5, <1>6, FS_Bijection
  <1> QED
    BY <1>6, <1>7 DEF mine

\* One row replaced: its references go and those of the new row come.
LEMMA RowReplaced ==
    ASSUME NEW T, NEW U, NEW c \in Proc, \A p \in Proc \ {c} : U[p] = T[p], NEW end
    PROVE  /\ Held(T[c], end) \in Nat /\ Held(U[c], end) \in Nat
           /\ Held(T[c], end) <= Cardinality(RefSet(T, end))
           /\ Cardinality(RefSet(U, end))
                 = Cardinality(RefSet(T, end)) - Held(T[c], end) + Held(U[c], end)
  <1> DEFINE others(V) == {pf \in RefSet(V, end) : pf[1] # c}
             mine(V) == {pf \in RefSet(V, end) : pf[1] = c}
  <1>1. others(U) = others(T)
    BY DEF RefSet
  <1>2. ASSUME NEW V
        PROVE  /\ Cardinality(others(V)) \in Nat
               /\ Cardinality(RefSet(V, end)) = Cardinality(others(V)) + Held(V[c], end)
    <2> DEFINE O == others(V)
               M == mine(V)
    <2>1. RefSet(V, end) = O \cup M /\ O \cap M = {} /\ O \in SUBSET RefSet(V, end)
      OBVIOUS
    <2>2. IsFiniteSet(M) /\ Cardinality(M) = Held(V[c], end)
      BY RowCount
    <2> HIDE DEF O, M
    <2>3. IsFiniteSet(O)
      BY <2>1, RefsFinite, FS_Subset
    <2>4. Cardinality(O \cup M) = Cardinality(O) + Cardinality(M) - Cardinality(O \cap M)
      BY <2>2, <2>3, FS_Union
    <2>5. Cardinality(O) \in Nat /\ Cardinality(M) \in Nat /\ Cardinality(O \cap M) = 0
      BY <2>1, <2>2, <2>3, FS_CardinalityType, FS_EmptySet, Zenon
    <2>6. Cardinality(RefSet(V, end)) = Cardinality(O) + Held(V[c], end)
      BY <2>1, <2>2, <2>4, <2>5
    <2> QED
      BY <2>5, <2>6 DEF O
  <1> HIDE DEF others, mine
  <1>3. Held(T[c], end) \in Nat /\ Held(U[c], end) \in Nat
    BY RefsFinite
  <1>4. /\ Cardinality(others(T)) \in Nat
        /\ Cardinality(RefSet(T, end)) = Cardinality(others(T)) + Held(T[c], end)
    BY <1>2
  <1>5. Cardinality(RefSet(U, end)) = Cardinality(others(U)) + Held(U[c], end)
    BY <1>2
  <1> QED
    BY <1>1, <1>3, <1>4, <1>5

\* A row holds no reference to an end exactly when no entry refers to it.
LEMMA HeldNone ==
    ASSUME NEW t, NEW end
    PROVE  Held(t, end) = 0 <=> \A f \in Fd : t[f] # end
  <1>1. IsFiniteSet(HeldSet(t, end)) /\ Held(t, end) = Cardinality(HeldSet(t, end))
    BY RefsFinite
  <1>2. Held(t, end) = 0 <=> HeldSet(t, end) = {}
    BY <1>1, FS_EmptySet
  <1> QED
    BY <1>2 DEF HeldSet

LEMMA RefsPositive ==
    ASSUME NEW T, NEW p \in Proc, NEW f \in Fd, NEW end, T[p][f] = end
    PROVE  Cardinality(RefSet(T, end)) > 0
  <1>1. <<p, f>> \in RefSet(T, end)
    BY DEF RefSet
  <1>2. Cardinality(RefSet(T, end)) # 0
    BY <1>1, RefsFinite, FS_EmptySet
  <1> QED
    BY <1>2, RefsFinite

\* One descriptor replaced, in all tables.
LEMMA FdReplaced ==
    ASSUME NEW T \in [Proc -> Row], NEW p \in Proc, NEW f \in Fd, NEW x \in End
    PROVE  LET U == WithFd(T, p, f, x)
           IN  /\ U \in [Proc -> Row]
               /\ U[p][f] = x /\ \A g \in Fd \ {f} : U[p][g] = T[p][g]
               /\ \A q \in Proc \ {p} : U[q] = T[q]
               /\ \A end \in {"r", "w"} :
                    /\ One(T[p][f], end) <= Cardinality(RefSet(T, end))
                    /\ Cardinality(RefSet(U, end))
                          = Cardinality(RefSet(T, end)) - One(T[p][f], end) + One(x, end)
  <1> DEFINE U == WithFd(T, p, f, x)
             u == WithEntry(T[p], f, x)
  <1>1. T[p] \in Row
    OBVIOUS
  <1>2. u \in Row /\ u[f] = x /\ \A g \in Fd \ {f} : u[g] = T[p][g]
    BY <1>1 DEF WithEntry, Row
  <1>3. U \in [Proc -> Row] /\ U[p] = u /\ \A q \in Proc \ {p} : U[q] = T[q]
    <2> HIDE DEF u
    <2>1. U = [T EXCEPT ![p] = u]
      BY DEF WithFd, u
    <2> HIDE DEF U
    <2> QED
      BY <1>2, <2>1
  <1>4. ASSUME NEW end \in {"r", "w"}
        PROVE  /\ One(T[p][f], end) <= Cardinality(RefSet(T, end))
               /\ Cardinality(RefSet(U, end))
                     = Cardinality(RefSet(T, end)) - One(T[p][f], end) + One(x, end)
    <2>1. Held(u, end) = Held(T[p], end) - One(T[p][f], end) + One(x, end)
      BY <1>1, HeldEntry
    <2>2. /\ Held(T[p], end) \in Nat /\ Held(T[p], end) <= Cardinality(RefSet(T, end))
          /\ Cardinality(RefSet(U, end))
                = Cardinality(RefSet(T, end)) - Held(T[p], end) + Held(U[p], end)
      <3> HIDE DEF U, u
      <3> QED
        BY <1>3, RowReplaced
    <2>3. One(T[p][f], end) <= Cardinality(RefSet(T, end))
      BY RefsPositive, RefsFinite DEF One
    <2>4. Cardinality(RefSet(T, end)) \in Nat
      BY RefsFinite
    <2> HIDE DEF U, u
    <2> QED
      BY <1>3, <2>1, <2>2, <2>3, <2>4 DEF One
  <1> QED
    BY <1>2, <1>3, <1>4

----------------------------------------------------------------------------
(* The pipe node                                                           *)

LEMMA NoPipeIs ==
    NoPipe \in PipeNode /\ Used(NoPipe) = 0 /\ Taken(NoPipe, 0) = <<>>
  <1>1. (CHOOSE b \in Byte : TRUE) \in Byte
    BY PipeAssumption
  <1>2. NoPipe \in PipeNode
    BY <1>1, PipeAssumption DEF NoPipe, PipeNode
  <1>3. Used(NoPipe) = 0
    BY <1>2, UsedIs DEF NoPipe
  <1>4. Taken(NoPipe, 0) \in Seq(Byte) /\ Len(Taken(NoPipe, 0)) = 0
    BY <1>2, TakenSeq
  <1> QED
    BY <1>2, <1>3, <1>4

\* What decides the bytes in the ring.
LEMMA SameRing ==
    ASSUME NEW P, NEW Q, Q.buf = P.buf, Q.head = P.head, Q.tail = P.tail
    PROVE  Used(Q) = Used(P) /\ \A k : Taken(Q, k) = Taken(P, k)
  BY DEF Used, Taken

\* A node is the values of its fields.
LEMMA SameNode ==
    ASSUME NEW P \in PipeNode, NEW Q \in PipeNode,
           Q.buf = P.buf, Q.head = P.head, Q.tail = P.tail, Q.exists = P.exists,
           Q.reader_count = P.reader_count, Q.writer_count = P.writer_count,
           Q.readers_wq = P.readers_wq, Q.writers_wq = P.writers_wq
    PROVE  Q = P
  BY DEF PipeNode

LEMMA PipeClosed ==
    ASSUME NEW P \in PipeNode, NEW r \in 0..P.reader_count, NEW w \in 0..P.writer_count
    PROVE  LET Q == pipe_close(P, r, w)
               last == r = P.reader_count /\ w = P.writer_count /\ r + w > 0
           IN  /\ Q \in PipeNode
               /\ Q.reader_count = P.reader_count - r /\ Q.writer_count = P.writer_count - w
               /\ last => Q = NoPipe
               /\ ~last => /\ Q.buf = P.buf /\ Q.head = P.head /\ Q.tail = P.tail
                           /\ Q.exists = P.exists
                           /\ Q.writers_wq = IF r > 0 THEN <<>> ELSE P.writers_wq
                           /\ Q.readers_wq = IF w > 0 THEN <<>> ELSE P.readers_wq
               /\ r = 0 /\ w = 0 => Q = P
  <1> DEFINE C == [P EXCEPT !.reader_count = @ - r,
                            !.writers_wq = IF r > 0 THEN <<>> ELSE @,
                            !.writer_count = @ - w,
                            !.readers_wq = IF w > 0 THEN <<>> ELSE @]
             Q == pipe_close(P, r, w)
  <1>1. P.reader_count \in Nat /\ P.writer_count \in Nat /\ r \in Nat /\ w \in Nat
        /\ P.reader_count - r \in Nat /\ P.writer_count - w \in Nat
    BY DEF PipeNode
  <1>2. /\ C.reader_count = P.reader_count - r /\ C.writer_count = P.writer_count - w
        /\ C.buf = P.buf /\ C.head = P.head /\ C.tail = P.tail /\ C.exists = P.exists
        /\ C.writers_wq = IF r > 0 THEN <<>> ELSE P.writers_wq
        /\ C.readers_wq = IF w > 0 THEN <<>> ELSE P.readers_wq
    BY DEF PipeNode
  <1>3. C \in PipeNode
    <2> DEFINE a == P.reader_count - r
               b == P.writer_count - w
               wq == IF r > 0 THEN <<>> ELSE P.writers_wq
               rq == IF w > 0 THEN <<>> ELSE P.readers_wq
    <2>1. a \in Nat /\ b \in Nat /\ rq \in Seq(Proc) /\ wq \in Seq(Proc)
      BY <1>1 DEF PipeNode
    <2>2. C = [P EXCEPT !.reader_count = a, !.writers_wq = wq, !.writer_count = b, !.readers_wq = rq]
      OBVIOUS
    <2> HIDE DEF C, a, b, wq, rq
    <2> QED
      BY <2>1, <2>2, Zenon DEF PipeNode
  <1>4. r = 0 /\ w = 0 => C = P
    <2> HIDE DEF C
    <2> QED
      BY <1>1, <1>2, <1>3, SameNode
  <1>5. Q = IF C.reader_count = 0 /\ C.writer_count = 0 /\ r + w > 0 THEN NoPipe ELSE C
    BY DEF pipe_close
  <1>6. NoPipe \in PipeNode /\ NoPipe.reader_count = 0 /\ NoPipe.writer_count = 0
    BY NoPipeIs DEF NoPipe
  <1> HIDE DEF C, Q
  <1>7. (C.reader_count = 0 /\ C.writer_count = 0 /\ r + w > 0)
          <=> (r = P.reader_count /\ w = P.writer_count /\ r + w > 0)
    BY <1>1, <1>2
  <1>8. CASE C.reader_count = 0 /\ C.writer_count = 0 /\ r + w > 0
    BY <1>1, <1>2, <1>5, <1>6, <1>7, <1>8 DEF Q
  <1>9. CASE ~(C.reader_count = 0 /\ C.writer_count = 0 /\ r + w > 0)
    <2>1. Q = C
      BY <1>5, <1>9
    <2> QED
      BY <1>2, <1>3, <1>4, <1>7, <1>9, <2>1 DEF Q
  <1> QED
    BY <1>8, <1>9

LEMMA PipeAdded ==
    ASSUME NEW P \in PipeNode, NEW r \in Nat, NEW w \in Nat, NEW Q, Q = pipe_addref(P, r, w)
    PROVE  /\ Q \in PipeNode
           /\ Q.reader_count = P.reader_count + r /\ Q.writer_count = P.writer_count + w
           /\ Q.buf = P.buf /\ Q.head = P.head /\ Q.tail = P.tail /\ Q.exists = P.exists
           /\ Q.writers_wq = P.writers_wq /\ Q.readers_wq = P.readers_wq
  <1> DEFINE a == P.reader_count + r
             b == P.writer_count + w
  <1>1. a \in Nat /\ b \in Nat
    BY DEF PipeNode
  <1>2. Q = [P EXCEPT !.reader_count = a, !.writer_count = b]
    BY DEF pipe_addref
  <1> HIDE DEF a, b
  <1>3. Q \in PipeNode
    BY <1>1, <1>2, Zenon DEF PipeNode
  <1>4. /\ Q.reader_count = a /\ Q.writer_count = b
        /\ Q.buf = P.buf /\ Q.head = P.head /\ Q.tail = P.tail /\ Q.exists = P.exists
        /\ Q.writers_wq = P.writers_wq /\ Q.readers_wq = P.readers_wq
    BY <1>2 DEF PipeNode
  <1> QED
    BY <1>3, <1>4 DEF a, b

----------------------------------------------------------------------------
(* System calls on descriptors                                             *)

\* The node's counts are the references in the tables.
Counted(P, T) ==
    /\ P.reader_count = Cardinality(RefSet(T, "r")) /\ P.writer_count = Cardinality(RefSet(T, "w"))
    /\ P.exists <=> P.reader_count + P.writer_count > 0
    /\ ~P.exists => P = NoPipe

\* Process c changes its own row, or has it filled by its parent, and nobody's
\* call.  The ring is left alone or freed; the sleepers of one end stay asleep
\* only if no reference to the other has gone.
OnDescriptors(c) ==
    /\ call[c] = User /\ call' = call /\ moved' = Nothing
    /\ table' \in [Proc -> Row] /\ \A p \in Proc \ {c} : table'[p] = table[p]
    /\ alive' \in [Proc -> {"none", "alive", "dead"}] /\ alive'[c] # "none"
    /\ \A p \in Proc \ {c} : alive'[p] = alive[p]
    /\ pipe' \in PipeNode /\ Counted(pipe', table')
    /\ \/ pipe' = NoPipe
       \/ /\ pipe'.buf = pipe.buf /\ pipe'.head = pipe.head /\ pipe'.tail = pipe.tail
          /\ pipe.exists => pipe'.exists
    /\ \/ pipe'.readers_wq = <<>>
       \/ pipe'.readers_wq = pipe.readers_wq /\ pipe'.writer_count >= pipe.writer_count
    /\ \/ pipe'.writers_wq = <<>>
       \/ pipe'.writers_wq = pipe.writers_wq /\ pipe'.reader_count >= pipe.reader_count

LEMMA InvCounted ==
    ASSUME IInv
    PROVE  /\ pipe \in PipeNode /\ Counted(pipe, table) /\ table \in [Proc -> Row]
           /\ alive \in [Proc -> {"none", "alive", "dead"}]
           /\ pipe.reader_count \in Nat /\ pipe.writer_count \in Nat
           /\ Used(pipe) <= PIPE_BUF_SIZE
  <1>1. Refs("r") = Cardinality(RefSet(table, "r")) /\ Refs("w") = Cardinality(RefSet(table, "w"))
    BY DEF Refs, RefSet
  <1>2. pipe \in PipeNode /\ pipe.reader_count \in Nat /\ pipe.writer_count \in Nat
    BY DEF IInv, CountsMatch, TypeOK, PipeNode
  <1> QED
    BY <1>1, <1>2 DEF IInv, CountsMatch, TypeOK, CallsSound, Counted, Row, End

\* Whoever is in a call refers to an end.
LEMMA InCall ==
    ASSUME NEW T, NEW P, Counted(P, T), NEW p \in Proc,
           \E f \in Fd : T[p][f] = "r" \/ T[p][f] = "w"
    PROVE  P.exists
  <1>1. Cardinality(RefSet(T, "r")) \in Nat /\ Cardinality(RefSet(T, "w")) \in Nat
    BY RefsFinite
  <1>2. Cardinality(RefSet(T, "r")) > 0 \/ Cardinality(RefSet(T, "w")) > 0
    BY RefsPositive
  <1> QED
    BY <1>1, <1>2 DEF Counted

LEMMA DescriptorsInv ==
    ASSUME IInv, NEW c \in Proc, OnDescriptors(c)
    PROVE  IInv'
  <1> USE DEF OnDescriptors
  <1>1. TypeOK'
    <2>1. Used(pipe') <= PIPE_BUF_SIZE
      <3>1. CASE pipe' = NoPipe
        BY <3>1, NoPipeIs, PipeAssumption
      <3>2. CASE pipe'.buf = pipe.buf /\ pipe'.head = pipe.head /\ pipe'.tail = pipe.tail
        <4>1. Used(pipe') = Used(pipe)
          BY <3>2, SameRing
        <4> QED
          BY <4>1, InvCounted
      <3> QED
        BY <3>1, <3>2
    <2> QED
      BY <2>1 DEF TypeOK, Row, End
  <1>2. /\ pipe'.reader_count = Refs("r")' /\ pipe'.writer_count = Refs("w")'
        /\ pipe'.exists <=> (Refs("r") + Refs("w") > 0)'
        /\ ~pipe'.exists => pipe' = NoPipe
    BY DEF Refs, RefSet, Counted
  <1>3. ASSUME NEW p \in Proc, call'[p] # User
        PROVE  pipe'.exists /\ table'[p] = table[p] /\ p # c
    <2>1. p # c /\ call[p] # User
      BY <1>3
    <2>2. \E f \in Fd : table'[p][f] = "r" \/ table'[p][f] = "w"
      BY <2>1 DEF IInv, CallsSound
    <2> QED
      BY <2>1, <2>2, InCall
  <1>4. IsInjective(pipe'.readers_wq) /\ IsInjective(pipe'.writers_wq)
    <2>1. IsInjective(<<>>)
      BY DEF IsInjective
    <2> QED
      BY <2>1 DEF IInv, CallsSound
  <1>5. ASSUME NEW p \in Proc
        PROVE  (Asleep(p)' => Asleep(p)) /\ (Blocked(p)' => Blocked(p))
    <2>1. p \notin Range(<<>>)
      BY DEF Range
    <2> QED
      BY <2>1 DEF Asleep, Blocked
  <1>6. ASSUME NEW p \in Proc
        PROVE  /\ \/ call'[p] = User
                  \/ /\ call'[p].op = "read" /\ p \in Reader /\ call'[p].size \in 1..MaxRead
                     /\ \E f \in Fd : table'[p][f] = "r"
                  \/ /\ call'[p].op = "write" /\ call'[p].src \in Seq(Byte) \ {<<>>}
                     /\ call'[p].some \in BOOLEAN
                     /\ \E f \in Fd : table'[p][f] = "w"
               /\ Asleep(p)' => call'[p].op = "read"
               /\ Blocked(p)' => call'[p].op = "write"
               /\ alive'[p] = "none" => call'[p] = User /\ \A f \in Fd : table'[p][f] = "free"
    BY <1>3, <1>5, SMTT(30) DEF IInv, CallsSound
  <1>7. CallsSound'
    BY <1>2, <1>4, <1>6 DEF CallsSound, IInv
  <1>8. CountsMatch'
    BY <1>1, <1>2, <1>3 DEF CountsMatch
  <1> QED
    BY <1>7, <1>8 DEF IInv

\* References go: pipe_close, once or as often as sys_exit calls it.
LEMMA ClosingIs ==
    ASSUME IInv, NEW c \in Proc, call[c] = User, call' = call, moved' = Nothing,
           table' \in [Proc -> Row], \A p \in Proc \ {c} : table'[p] = table[p],
           alive' \in [Proc -> {"none", "alive", "dead"}], alive'[c] # "none",
           \A p \in Proc \ {c} : alive'[p] = alive[p],
           NEW r \in 0..pipe.reader_count, NEW w \in 0..pipe.writer_count,
           pipe' = pipe_close(pipe, r, w),
           Cardinality(RefSet(table', "r")) = pipe.reader_count - r,
           Cardinality(RefSet(table', "w")) = pipe.writer_count - w
    PROVE  OnDescriptors(c)
  <1> DEFINE last == r = pipe.reader_count /\ w = pipe.writer_count /\ r + w > 0
  <1>1. pipe \in PipeNode /\ pipe.reader_count \in Nat /\ pipe.writer_count \in Nat /\ Counted(pipe, table)
    BY InvCounted
  <1>2. /\ pipe' \in PipeNode
        /\ pipe'.reader_count = pipe.reader_count - r /\ pipe'.writer_count = pipe.writer_count - w
        /\ last => pipe' = NoPipe
        /\ ~last => /\ pipe'.buf = pipe.buf /\ pipe'.head = pipe.head /\ pipe'.tail = pipe.tail
                    /\ pipe'.exists = pipe.exists
                    /\ pipe'.writers_wq = IF r > 0 THEN <<>> ELSE pipe.writers_wq
                    /\ pipe'.readers_wq = IF w > 0 THEN <<>> ELSE pipe.readers_wq
        /\ r = 0 /\ w = 0 => pipe' = pipe
    BY <1>1, PipeClosed, ZenonT(30)
  <1>3. CASE last
    <2>1. pipe' = NoPipe /\ pipe'.readers_wq = <<>> /\ pipe'.writers_wq = <<>> /\ ~pipe'.exists
      BY <1>2, <1>3 DEF NoPipe
    <2>2. pipe'.reader_count = 0 /\ pipe'.writer_count = 0
      BY <2>1 DEF NoPipe
    <2>3. Counted(pipe', table')
      <3>1. ~(pipe'.reader_count + pipe'.writer_count > 0)
        BY <2>2
      <3> QED
        BY <1>2, <2>1, <3>1 DEF Counted
    <2> QED
      BY <1>2, <2>1, <2>3 DEF OnDescriptors
  <1>4. CASE ~last
    <2>1. pipe'.readers_wq = <<>> \/
            (pipe'.readers_wq = pipe.readers_wq /\ pipe'.writer_count >= pipe.writer_count)
      BY <1>1, <1>2, <1>4
    <2>2. pipe'.writers_wq = <<>> \/
            (pipe'.writers_wq = pipe.writers_wq /\ pipe'.reader_count >= pipe.reader_count)
      BY <1>1, <1>2, <1>4
    <2>3. pipe'.exists <=> pipe'.reader_count + pipe'.writer_count > 0
      BY <1>1, <1>2, <1>4 DEF Counted
    <2>4. ~pipe'.exists => pipe' = NoPipe
      <3> SUFFICES ASSUME ~pipe'.exists PROVE pipe' = NoPipe
        OBVIOUS
      <3>1. ~pipe.exists /\ pipe.reader_count = 0 /\ pipe.writer_count = 0 /\ pipe = NoPipe
        BY <1>1, <1>2, <1>4 DEF Counted
      <3>2. r = 0 /\ w = 0
        BY <3>1
      <3> QED
        BY <1>2, <3>1, <3>2
    <2>5. Counted(pipe', table')
      BY <1>2, <2>3, <2>4 DEF Counted
    <2> QED
      BY <1>2, <1>4, <2>1, <2>2, <2>5 DEF OnDescriptors
  <1> QED
    BY <1>3, <1>4

\* References come: pipe_addref, for a process that holds a descriptor already.
LEMMA AddingIs ==
    ASSUME IInv, NEW c \in Proc, call[c] = User, call' = call, moved' = Nothing,
           table' \in [Proc -> Row], \A p \in Proc \ {c} : table'[p] = table[p],
           alive' \in [Proc -> {"none", "alive", "dead"}], alive'[c] # "none",
           \A p \in Proc \ {c} : alive'[p] = alive[p],
           NEW r \in Nat, NEW w \in Nat, r + w > 0 => pipe.exists,
           pipe' = pipe_addref(pipe, r, w),
           Cardinality(RefSet(table', "r")) = pipe.reader_count + r,
           Cardinality(RefSet(table', "w")) = pipe.writer_count + w
    PROVE  OnDescriptors(c)
  <1>1. pipe \in PipeNode /\ pipe.reader_count \in Nat /\ pipe.writer_count \in Nat /\ Counted(pipe, table)
    BY InvCounted
  <1>2. /\ pipe' \in PipeNode
        /\ pipe'.reader_count = pipe.reader_count + r /\ pipe'.writer_count = pipe.writer_count + w
        /\ pipe'.buf = pipe.buf /\ pipe'.head = pipe.head /\ pipe'.tail = pipe.tail
        /\ pipe'.exists = pipe.exists
        /\ pipe'.writers_wq = pipe.writers_wq /\ pipe'.readers_wq = pipe.readers_wq
    <2>1. pipe \in PipeNode
      BY <1>1
    <2> QED
      BY <2>1, PipeAdded
  <1>3. pipe'.exists <=> pipe'.reader_count + pipe'.writer_count > 0
    BY <1>1, <1>2 DEF Counted
  <1>4. ~pipe'.exists => pipe' = NoPipe
    <2> SUFFICES ASSUME ~pipe'.exists PROVE pipe' = NoPipe
      OBVIOUS
    <2>1. r = 0 /\ w = 0 /\ pipe = NoPipe
      BY <1>1, <1>2 DEF Counted
    <2>2. pipe'.reader_count = pipe.reader_count /\ pipe'.writer_count = pipe.writer_count
      BY <1>1, <1>2, <2>1
    <2> QED
      BY <1>1, <1>2, <2>1, <2>2, SameNode
  <1>5. Counted(pipe', table')
    BY <1>2, <1>3, <1>4 DEF Counted
  <1>6. pipe'.reader_count >= pipe.reader_count /\ pipe'.writer_count >= pipe.writer_count
    BY <1>1, <1>2
  <1> QED
    BY <1>2, <1>5, <1>6 DEF OnDescriptors

LEMMA EntryIs ==
    ASSUME IInv, NEW p \in Proc, NEW f \in Fd
    PROVE  table[p] \in Row /\ table[p][f] \in End
  BY InvCounted DEF Row

\* sys_pipe finds no pipe and no reference to one.
LEMMA PipeMakes ==
    ASSUME IInv, NEW p \in Proc, sys_pipe(p)
    PROVE  OnDescriptors(p)
  <1>1. call[p] = User /\ alive[p] = "alive" /\ ~pipe.exists /\ moved' = Nothing
        /\ alive' = alive /\ call' = call
    BY DEF sys_pipe, InUser
  <1>2. /\ pipe \in PipeNode /\ Counted(pipe, table) /\ table \in [Proc -> Row]
        /\ alive \in [Proc -> {"none", "alive", "dead"}]
    BY InvCounted
  <1>3. /\ pipe = NoPipe
        /\ Cardinality(RefSet(table, "r")) = 0 /\ Cardinality(RefSet(table, "w")) = 0
    BY <1>1, <1>2 DEF Counted, NoPipe
  <1>4. CASE Cardinality(FreeFds(p)) < 2
    <2>1. pipe' = pipe /\ table' = table
      BY <1>4 DEF sys_pipe
    <2>2. pipe'.readers_wq = <<>> /\ pipe'.writers_wq = <<>>
      BY <1>3, <2>1 DEF NoPipe
    <2> QED
      BY <1>1, <1>2, <1>3, <2>1, <2>2 DEF OnDescriptors
  <1>5. CASE ~(Cardinality(FreeFds(p)) < 2)
    <2> DEFINE S == FreeFds(p)
               r == Min(S)
               w == Min(S \ {r})
               T == WithFd(table, p, r, "r")
               U == WithFd(T, p, w, "w")
    <2>1. /\ pipe' = [NoPipe EXCEPT !.exists = TRUE, !.reader_count = 1, !.writer_count = 1]
          /\ table' = [table EXCEPT ![p][r] = "r", ![p][w] = "w"]
      BY <1>5 DEF sys_pipe
    <2>2. S \in SUBSET Fd /\ S \in SUBSET Nat /\ S = HeldSet(table[p], "free")
      BY PipeAssumption DEF FreeFds, Fd, HeldSet
    <2>3. IsFiniteSet(S) /\ Cardinality(S) \in Nat
      BY <2>2, RefsFinite, FS_CardinalityType
    <2>4. r \in S
      <3>1. S # {}
        BY <1>5, <2>3, FS_EmptySet
      <3> QED
        BY <2>2, <3>1, MinIn
    <2>5. w \in S \ {r}
      <3> HIDE DEF r
      <3>1. IsFiniteSet(S \ {r}) /\ Cardinality(S \ {r}) = Cardinality(S) - 1
        BY <2>3, <2>4, FS_RemoveElement
      <3>2. Cardinality(S \ {r}) # 0
        BY <1>5, <2>3, <3>1
      <3>3. S \ {r} # {} /\ S \ {r} \in SUBSET Nat
        BY <2>2, <3>1, <3>2, FS_EmptySet, Zenon
      <3> QED
        BY <3>3, MinIn
    <2>6. r \in Fd /\ w \in Fd /\ r # w /\ table[p][r] = "free" /\ table[p][w] = "free"
      BY <2>2, <2>4, <2>5 DEF FreeFds
    <2> HIDE DEF r, w
    <2>7. /\ T \in [Proc -> Row] /\ T[p][w] = "free" /\ \A q \in Proc \ {p} : T[q] = table[q]
          /\ Cardinality(RefSet(T, "r")) = 1 /\ Cardinality(RefSet(T, "w")) = 0
      <3>1. /\ T \in [Proc -> Row] /\ T[p][w] = table[p][w] /\ \A q \in Proc \ {p} : T[q] = table[q]
            /\ Cardinality(RefSet(T, "r")) = 0 - One("free", "r") + One("r", "r")
            /\ Cardinality(RefSet(T, "w")) = 0 - One("free", "w") + One("r", "w")
        <4>1. "r" \in End
          BY DEF End
        <4> QED
          BY <1>2, <1>3, <2>6, <4>1, FdReplaced
      <3> QED
        BY <2>6, <3>1 DEF One
    <2>8. table' = U
      <3>1. table[p] \in [Fd -> End]
        BY <1>2 DEF Row
      <3> QED
        BY <1>2, <2>1, <2>6, <3>1 DEF WithFd, WithEntry
    <2> HIDE DEF T
    <2>9. /\ U \in [Proc -> Row] /\ \A q \in Proc \ {p} : U[q] = T[q]
          /\ Cardinality(RefSet(U, "r")) = 1 /\ Cardinality(RefSet(U, "w")) = 1
      BY <2>6, <2>7, FdReplaced, SMTT(30) DEF One, End
    <2> HIDE DEF U
    <2>10. /\ pipe' \in PipeNode /\ pipe'.reader_count = 1 /\ pipe'.writer_count = 1 /\ pipe'.exists
           /\ pipe'.buf = pipe.buf /\ pipe'.head = pipe.head /\ pipe'.tail = pipe.tail
           /\ pipe'.readers_wq = <<>> /\ pipe'.writers_wq = <<>>
      BY <1>3, <2>1, NoPipeIs, Zenon DEF PipeNode, NoPipe
    <2>11. Counted(pipe', table')
      BY <2>8, <2>9, <2>10 DEF Counted
    <2> QED
      BY <1>1, <1>2, <2>7, <2>8, <2>9, <2>10, <2>11 DEF OnDescriptors
  <1> QED
    BY <1>4, <1>5

LEMMA CloseIs ==
    ASSUME IInv, NEW p \in Proc, NEW f \in Fd, sys_close(p, f)
    PROVE  OnDescriptors(p)
  <1> DEFINE e == table[p][f]
             r == One(e, "r")
             w == One(e, "w")
  <1>1. call[p] = User /\ alive[p] = "alive" /\ moved' = Nothing /\ alive' = alive /\ call' = call
        /\ pipe' = pipe_close(pipe, r, w) /\ table' = [table EXCEPT ![p][f] = "free"]
    BY DEF sys_close, InUser
  <1>2. /\ pipe \in PipeNode /\ Counted(pipe, table) /\ table \in [Proc -> Row]
        /\ alive \in [Proc -> {"none", "alive", "dead"}]
    BY InvCounted
  <1>3. table' = WithFd(table, p, f, "free")
    BY <1>1 DEF WithFd, WithEntry
  <1>4. /\ table' \in [Proc -> Row] /\ \A q \in Proc \ {p} : table'[q] = table[q]
        /\ r <= Cardinality(RefSet(table, "r")) /\ w <= Cardinality(RefSet(table, "w"))
        /\ Cardinality(RefSet(table', "r")) = Cardinality(RefSet(table, "r")) - r + One("free", "r")
        /\ Cardinality(RefSet(table', "w")) = Cardinality(RefSet(table, "w")) - w + One("free", "w")
    <2>1. "free" \in End
      BY DEF End
    <2> QED
      BY <1>2, <1>3, <2>1, FdReplaced
  <1>5. One("free", "r") = 0 /\ One("free", "w") = 0 /\ r \in Nat /\ w \in Nat
    BY DEF One
  <1>6. pipe.reader_count \in Nat /\ pipe.writer_count \in Nat
    BY InvCounted
  <1> HIDE DEF e, r, w
  <1>7. /\ r \in 0..pipe.reader_count /\ w \in 0..pipe.writer_count
        /\ Cardinality(RefSet(table', "r")) = pipe.reader_count - r
        /\ Cardinality(RefSet(table', "w")) = pipe.writer_count - w
    BY <1>2, <1>4, <1>5, <1>6 DEF Counted
  <1> QED
    BY <1>1, <1>2, <1>4, <1>7, ClosingIs, Zenon

LEMMA DupIs ==
    ASSUME IInv, NEW p \in Proc, NEW f \in Fd, sys_dup(p, f)
    PROVE  OnDescriptors(p)
  <1> DEFINE e == table[p][f]
             r == One(e, "r")
             w == One(e, "w")
             g == Min(FreeFds(p))
  <1>1. call[p] = User /\ alive[p] = "alive" /\ moved' = Nothing /\ alive' = alive /\ call' = call
        /\ pipe' = pipe_addref(pipe, r, w) /\ table' = [table EXCEPT ![p][g] = e]
        /\ e # "free" /\ FreeFds(p) # {}
    BY DEF sys_dup, InUser
  <1>2. /\ pipe \in PipeNode /\ Counted(pipe, table) /\ table \in [Proc -> Row]
        /\ alive \in [Proc -> {"none", "alive", "dead"}] /\ e \in {"r", "w"}
    BY <1>1, InvCounted, EntryIs DEF End
  <1>3. g \in Fd /\ table[p][g] = "free"
    <2>1. FreeFds(p) \in SUBSET Nat
      BY PipeAssumption DEF FreeFds, Fd
    <2>2. g \in FreeFds(p)
      BY <1>1, <2>1, MinIn
    <2> QED
      BY <2>2 DEF FreeFds
  <1>4. pipe.exists
    BY <1>2, InCall
  <1>5. r \in Nat /\ w \in Nat
    BY DEF One
  <1> HIDE DEF e, g, r, w
  <1>6. table' = WithFd(table, p, g, e)
    BY <1>1 DEF WithFd, WithEntry
  <1>7. /\ table' \in [Proc -> Row] /\ \A q \in Proc \ {p} : table'[q] = table[q]
        /\ Cardinality(RefSet(table', "r")) = Cardinality(RefSet(table, "r")) - One("free", "r") + One(e, "r")
        /\ Cardinality(RefSet(table', "w")) = Cardinality(RefSet(table, "w")) - One("free", "w") + One(e, "w")
    <2>1. e \in End
      BY <1>2 DEF End
    <2> QED
      BY <1>2, <1>3, <1>6, <2>1, FdReplaced
  <1>8. One("free", "r") = 0 /\ One("free", "w") = 0 /\ One(e, "r") = r /\ One(e, "w") = w
        /\ pipe.reader_count \in Nat /\ pipe.writer_count \in Nat
    BY InvCounted DEF One, r, w
  <1>9. /\ Cardinality(RefSet(table', "r")) = pipe.reader_count + r
        /\ Cardinality(RefSet(table', "w")) = pipe.writer_count + w
    BY <1>2, <1>5, <1>7, <1>8 DEF Counted
  <1>10. \A q \in Proc \ {p} : alive'[q] = alive[q]
    BY <1>1
  <1>11. alive' \in [Proc -> {"none", "alive", "dead"}] /\ alive'[p] # "none"
    BY <1>1, <1>2, SMTT(30)
  <1> QED
    BY <1>1, <1>4, <1>5, <1>7, <1>9, <1>10, <1>11, AddingIs, ZenonT(30)

\* sys_dup2 closes one descriptor while another of the same process keeps the
\* pipe from being freed.
LEMMA Dup2Is ==
    ASSUME IInv, NEW p \in Proc, NEW f \in Fd, NEW g \in Fd, sys_dup2(p, f, g)
    PROVE  OnDescriptors(p)
  <1> DEFINE e == table[p][f]
             h == table[p][g]
             C == pipe_close(pipe, One(h, "r"), One(h, "w"))
             T == WithFd(table, p, g, "free")
  <1>1. call[p] = User /\ alive[p] = "alive" /\ moved' = Nothing /\ alive' = alive /\ call' = call
        /\ pipe' = pipe_addref(C, One(e, "r"), One(e, "w")) /\ table' = [table EXCEPT ![p][g] = e]
        /\ e # "free" /\ f # g
    BY DEF sys_dup2, InUser
  <1>2. /\ pipe \in PipeNode /\ Counted(pipe, table) /\ table \in [Proc -> Row]
        /\ alive \in [Proc -> {"none", "alive", "dead"}]
        /\ pipe.reader_count \in Nat /\ pipe.writer_count \in Nat
    BY InvCounted
  <1>3. e \in {"r", "w"} /\ e \in End /\ h \in End /\ "free" \in End
    BY <1>1, EntryIs DEF End
  <1>4. /\ One(e, "r") \in Nat /\ One(e, "w") \in Nat /\ One(h, "r") \in Nat /\ One(h, "w") \in Nat
        /\ One("free", "r") = 0 /\ One("free", "w") = 0
    BY DEF One
  <1>5. pipe.exists
    BY <1>2, <1>3, InCall
  <1>6. table' = WithFd(table, p, g, e)
    BY <1>1 DEF WithFd, WithEntry
  <1> HIDE DEF e, h
  <1>7. /\ table' \in [Proc -> Row] /\ \A q \in Proc \ {p} : table'[q] = table[q]
        /\ Cardinality(RefSet(table', "r")) = Cardinality(RefSet(table, "r")) - One(h, "r") + One(e, "r")
        /\ Cardinality(RefSet(table', "w")) = Cardinality(RefSet(table, "w")) - One(h, "w") + One(e, "w")
    BY <1>2, <1>3, <1>6, FdReplaced DEF h
  <1>8. /\ T[p][f] = e
        /\ One(h, "r") <= Cardinality(RefSet(table, "r")) /\ One(h, "w") <= Cardinality(RefSet(table, "w"))
        /\ Cardinality(RefSet(T, "r")) = Cardinality(RefSet(table, "r")) - One(h, "r") + One("free", "r")
        /\ Cardinality(RefSet(T, "w")) = Cardinality(RefSet(table, "w")) - One(h, "w") + One("free", "w")
    BY <1>1, <1>2, <1>3, FdReplaced DEF e, h
  <1> HIDE DEF T, C
  <1>9. One(h, "r") \in 0..pipe.reader_count /\ One(h, "w") \in 0..pipe.writer_count
    BY <1>2, <1>4, <1>8 DEF Counted
  <1>10. ~(One(h, "r") = pipe.reader_count /\ One(h, "w") = pipe.writer_count)
    <2>1. Cardinality(RefSet(T, e)) > 0
      BY <1>8, RefsPositive
    <2>2. /\ Cardinality(RefSet(T, "r")) = pipe.reader_count - One(h, "r")
          /\ Cardinality(RefSet(T, "w")) = pipe.writer_count - One(h, "w")
      BY <1>2, <1>4, <1>8, SMTT(30) DEF Counted
    <2> QED
      BY <1>2, <1>3, <1>4, <2>1, <2>2
  <1>11. /\ C \in PipeNode
         /\ C.reader_count = pipe.reader_count - One(h, "r")
         /\ C.writer_count = pipe.writer_count - One(h, "w")
         /\ C.buf = pipe.buf /\ C.head = pipe.head /\ C.tail = pipe.tail /\ C.exists = pipe.exists
         /\ C.writers_wq = IF One(h, "r") > 0 THEN <<>> ELSE pipe.writers_wq
         /\ C.readers_wq = IF One(h, "w") > 0 THEN <<>> ELSE pipe.readers_wq
    BY <1>2, <1>9, <1>10, PipeClosed DEF C
  <1>12. /\ pipe' \in PipeNode
         /\ pipe'.reader_count = C.reader_count + One(e, "r")
         /\ pipe'.writer_count = C.writer_count + One(e, "w")
         /\ pipe'.buf = C.buf /\ pipe'.head = C.head /\ pipe'.tail = C.tail /\ pipe'.exists = C.exists
         /\ pipe'.writers_wq = C.writers_wq /\ pipe'.readers_wq = C.readers_wq
    <2>1. C \in PipeNode
      BY <1>11
    <2> DEFINE a == One(e, "r")
               b == One(e, "w")
    <2>2. a \in Nat /\ b \in Nat /\ pipe' = pipe_addref(C, a, b)
      BY <1>1, <1>4
    <2> HIDE DEF a, b
    <2>3. /\ pipe' \in PipeNode
          /\ pipe'.reader_count = C.reader_count + a /\ pipe'.writer_count = C.writer_count + b
          /\ pipe'.buf = C.buf /\ pipe'.head = C.head /\ pipe'.tail = C.tail /\ pipe'.exists = C.exists
          /\ pipe'.writers_wq = C.writers_wq /\ pipe'.readers_wq = C.readers_wq
      BY <2>1, <2>2, PipeAdded
    <2> QED
      BY <2>3 DEF a, b
  <1>13. /\ pipe'.reader_count = pipe.reader_count - One(h, "r") + One(e, "r")
         /\ pipe'.writer_count = pipe.writer_count - One(h, "w") + One(e, "w")
    BY <1>11, <1>12, SMTT(30)
  <1>14. pipe'.reader_count = Cardinality(RefSet(table', "r"))
         /\ pipe'.writer_count = Cardinality(RefSet(table', "w")) /\ pipe'.exists
    BY <1>2, <1>5, <1>7, <1>11, <1>12, <1>13, SMTT(30) DEF Counted
  <1>15. pipe'.reader_count + pipe'.writer_count > 0
    <2>1. One(e, "r") + One(e, "w") = 1
      BY <1>3 DEF One
    <2> QED
      BY <1>2, <1>4, <1>9, <1>13, <2>1
  <1>16. Counted(pipe', table')
    BY <1>14, <1>15, SMTT(30) DEF Counted
  <1>17. pipe'.readers_wq = <<>> \/
           (pipe'.readers_wq = pipe.readers_wq /\ pipe'.writer_count >= pipe.writer_count)
    BY <1>2, <1>4, <1>11, <1>12, <1>13, SMTT(30)
  <1>18. pipe'.writers_wq = <<>> \/
           (pipe'.writers_wq = pipe.writers_wq /\ pipe'.reader_count >= pipe.reader_count)
    BY <1>2, <1>4, <1>11, <1>12, <1>13, SMTT(30)
  <1> QED
    BY <1>1, <1>2, <1>5, <1>7, <1>11, <1>12, <1>14, <1>16, <1>17, <1>18, SMTT(30) DEF OnDescriptors

\* A child starts with its parent's row; its own was empty.
LEMMA ForkIs ==
    ASSUME IInv, NEW p \in Proc, NEW c \in Proc, fork(p, c)
    PROVE  OnDescriptors(c)
  <1> DEFINE r == Held(table[p], "r")
             w == Held(table[p], "w")
  <1>1. /\ alive[c] = "none" /\ moved' = Nothing /\ call' = call
        /\ alive' = [alive EXCEPT ![c] = "alive"]
        /\ table' = [table EXCEPT ![c] = table[p]] /\ pipe' = pipe_addref(pipe, r, w)
    BY DEF fork
  <1>2. /\ pipe \in PipeNode /\ Counted(pipe, table) /\ table \in [Proc -> Row]
        /\ alive \in [Proc -> {"none", "alive", "dead"}]
        /\ pipe.reader_count \in Nat /\ pipe.writer_count \in Nat
    BY InvCounted
  <1>3. call[c] = User /\ \A f \in Fd : table[c][f] = "free"
    BY <1>1 DEF IInv, CallsSound
  <1>4. Held(table[c], "r") = 0 /\ Held(table[c], "w") = 0
    BY <1>3, HeldNone
  <1>5. /\ table' \in [Proc -> Row] /\ table'[c] = table[p] /\ \A q \in Proc \ {c} : table'[q] = table[q]
        /\ alive' \in [Proc -> {"none", "alive", "dead"}] /\ alive'[c] # "none"
        /\ \A q \in Proc \ {c} : alive'[q] = alive[q]
    BY <1>1, <1>2
  <1>6. r \in Nat /\ w \in Nat
    BY RefsFinite
  <1>7. r + w > 0 => pipe.exists
    <2> SUFFICES ASSUME r + w > 0 PROVE pipe.exists
      OBVIOUS
    <2>1. r # 0 \/ w # 0
      BY <1>6
    <2>2. \E f \in Fd : table[p][f] = "r" \/ table[p][f] = "w"
      BY <2>1, HeldNone
    <2> QED
      BY <1>2, <2>2, InCall
  <1>8. \A end : Cardinality(RefSet(table', end))
                    = Cardinality(RefSet(table, end)) - Held(table[c], end) + Held(table'[c], end)
    BY <1>5, RowReplaced
  <1> HIDE DEF r, w
  <1>9. /\ Cardinality(RefSet(table', "r")) = pipe.reader_count + r
        /\ Cardinality(RefSet(table', "w")) = pipe.writer_count + w
    <2>1. Held(table'[c], "r") = r /\ Held(table'[c], "w") = w
      BY <1>5 DEF r, w
    <2> QED
      BY <1>2, <1>4, <1>6, <1>8, <2>1 DEF Counted
  <1> QED
    BY <1>1, <1>3, <1>5, <1>6, <1>7, <1>9, AddingIs, Zenon

\* sys_exit gives up every reference of the process.
LEMMA ExitIs ==
    ASSUME IInv, NEW p \in Proc, sys_exit(p)
    PROVE  OnDescriptors(p)
  <1> DEFINE r == Held(table[p], "r")
             w == Held(table[p], "w")
             none == [f \in Fd |-> "free"]
  <1>1. /\ call[p] = User /\ moved' = Nothing /\ call' = call
        /\ alive' = [alive EXCEPT ![p] = "dead"]
        /\ table' = [table EXCEPT ![p] = none] /\ pipe' = pipe_close(pipe, r, w)
    BY DEF sys_exit, InUser
  <1>2. /\ pipe \in PipeNode /\ Counted(pipe, table) /\ table \in [Proc -> Row]
        /\ alive \in [Proc -> {"none", "alive", "dead"}]
        /\ pipe.reader_count \in Nat /\ pipe.writer_count \in Nat
    BY InvCounted
  <1>3. none \in Row
    BY DEF Row, End
  <1>4. Held(none, "r") = 0 /\ Held(none, "w") = 0
    BY HeldNone
  <1> HIDE DEF none
  <1>5. /\ table' \in [Proc -> Row] /\ table'[p] = none /\ \A q \in Proc \ {p} : table'[q] = table[q]
        /\ alive' \in [Proc -> {"none", "alive", "dead"}] /\ alive'[p] # "none"
        /\ \A q \in Proc \ {p} : alive'[q] = alive[q]
    BY <1>1, <1>2, <1>3
  <1>6. /\ r \in Nat /\ w \in Nat
        /\ r <= Cardinality(RefSet(table, "r")) /\ w <= Cardinality(RefSet(table, "w"))
        /\ Cardinality(RefSet(table', "r")) = Cardinality(RefSet(table, "r")) - r + 0
        /\ Cardinality(RefSet(table', "w")) = Cardinality(RefSet(table, "w")) - w + 0
    BY <1>4, <1>5, RowReplaced, SMTT(30)
  <1> HIDE DEF r, w
  <1>7. /\ r \in 0..pipe.reader_count /\ w \in 0..pipe.writer_count
        /\ Cardinality(RefSet(table', "r")) = pipe.reader_count - r
        /\ Cardinality(RefSet(table', "w")) = pipe.writer_count - w
    BY <1>2, <1>6 DEF Counted
  <1> QED
    BY <1>1, <1>5, <1>7, ClosingIs, Zenon

\* Death by a signal touches no descriptor.
LEMMA TerminateIs ==
    ASSUME IInv, NEW p \in Proc, sig_terminate(p)
    PROVE  OnDescriptors(p)
  <1>1. /\ call[p] = User /\ moved' = Nothing /\ call' = call /\ pipe' = pipe /\ table' = table
        /\ alive' = [alive EXCEPT ![p] = "dead"]
    BY DEF sig_terminate, InUser
  <1>2. /\ pipe \in PipeNode /\ Counted(pipe, table) /\ table \in [Proc -> Row]
        /\ alive \in [Proc -> {"none", "alive", "dead"}]
        /\ pipe.reader_count \in Nat /\ pipe.writer_count \in Nat
    BY InvCounted
  <1>3. pipe'.reader_count >= pipe.reader_count /\ pipe'.writer_count >= pipe.writer_count
    BY <1>1, <1>2
  <1>4. /\ alive' \in [Proc -> {"none", "alive", "dead"}] /\ alive'[p] # "none"
        /\ \A q \in Proc \ {p} : alive'[q] = alive[q]
    BY <1>1, <1>2
  <1> QED
    BY <1>1, <1>2, <1>3, <1>4 DEF OnDescriptors
=============================================================================
