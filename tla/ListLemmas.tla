----------------------------- MODULE ListLemmas -----------------------------
(***************************************************************************)
(* A list threaded through Thread.next holds a queue: what the operations  *)
(* of ThreadList do to the queues the lists hold.                          *)
(***************************************************************************)
EXTENDS ThreadList, DataLemmas, SequenceTheorems, FiniteSetTheorems

Pointer == Thread \cup {NULL}
NextFun == [Thread -> Pointer]
Ends == [head : Pointer, tail : Pointer]

\* What a list that holds s has after its i-th thread.
After(s, i) == IF i = Len(s) THEN NULL ELSE s[i + 1]

\* The list with ends l through the pointers n holds s.
Linked(n, l, s) ==
    /\ l \in Ends
    /\ l.head = After(s, 0)
    /\ l.tail = IF s = <<>> THEN NULL ELSE s[Len(s)]
    /\ \A i \in 1..Len(s) : n[s[i]] = After(s, i)

----------------------------------------------------------------------------
(* One list                                                                *)

\* Pointers of other threads do not matter to a list.
LEMMA LinkedElsewhere ==
    ASSUME NEW n, NEW m, NEW l, NEW s \in Seq(Thread), Linked(n, l, s),
           \A u \in Thread : u \in Range(s) => m[u] = n[u]
    PROVE  Linked(m, l, s)
  <1>1. \A i \in 1..Len(s) : s[i] \in Thread /\ s[i] \in Range(s)
    BY DEF Range
  <1> QED
    BY <1>1 DEF Linked

\* link puts a thread that is not in the list at its end.
LEMMA LinkedAppend ==
    ASSUME NULL \notin Thread,
           NEW n \in NextFun, NEW l, NEW s \in Seq(Thread), IsInjective(s), Linked(n, l, s),
           NEW t \in Thread, t \notin Range(s), NEW r, r = link(n, l, t)
    PROVE  /\ r.next \in NextFun /\ Linked(r.next, r.list, Append(s, t))
           /\ \A u \in Thread : u \notin Range(s) /\ u # t => r.next[u] = n[u]
  <1> DEFINE a == Append(s, t)
  <1>1. /\ Len(a) = Len(s) + 1 /\ a[Len(s) + 1] = t /\ Len(s) \in Nat
        /\ \A i \in 1..Len(s) : a[i] = s[i]
    OBVIOUS
  <1>2. \A i \in 1..Len(s) : s[i] \in Thread /\ s[i] \in Range(s) /\ s[i] # t
    BY DEF Range
  <1> HIDE DEF a
  <1>3. CASE s = <<>>
    <2>1. l.tail = NULL /\ Len(s) = 0
      BY <1>3 DEF Linked
    <2>2. r.next = [n EXCEPT ![t] = NULL] /\ r.list = [head |-> t, tail |-> t]
      BY <2>1 DEF link
    <2>3. r.next \in NextFun /\ r.next[t] = NULL /\ \A u \in Thread : u # t => r.next[u] = n[u]
      BY <2>2 DEF NextFun, Pointer
    <2>4. r.list \in Ends /\ r.list.head = t /\ r.list.tail = t
      BY <2>2 DEF Ends, Pointer
    <2>5. Len(a) = 1 /\ a[1] = t /\ a # <<>>
      BY <1>1, <2>1
    <2>6. After(a, 0) = t /\ After(a, 1) = NULL
      BY <2>5 DEF After
    <2>7. Linked(r.next, r.list, a)
      BY <2>3, <2>4, <2>5, <2>6 DEF Linked
    <2> QED
      BY <2>3, <2>7 DEF a
  <1>4. CASE s # <<>>
    <2>1. Len(s) \in 1..Len(s) /\ l.tail = s[Len(s)] /\ l.tail # NULL /\ l.tail \in Thread
          /\ l.tail # t /\ l.tail \in Range(s) /\ l.head = s[1] /\ l \in Ends
      BY <1>1, <1>2, <1>4 DEF Linked, After
    <2>2. /\ r.next = [n EXCEPT ![t] = NULL, ![l.tail] = t]
          /\ r.list = [l EXCEPT !.tail = t]
      BY <2>1 DEF link
    <2>3. /\ r.next \in NextFun /\ r.next[t] = NULL /\ r.next[l.tail] = t
          /\ \A u \in Thread : u # t /\ u # l.tail => r.next[u] = n[u]
      BY <2>1, <2>2 DEF NextFun, Pointer
    <2>4. r.list \in Ends /\ r.list.head = s[1] /\ r.list.tail = t
      BY <2>1, <2>2 DEF Ends, Pointer
    <2>5. ASSUME NEW i \in 1..Len(s) PROVE r.next[a[i]] = After(a, i)
      <3>1. CASE i = Len(s)
        BY <1>1, <2>1, <2>3, <3>1 DEF After
      <3>2. CASE i # Len(s)
        <4>1. s[i] # l.tail
          BY <2>1, <3>2 DEF IsInjective
        <4>2. n[s[i]] = s[i + 1] /\ i + 1 \in 1..Len(s)
          BY <1>1, <3>2 DEF Linked, After
        <4> QED
          BY <1>1, <1>2, <2>3, <4>1, <4>2 DEF After
      <3> QED
        BY <3>1, <3>2
    <2>6. r.next[a[Len(s) + 1]] = After(a, Len(s) + 1)
      BY <1>1, <2>3 DEF After
    <2>7. \A i \in 1..Len(a) : r.next[a[i]] = After(a, i)
      BY <1>1, <2>5, <2>6
    <2>8. After(a, 0) = s[1] /\ a # <<>>
      BY <1>1, <2>1 DEF After
    <2>9. Linked(r.next, r.list, a)
      BY <1>1, <2>4, <2>7, <2>8 DEF Linked
    <2> QED
      BY <2>1, <2>3, <2>9 DEF a
  <1> QED
    BY <1>3, <1>4

\* unlink takes the first thread off a list.
LEMMA LinkedTail ==
    ASSUME NULL \notin Thread,
           NEW n \in NextFun, NEW l, NEW s \in Seq(Thread), IsInjective(s), Linked(n, l, s),
           s # <<>>, NEW r, r = unlink(n, l)
    PROVE  /\ r.next \in NextFun /\ Linked(r.next, r.list, Tail(s))
           /\ l.head = Head(s) /\ Head(s) \in Thread
           /\ \A u \in Thread : u # Head(s) => r.next[u] = n[u]
  <1> DEFINE a == Tail(s)
             h == Head(s)
  <1>1. /\ Len(a) = Len(s) - 1 /\ Len(s) \in Nat \ {0} /\ h = s[1] /\ h \in Thread
        /\ a \in Seq(Thread) /\ \A i \in 1..Len(a) : a[i] = s[i + 1]
    BY HeadTailProperties, EmptySeq
  <1>2. \A i \in 1..Len(s) : s[i] \in Thread /\ (i # 1 => s[i] # h)
    BY <1>1 DEF IsInjective
  <1> HIDE DEF a, h
  <1>3. a = <<>> <=> Len(s) = 1
    BY <1>1
  <1>4. l.head = h /\ n[h] = After(s, 1) /\ l.tail = s[Len(s)] /\ l \in Ends
    BY <1>1 DEF Linked, After
  <1>5. After(s, 1) = After(a, 0) /\ After(a, 0) \in Pointer /\ (After(s, 1) = NULL <=> Len(s) = 1)
    BY <1>1, <1>2 DEF After, Pointer
  <1>6. /\ r.next = [n EXCEPT ![h] = NULL]
        /\ r.list = [head |-> After(s, 1), tail |-> IF Len(s) = 1 THEN NULL ELSE s[Len(s)]]
    BY <1>4, <1>5 DEF unlink
  <1>7. /\ r.next \in NextFun /\ \A u \in Thread : u # h => r.next[u] = n[u]
    BY <1>1, <1>6 DEF NextFun, Pointer
  <1>8. /\ r.list \in Ends /\ r.list.head = After(a, 0)
        /\ r.list.tail = IF a = <<>> THEN NULL ELSE a[Len(a)]
    BY <1>1, <1>2, <1>3, <1>5, <1>6 DEF Ends, Pointer
  <1>9. ASSUME NEW i \in 1..Len(a) PROVE r.next[a[i]] = After(a, i)
    <2>1. i + 1 \in 1..Len(s) /\ i + 1 # 1 /\ a[i] = s[i + 1]
      BY <1>1
    <2>2. r.next[a[i]] = n[s[i + 1]]
      BY <1>2, <1>7, <2>1
    <2>3. n[s[i + 1]] = After(s, i + 1)
      BY <2>1 DEF Linked
    <2>4. After(s, i + 1) = After(a, i)
      BY <1>1 DEF After
    <2> QED
      BY <2>2, <2>3, <2>4
  <1>10. Linked(r.next, r.list, a)
    BY <1>8, <1>9 DEF Linked
  <1> QED
    BY <1>1, <1>4, <1>7, <1>10 DEF a, h

----------------------------------------------------------------------------
(* Walking a list                                                          *)

\* A queue without repetition is no longer than there are threads.
LEMMA QueueBound ==
    ASSUME IsFiniteSet(Thread),
           NEW s \in Seq(Thread), IsInjective(s)
    PROVE  Cardinality(Thread) \in Nat /\ Len(s) <= Cardinality(Thread)
  <1>1. Cardinality(Thread) \in Nat
    BY FS_CardinalityType
  <1>2. s \in Injection(1..Len(s), Thread)
    BY DEF Injection, IsInjective
  <1>3. Cardinality(1..Len(s)) <= Cardinality(Thread)
    BY <1>2, FS_Injection
  <1>4. 1 \in Int /\ Len(s) \in Int /\ Len(s) \in Nat
    OBVIOUS
  <1>5. Cardinality(1..Len(s)) = IF 1 > Len(s) THEN 0 ELSE Len(s) - 1 + 1
    BY <1>4, FS_Interval
  <1> QED
    BY <1>1, <1>3, <1>4, <1>5

\* The first threads of a queue.
LEMMA Prefix ==
    ASSUME NEW S, NEW c \in Seq(S), IsInjective(c), NEW m \in 0..Len(c)
    PROVE  /\ SubSeq(c, 1, m) \in Seq(S) /\ Len(SubSeq(c, 1, m)) = m
           /\ IsInjective(SubSeq(c, 1, m))
           /\ \A i \in 1..m : SubSeq(c, 1, m)[i] = c[i]
           /\ \A u \in S : u \in Range(SubSeq(c, 1, m)) => \E i \in 1..m : u = c[i]
           /\ m = Len(c) => SubSeq(c, 1, m) = c
           /\ m < Len(c) => /\ SubSeq(c, 1, m + 1) = Append(SubSeq(c, 1, m), c[m + 1])
                            /\ c[m + 1] \in S /\ c[m + 1] \notin Range(SubSeq(c, 1, m))
  <1> DEFINE p == SubSeq(c, 1, m)
  <1>1. /\ p \in Seq(S) /\ Len(p) = m /\ \A i \in 1..m : p[i] = c[i] /\ c[i] \in S
        /\ Len(c) \in Nat /\ DOMAIN p = 1..m /\ DOMAIN c = 1..Len(c)
    OBVIOUS
  <1> HIDE DEF p
  <1>2. IsInjective(p)
    BY <1>1 DEF IsInjective
  <1>3. \A u \in S : u \in Range(p) => \E i \in 1..m : u = c[i]
    BY <1>1 DEF Range
  <1>4. m = Len(c) => p = c
    BY <1>1, SeqEqual
  <1>5. ASSUME m < Len(c)
        PROVE  /\ SubSeq(c, 1, m + 1) = Append(p, c[m + 1])
               /\ c[m + 1] \in S /\ c[m + 1] \notin Range(p)
    <2>1. m + 1 \in 1..Len(c) /\ c[m + 1] \in S
      BY <1>5
    <2>2. c[m + 1] \notin Range(p)
      BY <1>1, <1>3, <2>1 DEF IsInjective
    <2>3. /\ SubSeq(c, 1, m + 1) \in Seq(S) /\ Len(SubSeq(c, 1, m + 1)) = m + 1
          /\ \A i \in 1..(m + 1) : SubSeq(c, 1, m + 1)[i] = c[i]
      BY <1>5
    <2>4. /\ Append(p, c[m + 1]) \in Seq(S) /\ Len(Append(p, c[m + 1])) = m + 1
          /\ \A i \in 1..(m + 1) : Append(p, c[m + 1])[i] = c[i]
      BY <1>1, <2>1
    <2> QED
      BY <2>1, <2>2, <2>3, <2>4, SeqEqual
  <1> QED
    BY <1>1, <1>2, <1>3, <1>4, <1>5 DEF p

\* f is F of Chain, up to N.
Walked(f, N, n, h) == f = [k \in 0..N |-> IF k = 0 THEN <<h>> ELSE Walk(n, f[k - 1])]

\* F of Chain is defined: one pointer further at each of finitely many steps.
LEMMA WalkDefined ==
    ASSUME NEW N \in Nat, NEW n, NEW h
    PROVE  \E f : Walked(f, N, n, h)
  <1> DEFINE Bad == {m \in 0..N : ~ \E f : Walked(f, m, n, h)}
  <1>1. SUFFICES Bad = {}
    <2>1. N \in 0..N /\ N \notin Bad
      BY <1>1
    <2> QED
      BY <2>1
  <1>2. SUFFICES ASSUME Bad # {} PROVE FALSE
    OBVIOUS
  <1>0. Bad \in SUBSET Nat /\ \A m \in 0..N : m \in Bad <=> ~ \E f : Walked(f, m, n, h)
    OBVIOUS
  <1>3. PICK m \in Bad : m \in 0..N /\ \A y \in Bad : m <= y
    <2> HIDE DEF Bad
    <2>1. \E m \in Bad : \A y \in Bad : m <= y
      BY <1>0, <1>2, LeastExists
    <2> QED
      BY <2>1 DEF Bad
  <1> HIDE DEF Bad
  <1>4. CASE m = 0
    <2> DEFINE g == [k \in 0..0 |-> <<h>>]
    <2>1. Walked(g, 0, n, h)
      BY DEF Walked
    <2> QED
      BY <1>0, <1>3, <1>4, <2>1
  <1>5. CASE m # 0
    <2>1. m \in Nat /\ m - 1 \in 0..N /\ m - 1 \notin Bad
      BY <1>3, <1>5
    <2>2. PICK f : Walked(f, m - 1, n, h)
      BY <1>0, <2>1
    <2> DEFINE g == [k \in 0..m |-> IF k = m THEN Walk(n, f[m - 1]) ELSE f[k]]
    <2>3. \A k \in 0..(m - 1) : f[k] = IF k = 0 THEN <<h>> ELSE Walk(n, f[k - 1])
      BY <2>1, <2>2 DEF Walked
    <2>4. ASSUME NEW k \in 0..m PROVE g[k] = IF k = 0 THEN <<h>> ELSE Walk(n, g[k - 1])
      <3>1. CASE k = 0
        BY <1>5, <2>1, <2>3, <3>1
      <3>2. CASE k # 0
        <4>1. k - 1 \in 0..m /\ k - 1 # m /\ g[k - 1] = f[k - 1]
          BY <2>1, <3>2
        <4>2. g[k] = Walk(n, f[k - 1])
          BY <2>1, <2>3, <3>2
        <4> QED
          BY <3>2, <4>1, <4>2
      <3> QED
        BY <3>1, <3>2
    <2>5. Walked(g, m, n, h)
      BY <2>4 DEF Walked
    <2> QED
      BY <1>0, <1>3, <2>5
  <1> QED
    BY <1>4, <1>5

\* Walking a list gives the queue it holds.
LEMMA ChainIsQueue ==
    ASSUME NULL \notin Thread, IsFiniteSet(Thread),
           NEW n \in NextFun, NEW l, NEW s \in Seq(Thread), IsInjective(s), Linked(n, l, s)
    PROVE  Chain(n, l.head) = s
  <1> DEFINE N == Cardinality(Thread)
             F == CHOOSE f : Walked(f, N, n, l.head)
             c == Append(s, NULL)
             Cut(x) == IF x[Len(x)] = NULL THEN SubSeq(x, 1, Len(x) - 1) ELSE x
  <1>1. N \in Nat /\ Len(s) <= N /\ Len(s) \in Nat
    BY QueueBound
  <1>2. Chain(n, l.head) = Cut(F[N])
    BY DEF Chain, Walked
  <1>3. Walked(F, N, n, l.head)
    <2>1. \E f : Walked(f, N, n, l.head)
      BY <1>1, WalkDefined
    <2> QED
      BY <2>1, Zenon
  <1> HIDE DEF F, N
  <1>4. F[0] = <<l.head>> /\ \A k \in 1..N : F[k] = Walk(n, F[k - 1])
    BY <1>1, <1>3 DEF Walked
  <1>5. /\ c \in Seq(Pointer) /\ Len(c) = Len(s) + 1 /\ c[Len(s) + 1] = NULL
        /\ \A i \in 1..Len(s) : c[i] = s[i] /\ s[i] \in Thread /\ s[i] # NULL
    BY DEF Pointer
  <1> HIDE DEF c
  <1>6. IsInjective(c)
    BY <1>1, <1>5 DEF IsInjective
  <1>7. c[1] = l.head /\ \A i \in 1..Len(s) : n[c[i]] = c[i + 1]
    BY <1>1, <1>5 DEF Linked, After
  <1> DEFINE at(k) == IF k <= Len(s) THEN k + 1 ELSE Len(s) + 1
             Bad == {k \in 0..N : F[k] # SubSeq(c, 1, at(k))}
  <1>8. Bad = {}
    <2>1. SUFFICES ASSUME Bad # {} PROVE FALSE
      OBVIOUS
    <2>2. PICK k \in Bad : \A y \in Bad : k <= y
      <3>1. Bad \in SUBSET Nat
        OBVIOUS
      <3> HIDE DEF Bad
      <3> QED
        BY <2>1, <3>1, LeastExists
    <2>3. CASE k = 0
      <3>1. SubSeq(c, 1, 1) = <<c[1]>>
        <4>1. 1 \in 1..Len(c) /\ 1 \in 0..Len(c) /\ c[1] \in Pointer
          BY <1>1, <1>5
        <4>2. SubSeq(c, 1, 1) \in Seq(Pointer) /\ Len(SubSeq(c, 1, 1)) = 1 /\ SubSeq(c, 1, 1)[1] = c[1]
          BY <1>5, <1>6, <4>1, Prefix
        <4>3. <<c[1]>> \in Seq(Pointer) /\ Len(<<c[1]>>) = 1 /\ <<c[1]>>[1] = c[1]
          BY <4>1
        <4>4. \A i \in 1..Len(SubSeq(c, 1, 1)) : SubSeq(c, 1, 1)[i] = <<c[1]>>[i]
          BY <4>2, <4>3
        <4>5. Len(SubSeq(c, 1, 1)) = Len(<<c[1]>>)
          BY <4>2, <4>3
        <4> QED
          BY <4>2, <4>3, <4>4, <4>5, SeqEqual
      <3> QED
        BY <1>1, <1>4, <1>7, <2>2, <2>3, <3>1
    <2>4. CASE k # 0
      <3>1. k \in 1..N /\ k - 1 \in 0..N /\ k - 1 \notin Bad
        BY <1>1, <2>2, <2>4
      <3> DEFINE m == at(k - 1)
                 p == SubSeq(c, 1, m)
      <3>2. F[k - 1] = p /\ m \in 1..Len(c) /\ m \in 0..Len(c)
        BY <1>1, <1>5, <3>1
      <3>3. at(k) = IF m <= Len(s) THEN m + 1 ELSE m
        BY <1>1, <3>1
      <3> HIDE DEF m
      <3>4. /\ p \in Seq(Pointer) /\ Len(p) = m /\ p[m] = c[m]
            /\ m < Len(c) => SubSeq(c, 1, m + 1) = Append(p, c[m + 1])
        BY <1>5, <1>6, <3>2, Prefix
      <3> HIDE DEF p
      <3>5. F[k] = Walk(n, p) /\ p[Len(p)] = c[m]
        BY <1>4, <3>1, <3>2, <3>4
      <3>6. CASE m <= Len(s)
        <4>1. c[m] # NULL /\ n[c[m]] = c[m + 1] /\ m < Len(c)
          BY <1>1, <1>5, <1>7, <3>2, <3>6
        <4>2. F[k] = SubSeq(c, 1, m + 1)
          BY <3>4, <3>5, <4>1 DEF Walk
        <4> QED
          BY <2>2, <3>3, <3>6, <4>2
      <3>7. CASE ~(m <= Len(s))
        <4>1. m = Len(s) + 1 /\ c[m] = NULL
          BY <1>1, <1>5, <3>2, <3>7
        <4>2. F[k] = SubSeq(c, 1, m)
          BY <3>5, <4>1 DEF Walk, p
        <4> QED
          BY <2>2, <3>3, <3>7, <4>2
      <3> QED
        BY <3>6, <3>7
    <2> QED
      BY <2>3, <2>4
  <1>9. F[N] = c
    <2>1. N \in 0..N /\ at(N) = Len(c)
      BY <1>1, <1>5
    <2>2. F[N] = SubSeq(c, 1, at(N))
      BY <1>8, <2>1
    <2>3. Len(c) \in 0..Len(c) /\ Len(c) = Len(c)
      BY <1>1, <1>5
    <2>4. SubSeq(c, 1, Len(c)) = c
      BY <1>5, <1>6, <2>3, Prefix
    <2> QED
      BY <2>1, <2>2, <2>4
  <1>10. Cut(c) = s
    <2>1. c[Len(c)] = NULL
      BY <1>5
    <2>2. SubSeq(c, 1, Len(c) - 1) = SubSeq(c, 1, Len(s))
      BY <1>1, <1>5
    <2>3. SubSeq(c, 1, Len(s)) = s
      <3>1. /\ SubSeq(c, 1, Len(s)) \in Seq(Pointer) /\ Len(SubSeq(c, 1, Len(s))) = Len(s)
            /\ \A i \in 1..Len(s) : SubSeq(c, 1, Len(s))[i] = c[i]
        BY <1>1, <1>5
      <3>2. s \in Seq(Pointer)
        BY DEF Pointer
      <3> QED
        BY <1>5, <3>1, <3>2, SeqEqual
    <2> QED
      BY <2>1, <2>2, <2>3
  <1> QED
    BY <1>2, <1>9, <1>10

----------------------------------------------------------------------------
(* wq_wake_all                                                             *)

\* f is F of wq_wake_all, up to N, from a.
Drained(f, N, a) == f = [k \in 0..N |-> IF k = 0 THEN a ELSE drain(f[k - 1])]

\* F of wq_wake_all is defined: one turn of the loop at each of finitely many steps.
LEMMA DrainDefined ==
    ASSUME NEW N \in Nat, NEW a
    PROVE  \E f : Drained(f, N, a)
  <1> DEFINE Bad == {m \in 0..N : ~ \E f : Drained(f, m, a)}
  <1>1. SUFFICES Bad = {}
    <2>1. N \in 0..N /\ N \notin Bad
      BY <1>1
    <2> QED
      BY <2>1
  <1>2. SUFFICES ASSUME Bad # {} PROVE FALSE
    OBVIOUS
  <1>0. Bad \in SUBSET Nat /\ \A m \in 0..N : m \in Bad <=> ~ \E f : Drained(f, m, a)
    OBVIOUS
  <1>3. PICK m \in Bad : m \in 0..N /\ \A y \in Bad : m <= y
    <2> HIDE DEF Bad
    <2>1. \E m \in Bad : \A y \in Bad : m <= y
      BY <1>0, <1>2, LeastExists
    <2> QED
      BY <2>1 DEF Bad
  <1> HIDE DEF Bad
  <1>4. CASE m = 0
    <2> DEFINE g == [k \in 0..0 |-> a]
    <2>1. Drained(g, 0, a)
      BY DEF Drained
    <2> QED
      BY <1>0, <1>3, <1>4, <2>1
  <1>5. CASE m # 0
    <2>1. m \in Nat /\ m - 1 \in 0..N /\ m - 1 \notin Bad
      BY <1>3, <1>5
    <2>2. PICK f : Drained(f, m - 1, a)
      BY <1>0, <2>1
    <2> DEFINE g == [k \in 0..m |-> IF k = m THEN drain(f[m - 1]) ELSE f[k]]
    <2>3. \A k \in 0..(m - 1) : f[k] = IF k = 0 THEN a ELSE drain(f[k - 1])
      BY <2>1, <2>2 DEF Drained
    <2>4. ASSUME NEW k \in 0..m PROVE g[k] = IF k = 0 THEN a ELSE drain(g[k - 1])
      <3>1. CASE k = 0
        BY <1>5, <2>1, <2>3, <3>1
      <3>2. CASE k # 0
        <4>1. k - 1 \in 0..m /\ k - 1 # m /\ g[k - 1] = f[k - 1]
          BY <2>1, <3>2
        <4>2. g[k] = drain(f[k - 1])
          BY <2>1, <2>3, <3>2
        <4> QED
          BY <3>2, <4>1, <4>2
      <3> QED
        BY <3>1, <3>2
    <2>5. Drained(g, m, a)
      BY <2>4 DEF Drained
    <2> QED
      BY <1>0, <1>3, <2>5
  <1> QED
    BY <1>4, <1>5

\* The loop has moved all but the last threads of c: the run queue holds the first
\* j, the pointers of the others are as they were, and the first of them is at hand.
Moving(d, n, c, j) ==
    /\ d.next \in NextFun
    /\ Linked(d.next, d.list, SubSeq(c, 1, j))
    /\ d.h = After(c, j)
    /\ \A i \in (j + 1)..Len(c) : d.next[c[i]] = After(c, i)
    /\ \A u \in Thread : u \notin Range(c) => d.next[u] = n[u]

\* One turn of the loop moves one thread, or none when none is left.
LEMMA DrainOne ==
    ASSUME NULL \notin Thread,
           NEW n, NEW c \in Seq(Thread), IsInjective(c), NEW j \in 0..Len(c),
           NEW d, Moving(d, n, c, j), NEW e, e = drain(d)
    PROVE  Moving(e, n, c, IF j = Len(c) THEN j ELSE j + 1)
  <1> DEFINE s == SubSeq(c, 1, j)
  <1>1. /\ s \in Seq(Thread) /\ IsInjective(s)
        /\ \A u \in Thread : u \in Range(s) => \E i \in 1..j : u = c[i]
        /\ j < Len(c) => /\ SubSeq(c, 1, j + 1) = Append(s, c[j + 1])
                         /\ c[j + 1] \in Thread /\ c[j + 1] \notin Range(s)
    BY Prefix
  <1> HIDE DEF s
  <1>2. CASE j = Len(c)
    BY <1>2 DEF Moving, After, drain
  <1>3. CASE j # Len(c)
    <2> DEFINE t == c[j + 1]
               m == [d.next EXCEPT ![t] = NULL]
               r == link(m, d.list, t)
    <2>1. /\ j < Len(c) /\ Len(c) \in Nat /\ j + 1 \in 1..Len(c) /\ t \in Thread /\ t # NULL
          /\ t \notin Range(s) /\ d.h = t
      BY <1>1, <1>3 DEF Moving, After
    <2>2. d.next \in NextFun /\ d.next[t] = After(c, j + 1) /\ Linked(d.next, d.list, s)
      BY <2>1 DEF Moving, s
    <2>3. m \in NextFun /\ \A u \in Thread : u # t => m[u] = d.next[u]
      BY <2>1, <2>2 DEF NextFun, Pointer
    <2>4. e = [next |-> r.next, list |-> r.list, h |-> d.next[t]]
      BY <2>1 DEF drain
    <2> HIDE DEF t, m, r
    <2>5. Linked(m, d.list, s)
      <3>1. \A u \in Thread : u \in Range(s) => m[u] = d.next[u]
        BY <2>1, <2>3
      <3> QED
        BY <1>1, <2>2, <3>1, LinkedElsewhere
    <2>6. /\ r.next \in NextFun /\ Linked(r.next, r.list, Append(s, t))
          /\ \A u \in Thread : u \notin Range(s) /\ u # t => r.next[u] = m[u]
      BY <1>1, <2>1, <2>3, <2>5, LinkedAppend DEF r
    <2>7. \A u \in Thread : u \notin Range(s) /\ u # t => e.next[u] = d.next[u]
      BY <2>3, <2>4, <2>6
    <2>8. \A i \in 1..Len(c) : c[i] \in Thread /\ c[i] \in Range(c) /\ \A k \in 1..Len(c) : c[i] = c[k] => i = k
      BY DEF Range, IsInjective
    <2>9. ASSUME NEW i \in (j + 2)..Len(c) PROVE e.next[c[i]] = After(c, i)
      <3>1. i \in 1..Len(c) /\ i # j + 1 /\ i \in (j + 1)..Len(c) /\ \A k \in 1..j : k \in 1..Len(c) /\ k # i
        BY <2>1
      <3>2. c[i] \notin Range(s) /\ c[i] # t /\ c[i] \in Thread
        BY <1>1, <2>1, <2>8, <3>1 DEF t
      <3> QED
        BY <2>7, <3>1, <3>2 DEF Moving
    <2>10. ASSUME NEW u \in Thread, u \notin Range(c) PROVE e.next[u] = n[u]
      <3>1. u # t /\ u \notin Range(s)
        BY <1>1, <2>1, <2>8, <2>10 DEF t
      <3> QED
        BY <2>7, <2>10, <3>1 DEF Moving
    <2>11. e.next \in NextFun /\ Linked(e.next, e.list, SubSeq(c, 1, j + 1)) /\ e.h = After(c, j + 1)
      <3>1. e.next = r.next /\ e.list = r.list /\ e.h = d.next[t]
        BY <2>4
      <3>2. SubSeq(c, 1, j + 1) = Append(s, t)
        BY <1>1, <2>1 DEF t
      <3> QED
        BY <2>2, <2>6, <3>1, <3>2
    <2>12. (j + 1) + 1 = j + 2
      BY <2>1
    <2>13. Moving(e, n, c, j + 1)
      BY <2>9, <2>10, <2>11, <2>12 DEF Moving
    <2> QED
      BY <1>3, <2>13
  <1> QED
    BY <1>2, <1>3

\* After as many turns as there are threads the whole wait queue w is behind the
\* run queue q.
LEMMA DrainAll ==
    ASSUME NULL \notin Thread, IsFiniteSet(Thread),
           NEW n \in NextFun,
           NEW l, NEW q \in Seq(Thread), IsInjective(q), Linked(n, l, q),
           NEW e, NEW w \in Seq(Thread), IsInjective(w), Linked(n, e, w),
           \A u \in Thread : ~(u \in Range(q) /\ u \in Range(w)),
           NEW N, N = Cardinality(Thread), NEW a, a = [next |-> n, list |-> l, h |-> e.head],
           NEW F, Drained(F, N, a)
    PROVE  /\ F[N].next \in NextFun /\ Linked(F[N].next, F[N].list, q \o w)
           /\ \A u \in Thread : u \notin Range(q \o w) => F[N].next[u] = n[u]
  <1> DEFINE c == q \o w
  <1>1. /\ c \in Seq(Thread) /\ IsInjective(c)
    BY ConcatQueue
  <1>2. /\ Len(c) = Len(q) + Len(w) /\ Len(q) \in Nat /\ Len(w) \in Nat
        /\ \A i \in 1..Len(q) : c[i] = q[i]
        /\ \A i \in 1..Len(w) : c[Len(q) + i] = w[i]
    OBVIOUS
  <1> HIDE DEF c
  <1>0. Len(c) = Len(q) + Len(w) /\ Len(q) \in Nat /\ Len(w) \in Nat
    BY <1>2
  <1>3. N \in Nat /\ Len(w) <= N
    BY QueueBound
  <1>4. F[0] = a /\ \A k \in 1..N : F[k] = drain(F[k - 1])
    BY <1>3 DEF Drained
  <1> DEFINE at(k) == IF k <= Len(w) THEN Len(q) + k ELSE Len(c)
             Bad == {k \in 0..N : ~Moving(F[k], n, c, at(k))}
  <1>5. Moving(a, n, c, Len(q))
    <2>1. SubSeq(c, 1, Len(q)) = q
      <3>1. /\ SubSeq(c, 1, Len(q)) \in Seq(Thread) /\ Len(SubSeq(c, 1, Len(q))) = Len(q)
            /\ \A i \in 1..Len(q) : SubSeq(c, 1, Len(q))[i] = c[i]
        BY <1>1, <1>2
      <3> QED
        BY <1>2, <3>1, SeqEqual
    <2>2. ASSUME NEW i \in (Len(q) + 1)..Len(c) PROVE n[c[i]] = After(c, i)
      <3>1. i - Len(q) \in 1..Len(w) /\ i = Len(q) + (i - Len(q))
        BY <1>2
      <3>2. c[i] = w[i - Len(q)] /\ n[w[i - Len(q)]] = After(w, i - Len(q))
        BY <1>2, <3>1 DEF Linked
      <3>3. CASE i = Len(c)
        BY <1>2, <3>2, <3>3 DEF After
      <3>4. CASE i # Len(c)
        <4>1. i - Len(q) + 1 \in 1..Len(w) /\ i + 1 = Len(q) + (i - Len(q) + 1)
          BY <1>0, <3>4
        <4>2. c[i + 1] = w[i - Len(q) + 1]
          BY <1>2, <4>1
        <4>3. i - Len(q) # Len(w)
          BY <1>0, <3>4
        <4> QED
          BY <3>2, <3>4, <4>2, <4>3 DEF After
      <3> QED
        BY <3>3, <3>4
    <2>3. e.head = After(c, Len(q))
      <3>1. e.head = After(w, 0)
        BY DEF Linked
      <3>2. CASE Len(w) = 0
        BY <1>2, <3>1, <3>2 DEF After
      <3>3. CASE Len(w) # 0
        <4>1. 1 \in 1..Len(w)
          BY <1>2, <3>3
        <4>2. c[Len(q) + 1] = w[1] /\ Len(q) # Len(c)
          BY <1>2, <4>1
        <4> QED
          BY <3>1, <3>3, <4>2 DEF After
      <3> QED
        BY <3>2, <3>3
    <2> QED
      BY <2>1, <2>2, <2>3 DEF Moving
  <1>6. Bad = {}
    <2>1. SUFFICES ASSUME Bad # {} PROVE FALSE
      OBVIOUS
    <2>2. PICK k \in Bad : \A y \in Bad : k <= y
      <3>1. Bad \in SUBSET Nat
        OBVIOUS
      <3> HIDE DEF Bad
      <3> QED
        BY <2>1, <3>1, LeastExists
    <2>3. k \in 0..N /\ ~Moving(F[k], n, c, at(k))
      BY <2>2
    <2>4. CASE k = 0
      <3>1. at(0) = Len(q)
        BY <1>2
      <3> QED
        BY <1>4, <1>5, <2>3, <2>4, <3>1
    <2>5. CASE k # 0
      <3>1. k \in 1..N /\ k - 1 \in 0..N /\ k - 1 \notin Bad
        BY <1>3, <2>2, <2>5
      <3> DEFINE j == at(k - 1)
      <3>2. Moving(F[k - 1], n, c, j) /\ F[k] = drain(F[k - 1])
        BY <1>4, <3>1
      <3>3. j \in 0..Len(c) /\ at(k) = IF j = Len(c) THEN j ELSE j + 1
        BY <1>0, <1>3, <3>1
      <3> HIDE DEF j
      <3>4. Moving(F[k], n, c, IF j = Len(c) THEN j ELSE j + 1)
        BY <1>1, <3>2, <3>3, DrainOne
      <3> QED
        BY <2>3, <3>3, <3>4
    <2> QED
      BY <2>4, <2>5
  <1>7. Moving(F[N], n, c, Len(c))
    <2>1. N \in 0..N /\ at(N) = Len(c)
      BY <1>0, <1>3
    <2> QED
      BY <1>6, <2>1
  <1>8. SubSeq(c, 1, Len(c)) = c
    <2>1. Len(c) \in 0..Len(c) /\ Len(c) = Len(c)
      BY <1>2
    <2> QED
      BY <1>1, <2>1, Prefix
  <1> QED
    BY <1>7, <1>8 DEF Moving, c

----------------------------------------------------------------------------
(* The run queue and the wait queues together                              *)

\* Queues without a thread in common, and none twice in one.
Apart(q, w) ==
    /\ q \in Seq(Thread) /\ IsInjective(q)
    /\ w \in [WaitQueue -> Seq(Thread)] /\ \A p \in WaitQueue : IsInjective(w[p])
    /\ \A p \in WaitQueue, u \in Thread : ~(u \in Range(q) /\ u \in Range(w[p]))
    /\ \A p, r \in WaitQueue, u \in Thread : u \in Range(w[p]) /\ u \in Range(w[r]) => p = r

\* The lists ls are the run queue q and the wait queues w.
Held(ls, q, w) ==
    /\ Apart(q, w)
    /\ ls \in [next : NextFun, run : Ends, wq : [WaitQueue -> Ends]]
    /\ Linked(ls.next, ls.run, q)
    /\ \A p \in WaitQueue : Linked(ls.next, ls.wq[p], w[p])

\* At boot all lists are empty.
LEMMA HeldInit == Held(NoLists, <<>>, [p \in WaitQueue |-> <<>>])
  <1>1. Apart(<<>>, [p \in WaitQueue |-> <<>>])
    BY DEF Apart, IsInjective, Range
  <1>2. NoLists \in [next : NextFun, run : Ends, wq : [WaitQueue -> Ends]]
    BY DEF NoLists, Empty, NextFun, Ends, Pointer
  <1>3. \A n : Linked(n, Empty, <<>>)
    BY DEF Linked, After, Empty, Ends, Pointer
  <1> QED
    BY <1>1, <1>2, <1>3 DEF Held, NoLists

\* A change of the run queue r that leaves the threads of the wait queues alone.
LEMMA HeldRun ==
    ASSUME NEW ls, NEW q, NEW w, Held(ls, q, w), NEW r, NEW s,
           r.next \in NextFun, Linked(r.next, r.list, s), Apart(s, w),
           \A p \in WaitQueue, u \in Thread : u \in Range(w[p]) => r.next[u] = ls.next[u]
    PROVE  Held(InRun(ls, r), s, w)
  <1> DEFINE m == InRun(ls, r)
  <1>1. r.list \in Ends /\ ls \in [next : NextFun, run : Ends, wq : [WaitQueue -> Ends]]
    BY DEF Linked, Held
  <1>2. /\ m \in [next : NextFun, run : Ends, wq : [WaitQueue -> Ends]]
        /\ m.next = r.next /\ m.run = r.list /\ m.wq = ls.wq
    BY <1>1 DEF InRun
  <1> HIDE DEF m
  <1>3. ASSUME NEW p \in WaitQueue PROVE Linked(r.next, ls.wq[p], w[p])
    <2>1. w[p] \in Seq(Thread) /\ Linked(ls.next, ls.wq[p], w[p])
      BY DEF Held, Apart
    <2> QED
      BY <2>1, LinkedElsewhere
  <1>4. Held(m, s, w)
    BY <1>2, <1>3 DEF Held
  <1> QED
    BY <1>4 DEF m

\* A change of the wait queue k that leaves the threads of the others alone.
LEMMA HeldWait ==
    ASSUME NEW ls, NEW q, NEW w, Held(ls, q, w), NEW r, NEW s, NEW k \in WaitQueue,
           NEW v, v[k] = s, \A p \in WaitQueue : p # k => v[p] = w[p],
           r.next \in NextFun, Linked(r.next, r.list, s), Apart(q, v),
           \A u \in Thread : u \in Range(q) => r.next[u] = ls.next[u],
           \A p \in WaitQueue, u \in Thread : p # k /\ u \in Range(w[p]) => r.next[u] = ls.next[u]
    PROVE  Held(InWait(ls, k, r), q, v)
  <1> DEFINE m == InWait(ls, k, r)
  <1>1. r.list \in Ends /\ ls \in [next : NextFun, run : Ends, wq : [WaitQueue -> Ends]]
    BY DEF Linked, Held
  <1>2. /\ m \in [next : NextFun, run : Ends, wq : [WaitQueue -> Ends]]
        /\ m.next = r.next /\ m.run = ls.run /\ m.wq = [ls.wq EXCEPT ![k] = r.list]
    BY <1>1 DEF InWait
  <1>3. /\ m.wq[k] = r.list /\ \A p \in WaitQueue : p # k => m.wq[p] = ls.wq[p]
    BY <1>1, <1>2
  <1> HIDE DEF m
  <1>5. Linked(r.next, ls.run, q)
    <2>1. q \in Seq(Thread) /\ Linked(ls.next, ls.run, q)
      BY DEF Held, Apart
    <2> QED
      BY <2>1, LinkedElsewhere
  <1>6. ASSUME NEW p \in WaitQueue, p # k PROVE Linked(r.next, ls.wq[p], w[p])
    <2>1. w[p] \in Seq(Thread) /\ Linked(ls.next, ls.wq[p], w[p])
      BY DEF Held, Apart
    <2>2. \A u \in Thread : u \in Range(w[p]) => r.next[u] = ls.next[u]
      BY <1>6
    <2> QED
      BY <2>1, <2>2, LinkedElsewhere
  <1>7. Held(m, q, v)
    BY <1>2, <1>3, <1>5, <1>6 DEF Held
  <1> QED
    BY <1>7 DEF m

\* queue_push of a thread that is in no list.
LEMMA HeldPush ==
    ASSUME NULL \notin Thread,
           NEW ls, NEW q, NEW w, Held(ls, q, w), NEW t \in Thread,
           t \notin Range(q), \A p \in WaitQueue : t \notin Range(w[p])
    PROVE  Held(queue_push(ls, t), Append(q, t), w)
  <1> DEFINE r == link(ls.next, ls.run, t)
  <1>1. ls.next \in NextFun /\ Linked(ls.next, ls.run, q) /\ q \in Seq(Thread) /\ IsInjective(q)
    BY DEF Held, Apart
  <1>2. /\ r.next \in NextFun /\ Linked(r.next, r.list, Append(q, t))
        /\ \A u \in Thread : u \notin Range(q) /\ u # t => r.next[u] = ls.next[u]
    BY <1>1, LinkedAppend
  <1>3. Apart(Append(q, t), w)
    <2>1. /\ Append(q, t) \in Seq(Thread) /\ IsInjective(Append(q, t))
          /\ \A u \in Thread : u \in Range(Append(q, t)) <=> u \in Range(q) \/ u = t
      BY <1>1, AppendQueue
    <2> QED
      BY <2>1 DEF Held, Apart
  <1> HIDE DEF r
  <1>4. \A p \in WaitQueue, u \in Thread : u \in Range(w[p]) => r.next[u] = ls.next[u]
    BY <1>2 DEF Held, Apart
  <1>5. Held(InRun(ls, r), Append(q, t), w)
    BY <1>2, <1>3, <1>4, HeldRun
  <1> QED
    BY <1>5 DEF queue_push, r

\* A list is empty exactly when its head is NULL.
LEMMA HeldHeads ==
    ASSUME NULL \notin Thread,
           NEW ls, NEW q, NEW w, Held(ls, q, w)
    PROVE  /\ ls.run.head = NULL <=> q = <<>>
           /\ \A p \in WaitQueue : ls.wq[p].head = NULL <=> w[p] = <<>>
  <1>1. ASSUME NEW n, NEW l, NEW s \in Seq(Thread), Linked(n, l, s) PROVE l.head = NULL <=> s = <<>>
    BY <1>1 DEF Linked, After
  <1> QED
    BY <1>1 DEF Held, Apart

\* queue_pop.
LEMMA HeldPop ==
    ASSUME NULL \notin Thread,
           NEW ls, NEW q, NEW w, Held(ls, q, w)
    PROVE  Held(queue_pop(ls), IF q = <<>> THEN q ELSE Tail(q), w)
  <1>1. CASE q = <<>>
    BY <1>1, HeldHeads DEF queue_pop
  <1>2. CASE q # <<>>
    <2> DEFINE r == unlink(ls.next, ls.run)
    <2>1. ls.next \in NextFun /\ Linked(ls.next, ls.run, q) /\ q \in Seq(Thread) /\ IsInjective(q)
      BY DEF Held, Apart
    <2>2. /\ r.next \in NextFun /\ Linked(r.next, r.list, Tail(q))
          /\ \A u \in Thread : u # Head(q) => r.next[u] = ls.next[u]
      BY <1>2, <2>1, LinkedTail
    <2>3. /\ Head(q) \in Thread /\ Head(q) \in Range(q) /\ Tail(q) \in Seq(Thread) /\ IsInjective(Tail(q))
          /\ \A u \in Thread : u \in Range(Tail(q)) <=> u \in Range(q) /\ u # Head(q)
      BY <1>2, <2>1, TailQueue
    <2>4. Apart(Tail(q), w)
      BY <2>3 DEF Held, Apart
    <2> HIDE DEF r
    <2>5. \A p \in WaitQueue, u \in Thread : u \in Range(w[p]) => r.next[u] = ls.next[u]
      BY <2>2, <2>3 DEF Held, Apart
    <2>6. Held(InRun(ls, r), Tail(q), w)
      BY <2>2, <2>4, <2>5, HeldRun
    <2> QED
      BY <1>2, <2>6, HeldHeads DEF queue_pop, r
  <1> QED
    BY <1>1, <1>2

\* wq_sleep of a thread that is in no list.
LEMMA HeldSleep ==
    ASSUME NULL \notin Thread,
           NEW ls, NEW q, NEW w, Held(ls, q, w), NEW k \in WaitQueue,
           NEW t \in Thread, t \notin Range(q), \A p \in WaitQueue : t \notin Range(w[p]),
           NEW v, v = [w EXCEPT ![k] = Append(@, t)]
    PROVE  Held(wq_sleep(ls, k, t), q, v)
  <1> DEFINE r == link(ls.next, ls.wq[k], t)
             s == Append(w[k], t)
  <1>1. /\ ls.next \in NextFun /\ Linked(ls.next, ls.wq[k], w[k])
        /\ w[k] \in Seq(Thread) /\ IsInjective(w[k]) /\ t \notin Range(w[k])
    BY DEF Held, Apart
  <1>2. /\ r.next \in NextFun /\ Linked(r.next, r.list, s)
        /\ \A u \in Thread : u \notin Range(w[k]) /\ u # t => r.next[u] = ls.next[u]
    BY <1>1, LinkedAppend
  <1>3. /\ s \in Seq(Thread) /\ IsInjective(s)
        /\ \A u \in Thread : u \in Range(s) <=> u \in Range(w[k]) \/ u = t
    BY <1>1, AppendQueue
  <1> HIDE DEF r, s
  <1>4. v = [w EXCEPT ![k] = s]
    BY DEF s
  <1>5. v[k] = s /\ v \in [WaitQueue -> Seq(Thread)] /\ \A p \in WaitQueue : p # k => v[p] = w[p]
    BY <1>3, <1>4 DEF Held, Apart
  <1>6. Apart(q, v)
    <2>1. \A p \in WaitQueue, u \in Thread : u \in Range(v[p]) => u \in Range(w[p]) \/ (p = k /\ u = t)
      BY <1>3, <1>5
    <2>2. \A p \in WaitQueue : IsInjective(v[p])
      BY <1>3, <1>5 DEF Held, Apart
    <2> QED
      BY <1>5, <2>1, <2>2 DEF Held, Apart
  <1>7. /\ \A u \in Thread : u \in Range(q) => r.next[u] = ls.next[u]
        /\ \A p \in WaitQueue, u \in Thread : p # k /\ u \in Range(w[p]) => r.next[u] = ls.next[u]
    BY <1>2 DEF Held, Apart
  <1>8. Held(InWait(ls, k, r), q, v)
    BY <1>2, <1>5, <1>6, <1>7, HeldWait
  <1> QED
    BY <1>8 DEF wq_sleep, r

\* wq_wake.
LEMMA HeldWake ==
    ASSUME NULL \notin Thread,
           NEW ls, NEW q, NEW w, Held(ls, q, w), NEW k \in WaitQueue,
           w[k] # <<>>, NEW v, v = [w EXCEPT ![k] = Tail(@)]
    PROVE  Held(wq_wake(ls, k), Append(q, Head(w[k])), v)
  <1> DEFINE r == unlink(ls.next, ls.wq[k])
             s == Tail(w[k])
             h == Head(w[k])
  <1>1. /\ ls.next \in NextFun /\ Linked(ls.next, ls.wq[k], w[k])
        /\ w[k] \in Seq(Thread) /\ IsInjective(w[k])
    BY DEF Held, Apart
  <1>2. /\ r.next \in NextFun /\ Linked(r.next, r.list, s) /\ ls.wq[k].head = h
        /\ \A u \in Thread : u # h => r.next[u] = ls.next[u]
    BY <1>1, LinkedTail
  <1>3. /\ h \in Thread /\ h \in Range(w[k]) /\ s \in Seq(Thread) /\ IsInjective(s)
        /\ \A u \in Thread : u \in Range(s) <=> u \in Range(w[k]) /\ u # h
    BY <1>1, TailQueue
  <1> HIDE DEF r, s, h
  <1>4. v = [w EXCEPT ![k] = s]
    BY DEF s
  <1>5. v[k] = s /\ v \in [WaitQueue -> Seq(Thread)] /\ \A p \in WaitQueue : p # k => v[p] = w[p]
    BY <1>3, <1>4 DEF Held, Apart
  <1>6. Apart(q, v) /\ h \notin Range(q) /\ \A p \in WaitQueue : h \notin Range(v[p])
    <2>1. \A p \in WaitQueue, u \in Thread : u \in Range(v[p]) => u \in Range(w[p]) /\ (p = k => u # h)
      BY <1>3, <1>5
    <2>2. \A p \in WaitQueue : IsInjective(v[p])
      BY <1>3, <1>5 DEF Held, Apart
    <2>3. h \notin Range(q) /\ \A p \in WaitQueue : p # k => h \notin Range(w[p])
      BY <1>3 DEF Held, Apart
    <2> QED
      BY <1>3, <1>5, <2>1, <2>2, <2>3 DEF Held, Apart
  <1>7. /\ \A u \in Thread : u \in Range(q) => r.next[u] = ls.next[u]
        /\ \A p \in WaitQueue, u \in Thread : p # k /\ u \in Range(w[p]) => r.next[u] = ls.next[u]
    BY <1>2, <1>3 DEF Held, Apart
  <1>8. Held(InWait(ls, k, r), q, v)
    BY <1>2, <1>5, <1>6, <1>7, HeldWait
  <1>9. Held(queue_push(InWait(ls, k, r), h), Append(q, h), v)
    BY <1>3, <1>6, <1>8, HeldPush
  <1>10. wq_wake(ls, k) = queue_push(InWait(ls, k, r), h)
    BY <1>2, <1>3 DEF wq_wake, r
  <1> QED
    BY <1>9, <1>10 DEF h

\* wq_wake_all.
LEMMA HeldWakeAll ==
    ASSUME NULL \notin Thread, IsFiniteSet(Thread),
           NEW ls, NEW q, NEW w, Held(ls, q, w), NEW k \in WaitQueue,
           NEW v, v = [w EXCEPT ![k] = <<>>]
    PROVE  Held(wq_wake_all(ls, k), q \o w[k], v)
  <1> DEFINE N == Cardinality(Thread)
             a == [next |-> ls.next, list |-> ls.run, h |-> ls.wq[k].head]
             F == CHOOSE f : Drained(f, N, a)
             r == F[N]
             e == [next |-> ls.next, list |-> Empty]
             m == [ls EXCEPT !.wq[k] = Empty]
  <1>1. wq_wake_all(ls, k) = InRun(m, r)
    BY DEF wq_wake_all, Drained
  <1>2. Drained(F, N, a)
    <2>1. N \in Nat
      BY QueueBound DEF Held, Apart
    <2>2. \E f : Drained(f, N, a)
      BY <2>1, DrainDefined
    <2> QED
      BY <2>2, Zenon
  <1>3. /\ ls.next \in NextFun /\ Linked(ls.next, ls.run, q) /\ q \in Seq(Thread) /\ IsInjective(q)
        /\ Linked(ls.next, ls.wq[k], w[k]) /\ w[k] \in Seq(Thread) /\ IsInjective(w[k])
        /\ \A u \in Thread : ~(u \in Range(q) /\ u \in Range(w[k]))
    BY DEF Held, Apart
  <1> HIDE DEF F
  <1>4. /\ r.next \in NextFun /\ Linked(r.next, r.list, q \o w[k])
        /\ \A u \in Thread : u \notin Range(q \o w[k]) => r.next[u] = ls.next[u]
    BY <1>2, <1>3, DrainAll
  <1>5. /\ q \o w[k] \in Seq(Thread) /\ IsInjective(q \o w[k])
        /\ \A u \in Thread : u \in Range(q \o w[k]) <=> u \in Range(q) \/ u \in Range(w[k])
    BY <1>3, ConcatQueue
  <1>6. /\ v[k] = <<>> /\ v \in [WaitQueue -> Seq(Thread)] /\ \A p \in WaitQueue : p # k => v[p] = w[p]
        /\ IsInjective(<<>>) /\ \A u \in Thread : u \notin Range(<<>>)
    BY DEF Held, Apart, IsInjective, Range
  <1>7. Apart(q, v) /\ Apart(q \o w[k], v)
    <2>1. \A p \in WaitQueue, u \in Thread : u \in Range(v[p]) => p # k /\ u \in Range(w[p])
      BY <1>6
    <2>2. \A p \in WaitQueue : IsInjective(v[p])
      BY <1>6 DEF Held, Apart
    <2> QED
      BY <1>5, <1>6, <2>1, <2>2 DEF Held, Apart
  <1>8. InWait(ls, k, e) = m /\ m.next = ls.next
    <2>1. ls \in [next : NextFun, run : Ends, wq : [WaitQueue -> Ends]]
      BY DEF Held
    <2> QED
      BY <2>1 DEF InWait
  <1> HIDE DEF r, m
  <1>9. Held(m, q, v)
    <2>1. e.next = ls.next /\ e.next \in NextFun /\ e.list = Empty
      BY <1>3
    <2>2. Linked(e.next, e.list, <<>>)
      BY <2>1 DEF Linked, After, Empty, Ends, Pointer
    <2> HIDE DEF e
    <2> QED
      BY <1>6, <1>7, <1>8, <2>1, <2>2, HeldWait
  <1>10. \A p \in WaitQueue, u \in Thread : u \in Range(v[p]) => r.next[u] = m.next[u]
    BY <1>4, <1>7, <1>8 DEF Apart
  <1>11. Held(InRun(m, r), q \o w[k], v)
    BY <1>4, <1>7, <1>9, <1>10, HeldRun
  <1> QED
    BY <1>1, <1>11

\* Walking the lists gives the queues.
LEMMA HeldChains ==
    ASSUME NULL \notin Thread, IsFiniteSet(Thread),
           NEW ls, NEW q, NEW w, Held(ls, q, w)
    PROVE  /\ Chain(ls.next, ls.run.head) = q
           /\ \A p \in WaitQueue : Chain(ls.next, ls.wq[p].head) = w[p]
  BY ChainIsQueue DEF Held, Apart

\* sched_remove_thread of a thread that is not in the run queue changes nothing.
LEMMA HeldRemove ==
    ASSUME NULL \notin Thread, IsFiniteSet(Thread),
           NEW ls, NEW q, NEW w, Held(ls, q, w),
           NEW t \in Thread, t \notin Range(q)
    PROVE  sched_remove_thread(ls, t) = ls
  <1>1. Chain(ls.next, ls.run.head) = q
    BY HeldChains
  <1> QED
    BY <1>1 DEF sched_remove_thread
=============================================================================
