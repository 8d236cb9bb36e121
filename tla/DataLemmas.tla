---------------------------- MODULE DataLemmas ----------------------------
(***************************************************************************)
(* Facts about the data of the models: sequences used as queues without    *)
(* repetition, least elements of sets of naturals, and remainders.         *)
(***************************************************************************)
EXTENDS Integers, Sequences, Functions, FiniteSetsExt, WellFoundedInduction, TLAPS

---------------------------------------------------------------------------
(* Queues: what linking at the tail, unlinking the head and appending a    *)
(* whole queue do to their entries.                                        *)

\* Linking an absent thread at the tail adds it and keeps entries distinct.
LEMMA AppendQueue ==
    ASSUME NEW S, NEW q \in Seq(S), NEW t \in S, IsInjective(q), t \notin Range(q)
    PROVE  /\ Append(q, t) \in Seq(S)
           /\ IsInjective(Append(q, t))
           /\ \A u \in S : u \in Range(Append(q, t)) <=> u \in Range(q) \/ u = t
  <1> DEFINE a == Append(q, t)
  <1>1. /\ a \in Seq(S) /\ DOMAIN q = 1..Len(q) /\ DOMAIN a = 1..(Len(q) + 1) /\ Len(q) \in Nat
        /\ \A i \in 1..Len(q) : a[i] = q[i] /\ i \in 1..(Len(q) + 1)
        /\ a[Len(q) + 1] = t /\ Len(q) + 1 \in 1..(Len(q) + 1)
        /\ \A i \in 1..(Len(q) + 1) : i \in 1..Len(q) \/ i = Len(q) + 1
    OBVIOUS
  <1> HIDE DEF a
  <1>2. IsInjective(a)
    BY <1>1 DEF IsInjective, Range
  <1>3. \A u \in S : u \in Range(a) <=> u \in Range(q) \/ u = t
    BY <1>1 DEF Range
  <1> QED
    BY <1>1, <1>2, <1>3 DEF a

\* The members of a queue of threads are threads.
LEMMA RangeQueue == ASSUME NEW S, NEW q \in Seq(S), NEW u \in Range(q) PROVE u \in S
  BY DEF Range

\* Unlinking the head removes that thread and no other.
LEMMA TailQueue ==
    ASSUME NEW S, NEW q \in Seq(S), q # <<>>, IsInjective(q)
    PROVE  /\ Head(q) \in S
           /\ Head(q) \in Range(q)
           /\ Tail(q) \in Seq(S)
           /\ IsInjective(Tail(q))
           /\ \A u \in S : u \in Range(Tail(q)) <=> u \in Range(q) /\ u # Head(q)
  <1>1. Tail(q) \in Seq(S) /\ Len(Tail(q)) = Len(q) - 1 /\ Len(q) \in Nat \ {0}
        /\ Head(q) = q[1] /\ \A i \in 1..Len(Tail(q)) : Tail(q)[i] = q[i+1]
    OBVIOUS
  <1>2. DOMAIN q = 1..Len(q) /\ DOMAIN Tail(q) = 1..Len(Tail(q)) /\ Head(q) \in S
    BY <1>1
  <1>3. \A i \in 1..Len(q) : i # 1 => i-1 \in 1..Len(Tail(q)) /\ Tail(q)[i-1] = q[i]
    BY <1>1
  <1>4. IsInjective(Tail(q))
    BY <1>1, <1>2 DEF IsInjective
  <1>5. Head(q) \in Range(q)
    BY <1>1 DEF Range
  <1>6. ASSUME NEW u \in S, u \in Range(Tail(q))
        PROVE  u \in Range(q) /\ u # Head(q)
    <2> PICK i \in 1..Len(Tail(q)) : Tail(q)[i] = u
      BY <1>6 DEF Range
    <2> QED
      BY <1>1, <1>2 DEF Range, IsInjective
  <1>7. ASSUME NEW u \in S, u \in Range(q), u # Head(q)
        PROVE  u \in Range(Tail(q))
    <2> PICK i \in 1..Len(q) : q[i] = u
      BY <1>7 DEF Range
    <2> QED
      <3>1. i - 1 \in DOMAIN Tail(q) /\ Tail(q)[i - 1] = u
        BY <1>1, <1>2, <1>3, <1>7
      <3> QED
        BY <3>1 DEF Range
  <1> QED
    BY <1>1, <1>2, <1>4, <1>5, <1>6, <1>7

\* Linking a list of absent threads at the tail, one after the other.
LEMMA ConcatQueue ==
    ASSUME NEW S, NEW q \in Seq(S), NEW w \in Seq(S), IsInjective(q), IsInjective(w),
           \A u \in S : ~(u \in Range(q) /\ u \in Range(w))
    PROVE  /\ q \o w \in Seq(S)
           /\ IsInjective(q \o w)
           /\ \A u \in S : u \in Range(q \o w) <=> u \in Range(q) \/ u \in Range(w)
  <1> DEFINE c == q \o w
  <1>1. /\ c \in Seq(S) /\ Len(c) = Len(q) + Len(w)
        /\ Len(q) \in Nat /\ Len(w) \in Nat
        /\ \A i \in 1..Len(c) : c[i] = IF i <= Len(q) THEN q[i] ELSE w[i - Len(q)]
    OBVIOUS
  <1>2. /\ DOMAIN c = 1..Len(c) /\ DOMAIN q = 1..Len(q) /\ DOMAIN w = 1..Len(w)
        /\ \A i \in 1..Len(q) : q[i] \in S
        /\ \A i \in 1..Len(w) : w[i] \in S
    BY <1>1
  <1>3. \A i \in 1..Len(c) :
            \/ i \in 1..Len(q) /\ c[i] = q[i]
            \/ i - Len(q) \in 1..Len(w) /\ c[i] = w[i - Len(q)] /\ ~(i <= Len(q))
    BY <1>1
  <1>4. /\ \A i \in 1..Len(q) : i \in 1..Len(c) /\ c[i] = q[i]
        /\ \A i \in 1..Len(w) : i + Len(q) \in 1..Len(c) /\ c[i + Len(q)] = w[i]
    BY <1>1
  <1> HIDE DEF c
  <1>5. IsInjective(c)
    <2> SUFFICES ASSUME NEW i \in 1..Len(c), NEW j \in 1..Len(c), c[i] = c[j]
                 PROVE  i = j
      BY <1>2 DEF IsInjective
    <2>1. CASE i \in 1..Len(q) /\ j \in 1..Len(q)
      BY <1>2, <1>4, <2>1 DEF IsInjective
    <2>2. CASE i - Len(q) \in 1..Len(w) /\ j - Len(q) \in 1..Len(w)
      <3>1. w[i - Len(q)] = w[j - Len(q)]
        BY <1>1, <2>2
      <3>2. i - Len(q) = j - Len(q)
        BY <1>2, <2>2, <3>1 DEF IsInjective
      <3> QED
        BY <1>1, <3>2
    <2>3. ASSUME NEW k \in 1..Len(q), NEW l \in 1..Len(w), q[k] = w[l]
          PROVE  FALSE
      BY <1>2, <2>3 DEF Range
    <2>4. CASE i \in 1..Len(q) /\ j - Len(q) \in 1..Len(w)
      <3>1. c[i] = q[i] /\ c[j] = w[j - Len(q)]
        BY <1>1, <2>4
      <3> QED
        BY <2>3, <2>4, <3>1
    <2>5. CASE i - Len(q) \in 1..Len(w) /\ j \in 1..Len(q)
      <3>1. c[j] = q[j] /\ c[i] = w[i - Len(q)]
        BY <1>1, <2>5
      <3> QED
        BY <2>3, <2>5, <3>1
    <2> QED
      BY <1>3, <2>1, <2>2, <2>4, <2>5
  <1>6. ASSUME NEW u \in S, u \in Range(c)
        PROVE  u \in Range(q) \/ u \in Range(w)
    BY <1>3, <1>6 DEF Range
  <1>7. ASSUME NEW u \in S, u \in Range(q)
        PROVE  u \in Range(c)
    <2> PICK i \in 1..Len(q) : q[i] = u
      BY <1>2, <1>7 DEF Range
    <2>1. i \in DOMAIN c /\ c[i] = u
      BY <1>2, <1>4
    <2> QED
      BY <2>1 DEF Range
  <1>8. ASSUME NEW u \in S, u \in Range(w)
        PROVE  u \in Range(c)
    <2> PICK i \in 1..Len(w) : w[i] = u
      BY <1>8 DEF Range
    <2> QED
      BY <1>4 DEF Range
  <1> QED
    BY <1>1, <1>5, <1>6, <1>7, <1>8 DEF c

---------------------------------------------------------------------------
(* Least elements, and remainders                                          *)

\* A nonempty set of naturals has a least element.
LEMMA LeastExists == ASSUME NEW S \in SUBSET Nat, S # {} PROVE \E x \in S : \A y \in S : x <= y
  <1> DEFINE R == {ss \in Nat \X Nat : ss[1] < ss[2]}
  <1>1. IsWellFoundedOn(R, Nat)
    BY NatLessThanWellFounded, Zenon DEF OpToRel
  <1>2. \A x, y \in Nat : <<x, y>> \in R <=> x < y
    OBVIOUS
  <1> HIDE DEF R
  <1>3. PICK x \in S : \A y \in S : ~(<<y, x>> \in R)
    BY <1>1, WFMin
  <1>4. x \in Nat /\ \A y \in S : y \in Nat /\ ~(y < x)
    BY <1>2, <1>3
  <1> QED
    BY <1>4

\* The least of some numbers (the next pending signal, the lowest free
\* descriptor) is one of them.
LEMMA MinIn == ASSUME NEW S \in SUBSET Nat, S # {} PROVE Min(S) \in S
  BY LeastExists DEF Min

\* The smaller of two sizes.
LEMMA MinTwo ==
    ASSUME NEW a \in Nat, NEW b \in Nat
    PROVE  Min({a, b}) = IF a <= b THEN a ELSE b
  <1> DEFINE m == IF a <= b THEN a ELSE b
  <1>1. m \in {a, b} /\ \A y \in {a, b} : m <= y
    OBVIOUS
  <1>2. \A x \in {a, b} : (\A y \in {a, b} : x <= y) => x = m
    OBVIOUS
  <1> QED
    BY <1>1, <1>2 DEF Min

\* Of a sum of two numbers below the modulus at most one modulus is taken away.
LEMMA ModSmall ==
    ASSUME NEW m \in Nat \ {0}, NEW x \in 0..(2 * m - 1)
    PROVE  x % m = IF x < m THEN x ELSE x - m
  OBVIOUS

LEMMA ModRange == ASSUME NEW m \in Nat \ {0}, NEW x \in Int PROVE x % m \in 0..(m - 1)
  OBVIOUS

LEMMA ModOf ==
    ASSUME NEW m \in Nat \ {0}, NEW q \in Int, NEW r \in 0..(m - 1)
    PROVE  (m * q + r) % m = r
  OBVIOUS

LEMMA Division ==
    ASSUME NEW m \in Nat \ {0}, NEW x \in Int
    PROVE  x \div m \in Int /\ x = m * (x \div m) + (x % m)
  OBVIOUS

\* Whole moduli do not change a remainder.
LEMMA ModShift ==
    ASSUME NEW m \in Nat \ {0}, NEW x \in Int, NEW q \in Int
    PROVE  (x + m * q) % m = x % m
  <1> DEFINE d == x \div m
             r == x % m
  <1>1. d \in Int /\ r \in 0..(m - 1) /\ x = m * d + r
    BY Division, ModRange
  <1> HIDE DEF d, r
  <1>2. x + m * q = m * (d + q) + r
    BY <1>1
  <1>3. (m * (d + q) + r) % m = r
    BY <1>1, ModOf
  <1> QED
    BY <1>2, <1>3 DEF r

LEMMA ModPlus == ASSUME NEW m \in Nat \ {0}, NEW x \in Int PROVE (x + m) % m = x % m
  <1>1. PICK q \in Int : q = 1
    OBVIOUS
  <1>2. (x + m * q) % m = x % m
    BY ModShift
  <1> QED
    BY <1>1, <1>2

LEMMA ModMultiple ==
    ASSUME NEW m \in Nat \ {0}, NEW w \in Int, w % m = 0
    PROVE  \E q \in Int : w = m * q
  <1>1. w \div m \in Int /\ w = m * (w \div m) + (w % m)
    BY Division
  <1>2. w = m * (w \div m)
    BY <1>1
  <1> QED
    BY <1>1, <1>2, Zenon
===========================================================================
