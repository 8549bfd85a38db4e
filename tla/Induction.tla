----------------------------- MODULE Induction -----------------------------
(***************************************************************************)
(* Induction for the proofs about sequences and loops: over the natural    *)
(* numbers up to a bound, what FlattenSeq of SequencesExt returns, and     *)
(* what a loop that is written as a recursive function returns.            *)
(***************************************************************************)
EXTENDS Integers, WellFoundedInduction, SequencesExt, TLAPS

Less == OpToRel(<, Nat)

LEMMA LessWellFounded == IsWellFoundedOn(Less, Nat)
BY NatLessThanWellFounded, Zenon DEF Less

LEMMA LessLemma ==
  ASSUME NEW x \in Nat, NEW y \in Nat, x < y
  PROVE  <<x, y>> \in Less
BY Zenon DEF Less, OpToRel

\* What has no smaller element in a set is its smallest.
LEMMA NoneSmaller ==
  ASSUME NEW T, T \subseteq Nat, NEW x \in T,
         \A y \in T : <<y, x>> \notin Less
  PROVE  \A y \in T : x <= y
<1> SUFFICES ASSUME NEW y \in T PROVE x <= y
  OBVIOUS
<1>1. x \in Nat /\ y \in Nat
  OBVIOUS
<1>2. ~(y < x)
  BY <1>1, LessLemma, Zenon
<1> QED BY <1>1, <1>2

\* A set of natural numbers that is not empty has a smallest element.
LEMMA LeastElement ==
  ASSUME NEW T, T \subseteq Nat, T # {}
  PROVE  \E x \in T : \A y \in T : x <= y
<1>1. \E x \in T : \A y \in T : <<y, x>> \notin Less
  BY LessWellFounded, WFMin, Zenon
<1> QED BY <1>1, NoneSmaller, Zenon

\* The smallest element outside a set that holds 1 and with every k below n
\* also k + 1 is not below n + 1.
LEMMA NoneMissing ==
  ASSUME NEW n \in Nat, NEW P, NEW x \in 1..n, x \notin P,
         1 \in P,
         \A k \in 1..(n - 1) : k \in P => k + 1 \in P,
         \A k \in 1..n : k \notin P => x <= k
  PROVE  FALSE
<1>1. x # 1
  OBVIOUS
<1>2. x - 1 \in 1..(n - 1) /\ x - 1 \in 1..n /\ x - 1 + 1 = x /\ ~(x <= x - 1)
  BY <1>1
<1>3. x - 1 \in P
  BY <1>2
<1> QED BY <1>2, <1>3

\* A set that holds 1, and k + 1 with each k below n, holds 1..n.
LEMMA NatUpTo ==
  ASSUME NEW n \in Nat, NEW P,
         1 \in P,
         \A k \in 1..(n - 1) : k \in P => k + 1 \in P
  PROVE  1..n \subseteq P
<1> DEFINE T == { k \in 1..n : k \notin P }
<1>1. T \subseteq Nat /\ \A k : k \in T <=> k \in 1..n /\ k \notin P
  OBVIOUS
<1> HIDE DEF T
<1>2. CASE T = {}
  BY <1>1, <1>2
<1>3. CASE T # {}
  <2>1. PICK x \in T : \A y \in T : x <= y
    BY <1>1, <1>3, LeastElement
  <2> QED BY <1>1, <2>1, NoneMissing
<1> QED BY <1>2, <1>3

-----------------------------------------------------------------------------
\* f lists what the first k sequences of q are when they are joined.
Joins(f, q) ==
  /\ f \in [0..Len(q) -> Seq(Nat)]
  /\ f[0] = <<>>
  /\ \A k \in 1..Len(q) : f[k] = f[k - 1] \o q[k]

\* One turn of the recursion of FlattenSeq.
Turn(f, q, k) == IF k = 1 THEN q[k] ELSE f[k - 1] \o q[k]

LEMMA TurnLemma ==
  ASSUME NEW f, NEW q, NEW k, NEW m, k # 1, k - 1 = m
  PROVE  Turn(f, q, k) = f[m] \o q[k]
BY Zenon DEF Turn

\* The recursive function of FlattenSeq exists.
LEMMA FlattenExists ==
  ASSUME NEW q \in Seq(Seq(Nat)), q # <<>>
  PROVE  \E f : f = [k \in 1..Len(q) |-> Turn(f, q, k)]
<1> DEFINE N == Len(q)
           Upto(m, f) == f = [k \in 1..m |-> Turn(f, q, k)]
           P == { m \in 1..N : \E f : Upto(m, f) }
<1>1. N \in Nat /\ N >= 1
  OBVIOUS
<1>2. 1 \in P
  <2> DEFINE f == [k \in 1..1 |-> q[1]]
  <2>1. \A k \in 1..1 : Turn(f, q, k) = q[1]
    BY DEF Turn
  <2>2. Upto(1, f)
    BY <2>1
  <2>3. 1 \in 1..N
    BY <1>1
  <2> HIDE DEF f
  <2> QED BY <2>2, <2>3, Zenon
<1>3. ASSUME NEW m \in 1..(N - 1), m \in P PROVE m + 1 \in P
  <2>1. PICK f : Upto(m, f)
    BY <1>3
  <2> DEFINE g == [k \in 1..(m + 1) |-> IF k <= m THEN f[k] ELSE f[m] \o q[k]]
  <2>2. ASSUME NEW k \in 1..(m + 1) PROVE g[k] = Turn(g, q, k)
    <3>1. CASE k <= m
      <4>1. k \in 1..m
        BY <3>1
      <4>2. f[k] = Turn(f, q, k)
        BY <2>1, <4>1
      <4>3. g[k] = f[k] /\ (k # 1 => g[k - 1] = f[k - 1])
        BY <3>1
      <4> HIDE DEF g
      <4> QED BY <4>2, <4>3 DEF Turn
    <3>2. CASE k = m + 1
      BY <3>2 DEF Turn
    <3>3. k <= m \/ k = m + 1
      OBVIOUS
    <3> HIDE DEF g
    <3> QED BY <3>1, <3>2, <3>3
  <2>3. g = [k \in 1..(m + 1) |-> g[k]]
    OBVIOUS
  <2> HIDE DEF g
  <2>4. Upto(m + 1, g)
    BY <2>2, <2>3
  <2>5. m + 1 \in 1..N
    BY <1>1
  <2> QED BY <2>4, <2>5, Zenon
<1> HIDE DEF P
<1>4. 1..N \subseteq P
  BY <1>1, <1>2, <1>3, NatUpTo
<1>5. N \in P
  <2>1. N \in 1..N
    BY <1>1
  <2> QED BY <1>4, <2>1, Zenon
<1> QED BY <1>5, Zenon DEF P

\* FlattenSeq(q) is q's sequences joined one by one.
LEMMA FlattenLemma ==
  ASSUME NEW q \in Seq(Seq(Nat)), q # <<>>
  PROVE  \E f : Joins(f, q) /\ FlattenSeq(q) = f[Len(q)]
<1> DEFINE N == Len(q)
           g == CHOOSE f : f = [k \in 1..Len(q) |-> Turn(f, q, k)]
           f == [k \in 0..N |-> IF k = 0 THEN <<>> ELSE g[k]]
           P == { k \in 1..N : g[k] \in Seq(Nat) }
<1>1. N \in Nat /\ N >= 1
  OBVIOUS
<1>2. g = [k \in 1..N |-> Turn(g, q, k)]
  BY FlattenExists
<1>3. FlattenSeq(q) = g[N]
  BY <1>1 DEF FlattenSeq, Turn
<1> HIDE DEF g
<1>4. \A k \in 1..N : g[k] = Turn(g, q, k)
  BY <1>2
<1>5. 1 \in P
  <2>1. g[1] = q[1]
    BY <1>1, <1>4 DEF Turn
  <2> QED BY <1>1, <2>1
<1>6. ASSUME NEW k \in 1..(N - 1), k \in P PROVE k + 1 \in P
  <2>1. PICK m \in 1..N : m = k + 1 /\ m # 1 /\ m - 1 = k
    BY <1>1
  <2>2. g[m] = Turn(g, q, m)
    BY <1>4
  <2>3. Turn(g, q, m) = g[k] \o q[m]
    BY <2>1, TurnLemma
  <2>4. g[k] \in Seq(Nat) /\ q[m] \in Seq(Nat)
    BY <1>6
  <2>5. g[m] \in Seq(Nat)
    BY <2>2, <2>3, <2>4
  <2> QED BY <2>1, <2>5
<1> HIDE DEF P
<1>7. 1..N \subseteq P
  BY <1>1, <1>5, <1>6, NatUpTo
<1>8. \A k \in 1..N : g[k] \in Seq(Nat)
  BY <1>7 DEF P
<1>9. f \in [0..N -> Seq(Nat)]
  BY <1>8
<1>10. ASSUME NEW k \in 1..N PROVE f[k] = f[k - 1] \o q[k]
  <2>1. g[k] = Turn(g, q, k)
    BY <1>4
  <2>2. CASE k = 1
    BY <2>1, <2>2, <1>1 DEF Turn
  <2>3. CASE k # 1
    <3>1. f[k] = g[k] /\ f[k - 1] = g[k - 1]
      BY <2>3
    <3> HIDE DEF f
    <3> QED BY <2>1, <2>3, <3>1 DEF Turn
  <2> QED BY <2>2, <2>3
<1>11. f[0] = <<>> /\ f[N] = g[N]
  BY <1>1
<1> HIDE DEF f
<1>12. Joins(f, q) /\ FlattenSeq(q) = f[N]
  BY <1>1, <1>3, <1>9, <1>10, <1>11 DEF Joins
<1> QED BY <1>12, Zenon
-----------------------------------------------------------------------------
(***************************************************************************)
(* Loops.  f is the result of a loop over states in S: it ends in a state  *)
(* of stop with the value val, and else goes on with the next state.       *)
(***************************************************************************)
Loop(f, S, stop, val, next) ==
  f = [x \in S |-> IF x \in stop THEN val[x] ELSE f[next[x]]]

\* Every turn takes the rank down.
Descends(S, stop, next, rank, n) ==
  /\ rank \in [S -> 0..n]
  /\ \A x \in S : x \notin stop => next[x] \in S /\ rank[next[x]] < rank[x]

\* So the recursive function exists.
LEMMA LoopExists ==
  ASSUME NEW S, NEW stop, NEW val, NEW next, NEW rank, NEW n \in Nat,
         Descends(S, stop, next, rank, n)
  PROVE  \E f : Loop(f, S, stop, val, next)
<1> DEFINE Low(m) == { x \in S : rank[x] < m }
           P == { m \in 1..(n + 1) : \E f : Loop(f, Low(m), stop, val, next) }
<1>1. \A x \in S : rank[x] \in 0..n
  BY DEF Descends
<1>2. 1 \in P
  <2> DEFINE f == [x \in Low(1) |-> val[x]]
  <2>1. \A x \in Low(1) : x \in stop
    <3> SUFFICES ASSUME NEW x \in S, rank[x] < 1, x \notin stop PROVE FALSE
      OBVIOUS
    <3>1. next[x] \in S /\ rank[next[x]] < rank[x]
      BY DEF Descends
    <3>2. rank[x] \in Nat /\ rank[next[x]] \in Nat
      BY <1>1, <3>1
    <3> QED BY <3>1, <3>2
  <2>2. f = [x \in Low(1) |-> IF x \in stop THEN val[x] ELSE f[next[x]]]
    <3>1. \A x \in Low(1) : val[x] = IF x \in stop THEN val[x] ELSE f[next[x]]
      BY <2>1, Zenon
    <3> QED BY <3>1, Zenon
  <2> HIDE DEF f, Low
  <2>3. Loop(f, Low(1), stop, val, next)
    BY <2>2, Zenon DEF Loop
  <2> QED BY <2>3
<1>3. ASSUME NEW m \in 1..n, m \in P PROVE m + 1 \in P
  <2>1. PICK f : Loop(f, Low(m), stop, val, next)
    BY <1>3
  <2> DEFINE g == [x \in Low(m + 1) |->
                     IF x \in stop THEN val[x] ELSE f[next[x]]]
  <2>2. \A x \in Low(m + 1) : x \notin stop => next[x] \in Low(m) /\ next[x] \in Low(m + 1)
    <3> SUFFICES ASSUME NEW x \in S, rank[x] < m + 1, x \notin stop
                 PROVE  next[x] \in S /\ rank[next[x]] < m /\ rank[next[x]] < m + 1
      OBVIOUS
    <3>1. next[x] \in S /\ rank[next[x]] < rank[x]
      BY DEF Descends
    <3>2. rank[x] \in Nat /\ rank[next[x]] \in Nat
      BY <1>1, <3>1
    <3> QED BY <3>1, <3>2
  <2>3. \A x \in Low(m) : x \in Low(m + 1)
    <3> SUFFICES ASSUME NEW x \in S, rank[x] < m PROVE rank[x] < m + 1
      OBVIOUS
    <3> QED BY <1>1
  <2> HIDE DEF Low
  <2>4. \A x \in Low(m) : g[x] = f[x]
    <3> SUFFICES ASSUME NEW x \in Low(m) PROVE g[x] = f[x]
      OBVIOUS
    <3>1. f[x] = IF x \in stop THEN val[x] ELSE f[next[x]]
      BY <2>1, Zenon DEF Loop
    <3>2. g[x] = IF x \in stop THEN val[x] ELSE f[next[x]]
      BY <2>3, Zenon
    <3> QED BY <3>1, <3>2
  <2>5. \A x \in Low(m + 1) : g[x] = IF x \in stop THEN val[x] ELSE g[next[x]]
    <3> SUFFICES ASSUME NEW x \in Low(m + 1)
                 PROVE  g[x] = IF x \in stop THEN val[x] ELSE g[next[x]]
      OBVIOUS
    <3>1. g[x] = IF x \in stop THEN val[x] ELSE f[next[x]]
      BY Zenon
    <3> HIDE DEF g
    <3> QED BY <2>2, <2>4, <3>1
  <2>6. g = [x \in Low(m + 1) |-> g[x]]
    OBVIOUS
  <2> HIDE DEF g
  <2>7. Loop(g, Low(m + 1), stop, val, next)
    <3>1. [x \in Low(m + 1) |-> g[x]]
            = [x \in Low(m + 1) |-> IF x \in stop THEN val[x] ELSE g[next[x]]]
      BY <2>5, Zenon
    <3> QED BY <2>6, <3>1, Zenon DEF Loop
  <2>8. m + 1 \in 1..(n + 1)
    OBVIOUS
  <2> QED BY <2>7, <2>8, Zenon
<1> HIDE DEF P
<1>4. 1..(n + 1) \subseteq P
  <2>1. n + 1 \in Nat /\ n + 1 - 1 = n
    OBVIOUS
  <2> QED BY <1>2, <1>3, <2>1, NatUpTo
<1>5. n + 1 \in P
  <2>1. n + 1 \in 1..(n + 1)
    OBVIOUS
  <2> QED BY <1>4, <2>1, Zenon
<1>6. Low(n + 1) = S
  BY <1>1
<1> HIDE DEF Low
<1>7. PICK f : Loop(f, Low(n + 1), stop, val, next)
  BY <1>5, Zenon DEF P
<1> QED BY <1>6, <1>7, Zenon

\* What the loop keeps true, is true where it ends.
LEMMA LoopRule ==
  ASSUME NEW S, NEW stop, NEW val, NEW next, NEW rank, NEW n \in Nat,
         Descends(S, stop, next, rank, n),
         NEW f, Loop(f, S, stop, val, next),
         NEW I \in SUBSET S, NEW x \in I,
         \A y \in I : y \notin stop => next[y] \in I
  PROVE  \E y \in I : y \in stop /\ f[x] = val[y]
<1> DEFINE Good(z) == \E y \in I : y \in stop /\ f[z] = val[y]
           T == { rank[z] : z \in { w \in I : ~Good(w) } }
<1>1. \A z \in S : rank[z] \in Nat
  BY DEF Descends
<1>2. \A z \in S : f[z] = IF z \in stop THEN val[z] ELSE f[next[z]]
  BY Zenon DEF Loop
<1>3. T \subseteq Nat
  BY <1>1
<1>4. T = {}
  <2> SUFFICES ASSUME T # {} PROVE FALSE
    OBVIOUS
  <2>1. PICK r \in T : \A q \in T : r <= q
    BY <1>3, LeastElement, Zenon
  <2>2. PICK z \in I : ~Good(z) /\ rank[z] = r
    BY <2>1
  <2>3. z \notin stop
    BY <1>2, <2>2
  <2>4. next[z] \in I /\ rank[next[z]] < rank[z] /\ f[z] = f[next[z]]
    BY <1>2, <2>3 DEF Descends
  <2>5. ~Good(next[z])
    BY <2>2, <2>4
  <2>6. rank[next[z]] \in T
    BY <2>4, <2>5
  <2>7. r <= rank[next[z]]
    BY <2>1, <2>6
  <2>8. rank[z] \in Nat /\ rank[next[z]] \in Nat
    BY <1>1, <2>4
  <2> QED BY <2>2, <2>4, <2>7, <2>8
<1> QED BY <1>4
=============================================================================
