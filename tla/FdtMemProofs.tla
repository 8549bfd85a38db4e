---------------------------- MODULE FdtMemProofs ----------------------------
(***************************************************************************)
(* The memory scan gives the allocator exactly the usable memory, for any  *)
(* device trees: any number of memory nodes and reserved regions, however  *)
(* the regions overlap.                                                    *)
(***************************************************************************)
EXTENDS FdtMem, FiniteSetTheorems, TLAPS

(***************************************************************************)
(* The inductive invariant.  The bytes of the nodes seen so far are with   *)
(* the allocator, in the running call, in a waiting piece, or forbidden.   *)
(***************************************************************************)
Running == pc \in {"call", "entries"}

Seen(n) == n < mem_node \/ (n = mem_node /\ (i > 0 \/ Running))

\* The running call has looked at the first entries, and its piece avoids them.
EntriesInv ==
  pc = "entries" =>
    /\ piece.size > 0
    /\ piece.start >= KernelEnd
    /\ entry <= Len(Excluded) + 1
    /\ \A k \in 1..(entry - 1) : Bytes(piece) \cap Bytes(Excluded[k]) = {}

\* All pieces come from the block of the current node.
PlaceInv ==
  /\ Running => /\ mem_node \in DOMAIN fdt.mem
                /\ fdt.mem[mem_node] # <<>>
                /\ Bytes(piece) \subseteq NodeBytes(fdt, mem_node)
  /\ ~Running => pending = <<>>
  /\ \A k \in DOMAIN pending : Bytes(pending[k].piece) \subseteq NodeBytes(fdt, mem_node)
  /\ pc = "done" => mem_node > Len(fdt.mem)

\* Nothing usable is lost.
CoverInv ==
  \A n \in DOMAIN fdt.mem : Seen(n) =>
    \A b \in NodeBytes(fdt, n) \ Forbidden(fdt) :
      \/ b \in given
      \/ Running /\ b \in Bytes(piece)
      \/ \E k \in DOMAIN pending : b \in Bytes(pending[k].piece)

\* Nothing else is given.
GivenInv ==
  \A b \in given : b \notin Forbidden(fdt) /\ \E n \in DOMAIN fdt.mem : Seen(n) /\ b \in NodeBytes(fdt, n)

\* What is given, running and waiting is disjoint.
DisjointInv ==
  /\ Running => Bytes(piece) \cap given = {}
  /\ \A k \in DOMAIN pending :
       /\ Bytes(pending[k].piece) \cap given = {}
       /\ Running => Bytes(pending[k].piece) \cap Bytes(piece) = {}
       /\ \A l \in DOMAIN pending :
            k # l => Bytes(pending[k].piece) \cap Bytes(pending[l].piece) = {}

CoreInv == TypeOK /\ EntriesInv /\ PlaceInv /\ CoverInv /\ GivenInv

\* Every memory node has at most one register block, and no two overlap.
SimpleLayout ==
  \A f \in Fdts :
    /\ \A n \in DOMAIN f.mem : Len(f.mem[n]) <= 1
    /\ \A m, n \in DOMAIN f.mem : m # n => NodeBytes(f, m) \cap NodeBytes(f, n) = {}

-----------------------------------------------------------------------------
(***************************************************************************)
(* trim_or_split_around_reserved.                                          *)
(***************************************************************************)
GoodTrim(p, r, left) ==
  /\ Len(left) \in 0..2
  /\ \A k \in 1..Len(left) :
       /\ left[k] \in Region
       /\ left[k].size > 0
       /\ left[k].start >= p.start
       /\ Bytes(left[k]) \subseteq Bytes(p)
       /\ Bytes(left[k]) \cap Bytes(r) = {}
  /\ \A b \in Bytes(p) \ Bytes(r) : \E k \in 1..Len(left) : b \in Bytes(left[k])
  /\ Len(left) = 2 => Bytes(left[1]) \cap Bytes(left[2]) = {}

\* The pieces that are left are not empty, keep the bytes outside the reserved
\* region, and are disjoint from it and from each other.
LEMMA TrimLemma ==
  ASSUME NEW p \in Region, NEW r \in Region, p.size > 0
  PROVE  GoodTrim(p, r, trim_or_split_around_reserved(p, r))
<1> DEFINE end == p.start + p.size
           resv_end == r.start + r.size
           left == trim_or_split_around_reserved(p, r)
           low == [start |-> p.start, size |-> r.start - p.start]
           high == [start |-> resv_end, size |-> end - resv_end]
<1> SUFFICES GoodTrim(p, r, left)
  OBVIOUS
<1>1. p.start \in Nat /\ p.size \in Nat /\ r.start \in Nat /\ r.size \in Nat
  BY DEF Region
<1>2. CASE resv_end <= p.start \/ r.start > end
  <2>1. left = <<p>>
    BY <1>2 DEF trim_or_split_around_reserved
  <2>2. Bytes(p) \cap Bytes(r) = {}
    BY <1>1, <1>2 DEF Bytes
  <2>3. Len(left) = 1 /\ left[1] = p
    BY <2>1
  <2> HIDE DEF left
  <2> QED
    BY <1>1, <2>2, <2>3 DEF GoodTrim
<1>3. CASE ~(resv_end <= p.start \/ r.start > end) /\ r.start <= p.start /\ resv_end >= end
  <2>1. left = <<>>
    BY <1>3 DEF trim_or_split_around_reserved
  <2>2. Bytes(p) \subseteq Bytes(r)
    BY <1>1, <1>3 DEF Bytes
  <2>3. Len(left) = 0
    BY <2>1
  <2> HIDE DEF left
  <2> QED
    BY <2>2, <2>3 DEF GoodTrim
<1>4. CASE ~(resv_end <= p.start \/ r.start > end) /\ r.start <= p.start /\ ~(resv_end >= end)
  <2>1. left = <<high>>
    BY <1>4 DEF trim_or_split_around_reserved
  <2>2. /\ high \in Region /\ high.size > 0 /\ high.start >= p.start
        /\ Bytes(high) \subseteq Bytes(p) /\ Bytes(high) \cap Bytes(r) = {}
        /\ \A b \in Bytes(p) \ Bytes(r) : b \in Bytes(high)
    BY <1>1, <1>4 DEF Bytes, Region
  <2>3. Len(left) = 1 /\ left[1] = high
    BY <2>1
  <2> HIDE DEF left, high
  <2> QED
    BY <2>2, <2>3 DEF GoodTrim
<1>5. CASE ~(resv_end <= p.start \/ r.start > end) /\ ~(r.start <= p.start) /\ resv_end < end
  <2>1. left = <<low, high>>
    BY <1>5 DEF trim_or_split_around_reserved
  <2>2. /\ high \in Region /\ high.size > 0 /\ high.start >= p.start
        /\ Bytes(high) \subseteq Bytes(p) /\ Bytes(high) \cap Bytes(r) = {}
    BY <1>1, <1>5 DEF Bytes, Region
  <2>3. /\ low \in Region /\ low.size > 0 /\ low.start >= p.start
        /\ Bytes(low) \subseteq Bytes(p) /\ Bytes(low) \cap Bytes(r) = {}
    BY <1>1, <1>5 DEF Bytes, Region
  <2>4. /\ Bytes(low) \cap Bytes(high) = {}
        /\ \A b \in Bytes(p) \ Bytes(r) : b \in Bytes(low) \/ b \in Bytes(high)
    BY <1>1, <1>5 DEF Bytes
  <2>5. Len(left) = 2 /\ left[1] = low /\ left[2] = high
    BY <2>1
  <2> HIDE DEF left, low, high
  <2>6. \A k \in 1..Len(left) : k = 1 \/ k = 2
    BY <2>5
  <2> QED
    BY <2>2, <2>3, <2>4, <2>5, <2>6 DEF GoodTrim
<1>6. CASE ~(resv_end <= p.start \/ r.start > end) /\ ~(r.start <= p.start) /\ ~(resv_end < end)
  <2>1. left = <<low>>
    BY <1>6 DEF trim_or_split_around_reserved
  <2>2. /\ low \in Region /\ low.size > 0 /\ low.start >= p.start
        /\ Bytes(low) \subseteq Bytes(p) /\ Bytes(low) \cap Bytes(r) = {}
        /\ \A b \in Bytes(p) \ Bytes(r) : b \in Bytes(low)
    BY <1>1, <1>6 DEF Bytes, Region
  <2>3. Len(left) = 1 /\ left[1] = low
    BY <2>1
  <2> HIDE DEF left, low
  <2> QED
    BY <2>2, <2>3 DEF GoodTrim
<1> QED
  BY <1>1, <1>2, <1>3, <1>4, <1>5, <1>6

-----------------------------------------------------------------------------
(***************************************************************************)
(* The stack of waiting pieces.                                            *)
(***************************************************************************)
Waiting == [piece: Region, depth: Nat]

\* Taking the first waiting piece leaves the others, one place further down.
LEMMA PopLemma ==
  ASSUME NEW s \in Seq(Waiting), s # <<>>
  PROVE  /\ Head(s) = s[1] /\ s[1] \in Waiting /\ 1 \in DOMAIN s
         /\ Tail(s) \in Seq(Waiting)
         /\ \A k \in DOMAIN Tail(s) : k + 1 \in DOMAIN s /\ k + 1 # 1 /\ Tail(s)[k] = s[k + 1]
         /\ \A k \in DOMAIN s : k = 1 \/ (k - 1 \in DOMAIN Tail(s) /\ Tail(s)[k - 1] = s[k])
OBVIOUS

\* Adding a piece moves the others one place up.
LEMMA PushLemma ==
  ASSUME NEW s \in Seq(Waiting), NEW x \in Waiting
  PROVE  LET t == <<x>> \o s
         IN /\ t \in Seq(Waiting)
            /\ t[1] = x /\ 1 \in DOMAIN t
            /\ \A k \in DOMAIN t : k = 1 \/ (k - 1 \in DOMAIN s /\ t[k] = s[k - 1])
            /\ \A k \in DOMAIN s : k + 1 \in DOMAIN t /\ t[k + 1] = s[k] /\ k + 1 # 1
OBVIOUS

-----------------------------------------------------------------------------
(***************************************************************************)
(* Returning from a call.                                                  *)
(***************************************************************************)
\* A call may return when every usable byte of its piece has been given.
LEMMA ReturnPreserves ==
  ASSUME CoreInv, Running, Return,
         UNCHANGED <<fdt, mem_node, total_mem_seen, entry>>,
         total_mem_freed' \in Nat, accepted' \subseteq Nat, given' \subseteq Nat,
         \A b \in Bytes(piece) : b \in Forbidden(fdt) \/ b \in given',
         given \subseteq given',
         \A b \in given' : b \in given \/ (b \in Bytes(piece) /\ b \notin Forbidden(fdt))
  PROVE  CoreInv'
<1> USE DEF CoreInv
<1>1. pending \in Seq(Waiting) /\ i \in Nat
  BY DEF TypeOK, Waiting
<1>2. /\ mem_node \in DOMAIN fdt.mem /\ fdt.mem[mem_node] # <<>>
      /\ Bytes(piece) \subseteq NodeBytes(fdt, mem_node)
  BY DEF PlaceInv
<1>3. fdt' = fdt /\ mem_node' = mem_node /\ entry' = entry
  OBVIOUS
<1>4. CASE pending = <<>>
  <2>1. /\ pc' = "node" /\ i' = i + 1 /\ piece' = piece /\ depth' = depth
        /\ pending' = pending
    BY <1>4 DEF Return
  <2>2. TypeOK'
    BY <1>1, <1>3, <2>1 DEF TypeOK
  <2>3. EntriesInv' /\ PlaceInv'
    BY <1>4, <2>1 DEF EntriesInv, PlaceInv, Running
  <2>4. \A n \in DOMAIN fdt.mem : Seen(n)' <=> Seen(n)
    BY <1>1, <1>3, <2>1 DEF Seen, Running
  <2>5. CoverInv'
    <3> SUFFICES ASSUME NEW n \in DOMAIN fdt.mem, Seen(n)',
                        NEW b \in NodeBytes(fdt, n) \ Forbidden(fdt)
                 PROVE  b \in given'
      BY <1>3 DEF CoverInv
    <3>1. b \in given \/ b \in Bytes(piece) \/ \E k \in DOMAIN pending : b \in Bytes(pending[k].piece)
      BY <2>4 DEF CoverInv
    <3>2. DOMAIN pending = {}
      BY <1>4
    <3> QED
      BY <3>1, <3>2
  <2>6. GivenInv'
    <3> SUFFICES ASSUME NEW b \in given'
                 PROVE  /\ b \notin Forbidden(fdt)
                        /\ \E n \in DOMAIN fdt.mem : Seen(n)' /\ b \in NodeBytes(fdt, n)
      BY <1>3 DEF GivenInv
    <3>1. CASE b \in given
      BY <2>4, <3>1 DEF GivenInv
    <3>2. CASE b \in Bytes(piece) /\ b \notin Forbidden(fdt)
      BY <1>2, <2>4, <3>2 DEF Seen
    <3> QED
      BY <3>1, <3>2
  <2> QED
    BY <2>2, <2>3, <2>5, <2>6
<1>5. CASE pending # <<>>
  <2>1. /\ pc' = "call" /\ i' = i /\ piece' = Head(pending).piece
        /\ depth' = Head(pending).depth /\ pending' = Tail(pending)
    BY <1>5 DEF Return
  <2>2. /\ Head(pending) = pending[1] /\ pending[1] \in Waiting /\ 1 \in DOMAIN pending
        /\ Tail(pending) \in Seq(Waiting)
        /\ \A k \in DOMAIN pending' : k + 1 \in DOMAIN pending /\ pending'[k] = pending[k + 1]
        /\ \A k \in DOMAIN pending :
             k = 1 \/ (k - 1 \in DOMAIN pending' /\ pending'[k - 1] = pending[k])
    BY <1>1, <1>5, <2>1, PopLemma
  <2>3. TypeOK'
    BY <1>1, <1>3, <2>1, <2>2 DEF TypeOK, Waiting
  <2>4. EntriesInv' /\ PlaceInv'
    BY <1>2, <1>3, <2>1, <2>2 DEF EntriesInv, PlaceInv, Running
  <2>5. \A n \in DOMAIN fdt.mem : Seen(n)' <=> Seen(n)
    BY <1>1, <1>3, <2>1 DEF Seen, Running
  <2>6. CoverInv'
    <3> SUFFICES ASSUME NEW n \in DOMAIN fdt.mem, Seen(n)',
                        NEW b \in NodeBytes(fdt, n) \ Forbidden(fdt)
                 PROVE  \/ b \in given'
                        \/ b \in Bytes(piece')
                        \/ \E k \in DOMAIN pending' : b \in Bytes(pending'[k].piece)
      BY <1>3, <2>1 DEF CoverInv, Running
    <3>1. b \in given \/ b \in Bytes(piece) \/ \E k \in DOMAIN pending : b \in Bytes(pending[k].piece)
      BY <2>5 DEF CoverInv
    <3>2. ASSUME NEW k \in DOMAIN pending, b \in Bytes(pending[k].piece)
          PROVE  \/ b \in Bytes(piece')
                 \/ \E l \in DOMAIN pending' : b \in Bytes(pending'[l].piece)
      <4>1. CASE k = 1
        BY <2>1, <2>2, <3>2, <4>1
      <4>2. CASE k - 1 \in DOMAIN pending' /\ pending'[k - 1] = pending[k]
        BY <3>2, <4>2
      <4> QED
        BY <2>2, <4>1, <4>2
    <3> QED
      BY <3>1, <3>2
  <2>7. GivenInv'
    <3> SUFFICES ASSUME NEW b \in given'
                 PROVE  /\ b \notin Forbidden(fdt)
                        /\ \E n \in DOMAIN fdt.mem : Seen(n)' /\ b \in NodeBytes(fdt, n)
      BY <1>3 DEF GivenInv
    <3>1. CASE b \in given
      BY <2>5, <3>1 DEF GivenInv
    <3>2. CASE b \in Bytes(piece) /\ b \notin Forbidden(fdt)
      BY <1>2, <2>5, <3>2 DEF Seen
    <3> QED
      BY <3>1, <3>2
  <2> QED
    BY <2>3, <2>4, <2>6, <2>7
<1> QED
  BY <1>4, <1>5

\* Pieces stay disjoint when a call returns.
LEMMA ReturnDisjoint ==
  ASSUME TypeOK, DisjointInv, Running, Return,
         \A b \in given' : b \in given \/ b \in Bytes(piece)
  PROVE  DisjointInv'
<1>1. pending \in Seq(Waiting)
  BY DEF TypeOK, Waiting
<1>2. CASE pending = <<>>
  <2>1. pc' = "node" /\ pending' = <<>>
    BY <1>2 DEF Return
  <2> QED
    BY <2>1 DEF DisjointInv, Running
<1>3. CASE pending # <<>>
  <2>1. pc' = "call" /\ piece' = pending[1].piece /\ pending' = Tail(pending)
    BY <1>1, <1>3, PopLemma DEF Return
  <2>2. /\ 1 \in DOMAIN pending
        /\ \A k \in DOMAIN pending' :
             k \in Int /\ k + 1 \in DOMAIN pending /\ k + 1 # 1 /\ pending'[k] = pending[k + 1]
    BY <1>1, <1>3, <2>1, PopLemma
  <2>3. \A k \in DOMAIN pending : Bytes(pending[k].piece) \cap given' = {}
    BY DEF DisjointInv
  <2>4. Bytes(piece') \cap given' = {}
    BY <2>1, <2>2, <2>3
  <2>5. \A k \in DOMAIN pending' :
          /\ Bytes(pending'[k].piece) \cap given' = {}
          /\ Bytes(pending'[k].piece) \cap Bytes(piece') = {}
    BY <2>1, <2>2, <2>3 DEF DisjointInv
  <2>6. \A k, l \in DOMAIN pending' :
          k # l => Bytes(pending'[k].piece) \cap Bytes(pending'[l].piece) = {}
    <3> SUFFICES ASSUME NEW k \in DOMAIN pending', NEW l \in DOMAIN pending', k # l
                 PROVE  Bytes(pending'[k].piece) \cap Bytes(pending'[l].piece) = {}
      OBVIOUS
    <3>1. k + 1 # l + 1
      BY <2>2
    <3> QED
      BY <2>2, <3>1 DEF DisjointInv
  <2> QED
    BY <2>4, <2>5, <2>6 DEF DisjointInv
<1> QED
  BY <1>2, <1>3

-----------------------------------------------------------------------------
(***************************************************************************)
(* One lemma per action.                                                   *)
(***************************************************************************)
\* The device tree is well formed.
LEMMA FdtType ==
  ASSUME TypeOK
  PROVE  /\ fdt.resv \in Seq(Region) /\ fdt.blob \in Region
         /\ fdt.mem \in Seq(Seq(Region))
         /\ Excluded \in Seq(Region) /\ Len(Excluded) = Len(fdt.resv) + 1
         /\ KernelEnd \in Nat
<1>1. fdt \in Fdt
  BY FdtAssumption DEF TypeOK
<1> QED
  BY <1>1, FdtAssumption DEF Fdt, Excluded

\* The loop over the entries and the blob meets every forbidden region.
LEMMA ForbiddenLemma ==
  ASSUME TypeOK
  PROVE  \A b : b \in Forbidden(fdt) <=>
               \/ b \in 0..(KernelEnd - 1)
               \/ \E k \in 1..Len(Excluded) : b \in Bytes(Excluded[k])
<1>1. /\ DOMAIN fdt.resv = 1..Len(fdt.resv) /\ Len(fdt.resv) \in Nat
      /\ Len(Excluded) = Len(fdt.resv) + 1
      /\ Excluded[Len(Excluded)] = fdt.blob
      /\ \A k \in 1..Len(fdt.resv) : Excluded[k] = fdt.resv[k]
  BY FdtType DEF Excluded
<1>2. \A k \in 1..Len(Excluded) : k = Len(Excluded) \/ k \in 1..Len(fdt.resv)
  BY <1>1
<1>3. /\ Len(Excluded) \in 1..Len(Excluded)
      /\ \A k \in 1..Len(fdt.resv) : k \in 1..Len(Excluded)
  BY <1>1
<1>4. \A b : b \in Forbidden(fdt) <=>
            \/ b \in 0..(KernelEnd - 1)
            \/ b \in Bytes(fdt.blob)
            \/ \E k \in 1..Len(fdt.resv) : b \in Bytes(fdt.resv[k])
  BY <1>1 DEF Forbidden
<1> QED
  BY <1>1, <1>2, <1>3, <1>4

\* The fetch of a register block preserves the invariant.
LEMMA NextBlockPreserves ==
  ASSUME CoreInv, NextBlock
  PROVE  CoreInv'
<1> USE DEF CoreInv
<1>1. /\ pc = "node" /\ pc' = "call" /\ fdt' = fdt /\ mem_node' = mem_node /\ i' = i
      /\ entry' = entry /\ pending' = pending /\ given' = given /\ accepted' = accepted
      /\ total_mem_freed' = total_mem_freed /\ depth' = 1
      /\ piece' = fdt.mem[mem_node][1]
      /\ total_mem_seen' = total_mem_seen + piece'.size
      /\ i < Len(fdt.mem[mem_node]) /\ mem_node <= Len(fdt.mem)
  BY DEF NextBlock, results
<1>2. /\ mem_node \in DOMAIN fdt.mem
      /\ fdt.mem[mem_node] \in Seq(Region) /\ i \in Nat
  BY <1>1, FdtType DEF TypeOK
<1>3. Len(fdt.mem[mem_node]) >= 1 /\ fdt.mem[mem_node] # <<>> /\ fdt.mem[mem_node][1] \in Region
  BY <1>1, <1>2
<1>4. NodeBytes(fdt, mem_node) = Bytes(piece') /\ piece' \in Region
  BY <1>1, <1>3 DEF NodeBytes
<1>5. TypeOK'
  <2>1. piece'.size \in Nat /\ total_mem_seen \in Nat
    BY <1>4 DEF Region, TypeOK
  <2>2. total_mem_seen' \in Nat
    BY <1>1, <2>1
  <2>3. mem_node' \in 1..(Len(fdt'.mem) + 1) /\ pending' \in Seq([piece: Region, depth: Nat])
    BY <1>1 DEF TypeOK
  <2> QED
    BY <1>1, <1>4, <2>2, <2>3 DEF TypeOK
<1>6. EntriesInv'
  BY <1>1 DEF EntriesInv
<1>7. PlaceInv'
  BY <1>1, <1>2, <1>3, <1>4 DEF PlaceInv, Running
<1>8. \A n \in DOMAIN fdt.mem : Seen(n)' <=> Seen(n) \/ n = mem_node
  BY <1>1 DEF Seen, Running
<1>9. DOMAIN pending = {}
  BY <1>1 DEF PlaceInv, Running
<1>10. CoverInv'
  BY <1>1, <1>4, <1>8, <1>9 DEF CoverInv, Running
<1>11. GivenInv'
  BY <1>1, <1>8 DEF GivenInv
<1> QED
  BY <1>5, <1>6, <1>7, <1>10, <1>11

\* Going to the next node preserves the invariant.
LEMMA NextNodePreserves ==
  ASSUME CoreInv, NextNode
  PROVE  CoreInv'
<1> USE DEF CoreInv
<1>1. /\ pc = "node" /\ pc' = "node" /\ fdt' = fdt /\ mem_node' = mem_node + 1 /\ i' = 0
      /\ UNCHANGED <<piece, entry, depth, pending, given, accepted>>
      /\ UNCHANGED <<total_mem_seen, total_mem_freed>>
      /\ i >= Len(fdt.mem[mem_node]) /\ mem_node <= Len(fdt.mem)
  BY DEF NextNode, results, call
<1>2. /\ mem_node \in DOMAIN fdt.mem /\ mem_node \in Nat
      /\ fdt.mem[mem_node] \in Seq(Region) /\ i \in Nat
      /\ fdt.mem \in Seq(Seq(Region))
  BY <1>1, FdtType DEF TypeOK
<1>3. TypeOK'
  BY <1>1, <1>2 DEF TypeOK
<1>4. pending = <<>> /\ DOMAIN pending = {}
  BY <1>1 DEF PlaceInv, Running
<1>5. EntriesInv' /\ PlaceInv'
  BY <1>1, <1>4 DEF EntriesInv, PlaceInv, Running
<1>6. fdt.mem[mem_node] = <<>> \/ i > 0
  BY <1>1, <1>2
<1>7. \A n \in DOMAIN fdt.mem : Seen(n)' => Seen(n) \/ NodeBytes(fdt, n) = {}
  BY <1>1, <1>2, <1>6 DEF Seen, Running, NodeBytes
<1>8. \A n \in DOMAIN fdt.mem : Seen(n) => Seen(n)'
  BY <1>1, <1>2 DEF Seen, Running
<1>9. CoverInv'
  BY <1>1, <1>4, <1>7 DEF CoverInv, Running
<1>10. GivenInv'
  BY <1>1, <1>8 DEF GivenInv
<1> QED
  BY <1>3, <1>5, <1>9, <1>10

\* Entering the loop preserves the invariant: only kernel bytes are dropped.
LEMMA StartPiecePreserves ==
  ASSUME CoreInv, StartPiece
  PROVE  CoreInv' /\ Bytes(piece') \subseteq Bytes(piece)
<1> USE DEF CoreInv
<1>1. /\ pc = "call" /\ pc' = "entries" /\ entry' = 1 /\ piece' = AboveKernel(piece)
      /\ UNCHANGED <<fdt, mem_node, i, depth, pending, given, accepted>>
      /\ UNCHANGED <<total_mem_seen, total_mem_freed>>
      /\ piece.size # 0 /\ ~(piece.start + piece.size <= KernelEnd)
  BY DEF StartPiece, loops, results, Nothing
<1>2. piece.start \in Nat /\ piece.size \in Nat /\ KernelEnd \in Nat /\ piece \in Region
  BY FdtType DEF TypeOK, Region
<1>3. /\ piece' \in Region /\ piece'.size > 0 /\ piece'.start >= KernelEnd
      /\ Bytes(piece') \subseteq Bytes(piece)
      /\ \A b \in Bytes(piece) : b \in Bytes(piece') \/ b \in 0..(KernelEnd - 1)
  <2>1. CASE piece.start < KernelEnd
    <3>1. piece' = [start |-> KernelEnd, size |-> piece.start + piece.size - KernelEnd]
      BY <1>1, <2>1 DEF AboveKernel
    <3>2. piece'.start = KernelEnd /\ piece'.size = piece.start + piece.size - KernelEnd
      BY <3>1
    <3>3. piece' \in Region
      BY <1>1, <1>2, <2>1, <3>1 DEF Region
    <3> QED
      BY <1>1, <1>2, <2>1, <3>2, <3>3 DEF Bytes
  <2>2. CASE ~(piece.start < KernelEnd)
    <3>1. piece' = piece
      BY <1>1, <2>2 DEF AboveKernel
    <3> QED
      BY <1>1, <1>2, <2>2, <3>1
  <2> QED
    BY <2>1, <2>2
<1>4. TypeOK'
  BY <1>1, <1>3 DEF TypeOK
<1>5. EntriesInv'
  <2>1. Len(Excluded) \in Nat /\ Excluded' = Excluded
    BY <1>1, FdtType DEF Excluded
  <2> QED
    BY <1>1, <1>3, <2>1 DEF EntriesInv
<1>6. PlaceInv'
  BY <1>1, <1>3 DEF PlaceInv, Running
<1>7. \A n \in DOMAIN fdt.mem : Seen(n)' <=> Seen(n)
  BY <1>1 DEF Seen, Running
<1>8. CoverInv'
  <2>1. \A b \in Bytes(piece) : b \in Bytes(piece') \/ b \in Forbidden(fdt)
    BY <1>3, ForbiddenLemma
  <2> QED
    BY <1>1, <1>7, <2>1 DEF CoverInv, Running
<1>9. GivenInv'
  BY <1>1, <1>7 DEF GivenInv
<1> QED
  BY <1>3, <1>4, <1>5, <1>6, <1>8, <1>9
\* The entry that the loop looks at, and what it leaves of the piece.
LEMMA EntryLemma ==
  ASSUME CoreInv, pc = "entries", entry <= Len(Excluded)
  PROVE  /\ entry \in 1..Len(Excluded)
         /\ GoodTrim(piece, Excluded[entry], Left)
         /\ \A b \in Bytes(Excluded[entry]) : b \in Forbidden(fdt)
<1>1. entry \in 1..Len(Excluded) /\ Excluded[entry] \in Region
  BY FdtType DEF CoreInv, TypeOK
<1>2. piece \in Region /\ piece.size > 0
  BY DEF CoreInv, TypeOK, EntriesInv
<1> QED
  BY <1>1, <1>2, TrimLemma, ForbiddenLemma DEF Left, CoreInv

\* Trimming preserves the invariant: only reserved bytes are dropped.
LEMMA TrimPreserves ==
  ASSUME CoreInv, Trim
  PROVE  CoreInv' /\ Bytes(piece') \subseteq Bytes(piece)
<1> USE DEF CoreInv
<1>1. /\ pc = "entries" /\ entry <= Len(Excluded) /\ Len(Left) = 1
      /\ piece' = Left[1] /\ entry' = entry + 1 /\ pc' = pc
      /\ UNCHANGED <<fdt, mem_node, i, depth, pending, given, accepted>>
      /\ UNCHANGED <<total_mem_seen, total_mem_freed>>
  BY DEF Trim, loops, results
<1>2. /\ entry \in 1..Len(Excluded)
      /\ GoodTrim(piece, Excluded[entry], Left)
      /\ \A b \in Bytes(Excluded[entry]) : b \in Forbidden(fdt)
  BY <1>1, EntryLemma
<1>3. /\ piece' \in Region /\ piece'.size > 0 /\ piece'.start >= piece.start
      /\ Bytes(piece') \subseteq Bytes(piece)
      /\ Bytes(piece') \cap Bytes(Excluded[entry]) = {}
      /\ \A b \in Bytes(piece) : b \in Bytes(Excluded[entry]) \/ b \in Bytes(piece')
  <2>1. 1 \in 1..Len(Left) /\ \A k \in 1..Len(Left) : k = 1
    BY <1>1
  <2> QED
    BY <1>1, <1>2, <2>1 DEF GoodTrim
<1>4. TypeOK'
  <2>1. entry' \in Nat \ {0}
    BY <1>1 DEF TypeOK
  <2> QED
    BY <1>1, <1>3, <2>1 DEF TypeOK
<1>5. EntriesInv'
  <2>1. Excluded' = Excluded /\ Len(Excluded) \in Nat
    BY <1>1, FdtType DEF Excluded
  <2>2. \A k \in 1..(entry' - 1) : k = entry \/ k \in 1..(entry - 1)
    BY <1>1, <1>2, <2>1
  <2>3. \A k \in 1..(entry' - 1) : Bytes(piece') \cap Bytes(Excluded[k]) = {}
    BY <1>1, <1>3, <2>2 DEF EntriesInv
  <2>4. piece.start \in Nat /\ piece'.start \in Nat /\ KernelEnd \in Nat
    BY <1>3, FdtType DEF TypeOK, Region
  <2>5. piece'.start >= KernelEnd
    BY <1>1, <1>3, <2>4 DEF EntriesInv
  <2>6. entry' <= Len(Excluded) + 1
    BY <1>1, <1>2, <2>1
  <2> QED
    BY <1>3, <2>1, <2>3, <2>5, <2>6 DEF EntriesInv
<1>6. PlaceInv'
  BY <1>1, <1>3 DEF PlaceInv, Running
<1>7. \A n \in DOMAIN fdt.mem : Seen(n)' <=> Seen(n)
  BY <1>1 DEF Seen, Running
<1>8. CoverInv'
  <2>1. \A b \in Bytes(piece) : b \in Bytes(piece') \/ b \in Forbidden(fdt)
    BY <1>2, <1>3
  <2> QED
    BY <1>1, <1>7, <2>1 DEF CoverInv, Running
<1>9. GivenInv'
  BY <1>1, <1>7 DEF GivenInv
<1> QED
  BY <1>3, <1>4, <1>5, <1>6, <1>8, <1>9

\* What Split does to the pieces: the two halves replace the piece.
SplitInto(first, second) ==
  /\ pc = "entries" /\ pc' = "call"
  /\ first \in Region /\ second \in Region
  /\ piece' = first
  /\ pending' = <<[piece |-> second, depth |-> depth + 1]>> \o pending
  /\ depth' = depth + 1
  /\ Bytes(first) \subseteq Bytes(piece)
  /\ Bytes(second) \subseteq Bytes(piece)
  /\ Bytes(first) \cap Bytes(second) = {}
  /\ \A b \in Bytes(piece) : b \in Bytes(first) \/ b \in Bytes(second) \/ b \in Forbidden(fdt)
  /\ UNCHANGED <<fdt, mem_node, i, entry, given, accepted, total_mem_seen, total_mem_freed>>

\* Either order of the two calls of a split.
LEMMA SplitLemma ==
  ASSUME CoreInv, NEW f \in {1, 2}, NEW g \in {1, 2}, f # g, Split(f, g)
  PROVE  SplitInto(Left[f], Left[g])
<1>1. /\ pc = "entries" /\ entry <= Len(Excluded) /\ Len(Left) = 2
      /\ piece' = Left[f] /\ pc' = "call" /\ depth' = depth + 1
      /\ pending' = <<[piece |-> Left[g], depth |-> depth + 1]>> \o pending
      /\ UNCHANGED <<fdt, mem_node, i, entry, given, accepted>>
      /\ UNCHANGED <<total_mem_seen, total_mem_freed>>
  BY DEF Split, loops, results
<1>2. /\ GoodTrim(piece, Excluded[entry], Left)
      /\ \A b \in Bytes(Excluded[entry]) : b \in Forbidden(fdt)
  BY <1>1, EntryLemma
<1>3. f \in 1..Len(Left) /\ g \in 1..Len(Left) /\ \A k \in 1..Len(Left) : k = f \/ k = g
  BY <1>1
<1> QED
  BY <1>1, <1>2, <1>3 DEF SplitInto, GoodTrim

\* Splitting preserves the invariant: only reserved bytes are dropped.
LEMMA SplitPreserves ==
  ASSUME CoreInv, NEW first, NEW second, SplitInto(first, second)
  PROVE  CoreInv'
<1> USE DEF CoreInv
<1> DEFINE x == [piece |-> second, depth |-> depth + 1]
<1>1. pending \in Seq(Waiting) /\ x \in Waiting /\ depth \in Nat /\ x.piece = second
  BY DEF TypeOK, Waiting, SplitInto
<1>2. /\ pending' = <<x>> \o pending /\ pending' \in Seq(Waiting)
      /\ pending'[1] = x /\ 1 \in DOMAIN pending'
      /\ \A k \in DOMAIN pending' : k = 1 \/ (k - 1 \in DOMAIN pending /\ pending'[k] = pending[k - 1])
      /\ \A k \in DOMAIN pending : k + 1 \in DOMAIN pending' /\ pending'[k + 1] = pending[k]
  <2>1. pending' = <<x>> \o pending
    BY DEF SplitInto
  <2> HIDE DEF x
  <2> QED
    BY <1>1, <2>1, PushLemma
<1> HIDE DEF x
<1>3. /\ fdt' = fdt /\ mem_node' = mem_node /\ i' = i /\ entry' = entry /\ given' = given
      /\ accepted' = accepted /\ total_mem_seen' = total_mem_seen
      /\ total_mem_freed' = total_mem_freed /\ pc' = "call" /\ piece' = first
      /\ depth' = depth + 1 /\ pc = "entries"
      /\ first \in Region
      /\ Bytes(first) \subseteq Bytes(piece) /\ Bytes(second) \subseteq Bytes(piece)
      /\ \A b \in Bytes(piece) : b \in Bytes(first) \/ b \in Bytes(second) \/ b \in Forbidden(fdt)
  BY DEF SplitInto
<1>4. TypeOK'
  BY <1>1, <1>2, <1>3 DEF TypeOK, Waiting
<1>5. EntriesInv'
  BY <1>3 DEF EntriesInv
<1>6. PlaceInv'
  BY <1>1, <1>2, <1>3 DEF PlaceInv, Running
<1>7. \A n \in DOMAIN fdt.mem : Seen(n)' <=> Seen(n)
  BY <1>3 DEF Seen, Running
<1>8. CoverInv'
  <2> SUFFICES ASSUME NEW n \in DOMAIN fdt.mem, Seen(n)',
                      NEW b \in NodeBytes(fdt, n) \ Forbidden(fdt)
               PROVE  \/ b \in given \/ b \in Bytes(first)
                      \/ \E k \in DOMAIN pending' : b \in Bytes(pending'[k].piece)
    BY <1>3 DEF CoverInv, Running
  <2>1. b \in given \/ b \in Bytes(piece) \/ \E k \in DOMAIN pending : b \in Bytes(pending[k].piece)
    BY <1>7 DEF CoverInv
  <2>2. CASE b \in Bytes(piece)
    <3>1. b \in Bytes(first) \/ b \in Bytes(second)
      BY <1>3, <2>2
    <3> QED
      BY <1>1, <1>2, <3>1
  <2>3. ASSUME NEW k \in DOMAIN pending, b \in Bytes(pending[k].piece)
        PROVE  \E l \in DOMAIN pending' : b \in Bytes(pending'[l].piece)
    BY <1>2, <2>3
  <2> QED
    BY <2>1, <2>2, <2>3
<1>9. GivenInv'
  BY <1>3, <1>7 DEF GivenInv
<1> QED
  BY <1>4, <1>5, <1>6, <1>8, <1>9

\* The two halves are disjoint from each other and from all other pieces.
LEMMA SplitDisjoint ==
  ASSUME TypeOK, DisjointInv, NEW first, NEW second, SplitInto(first, second)
  PROVE  DisjointInv'
<1> DEFINE x == [piece |-> second, depth |-> depth + 1]
<1>1. pending \in Seq(Waiting) /\ x \in Waiting /\ x.piece = second
  BY DEF TypeOK, Waiting, SplitInto
<1>2. /\ pending'[1] = x
      /\ \A k \in DOMAIN pending' :
           k \in Int /\ (k = 1 \/ (k - 1 \in DOMAIN pending /\ pending'[k] = pending[k - 1]))
  <2>1. pending' = <<x>> \o pending
    BY DEF SplitInto
  <2> HIDE DEF x
  <2> QED
    BY <1>1, <2>1, PushLemma
<1> HIDE DEF x
<1>3. /\ given' = given /\ pc' = "call" /\ pc = "entries" /\ piece' = first
      /\ Bytes(first) \subseteq Bytes(piece) /\ Bytes(second) \subseteq Bytes(piece)
      /\ Bytes(first) \cap Bytes(second) = {}
  BY DEF SplitInto
<1>4. /\ Bytes(piece) \cap given = {}
      /\ \A k \in DOMAIN pending : /\ Bytes(pending[k].piece) \cap given = {}
                                  /\ Bytes(pending[k].piece) \cap Bytes(piece) = {}
      /\ \A k, l \in DOMAIN pending :
           k # l => Bytes(pending[k].piece) \cap Bytes(pending[l].piece) = {}
  BY <1>3 DEF DisjointInv, Running
<1>5. Bytes(first) \cap given = {}
  BY <1>3, <1>4
<1>6. ASSUME NEW k \in DOMAIN pending'
      PROVE  /\ Bytes(pending'[k].piece) \cap given = {}
             /\ Bytes(pending'[k].piece) \cap Bytes(first) = {}
  <2>1. CASE k = 1
    BY <1>1, <1>2, <1>3, <1>4, <2>1
  <2>2. CASE k - 1 \in DOMAIN pending /\ pending'[k] = pending[k - 1]
    BY <1>3, <1>4, <2>2
  <2> QED
    BY <1>2, <1>6, <2>1, <2>2
<1>7. ASSUME NEW k \in DOMAIN pending', NEW l \in DOMAIN pending', k # l
      PROVE  Bytes(pending'[k].piece) \cap Bytes(pending'[l].piece) = {}
  <2>1. CASE k = 1
    <3>1. l - 1 \in DOMAIN pending /\ pending'[l] = pending[l - 1]
      BY <1>2, <1>7, <2>1
    <3> QED
      BY <1>1, <1>2, <1>3, <1>4, <2>1, <3>1
  <2>2. CASE l = 1
    <3>1. k - 1 \in DOMAIN pending /\ pending'[k] = pending[k - 1]
      BY <1>2, <1>7, <2>2
    <3> QED
      BY <1>1, <1>2, <1>3, <1>4, <2>2, <3>1
  <2>3. CASE k # 1 /\ l # 1
    <3>1. /\ k - 1 \in DOMAIN pending /\ pending'[k] = pending[k - 1]
          /\ l - 1 \in DOMAIN pending /\ pending'[l] = pending[l - 1]
      BY <1>2, <1>7, <2>3
    <3>2. k - 1 # l - 1
      BY <1>2, <1>7
    <3> QED
      BY <1>4, <3>1, <3>2
  <2> QED
    BY <2>1, <2>2, <2>3
<1> QED
  BY <1>3, <1>5, <1>6, <1>7 DEF DisjointInv
\* At the call of boot_free the piece has been compared with every forbidden
\* region and avoids them all.
LEMMA FreeIsClean ==
  ASSUME CoreInv, AtBootFree
  PROVE  piece.size > 0 /\ Bytes(piece) \cap Forbidden(fdt) = {}
<1>1. /\ piece.size > 0 /\ piece.start >= KernelEnd /\ entry > Len(Excluded)
      /\ \A k \in 1..(entry - 1) : Bytes(piece) \cap Bytes(Excluded[k]) = {}
  BY DEF CoreInv, EntriesInv, AtBootFree
<1>2. entry \in Nat /\ Len(Excluded) \in Nat /\ piece.start \in Nat /\ KernelEnd \in Nat
  BY FdtType DEF CoreInv, TypeOK, Region
<1>3. \A k \in 1..Len(Excluded) : Bytes(piece) \cap Bytes(Excluded[k]) = {}
  BY <1>1, <1>2
<1>4. \A b \in Bytes(piece) : b \notin 0..(KernelEnd - 1)
  BY <1>1, <1>2 DEF Bytes
<1> QED
  BY <1>1, <1>3, <1>4, ForbiddenLemma DEF CoreInv

\* Every step that returns from a call has given the usable bytes of its piece.
LEMMA ReturnStep ==
  ASSUME CoreInv, SkipPiece \/ Covered \/ \E ok \in BOOLEAN : HandOver(ok)
  PROVE  /\ Running /\ Return
         /\ UNCHANGED <<fdt, mem_node, total_mem_seen, entry>>
         /\ total_mem_freed' \in Nat /\ accepted' \subseteq Nat /\ given' \subseteq Nat
         /\ \A b \in Bytes(piece) : b \in Forbidden(fdt) \/ b \in given'
         /\ given \subseteq given'
         /\ \A b \in given' : b \in given \/ (b \in Bytes(piece) /\ b \notin Forbidden(fdt))
<1>1. /\ piece.start \in Nat /\ piece.size \in Nat /\ total_mem_freed \in Nat /\ KernelEnd \in Nat
      /\ accepted \subseteq Nat /\ given \subseteq Nat
  BY FdtType DEF CoreInv, TypeOK, Region
<1>2. CASE SkipPiece
  <2>1. \A b \in Bytes(piece) : b \in 0..(KernelEnd - 1)
    BY <1>1, <1>2 DEF SkipPiece, Nothing, Bytes
  <2>2. \A b \in Bytes(piece) : b \in Forbidden(fdt)
    BY <2>1, ForbiddenLemma DEF CoreInv
  <2> QED
    BY <1>1, <1>2, <2>2 DEF SkipPiece, Running, results
<1>3. CASE Covered
  <2>1. /\ GoodTrim(piece, Excluded[entry], Left) /\ Len(Left) = 0
        /\ \A b \in Bytes(Excluded[entry]) : b \in Forbidden(fdt)
    BY <1>3, EntryLemma DEF Covered
  <2>2. \A b \in Bytes(piece) : b \in Forbidden(fdt)
    BY <2>1 DEF GoodTrim
  <2> QED
    BY <1>1, <1>3, <2>2 DEF Covered, Running, results
<1>4. ASSUME NEW ok \in BOOLEAN, HandOver(ok)
      PROVE  /\ Running /\ Return
             /\ UNCHANGED <<fdt, mem_node, total_mem_seen, entry>>
             /\ total_mem_freed' \in Nat /\ accepted' \subseteq Nat
             /\ given' = given \cup Bytes(piece) /\ given' \subseteq Nat
             /\ Bytes(piece) \cap Forbidden(fdt) = {}
  <2>1. Bytes(piece) \subseteq Nat
    BY <1>1 DEF Bytes
  <2>2. AtBootFree /\ Bytes(piece) \cap Forbidden(fdt) = {}
    BY <1>4, FreeIsClean DEF HandOver
  <2>3. accepted' \subseteq Nat /\ total_mem_freed' \in Nat
    <3>1. CASE ok
      <4>1. accepted' = accepted \cup Bytes(piece) /\ total_mem_freed' = total_mem_freed + piece.size
        BY <1>4, <3>1 DEF HandOver
      <4>2. accepted' \subseteq Nat
        BY <1>1, <2>1, <4>1
      <4>3. total_mem_freed' \in Nat
        BY <1>1, <4>1
      <4> QED
        BY <4>2, <4>3
    <3>2. CASE ~ok
      <4>1. accepted' = accepted /\ total_mem_freed' = total_mem_freed
        BY <1>4, <3>2 DEF HandOver
      <4> QED
        BY <1>1, <4>1
    <3> QED
      BY <3>1, <3>2
  <2> QED
    BY <1>1, <1>4, <2>1, <2>2, <2>3 DEF HandOver, AtBootFree, Running
<1> QED
  BY <1>2, <1>3, <1>4

\* The scan starts in the core invariant: nothing is seen, given or pending.
LEMMA CoreInit == ScanInit => CoreInv
<1> SUFFICES ASSUME ScanInit PROVE CoreInv
  OBVIOUS
<1>1. fdt \in Fdt /\ fdt.mem \in Seq(Seq(Region)) /\ Len(fdt.mem) \in Nat
  BY FdtAssumption DEF ScanInit, Fdt
<1>2. TypeOK
  <2>1. piece \in Region
    BY DEF ScanInit, Region
  <2>2. mem_node \in 1..(Len(fdt.mem) + 1)
    BY <1>1 DEF ScanInit
  <2>3. pending \in Seq([piece: Region, depth: Nat])
    BY DEF ScanInit
  <2>4. /\ fdt \in Fdts /\ pc = "node" /\ i = 0 /\ total_mem_seen = 0 /\ total_mem_freed = 0
        /\ entry = 1 /\ depth = 0 /\ given = {} /\ accepted = {}
    BY DEF ScanInit
  <2> QED
    BY <2>1, <2>2, <2>3, <2>4 DEF TypeOK
<1>3. EntriesInv /\ PlaceInv /\ GivenInv
  BY DEF ScanInit, EntriesInv, PlaceInv, GivenInv, Running
<1>4. CoverInv
  BY <1>1 DEF ScanInit, CoverInv, Seen, Running
<1> QED
  BY <1>2, <1>3, <1>4 DEF CoreInv

\* Every step of the scan preserves the invariant.
LEMMA CoreNext ==
  ASSUME CoreInv, [Next]_scanVars
  PROVE  CoreInv'
<1>1. CASE UNCHANGED scanVars
  BY <1>1 DEF CoreInv, TypeOK, EntriesInv, PlaceInv, CoverInv, GivenInv, Running, Seen,
     Excluded, scanVars, loops, call, results
<1>2. CASE NextBlock
  BY <1>2, NextBlockPreserves
<1>3. CASE NextNode
  BY <1>3, NextNodePreserves
<1>4. CASE Finish
  BY <1>4 DEF Finish, CoreInv, TypeOK, EntriesInv, PlaceInv, CoverInv, GivenInv, Running,
     Seen, loops, call, results
<1>5. CASE StartPiece
  BY <1>5, StartPiecePreserves
<1>6. CASE Trim
  BY <1>6, TrimPreserves
<1>7. CASE Split(1, 2) \/ Split(2, 1)
  BY <1>7, SplitLemma, SplitPreserves
<1>8. CASE SkipPiece \/ Covered \/ \E ok \in BOOLEAN : HandOver(ok)
  BY <1>8, ReturnStep, ReturnPreserves
<1> QED
  BY <1>1, <1>2, <1>3, <1>4, <1>5, <1>6, <1>7, <1>8 DEF Next, ScanStep

\* Disjointness is preserved where nodes have one block each and do not overlap.
LEMMA DisjointNext ==
  ASSUME SimpleLayout, CoreInv, DisjointInv, [Next]_scanVars
  PROVE  DisjointInv'
<1> USE DEF CoreInv
<1>1. CASE UNCHANGED scanVars \/ NextNode \/ Finish
  BY <1>1 DEF DisjointInv, Running, NextNode, Finish, scanVars, call, results
<1>2. CASE NextBlock
  <2>1. /\ pc = "node" /\ fdt' = fdt /\ pending' = pending /\ given' = given
        /\ piece' = fdt.mem[mem_node][1] /\ i < Len(fdt.mem[mem_node])
        /\ mem_node <= Len(fdt.mem)
    BY <1>2 DEF NextBlock, results
  <2>2. /\ fdt \in Fdts /\ mem_node \in DOMAIN fdt.mem /\ i \in Nat
        /\ fdt.mem[mem_node] \in Seq(Region)
    BY <2>1, FdtType DEF TypeOK
  <2>3. i = 0 /\ fdt.mem[mem_node] # <<>>
    BY <2>1, <2>2 DEF SimpleLayout
  <2>4. NodeBytes(fdt, mem_node) = Bytes(piece')
    BY <2>1, <2>3 DEF NodeBytes
  <2>5. \A b \in given : \E n \in DOMAIN fdt.mem : n # mem_node /\ b \in NodeBytes(fdt, n)
    <3>1. \A n \in DOMAIN fdt.mem : Seen(n) => n # mem_node
      <4>1. \A n \in DOMAIN fdt.mem : n \in Int
        BY FdtType
      <4> QED
        BY <2>1, <2>2, <2>3, <4>1 DEF Seen, Running
    <3> QED
      BY <3>1 DEF GivenInv
  <2>6. Bytes(piece') \cap given = {}
    BY <2>2, <2>4, <2>5 DEF SimpleLayout
  <2>7. DOMAIN pending = {}
    BY <2>1 DEF PlaceInv, Running
  <2> QED
    BY <2>1, <2>6, <2>7 DEF DisjointInv
<1>3. CASE StartPiece
  <2>1. /\ Bytes(piece') \subseteq Bytes(piece) /\ pc = "call"
        /\ UNCHANGED <<pending, given>>
    BY <1>3, StartPiecePreserves DEF StartPiece, results
  <2> QED
    BY <2>1 DEF DisjointInv, Running
<1>4. CASE Trim
  <2>1. /\ Bytes(piece') \subseteq Bytes(piece) /\ pc = "entries"
        /\ UNCHANGED <<pending, given>>
    BY <1>4, TrimPreserves DEF Trim, results
  <2> QED
    BY <2>1 DEF DisjointInv, Running
<1>5. CASE Split(1, 2) \/ Split(2, 1)
  BY <1>5, SplitLemma, SplitDisjoint
<1>6. CASE SkipPiece \/ Covered \/ \E ok \in BOOLEAN : HandOver(ok)
  BY <1>6, ReturnStep, ReturnDisjoint
<1> QED
  BY <1>1, <1>2, <1>3, <1>4, <1>5, <1>6 DEF Next, ScanStep

-----------------------------------------------------------------------------
(***************************************************************************)
(* The theorems.                                                           *)
(***************************************************************************)
\* Every reachable state of the scan satisfies the core invariant.
THEOREM ScanInvariance == Spec => []CoreInv
<1>1. ScanInit => CoreInv
  BY CoreInit
<1>2. CoreInv /\ [Next]_scanVars => CoreInv'
  BY CoreNext
<1> QED
  BY <1>1, <1>2, PTL DEF Spec

\* The variables of the scan keep their types.
THEOREM ScanTypes == Spec => []TypeOK
<1>1. CoreInv => TypeOK
  BY DEF CoreInv
<1> QED
  BY <1>1, ScanInvariance, PTL

\* boot_free is never called for a reserved byte, the kernel or the blob.
THEOREM ScanNeverReserved == Spec => []NeverReserved
<1>1. CoreInv => NeverReserved
  BY FreeIsClean DEF NeverReserved
<1> QED
  BY <1>1, ScanInvariance, PTL

\* At the end of the scan nothing is left to be given.
LEMMA EndIsComplete ==
  ASSUME CoreInv
  PROVE  Complete
<1> SUFFICES ASSUME pc = "done"
             PROVE  given = (UNION {NodeBytes(fdt, n) : n \in DOMAIN fdt.mem}) \ Forbidden(fdt)
  BY DEF Complete, Usable
<1>1. pending = <<>> /\ mem_node > Len(fdt.mem) /\ ~Running
  BY DEF CoreInv, PlaceInv, Running
<1>2. \A n \in DOMAIN fdt.mem : Seen(n)
  <2>1. /\ DOMAIN fdt.mem = 1..Len(fdt.mem) /\ Len(fdt.mem) \in Nat /\ mem_node \in Nat
    BY FdtType DEF CoreInv, TypeOK
  <2> QED
    BY <1>1, <2>1 DEF Seen
<1>3. DOMAIN pending = {}
  BY <1>1
<1>4. \A n \in DOMAIN fdt.mem : NodeBytes(fdt, n) \ Forbidden(fdt) \subseteq given
  BY <1>1, <1>2, <1>3 DEF CoreInv, CoverInv
<1>5. \A b \in given : b \notin Forbidden(fdt) /\ \E n \in DOMAIN fdt.mem : b \in NodeBytes(fdt, n)
  BY DEF CoreInv, GivenInv
<1>6. \A b : b \in UNION {NodeBytes(fdt, n) : n \in DOMAIN fdt.mem} <=>
            \E n \in DOMAIN fdt.mem : b \in NodeBytes(fdt, n)
  OBVIOUS
<1>7. \A b : b \in given <=> /\ b \in UNION {NodeBytes(fdt, n) : n \in DOMAIN fdt.mem}
                             /\ b \notin Forbidden(fdt)
  BY <1>4, <1>5, <1>6, Zenon
<1> QED
  BY <1>7, Zenon

\* When the scan is over every usable byte has been passed to boot_free.
THEOREM ScanComplete == Spec => []Complete
BY EndIsComplete, ScanInvariance, PTL

\* With one register block per node and no two nodes overlapping, no address
\* is given twice.
THEOREM ScanGivesOnce ==
  ASSUME SimpleLayout
  PROVE  Spec => []GivenOnce
<1>1. ScanInit => CoreInv /\ DisjointInv
  <2>1. ScanInit => DisjointInv
    <3> SUFFICES ASSUME ScanInit PROVE DisjointInv
      OBVIOUS
    <3>1. pc = "node" /\ DOMAIN pending = {}
      BY DEF ScanInit
    <3> QED
      BY <3>1 DEF DisjointInv, Running
  <2> QED
    BY <2>1, CoreInit
<1>2. CoreInv /\ DisjointInv /\ [Next]_scanVars => (CoreInv /\ DisjointInv)'
  BY CoreNext, DisjointNext
<1>3. CoreInv /\ DisjointInv => GivenOnce
  BY DEF DisjointInv, GivenOnce, AtBootFree, Running
<1> QED
  BY <1>1, <1>2, <1>3, PTL DEF Spec

-----------------------------------------------------------------------------
(***************************************************************************)
(* The depth of the recursion.  What counts is how many of the excluded    *)
(* regions ex could still split a piece: a region that has split a piece   *)
(* splits neither half of it again.                                        *)
(***************************************************************************)
Splits(p, r) == p.start < r.start /\ r.start + r.size < p.start + p.size

Splitters(ex, p) == { k \in 1..Len(ex) : Splits(p, ex[k]) }

\* A call for p at depth d cannot go too deep.
Shallow(ex, p, d) == d + Cardinality(Splitters(ex, p)) <= Len(ex) + 1

DepthInv ==
  /\ DepthBounded
  /\ Running => Shallow(Excluded, piece, depth)
  /\ \A k \in DOMAIN pending : Shallow(Excluded, pending[k].piece, pending[k].depth)

Within(q, p) == p.start <= q.start /\ q.start + q.size <= p.start + p.size

\* The number of the regions that may split a piece is at most that of all.
LEMMA SplittersLemma ==
  ASSUME NEW ex \in Seq(Region), NEW p \in Region
  PROVE  /\ IsFiniteSet(Splitters(ex, p))
         /\ Cardinality(Splitters(ex, p)) \in 0..Len(ex)
<1>1. Len(ex) \in Nat /\ Splitters(ex, p) \in SUBSET (1..Len(ex))
  BY DEF Splitters
<1>2. IsFiniteSet(1..Len(ex)) /\ Cardinality(1..Len(ex)) = Len(ex)
  <2>1. 1 \in Int /\ Len(ex) \in Int
    BY <1>1
  <2>2. /\ IsFiniteSet(1..Len(ex))
        /\ Cardinality(1..Len(ex)) = IF 1 > Len(ex) THEN 0 ELSE Len(ex) - 1 + 1
    BY <2>1, FS_Interval, Zenon
  <2> QED
    BY <1>1, <2>2
<1>3. /\ IsFiniteSet(Splitters(ex, p))
      /\ Cardinality(Splitters(ex, p)) <= Len(ex)
  BY <1>1, <1>2, FS_Subset
<1>4. Cardinality(Splitters(ex, p)) \in Nat
  BY <1>3, FS_CardinalityType
<1> QED
  BY <1>1, <1>3, <1>4

\* A call for a whole block is the first one.
LEMMA ShallowFirst ==
  ASSUME NEW ex \in Seq(Region), NEW p \in Region
  PROVE  Shallow(ex, p, 1)
BY SplittersLemma DEF Shallow

\* What splits a part of a piece splits the piece.
LEMMA SplitsPart ==
  ASSUME NEW p \in Region, NEW q \in Region, NEW r \in Region, Within(q, p), Splits(q, r)
  PROVE  Splits(p, r)
BY DEF Splits, Within, Region

\* A part of a piece is split by no other regions than the piece.
LEMMA ShallowPart ==
  ASSUME NEW ex \in Seq(Region), NEW p \in Region, NEW q \in Region, NEW d \in Nat,
         Within(q, p), Shallow(ex, p, d)
  PROVE  Shallow(ex, q, d)
<1>1. \A k \in 1..Len(ex) : ex[k] \in Region
  OBVIOUS
<1>2. Splitters(ex, q) \in SUBSET Splitters(ex, p)
  BY <1>1, SplitsPart DEF Splitters
<1>3. Cardinality(Splitters(ex, q)) <= Cardinality(Splitters(ex, p))
  BY <1>2, SplittersLemma, FS_Subset
<1>4. Cardinality(Splitters(ex, q)) \in Nat /\ Cardinality(Splitters(ex, p)) \in Nat
  BY SplittersLemma
<1> QED
  BY <1>3, <1>4 DEF Shallow

\* The region that has split the piece makes room for one more call.
LEMMA ShallowHalf ==
  ASSUME NEW ex \in Seq(Region), NEW p \in Region, NEW q \in Region, NEW d \in Nat,
         Within(q, p), Shallow(ex, p, d),
         NEW e \in 1..Len(ex), Splits(p, ex[e]), ~Splits(q, ex[e])
  PROVE  Shallow(ex, q, d + 1)
<1> DEFINE S == Splitters(ex, p)
           T == Splitters(ex, q)
<1>1. \A k \in 1..Len(ex) : ex[k] \in Region
  OBVIOUS
<1>2. T \in SUBSET (S \ {e}) /\ e \in S
  <2>1. \A k \in 1..Len(ex) : Splits(q, ex[k]) => Splits(p, ex[k])
    BY <1>1, SplitsPart
  <2> QED
    BY <2>1 DEF Splitters
<1>3. IsFiniteSet(S) /\ Cardinality(S) \in Nat /\ Cardinality(T) \in Nat
  BY SplittersLemma
<1> HIDE DEF S, T
<1>4. IsFiniteSet(S \ {e}) /\ Cardinality(S \ {e}) = Cardinality(S) - 1
  BY <1>2, <1>3, FS_RemoveElement
<1>5. Cardinality(T) <= Cardinality(S \ {e})
  BY <1>2, <1>4, FS_Subset
<1>6. d + Cardinality(S) <= Len(ex) + 1
  BY DEF Shallow, S
<1>7. d + 1 + Cardinality(T) <= Len(ex) + 1
  BY <1>3, <1>4, <1>5, <1>6
<1> QED
  BY <1>7 DEF Shallow, T

\* What is left of a piece is part of it, and a split is by a region inside.
LEMMA TrimWithin ==
  ASSUME NEW p \in Region, NEW r \in Region, p.size > 0
  PROVE  LET left == trim_or_split_around_reserved(p, r)
         IN /\ \A k \in 1..Len(left) : Within(left[k], p)
            /\ Len(left) = 2 => /\ Splits(p, r)
                                /\ ~Splits(left[1], r) /\ ~Splits(left[2], r)
<1> DEFINE end == p.start + p.size
           resv_end == r.start + r.size
           left == trim_or_split_around_reserved(p, r)
           low == [start |-> p.start, size |-> r.start - p.start]
           high == [start |-> resv_end, size |-> end - resv_end]
<1>1. p.start \in Nat /\ p.size \in Nat /\ r.start \in Nat /\ r.size \in Nat
  BY DEF Region
<1>2. /\ low.start = p.start /\ low.size = r.start - p.start
      /\ high.start = resv_end /\ high.size = end - resv_end
  OBVIOUS
<1>3. CASE Splits(p, r)
  <2>1. left = <<low, high>>
    BY <1>1, <1>3 DEF trim_or_split_around_reserved, Splits
  <2>2. Within(low, p) /\ Within(high, p) /\ ~Splits(low, r) /\ ~Splits(high, r)
    BY <1>1, <1>2, <1>3 DEF Within, Splits
  <2>3. Len(left) = 2 /\ left[1] = low /\ left[2] = high
    BY <2>1
  <2> HIDE DEF left, low, high
  <2>4. \A k \in 1..Len(left) : k = 1 \/ k = 2
    BY <2>3
  <2> QED
    BY <1>3, <2>2, <2>3, <2>4 DEF left
<1>4. CASE ~Splits(p, r)
  <2>1. \/ left = <<p>> \/ left = <<>>
        \/ left = <<low>> /\ r.start > p.start /\ r.start <= end
        \/ left = <<high>> /\ resv_end > p.start /\ resv_end < end
    BY <1>1, <1>4 DEF trim_or_split_around_reserved, Splits
  <2>2. Within(p, p)
    BY <1>1 DEF Within
  <2>3. r.start > p.start /\ r.start <= end => Within(low, p)
    BY <1>1, <1>2 DEF Within
  <2>4. resv_end > p.start /\ resv_end < end => Within(high, p)
    BY <1>1, <1>2 DEF Within
  <2>5. \/ Len(left) = 0
        \/ Len(left) = 1 /\ Within(left[1], p)
    BY <2>1, <2>2, <2>3, <2>4
  <2> DEFINE n == Len(left)
  <2>6. (n = 0 \/ n = 1) /\ (n = 1 => Within(left[1], p))
    BY <2>5
  <2> HIDE DEF n
  <2>7. n # 2 /\ \A k \in 1..n : k = 1 /\ n = 1
    BY <2>6
  <2>8. \A k \in 1..n : Within(left[k], p)
    <3> HIDE DEF left
    <3> QED
      BY <2>6, <2>7
  <2> QED
    BY <2>7, <2>8 DEF n
<1> QED
  BY <1>3, <1>4

\* No step makes a call that is too deep.
LEMMA DepthNext ==
  ASSUME CoreInv, DepthInv, [Next]_scanVars
  PROVE  DepthInv'
<1> USE DEF CoreInv
<1>1. /\ piece \in Region /\ depth \in Nat /\ pending \in Seq(Waiting)
      /\ Excluded \in Seq(Region) /\ Len(Excluded) \in Nat
  BY FdtType DEF TypeOK, Waiting
<1>2. fdt' = fdt /\ Excluded' = Excluded
  BY DEF Next, ScanStep, NextBlock, NextNode, Finish, SkipPiece, StartPiece, Covered, Trim,
         Split, HandOver, scanVars, Excluded
<1>3. CASE UNCHANGED scanVars \/ NextNode \/ Finish
  BY <1>2, <1>3 DEF DepthInv, DepthBounded, Running, NextNode, Finish, scanVars, call
<1>4. CASE NextBlock
  <2>1. depth' = 1 /\ pending' = pending /\ piece' \in Region
    BY <1>4, NextBlockPreserves DEF NextBlock, TypeOK
  <2> QED
    BY <1>1, <1>2, <2>1, ShallowFirst DEF DepthInv, DepthBounded
<1>5. ASSUME NEW q \in Region, Within(q, piece), piece' = q, Running,
             UNCHANGED <<depth, pending>>
      PROVE  DepthInv'
  BY <1>1, <1>2, <1>5, ShallowPart DEF DepthInv, DepthBounded
<1>6. CASE StartPiece
  <2>1. Within(piece', piece)
    BY <1>1, <1>6, FdtType DEF StartPiece, AboveKernel, Nothing, Within, Region
  <2>2. piece' \in Region /\ Running /\ UNCHANGED <<depth, pending>>
    BY <1>6, StartPiecePreserves DEF TypeOK, StartPiece, Running
  <2> QED
    BY <1>5, <2>1, <2>2
<1>7. ASSUME pc = "entries", entry <= Len(Excluded)
      PROVE  /\ entry \in 1..Len(Excluded) /\ GoodTrim(piece, Excluded[entry], Left)
             /\ \A k \in 1..Len(Left) : Within(Left[k], piece)
             /\ Len(Left) = 2 => /\ Splits(piece, Excluded[entry])
                                 /\ ~Splits(Left[1], Excluded[entry])
                                 /\ ~Splits(Left[2], Excluded[entry])
  <2>1. entry \in 1..Len(Excluded) /\ GoodTrim(piece, Excluded[entry], Left)
    BY <1>7, EntryLemma
  <2>2. Excluded[entry] \in Region /\ piece.size > 0
    BY <1>1, <1>7, <2>1 DEF EntriesInv
  <2> QED
    BY <1>1, <2>1, <2>2, TrimWithin DEF Left
<1>8. CASE Trim
  <2>1. pc = "entries" /\ entry <= Len(Excluded) /\ Len(Left) = 1 /\ piece' = Left[1]
        /\ UNCHANGED <<depth, pending>>
    BY <1>8 DEF Trim
  <2>2. 1 \in 1..Len(Left)
    BY <2>1
  <2>3. Within(Left[1], piece) /\ Left[1] \in Region
    BY <1>7, <2>1, <2>2 DEF GoodTrim
  <2> QED
    BY <1>5, <2>1, <2>3 DEF Running
<1>9. ASSUME NEW f \in {1, 2}, NEW g \in {1, 2}, Split(f, g)
      PROVE  DepthInv'
  <2>1. /\ pc = "entries" /\ entry <= Len(Excluded) /\ Len(Left) = 2 /\ piece' = Left[f]
        /\ pending' = <<[piece |-> Left[g], depth |-> depth + 1]>> \o pending
        /\ depth' = depth + 1
    BY <1>9 DEF Split
  <2>2. /\ entry \in 1..Len(Excluded) /\ Splits(piece, Excluded[entry])
        /\ \A k \in {1, 2} : /\ Left[k] \in Region /\ Within(Left[k], piece)
                             /\ ~Splits(Left[k], Excluded[entry])
    BY <1>7, <2>1 DEF GoodTrim
  <2>3. Shallow(Excluded, piece, depth)
    BY <2>1 DEF DepthInv, Running
  <2>4. \A k \in {1, 2} : Shallow(Excluded, Left[k], depth + 1)
    BY <1>1, <2>2, <2>3, ShallowHalf
  <2>5. depth + 1 <= Len(Excluded) + 1
    <3>1. Cardinality(Splitters(Excluded, Left[1])) \in Nat /\ Shallow(Excluded, Left[1], depth + 1)
      BY <1>1, <2>2, <2>4, SplittersLemma
    <3> QED
      BY <1>1, <3>1 DEF Shallow
  <2> DEFINE x == [piece |-> Left[g], depth |-> depth + 1]
  <2>6. x \in Waiting /\ x.piece = Left[g] /\ x.depth = depth + 1
    BY <1>1, <2>2 DEF Waiting
  <2>7. pending' = <<x>> \o pending
    BY <2>1
  <2> HIDE DEF x
  <2>8. /\ pending'[1] = x
        /\ \A k \in DOMAIN pending' :
             k = 1 \/ (k - 1 \in DOMAIN pending /\ pending'[k] = pending[k - 1])
    BY <1>1, <2>6, <2>7, PushLemma
  <2>9. \A k \in DOMAIN pending' : Shallow(Excluded, pending'[k].piece, pending'[k].depth)
    BY <2>4, <2>6, <2>8 DEF DepthInv
  <2> QED
    BY <1>2, <2>1, <2>4, <2>5, <2>9 DEF DepthInv, DepthBounded
<1>10. CASE SkipPiece \/ Covered \/ \E ok \in BOOLEAN : HandOver(ok)
  <2>1. Return
    BY <1>10 DEF SkipPiece, Covered, HandOver
  <2>2. CASE pending = <<>>
    BY <1>2, <2>1, <2>2 DEF Return, DepthInv, DepthBounded, Running
  <2>3. CASE pending # <<>>
    <3>1. /\ Head(pending) = pending[1] /\ pending[1] \in Waiting /\ 1 \in DOMAIN pending
          /\ \A k \in DOMAIN Tail(pending) :
               k + 1 \in DOMAIN pending /\ Tail(pending)[k] = pending[k + 1]
      BY <1>1, <2>3, PopLemma
    <3>2. /\ piece' = pending[1].piece /\ depth' = pending[1].depth /\ pending' = Tail(pending)
      BY <2>1, <2>3, <3>1 DEF Return
    <3>3. Shallow(Excluded, piece', depth') /\ piece' \in Region /\ depth' \in Nat
      BY <3>1, <3>2 DEF DepthInv, Waiting
    <3>4. depth' <= Len(Excluded) + 1
      BY <1>1, <3>3, SplittersLemma DEF Shallow
    <3>5. \A k \in DOMAIN pending' : Shallow(Excluded, pending'[k].piece, pending'[k].depth)
      BY <3>1, <3>2 DEF DepthInv
    <3> QED
      BY <1>2, <3>3, <3>4, <3>5 DEF DepthInv, DepthBounded
  <2> QED
    BY <2>2, <2>3
<1> QED
  BY <1>3, <1>4, <1>6, <1>8, <1>9, <1>10 DEF Next, ScanStep

\* try_boot_free_region never has more calls on the stack than there are
\* excluded regions, and one, however the regions overlap.
THEOREM ScanDepthBounded == Spec => []DepthBounded
<1>1. ScanInit => CoreInv /\ DepthInv
  <2> SUFFICES ASSUME ScanInit PROVE DepthInv
    BY CoreInit
  <2>1. depth = 0 /\ ~Running /\ DOMAIN pending = {}
    BY DEF ScanInit, Running
  <2>2. Len(Excluded) \in Nat
    BY CoreInit, FdtType DEF CoreInv
  <2> QED
    BY <2>1, <2>2 DEF DepthInv, DepthBounded
<1>2. CoreInv /\ DepthInv /\ [Next]_scanVars => (CoreInv /\ DepthInv)'
  BY CoreNext, DepthNext
<1>3. DepthInv => DepthBounded
  BY DEF DepthInv
<1> QED
  BY <1>1, <1>2, <1>3, PTL DEF Spec

-----------------------------------------------------------------------------
(***************************************************************************)
(* The report.  What was seen is at least what was given, byte by byte,    *)
(* and what was accepted is counted once.                                  *)
(***************************************************************************)
SeenBytes ==
  { b \in Nat : \E n \in DOMAIN fdt.mem : Seen(n) /\ b \in NodeBytes(fdt, n) }

SeenInv == IsFiniteSet(SeenBytes) /\ Cardinality(SeenBytes) <= total_mem_seen

CountInv ==
  /\ accepted \subseteq given
  /\ IsFiniteSet(accepted)
  /\ total_mem_freed = Cardinality(accepted)

\* A region has as many bytes as its size says.
LEMMA BytesLemma ==
  ASSUME NEW r \in Region
  PROVE  IsFiniteSet(Bytes(r)) /\ Cardinality(Bytes(r)) = r.size /\ Bytes(r) \subseteq Nat
<1>1. r.start \in Nat /\ r.size \in Nat
  BY DEF Region
<1>2. r.start \in Int /\ r.start + r.size - 1 \in Int
  BY <1>1
<1>3. /\ IsFiniteSet(Bytes(r))
      /\ Cardinality(Bytes(r)) = IF r.start > r.start + r.size - 1 THEN 0
                                 ELSE (r.start + r.size - 1) - r.start + 1
  BY <1>2, FS_Interval, Zenon DEF Bytes
<1>4. Bytes(r) \subseteq Nat
  BY <1>1 DEF Bytes
<1> QED
  BY <1>1, <1>3, <1>4

\* Only the fetch of a block adds to what was seen.
LEMMA SeenNext ==
  ASSUME CoreInv, SeenInv, [Next]_scanVars
  PROVE  SeenInv'
<1> USE DEF CoreInv
<1>1. Cardinality(SeenBytes) \in Nat /\ total_mem_seen \in Nat /\ i \in Nat /\ mem_node \in Nat
  BY FS_CardinalityType DEF SeenInv, TypeOK
<1>2. \A n \in DOMAIN fdt.mem : n \in Int
  BY FdtType
<1>3. CASE NextBlock
  <2>1. /\ fdt' = fdt /\ total_mem_seen' = total_mem_seen + piece'.size /\ piece' \in Region
    BY <1>3, NextBlockPreserves DEF NextBlock, TypeOK
  <2>2. /\ mem_node \in DOMAIN fdt.mem /\ NodeBytes(fdt, mem_node) = Bytes(piece')
    <3>1. mem_node' = mem_node /\ pc' = "call" /\ piece' = fdt.mem[mem_node][1] /\ CoreInv'
      BY <1>3, NextBlockPreserves DEF NextBlock
    <3>2. mem_node \in DOMAIN fdt.mem /\ fdt.mem[mem_node] # <<>>
      BY <2>1, <3>1 DEF PlaceInv, Running
    <3> QED
      BY <3>1, <3>2 DEF NodeBytes
  <2>3. \A n \in DOMAIN fdt.mem : Seen(n)' => Seen(n) \/ n = mem_node
    BY <1>3 DEF NextBlock, Seen, Running
  <2>4. SeenBytes' \in SUBSET (SeenBytes \cup Bytes(piece'))
    BY <2>1, <2>2, <2>3 DEF SeenBytes
  <2>5. /\ IsFiniteSet(Bytes(piece')) /\ Cardinality(Bytes(piece')) = piece'.size
        /\ piece'.size \in Nat
    BY <2>1, BytesLemma DEF Region
  <2> DEFINE S == SeenBytes
             T == Bytes(piece')
  <2>6. IsFiniteSet(S) /\ IsFiniteSet(T)
    BY <2>5 DEF SeenInv
  <2> HIDE DEF S, T
  <2>7. /\ IsFiniteSet(S \cup T)
        /\ Cardinality(S \cup T) = Cardinality(S) + Cardinality(T) - Cardinality(S \cap T)
    BY <2>6, FS_Union
  <2>8. IsFiniteSet(S \cap T)
    BY <2>6, FS_Intersection
  <2>9. /\ Cardinality(S \cap T) \in Nat /\ Cardinality(S \cup T) \in Nat
        /\ Cardinality(S) \in Nat /\ Cardinality(T) \in Nat
    BY <2>6, <2>7, <2>8, FS_CardinalityType
  <2>10. Cardinality(S \cup T) <= Cardinality(S) + Cardinality(T)
    BY <2>7, <2>9
  <2>11. IsFiniteSet(SeenBytes') /\ Cardinality(SeenBytes') <= Cardinality(S \cup T)
    BY <2>4, <2>7, FS_Subset DEF S, T
  <2>12. Cardinality(SeenBytes') \in Nat
    BY <2>11, FS_CardinalityType
  <2>13. Cardinality(S) <= total_mem_seen /\ Cardinality(T) = piece'.size
    BY <2>5 DEF SeenInv, S, T
  <2>14. Cardinality(SeenBytes') <= total_mem_seen'
    BY <1>1, <2>1, <2>5, <2>9, <2>10, <2>11, <2>12, <2>13
  <2> QED
    BY <2>11, <2>14 DEF SeenInv
<1>4. CASE ~NextBlock
  <2>1. /\ fdt' = fdt /\ total_mem_seen' = total_mem_seen
    BY <1>4 DEF Next, ScanStep, NextNode, Finish, SkipPiece, StartPiece, Covered, Trim,
                Split, HandOver, scanVars, loops
  <2>2. \A n \in DOMAIN fdt.mem : Seen(n)' => Seen(n) \/ NodeBytes(fdt, n) = {}
    <3>1. CASE UNCHANGED scanVars \/ Finish \/ StartPiece \/ Trim \/ Split(1, 2) \/ Split(2, 1)
      BY <3>1 DEF Seen, Running, Finish, StartPiece, Trim, Split, scanVars, loops
    <3>2. CASE NextNode
      <4>1. /\ pc = "node" /\ pc' = "node" /\ mem_node' = mem_node + 1 /\ i' = 0
            /\ i >= Len(fdt.mem[mem_node]) /\ mem_node <= Len(fdt.mem)
        BY <3>2 DEF NextNode
      <4>2. mem_node \in DOMAIN fdt.mem /\ fdt.mem[mem_node] \in Seq(Region)
        BY <4>1, FdtType DEF TypeOK
      <4>3. fdt.mem[mem_node] = <<>> \/ i > 0
        BY <1>1, <4>1, <4>2
      <4> QED
        BY <1>1, <1>2, <4>1, <4>3 DEF Seen, Running, NodeBytes
    <3>3. CASE SkipPiece \/ Covered \/ \E ok \in BOOLEAN : HandOver(ok)
      <4>1. Running /\ Return /\ mem_node' = mem_node
        BY <3>3, ReturnStep
      <4>2. \/ pc' = "node" /\ i' = i + 1
            \/ pc' = "call" /\ i' = i
        BY <4>1 DEF Return
      <4> QED
        BY <1>1, <4>1, <4>2 DEF Seen, Running
    <3> QED
      BY <1>4, <3>1, <3>2, <3>3 DEF Next, ScanStep
  <2>3. SeenBytes' \in SUBSET SeenBytes
    BY <2>1, <2>2 DEF SeenBytes
  <2>4. /\ IsFiniteSet(SeenBytes') /\ Cardinality(SeenBytes') <= Cardinality(SeenBytes)
    BY <2>3, FS_Subset DEF SeenInv
  <2>5. Cardinality(SeenBytes') \in Nat
    BY <2>4, FS_CardinalityType
  <2> QED
    BY <1>1, <2>1, <2>4, <2>5 DEF SeenInv
<1> QED
  BY <1>3, <1>4

\* What boot_free accepts is new, so it is counted once.
LEMMA CountNext ==
  ASSUME CoreInv, DisjointInv, CountInv, [Next]_scanVars
  PROVE  CountInv'
<1>1. CASE \E ok \in BOOLEAN : HandOver(ok) /\ ok
  <2>1. /\ AtBootFree /\ given' = given \cup Bytes(piece)
        /\ accepted' = accepted \cup Bytes(piece)
        /\ total_mem_freed' = total_mem_freed + piece.size
    BY <1>1 DEF HandOver
  <2>2. /\ Bytes(piece) \cap given = {} /\ IsFiniteSet(accepted) /\ accepted \subseteq given
        /\ total_mem_freed = Cardinality(accepted)
    BY <2>1 DEF DisjointInv, AtBootFree, Running, CountInv
  <2>3. IsFiniteSet(Bytes(piece)) /\ Cardinality(Bytes(piece)) = piece.size /\ piece.size \in Nat
    BY BytesLemma DEF CoreInv, TypeOK, Region
  <2>4. accepted \cap Bytes(piece) = {}
    BY <2>2
  <2>5. /\ IsFiniteSet(accepted \cup Bytes(piece))
        /\ Cardinality(accepted \cup Bytes(piece)) =
             Cardinality(accepted) + Cardinality(Bytes(piece)) - Cardinality({})
    BY <2>2, <2>3, <2>4, FS_Union
  <2>6. Cardinality(accepted) \in Nat /\ Cardinality({}) = 0
    BY <2>2, FS_CardinalityType, FS_EmptySet
  <2>7. total_mem_freed' = Cardinality(accepted')
    BY <2>1, <2>2, <2>3, <2>5, <2>6
  <2> QED
    BY <2>1, <2>2, <2>5, <2>7 DEF CountInv
<1>2. CASE ~(\E ok \in BOOLEAN : HandOver(ok) /\ ok)
  <2>1. UNCHANGED <<accepted, total_mem_freed>> /\ given \subseteq given'
    <3>1. CASE \E ok \in BOOLEAN : HandOver(ok)
      BY <1>2, <3>1 DEF HandOver
    <3>2. CASE ~(\E ok \in BOOLEAN : HandOver(ok))
      BY <3>2 DEF Next, ScanStep, NextBlock, NextNode, Finish, SkipPiece, StartPiece,
                  Covered, Trim, Split, scanVars, results
    <3> QED
      BY <3>1, <3>2
  <2> QED
    BY <2>1 DEF CountInv
<1> QED
  BY <1>1, <1>2

\* With one register block per node and no two nodes overlapping, the report
\* counts the accepted bytes exactly, and no more than were seen.
THEOREM ScanReportExact ==
  ASSUME SimpleLayout
  PROVE  Spec => []ReportExact
<1> DEFINE Inv == CoreInv /\ DisjointInv /\ SeenInv /\ CountInv
<1>1. ScanInit => Inv
  <2> SUFFICES ASSUME ScanInit PROVE Inv
    OBVIOUS
  <2>1. CoreInv
    BY CoreInit
  <2>2. pc = "node" /\ DOMAIN pending = {} /\ i = 0 /\ mem_node = 1 /\ accepted = {}
        /\ total_mem_seen = 0 /\ total_mem_freed = 0
    BY DEF ScanInit
  <2>3. DisjointInv
    BY <2>2 DEF DisjointInv, Running
  <2>4. \A n \in DOMAIN fdt.mem : ~Seen(n)
    <3>1. DOMAIN fdt.mem = 1..Len(fdt.mem) /\ Len(fdt.mem) \in Nat
      BY <2>1, FdtType DEF CoreInv
    <3> QED
      BY <2>2, <3>1 DEF Seen, Running
  <2>5. SeenBytes = {}
    BY <2>4 DEF SeenBytes
  <2>6. SeenInv /\ CountInv
    BY <2>2, <2>5, FS_EmptySet DEF SeenInv, CountInv
  <2> QED
    BY <2>1, <2>3, <2>6
<1>2. Inv /\ [Next]_scanVars => Inv'
  BY CoreNext, DisjointNext, SeenNext, CountNext
<1>3. Inv => ReportExact
  <2> SUFFICES ASSUME Inv
               PROVE  total_mem_freed = Cardinality(accepted) /\ total_mem_freed <= total_mem_seen
    BY DEF ReportExact
  <2>1. accepted \in SUBSET SeenBytes
    BY DEF CountInv, CoreInv, GivenInv, TypeOK, SeenBytes
  <2>2. IsFiniteSet(SeenBytes) /\ IsFiniteSet(accepted) /\ total_mem_freed = Cardinality(accepted)
        /\ Cardinality(SeenBytes) <= total_mem_seen
    BY DEF SeenInv, CountInv
  <2>3. Cardinality(accepted) <= Cardinality(SeenBytes)
    BY <2>1, <2>2, FS_Subset
  <2>4. Cardinality(accepted) \in Nat /\ Cardinality(SeenBytes) \in Nat /\ total_mem_seen \in Nat
    BY <2>2, FS_CardinalityType DEF CoreInv, TypeOK
  <2> QED
    BY <2>2, <2>3, <2>4
<1> QED
  BY <1>1, <1>2, <1>3, PTL DEF Spec
-----------------------------------------------------------------------------
(***************************************************************************)
(* The borders of the pieces.  A piece is not any run of usable bytes: it  *)
(* begins and ends where the kernel, a block or a reserved region does.    *)
(***************************************************************************)
Bordered(f, p) == p.start \in Starts(f) /\ p.start + p.size \in Ends(f)

BorderInv ==
  /\ Running => Bordered(fdt, piece)
  /\ \A k \in DOMAIN pending : Bordered(fdt, pending[k].piece)

\* The borders of what is left of a piece are those of the piece or of the
\* reserved region.
LEMMA TrimBorders ==
  ASSUME NEW p \in Region, NEW r \in Region
  PROVE  LET left == trim_or_split_around_reserved(p, r)
         IN \A k \in 1..Len(left) :
              /\ left[k].start \in {p.start, r.start + r.size}
              /\ left[k].start + left[k].size \in {p.start + p.size, r.start}
<1> DEFINE end == p.start + p.size
           resv_end == r.start + r.size
           left == trim_or_split_around_reserved(p, r)
           low == [start |-> p.start, size |-> r.start - p.start]
           high == [start |-> resv_end, size |-> end - resv_end]
           Fine(q) == q.start \in {p.start, resv_end} /\ q.start + q.size \in {end, r.start}
<1>1. p.start \in Nat /\ p.size \in Nat /\ r.start \in Nat /\ r.size \in Nat
  BY DEF Region
<1>2. Fine(low) /\ Fine(high) /\ Fine(p)
  BY <1>1
<1>3. left \in {<<p>>, <<>>, <<low>>, <<high>>, <<low, high>>}
  BY DEF trim_or_split_around_reserved
<1> HIDE DEF Fine, low, high, left
<1>4. ASSUME NEW q, Fine(q), left = <<q>>
      PROVE  \A k \in 1..Len(left) : Fine(left[k])
  <2>1. Len(left) = 1 /\ left[1] = q
    BY <1>4
  <2>2. \A k \in 1..Len(left) : k = 1
    BY <2>1
  <2> QED
    BY <1>4, <2>1, <2>2
<1>5. ASSUME left = <<low, high>>
      PROVE  \A k \in 1..Len(left) : Fine(left[k])
  <2>1. Len(left) = 2 /\ left[1] = low /\ left[2] = high
    BY <1>5
  <2>2. \A k \in 1..Len(left) : k = 1 \/ k = 2
    BY <2>1
  <2> QED
    BY <1>2, <2>1, <2>2
<1>6. ASSUME left = <<>>
      PROVE  \A k \in 1..Len(left) : Fine(left[k])
  <2>1. Len(left) = 0
    BY <1>6
  <2> QED
    BY <2>1
<1>7. \A k \in 1..Len(left) : Fine(left[k])
  BY <1>2, <1>3, <1>4, <1>5, <1>6
<1> QED
  BY <1>7 DEF Fine, left

\* The borders of an excluded region are borders of the tree.
LEMMA ExcludedBorders ==
  ASSUME TypeOK, NEW k \in 1..Len(Excluded)
  PROVE  /\ Excluded[k].start + Excluded[k].size \in Starts(fdt)
         /\ Excluded[k].start \in Ends(fdt)
<1>1. Excluded[k] \in Reserved(fdt)
  BY FdtType DEF Excluded, Reserved
<1> QED
  BY <1>1 DEF Starts, Ends

\* No step makes a piece with other borders.
LEMMA BorderNext ==
  ASSUME CoreInv, BorderInv, [Next]_scanVars
  PROVE  BorderInv'
<1> USE DEF CoreInv
<1>1. piece \in Region /\ depth \in Nat /\ pending \in Seq(Waiting)
  BY DEF TypeOK, Waiting
<1>2. fdt' = fdt
  BY DEF Next, ScanStep, NextBlock, NextNode, Finish, SkipPiece, StartPiece, Covered, Trim,
         Split, HandOver, scanVars
<1>3. CASE UNCHANGED scanVars \/ NextNode \/ Finish
  BY <1>2, <1>3 DEF BorderInv, Running, NextNode, Finish, scanVars, call
<1>4. CASE NextBlock
  <2>1. /\ piece' = fdt.mem[mem_node][1] /\ pending' = pending
        /\ mem_node <= Len(fdt.mem) /\ i < Len(fdt.mem[mem_node])
    BY <1>4 DEF NextBlock
  <2>2. /\ mem_node \in DOMAIN fdt.mem /\ i \in Nat /\ fdt.mem[mem_node] \in Seq(Region)
    BY <2>1, FdtType DEF TypeOK
  <2>3. fdt.mem[mem_node] # <<>>
    BY <2>1, <2>2
  <2>4. piece' \in Blocks(fdt)
    BY <2>1, <2>2, <2>3 DEF Blocks
  <2>5. Bordered(fdt, piece')
    BY <2>4 DEF Bordered, Starts, Ends
  <2> QED
    BY <1>2, <2>1, <2>5 DEF BorderInv
<1>5. CASE StartPiece
  <2>1. /\ pc = "call" /\ pending' = pending /\ piece' = AboveKernel(piece)
        /\ KernelEnd \in Nat
    BY <1>5, FdtType DEF StartPiece
  <2>2. Bordered(fdt, piece)
    BY <2>1 DEF BorderInv, Running
  <2>3. Bordered(fdt, piece')
    <3>1. CASE piece.start < KernelEnd
      <4>1. /\ piece'.start = KernelEnd /\ piece'.size = piece.start + piece.size - KernelEnd
            /\ piece.start \in Nat /\ piece.size \in Nat
        BY <1>1, <2>1, <3>1 DEF AboveKernel, Region
      <4>2. piece'.start + piece'.size = piece.start + piece.size
        BY <2>1, <4>1
      <4>3. KernelEnd \in Starts(fdt)
        BY DEF Starts
      <4> QED
        BY <2>2, <4>1, <4>2, <4>3 DEF Bordered
    <3>2. CASE ~(piece.start < KernelEnd)
      BY <2>1, <2>2, <3>2 DEF AboveKernel
    <3> QED
      BY <3>1, <3>2
  <2> QED
    BY <1>2, <2>1, <2>3 DEF BorderInv
<1>6. ASSUME pc = "entries", entry <= Len(Excluded), NEW k \in 1..Len(Left)
      PROVE  Bordered(fdt, Left[k])
  <2>1. entry \in 1..Len(Excluded)
    BY <1>6, EntryLemma
  <2>2. Excluded[entry] \in Region
    BY <2>1, FdtType
  <2>3. Bordered(fdt, piece)
    BY <1>6 DEF BorderInv, Running
  <2>4. /\ Excluded[entry].start + Excluded[entry].size \in Starts(fdt)
        /\ Excluded[entry].start \in Ends(fdt)
    BY <2>1, ExcludedBorders
  <2>5. /\ Left[k].start \in {piece.start, Excluded[entry].start + Excluded[entry].size}
        /\ Left[k].start + Left[k].size \in {piece.start + piece.size, Excluded[entry].start}
    BY <1>1, <1>6, <2>2, TrimBorders DEF Left
  <2> QED
    BY <2>3, <2>4, <2>5 DEF Bordered
<1>7. CASE Trim
  <2>1. /\ pc = "entries" /\ entry <= Len(Excluded) /\ Len(Left) = 1 /\ piece' = Left[1]
        /\ pending' = pending
    BY <1>7 DEF Trim
  <2>2. 1 \in 1..Len(Left)
    BY <2>1
  <2>3. Bordered(fdt, piece')
    BY <1>6, <2>1, <2>2
  <2> QED
    BY <1>2, <2>1, <2>3 DEF BorderInv
<1>8. ASSUME NEW f \in {1, 2}, NEW g \in {1, 2}, Split(f, g)
      PROVE  BorderInv'
  <2>1. /\ pc = "entries" /\ entry <= Len(Excluded) /\ Len(Left) = 2 /\ piece' = Left[f]
        /\ pending' = <<[piece |-> Left[g], depth |-> depth + 1]>> \o pending
    BY <1>8 DEF Split
  <2>2. f \in 1..Len(Left) /\ g \in 1..Len(Left) /\ GoodTrim(piece, Excluded[entry], Left)
    BY <2>1, EntryLemma
  <2>3. Bordered(fdt, Left[f]) /\ Bordered(fdt, Left[g]) /\ Left[g] \in Region
    BY <1>6, <2>1, <2>2 DEF GoodTrim
  <2> DEFINE x == [piece |-> Left[g], depth |-> depth + 1]
  <2>4. x \in Waiting /\ x.piece = Left[g]
    BY <1>1, <2>3 DEF Waiting
  <2>5. pending' = <<x>> \o pending
    BY <2>1
  <2> HIDE DEF x
  <2>6. /\ pending'[1] = x
        /\ \A k \in DOMAIN pending' :
             k = 1 \/ (k - 1 \in DOMAIN pending /\ pending'[k] = pending[k - 1])
    BY <1>1, <2>4, <2>5, PushLemma
  <2>7. \A k \in DOMAIN pending' : Bordered(fdt, pending'[k].piece)
    BY <2>3, <2>4, <2>6 DEF BorderInv
  <2> QED
    BY <1>2, <2>1, <2>3, <2>7 DEF BorderInv
<1>9. CASE SkipPiece \/ Covered \/ \E ok \in BOOLEAN : HandOver(ok)
  <2>1. Return
    BY <1>9 DEF SkipPiece, Covered, HandOver
  <2>2. CASE pending = <<>>
    BY <1>2, <2>1, <2>2 DEF Return, BorderInv, Running
  <2>3. CASE pending # <<>>
    <3>1. /\ Head(pending) = pending[1] /\ 1 \in DOMAIN pending
          /\ \A k \in DOMAIN Tail(pending) :
               k + 1 \in DOMAIN pending /\ Tail(pending)[k] = pending[k + 1]
      BY <1>1, <2>3, PopLemma
    <3>2. piece' = pending[1].piece /\ pending' = Tail(pending)
      BY <2>1, <2>3, <3>1 DEF Return
    <3>3. Bordered(fdt, piece') /\ \A k \in DOMAIN pending' : Bordered(fdt, pending'[k].piece)
      BY <3>1, <3>2 DEF BorderInv
    <3> QED
      BY <1>2, <3>3 DEF BorderInv
  <2> QED
    BY <2>2, <2>3
<1> QED
  BY <1>3, <1>4, <1>5, <1>7, <1>8, <1>9 DEF Next, ScanStep

\* At the start there is no piece.
LEMMA BorderInit == ScanInit => BorderInv
<1>1. ASSUME ScanInit PROVE ~Running /\ DOMAIN pending = {}
  BY <1>1 DEF ScanInit, Running
<1> QED
  BY <1>1 DEF BorderInv

\* What boot_free is called with is one of the pieces of the tree.
LEMMA GivesPieces ==
  ASSUME CoreInv, BorderInv, AtBootFree
  PROVE  piece \in Pieces(fdt)
<1>1. piece.size > 0 /\ Bytes(piece) \cap Forbidden(fdt) = {}
  BY FreeIsClean
<1>2. mem_node \in DOMAIN fdt.mem /\ Bytes(piece) \subseteq NodeBytes(fdt, mem_node)
  BY DEF CoreInv, PlaceInv, AtBootFree, Running
<1>3. Bytes(piece) \subseteq Usable(fdt)
  BY <1>1, <1>2, Zenon DEF Usable
<1>4. piece.start \in Starts(fdt) /\ piece.start + piece.size \in Ends(fdt)
  BY DEF BorderInv, AtBootFree, Running, Bordered
<1>5. /\ piece.start \in Nat /\ piece.size \in Nat
      /\ piece = [start |-> piece.start, size |-> piece.size]
  BY DEF CoreInv, TypeOK, Region
<1>6. piece = [start |-> piece.start, size |-> (piece.start + piece.size) - piece.start]
  BY <1>5
<1>7. \A a \in Starts(fdt) : \A b \in Ends(fdt) :
        [start |-> a, size |-> b - a] \in
          { [start |-> c, size |-> d - c] : c \in Starts(fdt), d \in Ends(fdt) }
  OBVIOUS
<1>8. piece \in { [start |-> a, size |-> b - a] : a \in Starts(fdt), b \in Ends(fdt) }
  BY <1>4, <1>6, <1>7
<1> QED
  BY <1>1, <1>3, <1>8 DEF Pieces

\* boot_free is only ever called with a run of usable bytes that begins and
\* ends at a border of the kernel, of a block or of a reserved region.
THEOREM ScanGivesPieces == Spec => [](AtBootFree => piece \in Pieces(fdt))
<1>1. ScanInit => CoreInv /\ BorderInv
  BY CoreInit, BorderInit
<1>2. CoreInv /\ BorderInv /\ [Next]_scanVars => (CoreInv /\ BorderInv)'
  BY CoreNext, BorderNext
<1>3. CoreInv /\ BorderInv => (AtBootFree => piece \in Pieces(fdt))
  BY GivesPieces
<1> QED
  BY <1>1, <1>2, <1>3, PTL DEF Spec
=============================================================================
