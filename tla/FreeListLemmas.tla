--------------------------- MODULE FreeListLemmas ---------------------------
(***************************************************************************)
(* The boot allocator whoever calls it: its arithmetic, its search loop    *)
(* and the two cuts, for a list of one region inside RAM.  Nothing is said *)
(* here about who owns the region, or whether it has a neighbour below.    *)
(***************************************************************************)
EXTENDS FreeList, TLAPS

\* The head of the list is its last region, and lies inside RAM.
HeadInRam ==
  boot_free_list # NULL =>
    /\ boot_free_list \in Addr
    /\ region[boot_free_list].size \in 0..Top
    /\ boot_free_list + region[boot_free_list].size - 1 <= Top
    /\ region[boot_free_list].next = NULL

\* The request that is being served is one the arithmetic is safe for.
RequestInv ==
  /\ req.size \in AllocSizes
  /\ req.alignment \in Alignments
  /\ req.size + 2^req.alignment < Half

\* The loop has not reached the region of the list, or has weighed it.
SearchInv ==
  /\ curr \in {NULL, boot_free_list}
  /\ curr # NULL => smallest_fitting = NULL /\ smallest_fit = Word - 1
  /\ smallest_fitting # NULL =>
       /\ smallest_fitting = boot_free_list
       /\ Greater(boot_free_list) >= 0
       /\ should_alloc_before = (After(boot_free_list) # Greater(boot_free_list))
  /\ curr = NULL /\ smallest_fitting = NULL /\ boot_free_list # NULL =>
       Greater(boot_free_list) < 0

-----------------------------------------------------------------------------
(***************************************************************************)
(* Arithmetic.                                                             *)
(***************************************************************************)
\* A remainder is below the divisor, and rounding down or up to a multiple
\* of the divisor gives a multiple: what both unalignment functions rely on.
LEMMA Rounding ==
  ASSUME NEW d \in Nat \ {0}, NEW x \in Int
  PROVE  /\ x % d \in 0..(d - 1)
         /\ (x - (x % d)) % d = 0
         /\ (x + (d - (x % d))) % d = 0
<1>1. x % d \in 0..(d - 1)
  OBVIOUS
<1>2. (x - (x % d)) % d = 0
  OBVIOUS
<1>3. (x + (d - (x % d))) % d = 0
  OBVIOUS
<1> QED
  BY <1>1, <1>2, <1>3

\* Rounding down to a multiple of d skips no multiple of d.
LEMMA RoundingIsTight ==
  ASSUME NEW d \in Nat \ {0}, NEW x \in Int, NEW p \in Int, p % d = 0, p <= x
  PROVE  p <= x - (x % d)
<1> DEFINE k == p \div d
           q == x \div d
<1>1. k \in Int /\ q \in Int /\ x % d \in 0..(d - 1)
  OBVIOUS
<1>2. p = d * k
  OBVIOUS
<1>3. x = (d * q) + (x % d)
  OBVIOUS
<1> HIDE DEF k, q
<1>4. ASSUME k >= q + 1
      PROVE  d * k >= (d * q) + d
  BY <1>1, <1>4
<1>5. d * k \in Int /\ d * q \in Int
  BY <1>1
<1>6. k <= q
  BY <1>1, <1>2, <1>3, <1>4, <1>5
<1>7. d * k <= d * q
  BY <1>1, <1>6
<1> QED
  BY <1>1, <1>2, <1>3, <1>5, <1>7

\* size_t arithmetic and the cast to ssize_t are exact below 2^63.
LEMMA ExactWords ==
  ASSUME NEW x \in 0..(Half - 1)
  PROVE  Wrap(x) = x /\ Signed(x) = x
BY MachineAssumption DEF Wrap, Signed, Word

\* An address up to the end of RAM is not changed by size_t arithmetic.
LEMMA ExactAddresses ==
  ASSUME NEW x \in 0..(Top + 1)
  PROVE  Wrap(x) = x
BY MachineAssumption DEF Wrap, Word

\* The region sizes boot_alloc compares, for a region inside RAM and a
\* request whose size and alignment do not reach 2^63: no wrap-around.
LEMMA SizesAreExact ==
  ASSUME NEW r \in Addr, region[r].size \in 0..Top,
         NEW size \in Nat, NEW alignment \in Alignments,
         size + 2^alignment < Half
  PROVE  LET d == 2^alignment
             u == (r + region[r].size - size) % d
             v == d - (r % d)
         IN /\ d \in Nat \ {0}
            /\ u \in 0..(d - 1)
            /\ v \in 1..d
            /\ AfterNeeds(r, size, alignment) = size + u
            /\ BeforeNeeds(r, size, alignment) = size + v
            /\ region_size_alloc_after(r, size, alignment) = region[r].size - (size + u)
            /\ region_size_alloc_before(r, size, alignment) = region[r].size - (size + v)
<1> DEFINE d == 2^alignment
           u == (r + region[r].size - size) % d
           v == d - (r % d)
<1>1. d \in Nat \ {0}
  BY RequestAssumption
<1> HIDE DEF d
<1>2. r \in Int /\ r + region[r].size - size \in Int
  BY MachineAssumption DEF Addr
<1>3. u \in 0..(d - 1)
  BY <1>1, <1>2, Rounding
<1>4. r % d \in 0..(d - 1)
  BY <1>1, <1>2, Rounding
<1>5. v \in 1..d
  BY <1>1, <1>4
<1>6. size + d < Half
  BY DEF d
<1>7. /\ size + u \in 0..(Half - 1)
      /\ size + v \in 0..(Half - 1)
      /\ region[r].size \in 0..(Half - 1)
  BY <1>1, <1>3, <1>5, <1>6, MachineAssumption
<1>8. AfterNeeds(r, size, alignment) = size + u
  BY <1>7, ExactWords DEF AfterNeeds, alloc_after_unalignment, d, u
<1>9. BeforeNeeds(r, size, alignment) = size + v
  BY <1>7, ExactWords DEF BeforeNeeds, alloc_before_unalignment, d, v
<1>10. region_size_alloc_after(r, size, alignment) = region[r].size - (size + u)
  BY <1>7, <1>8, ExactWords DEF region_size_alloc_after
<1>11. region_size_alloc_before(r, size, alignment) = region[r].size - (size + v)
  BY <1>7, <1>9, ExactWords DEF region_size_alloc_before
<1> QED
  BY <1>1, <1>3, <1>5, <1>8, <1>9, <1>10, <1>11 DEF d

\* Unlinking a region that has no neighbours leaves every header alone.
LEMMA UnlinkAlone ==
  ASSUME NEW hdr \in [Addr -> Header], NEW r \in Addr,
         hdr[r].next = NULL, hdr[r].prev = NULL
  PROVE  Unlinked(hdr, r) = hdr
<1>1. \A a \in Addr : a # NULL
  BY MachineAssumption DEF Addr, NULL
<1>2. \A a \in Addr : hdr[a] = [next |-> hdr[a].next, prev |-> hdr[a].prev, size |-> hdr[a].size]
  BY DEF Header
<1>3. \A a \in Addr : Unlinked(hdr, r)[a] = hdr[a]
  BY <1>1, <1>2 DEF Unlinked
<1> QED
  BY <1>3 DEF Unlinked

\* Moving the header of a region that has no neighbours writes one header.
LEMMA MoveAlone ==
  ASSUME NEW hdr \in [Addr -> Header], NEW r \in Addr, NEW to \in Addr, NEW size,
         hdr[r].next = NULL, hdr[r].prev = NULL
  PROVE  Moved(hdr, r, to, size) =
           [hdr EXCEPT ![to] = [next |-> NULL, prev |-> NULL, size |-> size]]
<1>1. \A a \in Addr : a # NULL
  BY MachineAssumption DEF Addr, NULL
<1>2. \A a \in Addr : hdr[a] = [next |-> hdr[a].next, prev |-> hdr[a].prev, size |-> hdr[a].size]
  BY DEF Header
<1>3. \A a \in Addr :
        Moved(hdr, r, to, size)[a] =
          [hdr EXCEPT ![to] = [next |-> NULL, prev |-> NULL, size |-> size]][a]
  BY <1>1, <1>2 DEF Moved
<1> QED
  BY <1>3 DEF Moved
-----------------------------------------------------------------------------
(***************************************************************************)
(* The search and the cuts.                                                *)
(***************************************************************************)
\* The numbers of the request that is being served.
LEMMA RequestType ==
  ASSUME RequestInv
  PROVE  /\ req.size \in Nat /\ req.size \in 0..(Word - 1)
         /\ req.alignment \in Alignments /\ req.size + 2^req.alignment < Half
<1>1. req.size \in 0..(Word - 1)
  BY RequestAssumption DEF RequestInv
<1> QED
  BY <1>1, MachineAssumption DEF RequestInv, Word

\* One turn of the search loop weighs the region of the list.
LEMMA SearchStep ==
  ASSUME HeadInRam, RequestInv, SearchInv, Scan
  PROVE  /\ RequestInv' /\ SearchInv' /\ curr' = NULL
         /\ boot_free_list \in Addr
         /\ smallest_fit' \in {smallest_fit} \cup 0..(Word - 1)
         /\ smallest_fitting' \in {smallest_fitting, boot_free_list}
         /\ should_alloc_before' \in {should_alloc_before} \cup BOOLEAN
<1> DEFINE r == boot_free_list
<1>1. /\ curr = r /\ r # NULL
      /\ smallest_fitting = NULL /\ smallest_fit = Word - 1
      /\ UNCHANGED <<listVars, pc, req, err, history>>
  BY DEF Scan, SearchInv
<1>2. r \in Addr /\ region[r].size \in 0..Top /\ region[r].next = NULL
  BY <1>1 DEF HeadInRam
<1>3. /\ req.size \in Nat
      /\ req.alignment \in Alignments /\ req.size + 2^req.alignment < Half
  BY RequestType
<1>4. Greater(r) \in Int /\ Greater(r) <= Top
  <2> DEFINE d == 2^req.alignment
             u == (r + region[r].size - req.size) % d
             v == d - (r % d)
  <2>1. /\ d \in Nat /\ u \in 0..(d - 1) /\ v \in 1..d
        /\ After(r) = region[r].size - (req.size + u)
        /\ Before(r) = region[r].size - (req.size + v)
    BY <1>2, <1>3, SizesAreExact DEF After, Before
  <2> HIDE DEF d, u, v
  <2>2. u \in Nat /\ v \in Nat /\ region[r].size \in 0..Top /\ req.size \in Nat
    BY <1>2, <1>3, <2>1
  <2>3. /\ After(r) \in Int /\ After(r) <= Top
        /\ Before(r) \in Int /\ Before(r) <= Top
    BY <2>1, <2>2, MachineAssumption
  <2> QED
    BY <2>3 DEF Greater
<1>5. /\ region' = region /\ boot_free_list' = boot_free_list /\ req' = req
      /\ curr' = NULL
  BY <1>1, <1>2 DEF Scan, listVars
<1>6. RequestInv' /\ Greater(r)' = Greater(r) /\ After(r)' = After(r)
  BY <1>1, <1>5 DEF RequestInv, Greater, After, Before, region_size_alloc_after,
     region_size_alloc_before, AfterNeeds, BeforeNeeds, alloc_after_unalignment,
     alloc_before_unalignment
<1>7. CASE BetterFit(r)
  <2>1. /\ smallest_fit' = Greater(r) /\ smallest_fitting' = r
        /\ should_alloc_before' = (After(r) # Greater(r)) /\ Greater(r) >= 0
    BY <1>1, <1>7 DEF Scan, BetterFit
  <2>2. smallest_fit' \in 0..(Word - 1) /\ should_alloc_before' \in BOOLEAN
    BY <1>4, <2>1, MachineAssumption DEF Word
  <2>3. SearchInv'
    BY <1>1, <1>5, <1>6, <2>1 DEF SearchInv
  <2> QED
    BY <1>2, <1>5, <1>6, <2>1, <2>2, <2>3
<1>8. CASE ~BetterFit(r)
  <2>1. UNCHANGED <<smallest_fit, smallest_fitting, should_alloc_before>>
    BY <1>1, <1>8 DEF Scan
  <2>2. Greater(r) < 0
    BY <1>1, <1>4, <1>8, MachineAssumption DEF BetterFit, Word
  <2>3. SearchInv'
    BY <1>1, <1>5, <1>6, <2>1, <2>2 DEF SearchInv
  <2> QED
    BY <1>2, <1>5, <1>6, <2>1, <2>3
<1> QED
  BY <1>7, <1>8

\* alloc_after cuts an aligned block from the end of the region, at the cost
\* of u bytes behind it, and what is left keeps its header or is unlinked.
LEMMA AfterCut ==
  ASSUME HeadInRam, RequestInv, SearchInv, alloc_after
  PROVE  \E left \in 0..Top, u \in 0..(2^req.alignment - 1) :
           /\ boot_free_list # NULL
           /\ region[boot_free_list].size = left + req.size + u
           /\ (boot_free_list + left) % 2^req.alignment = 0
           /\ LET shrunk == [region EXCEPT ![boot_free_list].size = left]
              IN IF left < HeaderSize
                 THEN /\ region' = Unlinked(shrunk, boot_free_list)
                      /\ boot_free_list' = HeadWithout(boot_free_list)
                 ELSE region' = shrunk /\ boot_free_list' = boot_free_list
           /\ Return(boot_free_list + left)
<1> DEFINE r == boot_free_list
           s == region[r].size
           d == 2^req.alignment
           u == (r + s - req.size) % d
           left == s - (req.size + u)
<1>1. /\ smallest_fitting = r /\ r # NULL /\ ~should_alloc_before
  BY DEF SearchInv, alloc_after
<1>2. r \in Addr /\ s \in 0..Top /\ r + s - 1 <= Top
  BY <1>1 DEF HeadInRam
<1>3. /\ req.size \in Nat
      /\ req.alignment \in Alignments /\ req.size + 2^req.alignment < Half
  BY RequestType
<1>4. /\ d \in Nat \ {0}
      /\ u \in 0..(d - 1)
      /\ AfterNeeds(r, req.size, req.alignment) = req.size + u
      /\ After(r) = left
  BY <1>2, <1>3, SizesAreExact DEF After
<1>5. After(r) >= 0
  BY <1>1 DEF SearchInv
<1> HIDE DEF d, u
<1>6. left \in 0..Top /\ s = left + req.size + u
  <2>1. left >= 0 /\ u \in Nat /\ s \in 0..Top /\ req.size \in Nat
    BY <1>2, <1>3, <1>4, <1>5
  <2> HIDE DEF s
  <2> QED
    BY <2>1, MachineAssumption
<1>7. Wrap(s - AfterNeeds(r, req.size, req.alignment)) = left
  BY <1>4, <1>6, ExactWords, MachineAssumption
<1>8. Wrap(r + left) = r + left
  <2>1. /\ u \in Nat /\ r \in 1..Top /\ r + s - 1 <= Top
        /\ s \in 0..Top /\ req.size \in Nat
    BY <1>2, <1>3, <1>4 DEF Addr
  <2>2. r + left \in 0..(Top + 1)
    <3> HIDE DEF r, s, left
    <3> QED
      BY <1>6, <2>1, MachineAssumption
  <2> QED
    BY <2>2, ExactAddresses
<1>9. (r + left) % d = 0
  <2>1. r + left = (r + s - req.size) - u
    BY <1>2, <1>3, <1>4 DEF Addr
  <2>2. r + s - req.size \in Int
    BY <1>2, <1>3 DEF Addr
  <2> QED
    BY <2>1, <2>2, <1>4, Rounding DEF u
<1>10. /\ LET shrunk == [region EXCEPT ![r].size = left]
          IN IF left < HeaderSize
             THEN region' = Unlinked(shrunk, r) /\ boot_free_list' = HeadWithout(r)
             ELSE region' = shrunk /\ boot_free_list' = r
       /\ Return(r + left)
  BY <1>1, <1>7, <1>8 DEF alloc_after
<1>11. u \in 0..(2^req.alignment - 1) /\ (r + left) % 2^req.alignment = 0
  BY <1>4, <1>9 DEF d
<1> HIDE DEF left
<1> QED
  BY <1>1, <1>6, <1>10, <1>11

\* alloc_before cuts an aligned block from the start of the region, v bytes
\* in, and moves the header behind it or unlinks the region.
LEMMA BeforeCut ==
  ASSUME HeadInRam, RequestInv, SearchInv, alloc_before
  PROVE  \E left \in 0..Top, v \in 1..(2^req.alignment) :
           /\ boot_free_list # NULL
           /\ region[boot_free_list].size = left + req.size + v
           /\ (boot_free_list + v) % 2^req.alignment = 0
           /\ LET to == boot_free_list + v + req.size
              IN IF left < HeaderSize
                 THEN /\ region' = Unlinked(region, boot_free_list)
                      /\ boot_free_list' = HeadWithout(boot_free_list)
                 ELSE /\ to \in Addr
                      /\ region' = Moved(region, boot_free_list, to, left)
                      /\ boot_free_list' = HeadMoved(boot_free_list, to)
           /\ Return(boot_free_list + v)
<1> DEFINE r == boot_free_list
           s == region[r].size
           d == 2^req.alignment
           v == d - (r % d)
           used == BeforeNeeds(r, req.size, req.alignment)
           left == s - (req.size + v)
           to == r + v + req.size
<1>1. smallest_fitting = r /\ r # NULL /\ should_alloc_before
  BY DEF SearchInv, alloc_before
<1>2. r \in Addr /\ s \in 0..Top /\ r + s - 1 <= Top
  BY <1>1 DEF HeadInRam
<1>3. /\ req.size \in Nat
      /\ req.alignment \in Alignments /\ req.size + 2^req.alignment < Half
  BY RequestType
<1>4. /\ d \in Nat \ {0}
      /\ v \in 1..d
      /\ used = req.size + v
      /\ Before(r) = left
  BY <1>2, <1>3, SizesAreExact DEF Before
<1>5. Before(r) >= 0
  BY <1>1 DEF SearchInv, Greater
<1>6. v = alloc_before_unalignment(r, req.alignment)
  BY DEF alloc_before_unalignment
<1>7. r \in Int
  BY <1>2 DEF Addr
<1>8. (r + v) % d = 0
  BY <1>4, <1>7, Rounding
<1> HIDE DEF d, v, used
<1>9. left \in 0..Top /\ s = left + req.size + v
  <2>1. left >= 0 /\ v \in Nat /\ s \in 0..Top /\ req.size \in Nat
    BY <1>2, <1>3, <1>4, <1>5
  <2> HIDE DEF s
  <2> QED
    BY <2>1, MachineAssumption
<1>10. Wrap(s - used) = left
  BY <1>4, <1>9, ExactWords, MachineAssumption
<1>11. to + left = r + s /\ r + used = to
  BY <1>2, <1>3, <1>4, <1>9 DEF Addr
<1>12. Wrap(r + used) = to /\ Wrap(r + v) = r + v
  <2>1. /\ v \in Nat /\ r \in 1..Top /\ r + s - 1 <= Top
        /\ s \in 0..Top /\ req.size \in Nat
    BY <1>2, <1>3, <1>4 DEF Addr
  <2>2. r + used \in 0..(Top + 1) /\ r + v \in 0..(Top + 1)
    <3> HIDE DEF r, s, left
    <3> QED
      BY <1>4, <1>9, <2>1, MachineAssumption
  <2> QED
    BY <2>2, <1>11, ExactAddresses
<1>13. left >= HeaderSize => to \in Addr
  BY <1>2, <1>3, <1>4, <1>9, <1>11, MachineAssumption DEF Addr
<1>14. left < HeaderSize \/ left >= HeaderSize
  BY <1>9, MachineAssumption
<1>15. /\ IF left < HeaderSize
          THEN region' = Unlinked(region, r) /\ boot_free_list' = HeadWithout(r)
          ELSE region' = Moved(region, r, to, left) /\ boot_free_list' = HeadMoved(r, to)
       /\ Return(r + v)
  BY <1>1, <1>6, <1>10, <1>12 DEF alloc_before, used
<1>16. v \in 1..(2^req.alignment) /\ (r + v) % 2^req.alignment = 0
  BY <1>4, <1>8 DEF d
<1>17. to = r + v + req.size
  OBVIOUS
<1> HIDE DEF left, to
<1> QED
  BY <1>1, <1>9, <1>13, <1>14, <1>15, <1>16, <1>17
=============================================================================
