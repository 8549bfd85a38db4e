--------------------------- MODULE FreeListProofs ---------------------------
(***************************************************************************)
(* The boot allocator is sound for every size of RAM, header, word and     *)
(* request, as long as its clients avoid the calls it does not support.    *)
(***************************************************************************)
EXTENDS FreeListClients, FreeListLemmas, FiniteSetTheorems, TLAPS

(***************************************************************************)
(* The inductive invariant.  ListSound and NoOverlap speak of states       *)
(* between calls; what the search loop has found so far connects them.     *)
(***************************************************************************)
ScanInv == pc = "scan" => RequestInv /\ SearchInv

IInv ==
  /\ AllocTypeOK
  /\ pc # "trap"
  /\ AtMostOneRegion
  /\ ListSound
  /\ NoOverlap
  /\ ScanInv

-----------------------------------------------------------------------------
(***************************************************************************)
(* The list has one region, which no other is linked to.                   *)
(***************************************************************************)
\* The region of the list lies inside RAM and is linked to nothing.
LEMMA HeadRegion ==
  ASSUME AllocTypeOK, AtMostOneRegion, ListSound, boot_free_list # NULL
  PROVE  /\ boot_free_list \in Addr
         /\ region[boot_free_list].size \in HeaderSize..Top
         /\ boot_free_list + region[boot_free_list].size - 1 <= Top
         /\ region[boot_free_list].next = NULL
         /\ region[boot_free_list].prev = NULL
         /\ Bytes(boot_free_list, region[boot_free_list].size) \subseteq pool
<1>1. boot_free_list \in Addr /\ region[boot_free_list] \in Header
  BY DEF AllocTypeOK
<1>2. /\ region[boot_free_list].size \in 0..(Word - 1)
      /\ region[boot_free_list].size >= HeaderSize
  BY <1>1 DEF Header, ListSound
<1>3. boot_free_list + region[boot_free_list].size - 1 \in
        Bytes(boot_free_list, region[boot_free_list].size)
  BY <1>1, <1>2, MachineAssumption DEF Bytes, Addr, Word
<1>4. Bytes(boot_free_list, region[boot_free_list].size) \subseteq pool
  BY DEF ListSound, ListBytes
<1>5. boot_free_list + region[boot_free_list].size - 1 \in Addr
  BY <1>3, <1>4 DEF AllocTypeOK
<1> QED
  BY <1>1, <1>2, <1>4, <1>5, MachineAssumption DEF AtMostOneRegion, ListSound, Addr, Word

\* So the head is where the lemmas about the search and the cuts want it.
LEMMA InRam ==
  ASSUME IInv
  PROVE  HeadInRam
<1>1. \A n \in HeaderSize..Top : n \in 0..Top
  BY MachineAssumption
<1> QED
  BY <1>1, HeadRegion DEF IInv, HeadInRam

\* alloc_after cuts an aligned block from the end of the region, at the cost
\* of u bytes behind it, and what is left starts with its header or is dropped.
LEMMA CutAfter ==
  ASSUME IInv, alloc_after
  PROVE  \E left \in 0..Top, u \in 0..(2^req.alignment - 1) :
           /\ boot_free_list # NULL
           /\ region[boot_free_list].size = left + req.size + u
           /\ (boot_free_list + left) % 2^req.alignment = 0
           /\ region' = [region EXCEPT ![boot_free_list].size = left]
           /\ boot_free_list' = IF left < HeaderSize THEN NULL ELSE boot_free_list
           /\ Return(boot_free_list + left)
<1> DEFINE r == boot_free_list
<1>1. HeadInRam /\ RequestInv /\ SearchInv
  BY InRam DEF IInv, ScanInv, alloc_after
<1>2. PICK left \in 0..Top, u \in 0..(2^req.alignment - 1) :
        /\ r # NULL
        /\ region[r].size = left + req.size + u
        /\ (r + left) % 2^req.alignment = 0
        /\ LET shrunk == [region EXCEPT ![r].size = left]
           IN IF left < HeaderSize
              THEN region' = Unlinked(shrunk, r) /\ boot_free_list' = HeadWithout(r)
              ELSE region' = shrunk /\ boot_free_list' = r
        /\ Return(r + left)
  BY <1>1, AfterCut
<1> DEFINE shrunk == [region EXCEPT ![r].size = left]
<1>3. r \in Addr /\ region[r].next = NULL /\ region[r].prev = NULL
  BY <1>2, HeadRegion DEF IInv
<1>4. shrunk \in [Addr -> Header] /\ shrunk[r].next = NULL /\ shrunk[r].prev = NULL
  <2>1. region \in [Addr -> Header] /\ left \in 0..(Word - 1)
    BY MachineAssumption DEF IInv, AllocTypeOK, Word
  <2> QED
    BY <1>3, <2>1 DEF Header
<1>5. Unlinked(shrunk, r) = shrunk /\ HeadWithout(r) = NULL
  BY <1>3, <1>4, UnlinkAlone DEF HeadWithout
<1> QED
  BY <1>2, <1>5

\* alloc_before cuts an aligned block from the start of the region, v bytes
\* in, and moves the header behind it or drops what is left.
LEMMA CutBefore ==
  ASSUME IInv, alloc_before
  PROVE  \E left \in 0..Top, v \in 1..(2^req.alignment) :
           /\ boot_free_list # NULL
           /\ region[boot_free_list].size = left + req.size + v
           /\ (boot_free_list + v) % 2^req.alignment = 0
           /\ IF left < HeaderSize
              THEN region' = region /\ boot_free_list' = NULL
              ELSE /\ boot_free_list' = boot_free_list + v + req.size
                   /\ boot_free_list' \in Addr
                   /\ region' = [region EXCEPT ![boot_free_list'] =
                                   [next |-> NULL, prev |-> NULL, size |-> left]]
           /\ Return(boot_free_list + v)
<1> DEFINE r == boot_free_list
<1>1. HeadInRam /\ RequestInv /\ SearchInv
  BY InRam DEF IInv, ScanInv, alloc_before
<1>2. PICK left \in 0..Top, v \in 1..(2^req.alignment) :
        /\ r # NULL
        /\ region[r].size = left + req.size + v
        /\ (r + v) % 2^req.alignment = 0
        /\ LET to == r + v + req.size
           IN IF left < HeaderSize
              THEN region' = Unlinked(region, r) /\ boot_free_list' = HeadWithout(r)
              ELSE /\ to \in Addr
                   /\ region' = Moved(region, r, to, left)
                   /\ boot_free_list' = HeadMoved(r, to)
        /\ Return(r + v)
  BY <1>1, BeforeCut
<1>3. /\ r \in Addr /\ region[r].next = NULL /\ region[r].prev = NULL
      /\ region \in [Addr -> Header]
  BY <1>2, HeadRegion DEF IInv, AllocTypeOK
<1>4. /\ Unlinked(region, r) = region /\ HeadWithout(r) = NULL
      /\ HeadMoved(r, r + v + req.size) = r + v + req.size
  BY <1>3, UnlinkAlone DEF HeadWithout, HeadMoved
<1>5. CASE left < HeaderSize
  BY <1>2, <1>4, <1>5
<1>6. CASE ~(left < HeaderSize)
  <2> DEFINE to == r + v + req.size
  <2>1. /\ to \in Addr /\ boot_free_list' = to
        /\ region' = Moved(region, r, to, left)
    BY <1>2, <1>4, <1>6
  <2> HIDE DEF to
  <2>2. region' = [region EXCEPT ![to] = [next |-> NULL, prev |-> NULL, size |-> left]]
    BY <1>3, <2>1, MoveAlone
  <2> QED
    BY <1>2, <1>6, <2>1, <2>2 DEF to
<1> QED
  BY <1>5, <1>6

-----------------------------------------------------------------------------
(***************************************************************************)
(* The invariant is inductive: one lemma per call of the allocator.        *)
(***************************************************************************)
\* A block cut from the pool overlaps no other block.
LEMMA HandOut ==
  ASSUME AllocTypeOK, NoOverlap,
         NEW ptr \in 1..(Top + 1),
         Bytes(ptr, req.size) \subseteq pool,
         Return(ptr)
  PROVE  NoOverlap' /\ pool' \subseteq Addr /\ live' \subseteq Block
<1> DEFINE new == [start |-> ptr, size |-> req.size]
<1>1. /\ pool' = pool \ Bytes(ptr, req.size)
      /\ live' = live \cup {new}
  BY DEF Return
<1>2. new \in Block /\ BlockBytes(new) = Bytes(ptr, req.size)
  BY DEF Block, BlockBytes, AllocTypeOK
<1> HIDE DEF new
<1>3. \A b \in live : BlockBytes(b) \cap BlockBytes(new) = {}
  BY <1>2 DEF NoOverlap
<1>4. \A b, c \in live' : b # c => BlockBytes(b) \cap BlockBytes(c) = {}
  BY <1>1, <1>3 DEF NoOverlap
<1>5. \A b \in live' : BlockBytes(b) \cap pool' = {}
  BY <1>1, <1>2 DEF NoOverlap
<1>6. NoOverlap'
  BY <1>4, <1>5 DEF NoOverlap, BlockBytes, Bytes
<1> QED
  BY <1>1, <1>2, <1>6 DEF AllocTypeOK

\* alloc_after preserves the invariant.
LEMMA AfterPreserves ==
  ASSUME IInv, alloc_after
  PROVE  IInv'
<1> DEFINE r == boot_free_list
           s == region[r].size
<1>1. PICK left \in 0..Top, u \in 0..(2^req.alignment - 1) :
        /\ r # NULL
        /\ s = left + req.size + u
        /\ (r + left) % 2^req.alignment = 0
        /\ region' = [region EXCEPT ![r].size = left]
        /\ boot_free_list' = IF left < HeaderSize THEN NULL ELSE r
        /\ Return(r + left)
  BY CutAfter
<1>2. /\ r \in 1..Top /\ s \in HeaderSize..Top /\ r + s - 1 <= Top
      /\ region[r].next = NULL /\ region[r].prev = NULL
      /\ Bytes(r, s) \subseteq pool
  BY <1>1, HeadRegion DEF IInv, Addr
<1>3. req.size \in Nat /\ u \in Nat /\ left \in Nat /\ Top \in Nat
  <2>1. req.size \in 0..(Word - 1)
    BY DEF IInv, AllocTypeOK
  <2>2. 2^req.alignment \in Nat
    BY RequestAssumption DEF IInv, ScanInv, RequestInv, alloc_after
  <2> QED
    BY <2>1, <2>2, MachineAssumption DEF Word
<1> HIDE DEF r, s
<1>4. /\ r + left \in 1..(Top + 1)
      /\ Bytes(r + left, req.size) \subseteq Bytes(r, s)
      /\ Bytes(r, left) \subseteq Bytes(r, s)
      /\ Bytes(r, left) \cap Bytes(r + left, req.size) = {}
  <2>1. s = left + req.size + u
    BY <1>1
  <2> QED
    BY <1>2, <1>3, <2>1 DEF Bytes
<1>5. NoOverlap' /\ pool' \subseteq Addr /\ live' \subseteq Block
  <2>1. Return(r + left) /\ AllocTypeOK /\ NoOverlap
    BY <1>1 DEF IInv
  <2>2. Bytes(r + left, req.size) \subseteq pool
    BY <1>2, <1>4
  <2> QED
    BY <1>4, <2>1, <2>2, HandOut
<1>6. pc' = "idle" /\ UNCHANGED <<locals, err>> /\ pool' = pool \ Bytes(r + left, req.size)
  BY <1>1 DEF Return
<1>7. region' \in [Addr -> Header]
  <2>1. left \in 0..(Word - 1) /\ region \in [Addr -> Header]
    BY <1>3, MachineAssumption DEF IInv, AllocTypeOK, Word
  <2>2. region' = [region EXCEPT ![r].size = left]
    BY <1>1
  <2> QED
    BY <1>2, <2>1, <2>2 DEF Header, Addr
<1>8. boot_free_list' # NULL =>
        /\ boot_free_list' = r /\ r \in Addr
        /\ region'[r].next = NULL /\ region'[r].prev = NULL
        /\ region'[r].size = left
        /\ left >= HeaderSize
  <2>1. region \in [Addr -> Header] /\ r \in Addr
    BY <1>2 DEF IInv, AllocTypeOK, Addr
  <2>2. boot_free_list' = IF left < HeaderSize THEN NULL ELSE r
    BY <1>1
  <2>3. region' = [region EXCEPT ![r].size = left]
    BY <1>1
  <2> QED
    BY <1>2, <1>3, <2>1, <2>2, <2>3, MachineAssumption DEF Header
<1>9. AllocTypeOK'
  BY <1>5, <1>6, <1>7, <1>8 DEF IInv, AllocTypeOK, locals
<1>10. AtMostOneRegion' /\ ListSound'
  <2>1. Bytes(r, left) \subseteq pool'
    BY <1>2, <1>4, <1>6
  <2> QED
    BY <1>8, <2>1 DEF AtMostOneRegion, ListSound, ListBytes, Bytes
<1> QED
  BY <1>5, <1>6, <1>9, <1>10 DEF IInv, ScanInv

\* alloc_before preserves the invariant.
LEMMA BeforePreserves ==
  ASSUME IInv, alloc_before
  PROVE  IInv'
<1> DEFINE r == boot_free_list
           s == region[r].size
<1>1. PICK left \in 0..Top, v \in 1..(2^req.alignment) :
        /\ r # NULL
        /\ s = left + req.size + v
        /\ (r + v) % 2^req.alignment = 0
        /\ IF left < HeaderSize
           THEN region' = region /\ boot_free_list' = NULL
           ELSE /\ boot_free_list' = r + v + req.size
                /\ boot_free_list' \in Addr
                /\ region' = [region EXCEPT ![boot_free_list'] =
                                [next |-> NULL, prev |-> NULL, size |-> left]]
        /\ Return(r + v)
  BY CutBefore
<1>2. /\ r \in 1..Top /\ s \in HeaderSize..Top /\ r + s - 1 <= Top
      /\ Bytes(r, s) \subseteq pool
  BY <1>1, HeadRegion DEF IInv, Addr
<1>3. req.size \in Nat /\ v \in Nat /\ left \in Nat /\ Top \in Nat
  <2>1. req.size \in 0..(Word - 1)
    BY DEF IInv, AllocTypeOK
  <2>2. 2^req.alignment \in Nat
    BY RequestAssumption DEF IInv, ScanInv, RequestInv, alloc_before
  <2> QED
    BY <2>1, <2>2, MachineAssumption DEF Word
<1> HIDE DEF r, s
<1>4. /\ r + v \in 1..(Top + 1)
      /\ Bytes(r + v, req.size) \subseteq Bytes(r, s)
      /\ Bytes(r + v + req.size, left) \subseteq Bytes(r, s)
      /\ Bytes(r + v + req.size, left) \cap Bytes(r + v, req.size) = {}
  <2>1. s = left + req.size + v
    BY <1>1
  <2> QED
    BY <1>2, <1>3, <2>1 DEF Bytes
<1>5. NoOverlap' /\ pool' \subseteq Addr /\ live' \subseteq Block
  <2>1. Return(r + v) /\ AllocTypeOK /\ NoOverlap
    BY <1>1 DEF IInv
  <2>2. Bytes(r + v, req.size) \subseteq pool
    BY <1>2, <1>4
  <2> QED
    BY <1>4, <2>1, <2>2, HandOut
<1>6. pc' = "idle" /\ UNCHANGED <<locals, err>> /\ pool' = pool \ Bytes(r + v, req.size)
  BY <1>1 DEF Return
<1>7. CASE left < HeaderSize
  <2>1. region' = region /\ boot_free_list' = NULL
    BY <1>1, <1>7
  <2>2. AllocTypeOK'
    BY <1>5, <1>6, <2>1 DEF IInv, AllocTypeOK, locals
  <2>3. AtMostOneRegion' /\ ListSound'
    BY <2>1 DEF AtMostOneRegion, ListSound
  <2> QED
    BY <1>5, <1>6, <2>2, <2>3 DEF IInv, ScanInv
<1>8. CASE ~(left < HeaderSize)
  <2> DEFINE to == r + v + req.size
             header == [next |-> NULL, prev |-> NULL, size |-> left]
  <2>1. boot_free_list' = to /\ to \in Addr /\ region' = [region EXCEPT ![to] = header]
    BY <1>1, <1>8
  <2>2. header \in Header
    BY <1>3, MachineAssumption DEF Header, Word
  <2>3. Bytes(to, left) \subseteq pool'
    BY <1>2, <1>4, <1>6
  <2> HIDE DEF to
  <2>4. region' \in [Addr -> Header] /\ region'[to] = header
    BY <2>1, <2>2 DEF IInv, AllocTypeOK
  <2>5. AllocTypeOK'
    BY <1>5, <1>6, <2>1, <2>4 DEF IInv, AllocTypeOK, locals
  <2>6. AtMostOneRegion' /\ ListSound'
    BY <1>3, <1>8, <2>1, <2>3, <2>4, MachineAssumption
       DEF AtMostOneRegion, ListSound, ListBytes, Bytes
  <2> QED
    BY <1>5, <1>6, <2>5, <2>6 DEF IInv, ScanInv
<1> QED
  BY <1>7, <1>8

\* One turn of the search loop preserves the invariant.
LEMMA ScanPreserves ==
  ASSUME IInv, Scan
  PROVE  IInv'
<1>1. HeadInRam /\ RequestInv /\ SearchInv /\ pc = "scan"
  BY InRam DEF Scan, IInv, ScanInv
<1>2. /\ RequestInv' /\ SearchInv' /\ curr' = NULL
      /\ boot_free_list \in Addr
      /\ smallest_fit' \in {smallest_fit} \cup 0..(Word - 1)
      /\ smallest_fitting' \in {smallest_fitting, boot_free_list}
      /\ should_alloc_before' \in {should_alloc_before} \cup BOOLEAN
  BY <1>1, SearchStep
<1>3. /\ region' = region /\ boot_free_list' = boot_free_list /\ req' = req
      /\ pc' = pc /\ err' = err /\ pool' = pool /\ live' = live
  BY DEF Scan, listVars, history
<1>4. AtMostOneRegion' /\ ListSound' /\ NoOverlap'
  BY <1>3 DEF IInv, AtMostOneRegion, ListSound, NoOverlap, ListBytes, BlockBytes, Bytes
<1>5. AllocTypeOK'
  BY <1>2, <1>3 DEF IInv, AllocTypeOK
<1> QED
  BY <1>1, <1>2, <1>3, <1>4, <1>5 DEF IInv, ScanInv

\* Of the calls that avoid the hazards, boot_free links the block as the only
\* region of an empty list or leaves the list as it is.
LEMMA DisciplinedFree ==
  ASSUME Avoid = AllHazards, IInv,
         NEW start \in Addr, NEW size \in 1..Top, ClientFree(start, size)
  PROVE  /\ pc = "idle"
         /\ \/ FreeFirst(start, size)
            \/ /\ err' \in {"KERR_SUCCESS", "KERR_EXIST", "KERR_EMPTY"}
               /\ UNCHANGED <<listVars, pc, locals, history>>
<1>1. FreeHazards(start, size) = {}
  BY DEF ClientFree, FreeHazards
<1>2. boot_free_list # NULL => start # curr_end
  BY <1>1 DEF FreeHazards, AllHazards
<1>3. boot_free_list # NULL => ~(start + size < boot_free_list)
  BY <1>1 DEF FreeHazards, AllHazards, BelowHead
<1>4. ~FreeMerge(start, size)
  BY <1>2 DEF FreeMerge
<1>5. ~FreeBelow(start, size) /\ ~FreeBelowTraps(start, size)
  <2>1. boot_free_list \in Int /\ start \in Int /\ size \in Int
    BY MachineAssumption DEF IInv, AllocTypeOK, Addr, NULL
  <2> QED
    BY <1>3, <2>1 DEF FreeBelow, FreeBelowTraps
<1> QED
  BY <1>4, <1>5 DEF ClientFree, boot_free, FreeTooSmall, FreeRefused, Refuse

\* boot_free preserves the invariant.
LEMMA FreePreserves ==
  ASSUME Avoid = AllHazards, IInv,
         NEW start \in Addr, NEW size \in 1..Top, ClientFree(start, size)
  PROVE  IInv'
<1>1. CASE FreeFirst(start, size)
  <2> DEFINE new == [next |-> NULL, prev |-> NULL, size |-> size]
             given == [start |-> start, size |-> size]
  <2>1. /\ region' = [region EXCEPT ![start] = new] /\ boot_free_list' = start
        /\ err' = "KERR_SUCCESS"
        /\ pool' = pool \cup Bytes(start, size)
        /\ live' = live \ {given}
        /\ UNCHANGED <<pc, locals>> /\ size >= HeaderSize
    BY <1>1 DEF FreeFirst, Accept
  <2>2. pc = "idle" /\ pc' = "idle"
    BY <2>1, DisciplinedFree
  <2>3. region' \in [Addr -> Header] /\ region'[start] = new
    <3>1. new \in Header
      BY MachineAssumption DEF Header, Word
    <3> QED
      BY <2>1, <3>1 DEF IInv, AllocTypeOK
  <2>4. Bytes(start, size) \subseteq Addr
    BY MachineAssumption DEF ClientFree, Permitted, Bytes, Addr
  <2>5. AllocTypeOK'
    BY <2>1, <2>2, <2>3, <2>4 DEF IInv, AllocTypeOK, locals
  <2>6. AtMostOneRegion' /\ ListSound'
    BY <2>1, <2>3 DEF AtMostOneRegion, ListSound, ListBytes, Bytes
  <2>7. \A b \in live' : BlockBytes(b) \cap Bytes(start, size) = {}
    BY <2>1 DEF ClientFree, Permitted
  <2>8. \A b \in live' : BlockBytes(b) \cap pool' = {}
    BY <2>1, <2>7 DEF IInv, NoOverlap
  <2>9. NoOverlap'
    BY <2>1, <2>8 DEF IInv, NoOverlap, BlockBytes, Bytes
  <2> QED
    BY <2>2, <2>5, <2>6, <2>9 DEF IInv, ScanInv
<1>2. CASE /\ err' \in {"KERR_SUCCESS", "KERR_EXIST", "KERR_EMPTY"}
           /\ UNCHANGED <<listVars, pc, locals, history>>
  <2>1. pc' = "idle"
    BY <1>2, DisciplinedFree
  <2> QED
    BY <1>2, <2>1 DEF IInv, AllocTypeOK, AtMostOneRegion, ListSound, NoOverlap, ScanInv,
       ListBytes, BlockBytes, Bytes, listVars, locals, history
<1> QED
  BY <1>1, <1>2, DisciplinedFree

\* The call of boot_alloc preserves the invariant.
LEMMA CallPreserves ==
  ASSUME Avoid = AllHazards, IInv,
         NEW size \in AllocSizes, NEW alignment \in Alignments, ClientAlloc(size, alignment)
  PROVE  IInv'
<1>1. size + 2^alignment < Half
  <2>1. ~(size + 2^alignment >= Half)
    BY DEF ClientAlloc, AllocHazards, AllHazards
  <2>2. size \in Nat /\ 2^alignment \in Nat /\ Half \in Nat
    BY RequestAssumption, MachineAssumption DEF Word
  <2> QED
    BY <2>1, <2>2
<1>2. /\ pc' = "scan" /\ req' = [size |-> size, alignment |-> alignment]
      /\ curr' = boot_free_list /\ smallest_fitting' = NULL /\ smallest_fit' = Word - 1
      /\ should_alloc_before' = FALSE
      /\ region' = region /\ boot_free_list' = boot_free_list /\ err' = err
      /\ pool' = pool /\ live' = live
  BY DEF ClientAlloc, boot_alloc, listVars, history
<1>3. RequestInv'
  BY <1>1, <1>2 DEF RequestInv
<1>4. SearchInv'
  BY <1>2 DEF SearchInv
<1>5. AllocTypeOK'
  <2>1. Word - 1 \in 0..(Word - 1) /\ size \in 0..(Word - 1) /\ alignment \in Nat
    BY MachineAssumption, RequestAssumption DEF Word
  <2> QED
    BY <1>2, <2>1 DEF IInv, AllocTypeOK
<1>6. AtMostOneRegion' /\ ListSound' /\ NoOverlap'
  BY <1>2 DEF IInv, AtMostOneRegion, ListSound, NoOverlap, ListBytes, BlockBytes, Bytes
<1> QED
  BY <1>2, <1>3, <1>4, <1>5, <1>6 DEF IInv, ScanInv

\* The initial state satisfies the invariant.
LEMMA InitEstablishes == AllocInit => IInv
<1> SUFFICES ASSUME AllocInit PROVE IInv
  OBVIOUS
<1>1. 0 \in 0..(Word - 1) /\ 0 \in Nat
  BY MachineAssumption DEF Word
<1>2. region \in [Addr -> Header]
  BY <1>1 DEF AllocInit, Header
<1>3. req \in [size: 0..(Word - 1), alignment: Nat]
  BY <1>1 DEF AllocInit
<1>4. AllocTypeOK
  BY <1>1, <1>2, <1>3 DEF AllocInit, AllocTypeOK
<1> QED
  BY <1>4 DEF AllocInit, IInv, AtMostOneRegion, ListSound, NoOverlap, ScanInv

\* Every step of the system preserves the invariant.
LEMMA NextPreserves ==
  ASSUME Avoid = AllHazards, IInv, [Next]_allocVars
  PROVE  IInv'
<1>1. CASE UNCHANGED allocVars
  BY <1>1 DEF IInv, AllocTypeOK, AtMostOneRegion, ListSound, NoOverlap, ScanInv, RequestInv,
     SearchInv, ListBytes, BlockBytes, Bytes, Greater, After, Before, region_size_alloc_after,
     region_size_alloc_before, AfterNeeds, BeforeNeeds, alloc_after_unalignment,
     alloc_before_unalignment, allocVars, listVars, locals, history
<1>2. ASSUME NEW start \in Addr, NEW size \in 1..Top, ClientFree(start, size)
      PROVE  IInv'
  BY <1>2, FreePreserves
<1>3. ASSUME NEW size \in AllocSizes, NEW alignment \in Alignments,
             ClientAlloc(size, alignment)
      PROVE  IInv'
  BY <1>3, CallPreserves
<1>4. CASE Scan
  BY <1>4, ScanPreserves
<1>5. CASE AllocFails
  BY <1>5 DEF AllocFails, IInv, AllocTypeOK, AtMostOneRegion, ListSound, NoOverlap, ScanInv,
     ListBytes, BlockBytes, Bytes, listVars, locals, history
<1>6. CASE alloc_after
  BY <1>6, AfterPreserves
<1>7. CASE alloc_before
  BY <1>7, BeforePreserves
<1> QED
  BY <1>1, <1>2, <1>3, <1>4, <1>5, <1>6, <1>7 DEF Next, AllocStep

\* The block that starts i bytes into the region of the list is memory the
\* allocator owns.
InsideHead(i) ==
  /\ boot_free_list + i \in 1..(Top + 1)
  /\ Bytes(boot_free_list + i, req.size) \subseteq pool

\* Cutting a region at i keeps the block inside the region.
LEMMA InsideHeadLemma ==
  ASSUME IInv, boot_free_list # NULL, NEW i \in Nat, NEW j \in Nat,
         region[boot_free_list].size = i + req.size + j
  PROVE  InsideHead(i)
<1> DEFINE r == boot_free_list
           s == region[r].size
<1>1. /\ r \in 1..Top /\ s \in HeaderSize..Top /\ r + s - 1 <= Top
      /\ Bytes(r, s) \subseteq pool
  BY HeadRegion DEF IInv, Addr
<1>2. req.size \in Nat
  BY MachineAssumption DEF IInv, AllocTypeOK, Word
<1>3. s = i + req.size + j
  OBVIOUS
<1> HIDE DEF r, s
<1>4. /\ r + i \in 1..(Top + 1)
      /\ Bytes(r + i, req.size) \subseteq Bytes(r, s)
  BY <1>1, <1>2, <1>3, MachineAssumption DEF Bytes
<1> QED
  BY <1>1, <1>4 DEF InsideHead, r

-----------------------------------------------------------------------------
(***************************************************************************)
(* The theorems, for clients that avoid the four hazards.                  *)
(***************************************************************************)
\* Every reachable state of the allocator satisfies the inductive invariant.
THEOREM Invariance ==
  ASSUME Avoid = AllHazards
  PROVE  Spec => []IInv
<1>1. AllocInit => IInv
  BY InitEstablishes
<1>2. IInv /\ [Next]_allocVars => IInv'
  BY NextPreserves
<1> QED
  BY <1>1, <1>2, PTL DEF Spec

\* Every variable of the allocator keeps its type.
THEOREM TypeCorrect ==
  ASSUME Avoid = AllHazards
  PROVE  Spec => []AllocTypeOK
<1>1. IInv => AllocTypeOK
  BY DEF IInv
<1> QED
  BY <1>1, Invariance, PTL

\* The list only offers memory the allocator owns, whatever the clients did.
THEOREM ListIsSound ==
  ASSUME Avoid = AllHazards
  PROVE  Spec => [](ListSound /\ AtMostOneRegion)
<1>1. IInv => ListSound /\ AtMostOneRegion
  BY DEF IInv
<1> QED
  BY <1>1, Invariance, PTL

\* boot_alloc never gives the same byte to two clients.
THEOREM BlocksDisjoint ==
  ASSUME Avoid = AllHazards
  PROVE  Spec => []NoOverlap
<1>1. IInv => NoOverlap
  BY DEF IInv
<1> QED
  BY <1>1, Invariance, PTL

\* The three assert(boot_free_list == region) of free_list.c never fail.
THEOREM NoAssertionFails ==
  ASSUME Avoid = AllHazards
  PROVE  Spec => []AssertionsHold
<1>1. IInv => AssertionsHold
  BY DEF IInv, ScanInv, SearchInv, AssertionsHold
<1> QED
  BY <1>1, Invariance, PTL

\* Looking at the two ends of a region is enough: if boot_alloc returns NULL,
\* no aligned placement of the request in the list exists.
THEOREM FailureIsJustified ==
  ASSUME Avoid = AllHazards
  PROVE  Spec => []FailsOnlyIfNothingFits
<1>1. ASSUME IInv PROVE FailsOnlyIfNothingFits
  <2> DEFINE r == boot_free_list
             s == region[r].size
             d == 2^req.alignment
             u == (r + s - req.size) % d
  <2> SUFFICES ASSUME pc = "scan", curr = NULL, smallest_fitting = NULL, r # NULL,
                      NEW p \in r..(r + s - req.size), p % d = 0
               PROVE  FALSE
    BY DEF FailsOnlyIfNothingFits, Fits
  <2>1. Greater(r) < 0 /\ RequestInv
    BY <1>1 DEF IInv, ScanInv, SearchInv
  <2>2. r \in Addr /\ s \in HeaderSize..Top
    BY <1>1, HeadRegion DEF IInv
  <2>3. /\ s \in 0..Top /\ req.size \in Nat
        /\ req.alignment \in Alignments /\ req.size + 2^req.alignment < Half
    <3>1. req.size \in 0..(Word - 1)
      BY <1>1 DEF IInv, AllocTypeOK
    <3> QED
      BY <2>1, <2>2, <3>1, MachineAssumption DEF RequestInv, Word
  <2>4. /\ d \in Nat \ {0} /\ u \in 0..(d - 1)
        /\ After(r) = s - (req.size + u)
        /\ Before(r) = s - (req.size + (d - (r % d)))
        /\ d - (r % d) \in 1..d
    BY <2>2, <2>3, SizesAreExact DEF After, Before
  <2>5. After(r) < 0
    <3>1. After(r) \in Int /\ Before(r) \in Int
      BY <2>3, <2>4, MachineAssumption
    <3> QED
      BY <2>1, <3>1 DEF Greater
  <2>6. r \in Int /\ r + s - req.size \in Int /\ p \in Int /\ p <= r + s - req.size /\ r <= p
    BY <2>2, <2>3, MachineAssumption DEF Addr
  <2>7. p <= (r + s - req.size) - u
    <3> HIDE DEF r, s, d
    <3> QED
      BY <2>4, <2>6, RoundingIsTight
  <2> HIDE DEF r, s, u, d
  <2>8. u \in Nat /\ s \in 0..Top /\ req.size \in Nat
    BY <2>3, <2>4
  <2>9. s - (req.size + u) < 0
    BY <2>4, <2>5
  <2> QED
    BY <2>6, <2>7, <2>8, <2>9, MachineAssumption
<1> QED
  BY <1>1, Invariance, PTL

\* The free list implements what the header promises: it hands out only what
\* it owns, aligned as asked, and owns only what it was given.
THEOREM Refinement ==
  ASSUME Avoid = AllHazards
  PROVE  Spec => ImplementsBootAlloc
<1> DEFINE asked == IF pc = "scan" THEN {req} ELSE {}
<1>1. AllocInit => Promise!Init
  BY DEF AllocInit, Promise!Init
<1>2. ASSUME IInv, [Next]_allocVars
      PROVE  [Promise!Next]_<<pool, live, asked>>
  <2>1. CASE UNCHANGED <<history, pc, req>>
    BY <2>1 DEF history
  <2>2. ASSUME NEW start \in Addr, NEW size \in 1..Top, ClientFree(start, size)
        PROVE  [Promise!Next]_<<pool, live, asked>>
    <3>1. CASE FreeFirst(start, size)
      <4>1. Promise!boot_free(start, size)
        BY <2>2, <3>1 DEF FreeFirst, Accept, ClientFree, Permitted, boot_free, locals,
           Promise!boot_free, Promise!Bytes, Bytes
      <4> QED
        BY <2>2, <4>1 DEF Promise!Next, Addr
    <3>2. CASE UNCHANGED <<listVars, pc, locals, history>>
      BY <2>1, <3>2 DEF history, locals
    <3> QED
      BY <1>2, <2>2, <3>1, <3>2, DisciplinedFree
  <2>3. ASSUME NEW ptr \in 1..(Top + 1), pc = "scan", ptr % 2^req.alignment = 0,
               Bytes(ptr, req.size) \subseteq pool, Return(ptr)
        PROVE  Promise!Next
    <3>1. req \in asked /\ asked' = {}
      BY <2>3 DEF Return
    <3>2. Promise!Grant(req, ptr)
      BY <2>3, <3>1 DEF Return, Promise!Grant, Promise!Bytes, Bytes
    <3> QED
      BY <2>3, <3>1, <3>2 DEF Promise!Next
  <2>4. CASE alloc_after
    <3>1. PICK left \in 0..Top, u \in 0..(2^req.alignment - 1) :
            /\ boot_free_list # NULL
            /\ region[boot_free_list].size = left + req.size + u
            /\ (boot_free_list + left) % 2^req.alignment = 0
            /\ Return(boot_free_list + left)
      BY <1>2, <2>4, CutAfter
    <3>2. InsideHead(left)
      <4>1. left \in Nat /\ u \in Nat
        BY <1>2, <2>4, MachineAssumption, RequestAssumption
           DEF IInv, ScanInv, RequestInv, alloc_after
      <4> QED
        BY <1>2, <3>1, <4>1, InsideHeadLemma
    <3> QED
      BY <2>3, <2>4, <3>1, <3>2 DEF alloc_after, InsideHead
  <2>5. CASE alloc_before
    <3>1. PICK left \in 0..Top, v \in 1..(2^req.alignment) :
            /\ boot_free_list # NULL
            /\ region[boot_free_list].size = left + req.size + v
            /\ (boot_free_list + v) % 2^req.alignment = 0
            /\ Return(boot_free_list + v)
      BY <1>2, <2>5, CutBefore
    <3>2. InsideHead(v)
      <4>1. v \in 0..(2^req.alignment) /\ v \in Nat
        BY <1>2, <2>5, RequestAssumption DEF IInv, ScanInv, RequestInv, alloc_before
      <4>2. region[boot_free_list].size = v + req.size + left
        BY <1>2, <3>1, <4>1, MachineAssumption DEF IInv, AllocTypeOK, Word
      <4> QED
        BY <1>2, <2>5, <3>1, <4>1, <4>2, MachineAssumption, InsideHeadLemma DEF alloc_before
    <3> QED
      BY <2>3, <2>5, <3>1, <3>2 DEF alloc_before, InsideHead
  <2>6. CASE UNCHANGED allocVars
    BY <2>6, <2>1 DEF allocVars, locals
  <2>7. ASSUME NEW size \in AllocSizes, NEW alignment \in Alignments,
               ClientAlloc(size, alignment)
        PROVE  Promise!Next
    <3>1. Promise!Ask(size, alignment)
      BY <2>7 DEF ClientAlloc, boot_alloc, history, Promise!Ask
    <3> QED
      BY <3>1 DEF Promise!Next
  <2>8. CASE Scan
    BY <2>1, <2>8 DEF Scan
  <2>9. CASE AllocFails
    BY <2>9 DEF AllocFails, history, Promise!Fail, Promise!Next
  <2> QED
    BY <1>2, <2>2, <2>4, <2>5, <2>6, <2>7, <2>8, <2>9 DEF Next, AllocStep
<1> QED
  BY <1>1, <1>2, Invariance, PTL DEF Spec, ImplementsBootAlloc, Promise!Spec

-----------------------------------------------------------------------------
(***************************************************************************)
(* What one call does to memory and to the list.                           *)
(***************************************************************************)
\* Every step is a boot_free, a cut, or leaves the list and the blocks alone.
LEMMA StepKinds ==
  ASSUME Avoid = AllHazards, IInv, [Next]_allocVars
  PROVE  \/ \E start \in Addr, size \in 1..Top :
              pc = "idle" /\ ClientFree(start, size) /\ FreeFirst(start, size)
         \/ pc = "scan" /\ (alloc_after \/ alloc_before)
         \/ UNCHANGED <<region, boot_free_list, live>>
<1>1. CASE \E start \in Addr, size \in 1..Top : ClientFree(start, size)
  BY <1>1, DisciplinedFree DEF listVars, history
<1>2. CASE \E size \in AllocSizes, alignment \in Alignments : ClientAlloc(size, alignment)
  BY <1>2 DEF ClientAlloc, boot_alloc, listVars, history
<1>3. CASE alloc_after \/ alloc_before
  BY <1>3 DEF alloc_after, alloc_before
<1>4. CASE Scan \/ AllocFails \/ UNCHANGED allocVars
  BY <1>4 DEF Scan, AllocFails, allocVars, listVars, history
<1> QED
  BY <1>1, <1>2, <1>3, <1>4 DEF Next, AllocStep

\* Everything a header is written to belongs to the allocator.
THEOREM HeadersStayInPool ==
  ASSUME Avoid = AllHazards
  PROVE  Spec => StoresStayInPool
<1> DEFINE Stores ==
      \A a \in Addr : region'[a] # region[a] => Bytes(a, HeaderSize) \subseteq pool \cup pool'
<1>1. ASSUME IInv, [Next]_allocVars PROVE Stores
  <2>1. HeaderSize \in Nat /\ region \in [Addr -> Header] /\ Top \in Nat
    BY <1>1, MachineAssumption DEF IInv, AllocTypeOK
  <2>2. ASSUME NEW a \in Int, NEW n \in Int, n >= HeaderSize
        PROVE  Bytes(a, HeaderSize) \subseteq Bytes(a, n)
    BY <2>1, <2>2 DEF Bytes
  <2>3. ASSUME NEW start \in Addr, NEW size \in 1..Top, FreeFirst(start, size)
        PROVE  Stores
    <3>1. /\ region' = [region EXCEPT ![start] = [next |-> NULL, prev |-> NULL, size |-> size]]
          /\ size >= HeaderSize /\ pool' = pool \cup Bytes(start, size)
      BY <2>3 DEF FreeFirst, Accept
    <3>2. start \in Int /\ size \in Int
      BY <2>1 DEF Addr
    <3>3. Bytes(start, HeaderSize) \subseteq pool'
      BY <2>2, <3>1, <3>2
    <3> QED
      BY <2>1, <3>1, <3>3
  <2> DEFINE r == boot_free_list
             s == region[r].size
  <2>4. ASSUME r # NULL
        PROVE  r \in 1..Top /\ r \in Addr /\ s \in HeaderSize..Top /\ Bytes(r, s) \subseteq pool
    BY <1>1, <2>4, HeadRegion DEF IInv, Addr
  <2>5. CASE alloc_after
    <3>1. PICK left \in 0..Top :
            r # NULL /\ region' = [region EXCEPT ![r].size = left]
      BY <1>1, <2>5, CutAfter
    <3>2. Bytes(r, HeaderSize) \subseteq pool
      BY <2>1, <2>2, <2>4, <3>1
    <3> QED
      BY <2>1, <2>4, <3>1, <3>2
  <2>6. CASE alloc_before
    <3>1. PICK left \in 0..Top, v \in 1..(2^req.alignment) :
            /\ r # NULL
            /\ s = left + req.size + v
            /\ IF left < HeaderSize
               THEN region' = region
               ELSE /\ boot_free_list' = r + v + req.size
                    /\ boot_free_list' \in Addr
                    /\ region' = [region EXCEPT ![boot_free_list'] =
                                    [next |-> NULL, prev |-> NULL, size |-> left]]
      BY <1>1, <2>6, CutBefore
    <3>2. CASE left < HeaderSize
      BY <3>1, <3>2
    <3>3. CASE ~(left < HeaderSize)
      <4> DEFINE to == r + v + req.size
      <4>1. to \in Addr /\ region' = [region EXCEPT ![to] = [next |-> NULL, prev |-> NULL, size |-> left]]
        BY <3>1, <3>3
      <4>2. req.size \in Nat /\ v \in Nat /\ left \in Nat
        <5>1. req.size \in 0..(Word - 1)
          BY <1>1 DEF IInv, AllocTypeOK
        <5>2. 2^req.alignment \in Nat
          BY <1>1, <2>6, RequestAssumption DEF IInv, ScanInv, RequestInv, alloc_before
        <5> QED
          BY <5>1, <5>2, MachineAssumption DEF Word
      <4>3. Bytes(to, HeaderSize) \subseteq Bytes(r, s)
        <5>1. r \in 1..Top /\ s = left + req.size + v
          BY <2>4, <3>1
        <5> HIDE DEF r, s
        <5> QED
          BY <2>1, <3>3, <4>2, <5>1 DEF Bytes
      <4>4. Bytes(to, HeaderSize) \subseteq pool
        BY <2>4, <3>1, <4>3
      <4> HIDE DEF to
      <4> QED
        BY <2>1, <4>1, <4>4
    <3> QED
      BY <3>2, <3>3
  <2>7. CASE UNCHANGED region
    BY <2>7
  <2> QED
    BY <1>1, <2>3, <2>5, <2>6, <2>7, StepKinds
<1>2. StoresStayInPool <=> [][Stores]_allocVars
  BY DEF StoresStayInPool
<1> HIDE DEF Stores
<1> QED
  BY <1>1, <1>2, Invariance, PTL DEF Spec

\* What is lost when n bytes are cut from the end of a region at r, u bytes
\* before its end, and less than a header h is left.
LEMMA WasteAfter ==
  ASSUME NEW r \in Nat, NEW left \in Nat, NEW n \in Nat, NEW d \in Nat,
         NEW u \in 0..(d - 1), NEW h \in Nat, h >= 2,
         NEW a \in r..(r + (left + n + u) - 1),
         a \notin IF left < h THEN {} ELSE r..(r + left - 1)
  PROVE  \/ a \in (r + left)..(r + left + n - 1)
         \/ (r + left) - a \in 1..(d + h - 2)
         \/ a - (r + left + n) \in 0..(d + h - 3)
<1>1. CASE a < r + left
  <2>1. left < h
    BY <1>1
  <2> QED
    BY <1>1, <2>1
<1>2. CASE a >= r + left /\ a < r + left + n
  BY <1>2
<1>3. CASE a >= r + left + n
  BY <1>3
<1> QED
  BY <1>1, <1>2, <1>3

\* The same for a block that is cut from the start, v bytes in.
LEMMA WasteBefore ==
  ASSUME NEW r \in Nat, NEW left \in Nat, NEW n \in Nat, NEW d \in Nat,
         NEW v \in 1..d, NEW h \in Nat, h >= 2,
         NEW a \in r..(r + (left + n + v) - 1),
         a \notin IF left < h THEN {} ELSE (r + v + n)..(r + v + n + left - 1)
  PROVE  \/ a \in (r + v)..(r + v + n - 1)
         \/ (r + v) - a \in 1..(d + h - 2)
         \/ a - (r + v + n) \in 0..(d + h - 3)
<1>1. CASE a < r + v
  BY <1>1
<1>2. CASE a >= r + v /\ a < r + v + n
  BY <1>2
<1>3. CASE a >= r + v + n
  <2>1. left < h
    BY <1>3
  <2> QED
    BY <1>3, <2>1
<1> QED
  BY <1>1, <1>2, <1>3

\* What the list loses to a boot_alloc besides the block is bounded by the
\* alignment and one header.
THEOREM WasteIsBounded ==
  ASSUME Avoid = AllHazards
  PROVE  Spec => BoundedWaste
<1> DEFINE Wasted(b, a) ==
             \/ a \in BlockBytes(b)
             \/ b.start - a \in 1..(2^req.alignment + HeaderSize - 2)
             \/ a - (b.start + b.size) \in 0..(2^req.alignment + HeaderSize - 3)
           Waste == \A b \in live' \ live : \A a \in ListBytes \ ListBytes' : Wasted(b, a)
<1>1. ASSUME IInv, [Next]_allocVars PROVE Waste
  <2> DEFINE r == boot_free_list
             s == region[r].size
             d == 2^req.alignment
  <2>1. HeaderSize \in Nat /\ HeaderSize >= 2 /\ region \in [Addr -> Header]
    BY <1>1, MachineAssumption DEF IInv, AllocTypeOK
  <2>2. ASSUME NEW ptr, Return(ptr), NEW b \in live' \ live
        PROVE  b = [start |-> ptr, size |-> req.size]
    BY <2>2 DEF Return
  <2>3. ASSUME pc = "scan", r # NULL
        PROVE  /\ r \in 1..Top /\ r \in Addr /\ s \in HeaderSize..Top /\ r + s - 1 <= Top
               /\ req.size \in Nat /\ d \in Nat /\ d >= 1
               /\ ListBytes = r..(r + s - 1)
    <3>1. r \in 1..Top /\ r \in Addr /\ s \in HeaderSize..Top /\ r + s - 1 <= Top
      BY <1>1, <2>3, HeadRegion DEF IInv, Addr
    <3>2. req.size \in Nat /\ d \in Nat \ {0}
      BY <1>1, <2>3, RequestAssumption, MachineAssumption
         DEF IInv, ScanInv, RequestInv, AllocTypeOK, Word
    <3> QED
      BY <2>3, <3>1, <3>2 DEF ListBytes, Bytes
  <2>4. CASE alloc_after
    <3>1. PICK left \in 0..Top, u \in 0..(d - 1) :
            /\ r # NULL /\ s = left + req.size + u
            /\ region' = [region EXCEPT ![r].size = left]
            /\ boot_free_list' = IF left < HeaderSize THEN NULL ELSE r
            /\ Return(r + left)
      BY <1>1, <2>4, CutAfter
    <3>2. /\ r \in 1..Top /\ r \in Addr /\ s \in HeaderSize..Top /\ req.size \in Nat
          /\ d \in Nat /\ d >= 1 /\ ListBytes = r..(r + s - 1) /\ Top \in Nat
      BY <2>3, <2>4, <3>1, MachineAssumption DEF alloc_after
    <3>3. ListBytes' = IF left < HeaderSize THEN {} ELSE r..(r + left - 1)
      <4>1. CASE left < HeaderSize
        BY <3>1, <4>1 DEF ListBytes
      <4>2. CASE ~(left < HeaderSize)
        <5>1. boot_free_list' = r /\ region'[r].size = left
          BY <2>1, <3>1, <3>2, <4>2 DEF Header
        <5> QED
          BY <3>1, <4>2, <5>1 DEF ListBytes, Bytes
      <4> QED
        BY <4>1, <4>2
    <3>4. ASSUME NEW b \in live' \ live, NEW a \in ListBytes \ ListBytes'
          PROVE  Wasted(b, a)
      <4>1. b = [start |-> r + left, size |-> req.size]
        BY <2>2, <3>1, <3>4
      <4>2. b.start = r + left /\ b.size = req.size
        BY <4>1
      <4>3. a \in r..(r + (left + req.size + u) - 1)
        BY <3>1, <3>2, <3>4
      <4>4. r \in Nat /\ left \in Nat /\ HeaderSize \in Nat
        BY <2>1, <3>2
      <4>5. a \notin IF left < HeaderSize THEN {} ELSE r..(r + left - 1)
        BY <3>3, <3>4
      <4>6. u \in 0..(d - 1)
        OBVIOUS
      <4> HIDE DEF r, s, d
      <4>7. \/ a \in (r + left)..(r + left + req.size - 1)
            \/ (r + left) - a \in 1..(d + HeaderSize - 2)
            \/ a - (r + left + req.size) \in 0..(d + HeaderSize - 3)
        BY <2>1, <3>2, <4>3, <4>4, <4>5, <4>6, WasteAfter
      <4> QED
        BY <4>2, <4>7 DEF BlockBytes, Bytes, d
    <3> QED
      BY <3>4
  <2>5. CASE alloc_before
    <3>1. PICK left \in 0..Top, v \in 1..d :
            /\ r # NULL /\ s = left + req.size + v
            /\ IF left < HeaderSize
               THEN region' = region /\ boot_free_list' = NULL
               ELSE /\ boot_free_list' = r + v + req.size
                    /\ boot_free_list' \in Addr
                    /\ region' = [region EXCEPT ![boot_free_list'] =
                                    [next |-> NULL, prev |-> NULL, size |-> left]]
            /\ Return(r + v)
      BY <1>1, <2>5, CutBefore
    <3>2. /\ r \in 1..Top /\ s \in HeaderSize..Top /\ req.size \in Nat
          /\ d \in Nat /\ d >= 1 /\ ListBytes = r..(r + s - 1) /\ Top \in Nat
      BY <2>3, <2>5, <3>1, MachineAssumption DEF alloc_before
    <3>3. ListBytes' = IF left < HeaderSize THEN {} ELSE (r + v + req.size)..(r + v + req.size + left - 1)
      <4>1. CASE left < HeaderSize
        BY <3>1, <4>1 DEF ListBytes
      <4>2. CASE ~(left < HeaderSize)
        <5> DEFINE to == boot_free_list'
        <5>1. to = r + v + req.size /\ to \in Addr /\ to # NULL
          BY <3>1, <4>2, MachineAssumption DEF Addr, NULL
        <5>2. region'[to].size = left
          BY <2>1, <3>1, <4>2, <5>1
        <5>3. ListBytes' = to..(to + left - 1)
          BY <5>1, <5>2 DEF ListBytes, Bytes
        <5> QED
          BY <4>2, <5>1, <5>3
      <4> QED
        BY <4>1, <4>2
    <3>4. ASSUME NEW b \in live' \ live, NEW a \in ListBytes \ ListBytes'
          PROVE  Wasted(b, a)
      <4>1. b = [start |-> r + v, size |-> req.size]
        BY <2>2, <3>1, <3>4
      <4>2. b.start = r + v /\ b.size = req.size
        BY <4>1
      <4>3. a \in r..(r + (left + req.size + v) - 1)
        BY <3>1, <3>2, <3>4
      <4>4. r \in Nat /\ left \in Nat /\ HeaderSize \in Nat
        BY <2>1, <3>2
      <4>5. a \notin IF left < HeaderSize THEN {}
                     ELSE (r + v + req.size)..(r + v + req.size + left - 1)
        BY <3>3, <3>4
      <4>6. v \in 1..d
        OBVIOUS
      <4> HIDE DEF r, s, d
      <4>7. \/ a \in (r + v)..(r + v + req.size - 1)
            \/ (r + v) - a \in 1..(d + HeaderSize - 2)
            \/ a - (r + v + req.size) \in 0..(d + HeaderSize - 3)
        BY <2>1, <3>2, <4>3, <4>4, <4>5, <4>6, WasteBefore
      <4> QED
        BY <4>2, <4>7 DEF BlockBytes, Bytes, d
    <3> QED
      BY <3>4
  <2>6. CASE UNCHANGED live \/ live' \subseteq live
    BY <2>6
  <2>7. \A start, size : FreeFirst(start, size) => live' \subseteq live
    BY DEF FreeFirst, Accept
  <2> QED
    BY <1>1, <2>4, <2>5, <2>6, <2>7, StepKinds
<1>2. BoundedWaste <=> [][Waste]_allocVars
  BY DEF BoundedWaste
<1> HIDE DEF Waste
<1> QED
  BY <1>1, <1>2, Invariance, PTL DEF Spec

-----------------------------------------------------------------------------
(***************************************************************************)
(* The hand-over at boot: memory is given and none is asked for.  Here     *)
(* blocks below the head, and blocks that start at the scaled end of the   *)
(* head, are given, too.  Left out are blocks without room for a header:   *)
(* region keeps headers apart that would overlap in memory.                *)
(***************************************************************************)
GivingOnly == AllocSizes = {} /\ "too_small" \in Avoid

\* The size of the one region is at most the number of bytes given.
HandoffInv ==
  /\ boot_free_list \in Addr \cup {NULL}
  /\ region \in [Addr -> Header]
  /\ pc \in {"idle", "trap"}
  /\ pool \subseteq Addr
  /\ boot_free_list # NULL =>
       /\ region[boot_free_list].next = NULL
       /\ region[boot_free_list].size <= Cardinality(pool)

\* A block in RAM is finite, and has as many bytes as its size says.
LEMMA BytesLemma ==
  ASSUME NEW start \in Nat, NEW size \in Nat
  PROVE  IsFiniteSet(Bytes(start, size)) /\ Cardinality(Bytes(start, size)) = size
<1>1. start \in Int /\ start + size - 1 \in Int
  OBVIOUS
<1>2. /\ IsFiniteSet(Bytes(start, size))
      /\ Cardinality(Bytes(start, size)) =
           IF start > start + size - 1 THEN 0 ELSE (start + size - 1) - start + 1
  BY <1>1, FS_Interval, Zenon DEF Bytes
<1> QED
  BY <1>2

\* The pool is finite, and no larger than RAM.
LEMMA PoolLemma ==
  ASSUME NEW P \in SUBSET Addr
  PROVE  IsFiniteSet(P) /\ Cardinality(P) \in 0..Top
<1>1. Top \in Nat /\ 1 \in Nat
  BY MachineAssumption
<1>2. Addr = Bytes(1, Top)
  BY <1>1 DEF Addr, Bytes
<1>3. IsFiniteSet(Addr) /\ Cardinality(Addr) = Top
  BY <1>1, <1>2, BytesLemma
<1>4. IsFiniteSet(P) /\ Cardinality(P) <= Top
  BY <1>3, FS_Subset
<1>5. Cardinality(P) \in Nat
  BY <1>4, FS_CardinalityType
<1> QED
  BY <1>1, <1>4, <1>5

\* A block that was not given before adds its size to the pool.
LEMMA PoolGrows ==
  ASSUME HandoffInv, NEW start \in Addr, NEW size \in 1..Top, Permitted(start, size)
  PROVE  LET P == pool \cup Bytes(start, size)
         IN P \subseteq Addr /\ Cardinality(P) = Cardinality(pool) + size
<1> DEFINE B == Bytes(start, size)
<1>1. start \in Nat /\ size \in Nat /\ Top \in Nat
  BY MachineAssumption DEF Addr
<1>2. B \subseteq Addr /\ pool \cap B = {}
  BY <1>1 DEF Permitted, Bytes, Addr
<1>3. IsFiniteSet(B) /\ Cardinality(B) = size
  BY <1>1, BytesLemma
<1>4. IsFiniteSet(pool) /\ Cardinality(pool) \in Nat /\ pool \subseteq Addr
  BY <1>1, PoolLemma DEF HandoffInv
<1> HIDE DEF B
<1>5. Cardinality(pool \cup B) = Cardinality(pool) + Cardinality(B) - Cardinality({})
  BY <1>2, <1>3, <1>4, FS_Union
<1>6. Cardinality({}) = 0
  BY FS_EmptySet
<1>7. Cardinality(pool \cup B) = Cardinality(pool) + size
  BY <1>1, <1>3, <1>4, <1>5, <1>6
<1> QED
  BY <1>2, <1>4, <1>7 DEF B

\* Every step of a hand-over keeps the invariant, and nothing leaves the list.
LEMMA HandoffNext ==
  ASSUME GivingOnly, HandoffInv, [Next]_allocVars
  PROVE  HandoffInv' /\ ListBytes \subseteq ListBytes'
<1> USE DEF HandoffInv
<1>1. HeaderSize \in Nat /\ Top \in Nat /\ Half \in Nat /\ Top < Half /\ NULL \notin Addr
  BY MachineAssumption DEF Addr, NULL
<1>2. CASE UNCHANGED <<listVars, pc, history>>
  BY <1>2 DEF ListBytes, listVars, history
<1>3. ASSUME NEW start \in Addr, NEW size \in 1..Top, ClientFree(start, size)
      PROVE  HandoffInv' /\ ListBytes \subseteq ListBytes'
  <2>1. Permitted(start, size) /\ pc = "idle" /\ boot_free(start, size)
    BY <1>3 DEF ClientFree, boot_free
  <2>2. start \in Int /\ size \in Int /\ size \in 0..(Word - 1) /\ start # NULL
    BY <1>1 DEF Addr, Word
  <2> DEFINE P == pool \cup Bytes(start, size)
  <2>3. P \subseteq Addr /\ Cardinality(P) = Cardinality(pool) + size
    BY <2>1, PoolGrows
  <2>4. Cardinality(pool) \in Nat /\ Cardinality(P) \in 0..Top
    <3> HIDE DEF P
    <3> QED
      BY <1>1, <2>3, PoolLemma
  <2> HIDE DEF P
  <2>5. CASE FreeTooSmall(start, size) \/ FreeRefused(start, size)
    BY <1>2, <2>5 DEF FreeTooSmall, FreeRefused, Refuse
  <2>6. CASE FreeFirst(start, size)
    <3>1. /\ boot_free_list = NULL /\ boot_free_list' = start
          /\ region' = [region EXCEPT ![start] = [next |-> NULL, prev |-> NULL, size |-> size]]
          /\ pool' = P /\ pc' = pc
      BY <2>6 DEF FreeFirst, Accept, P
    <3>2. region' \in [Addr -> Header] /\ region'[start].next = NULL /\ region'[start].size = size
      BY <2>2, <3>1 DEF Header
    <3>3. size <= Cardinality(pool')
      BY <2>2, <2>3, <2>4, <3>1
    <3> QED
      BY <2>3, <3>1, <3>2, <3>3 DEF ListBytes
  <2>7. CASE FreeMerge(start, size)
    <3> DEFINE c == boot_free_list
               total == region[c].size + size
    <3>1. /\ c # NULL /\ boot_free_list' = c /\ pool' = P /\ pc' = pc
          /\ region' = Absorbed(c, start + size, size)
      BY <2>7 DEF FreeMerge, Accept, P
    <3>2. c \in Addr /\ region[c].next = NULL /\ region[c].size <= Cardinality(pool)
          /\ region[c] \in Header /\ region[c].size \in 0..(Word - 1)
      BY <3>1 DEF Header
    <3>3. region[c].size \in Nat
      BY <1>1, <3>2 DEF Word
    <3>4. total \in 0..Top /\ total <= Cardinality(P)
      <4> DEFINE m == region[c].size
                 k == Cardinality(pool)
                 n == Cardinality(P)
      <4>1. /\ m \in Nat /\ k \in Nat /\ n \in 0..Top /\ n = k + size /\ m <= k
            /\ size \in 1..Top /\ Top \in Nat
        BY <1>1, <2>3, <2>4, <3>2, <3>3
      <4>2. total = m + size
        OBVIOUS
      <4> HIDE DEF m, k, n, total
      <4>3. total \in 0..Top /\ total <= n
        BY <4>1, <4>2
      <4> QED
        BY <4>3 DEF n
    <3>5. total \in 0..(Half - 1) /\ total \in 0..(Word - 1)
      BY <1>1, <3>4 DEF Word
    <3>6. Wrap(total) = total
      BY <3>5, ExactWords
    <3>7. region' = [region EXCEPT ![c].size = total]
      BY <3>1, <3>2, <3>6 DEF Absorbed
    <3>8. /\ region' \in [Addr -> Header] /\ region'[c].next = NULL /\ region'[c].size = total
      <4> HIDE DEF total
      <4> QED
        BY <3>2, <3>5, <3>7 DEF Header
    <3>9. Bytes(c, region[c].size) \subseteq Bytes(c, total)
      <4>1. c \in Int /\ total >= region[c].size /\ total \in Int
        BY <2>2, <3>2, <3>3 DEF Addr
      <4> HIDE DEF total
      <4> QED
        BY <3>3, <4>1 DEF Bytes
    <3>10. ListBytes = Bytes(c, region[c].size) /\ ListBytes' = Bytes(c, total)
      BY <3>1, <3>8 DEF ListBytes, Bytes
    <3> HIDE DEF total
    <3> QED
      BY <2>3, <3>1, <3>2, <3>4, <3>8, <3>9, <3>10
  <2>8. ASSUME NEW n \in 0..(Word - 1), boot_free_list # NULL,
               boot_free_list > start + size,
               region' = LinkedBelow(start, n), UNCHANGED boot_free_list
        PROVE  /\ region' \in [Addr -> Header] /\ region'[boot_free_list].next = NULL
               /\ region'[boot_free_list].size = region[boot_free_list].size
               /\ ListBytes' = ListBytes
    <3>1. boot_free_list \in Addr /\ boot_free_list # start
      BY <2>2, <2>8 DEF Addr
    <3> DEFINE h == [next |-> boot_free_list, prev |-> NULL, size |-> n]
    <3>2. h \in Header
      BY <2>8, <3>1 DEF Header
    <3> HIDE DEF h
    <3>3. region' = [[region EXCEPT ![start] = h] EXCEPT ![boot_free_list].prev = start]
      BY <2>8, <3>1 DEF LinkedBelow, h
    <3>4. /\ region' \in [Addr -> Header] /\ region'[boot_free_list].next = NULL
          /\ region'[boot_free_list].size = region[boot_free_list].size
      BY <2>8, <3>1, <3>2, <3>3 DEF Header
    <3> QED
      BY <2>8, <3>4 DEF ListBytes, Bytes
  <2>9. CASE FreeBelow(start, size)
    <3>1. boot_free_list # NULL /\ pool' = P /\ pc' = pc /\ UNCHANGED boot_free_list
      BY <2>9 DEF FreeBelow, Accept, P
    <3>2. /\ region' \in [Addr -> Header] /\ region'[boot_free_list].next = NULL
          /\ region'[boot_free_list].size = region[boot_free_list].size
          /\ ListBytes' = ListBytes
      BY <2>2, <2>8, <2>9 DEF FreeBelow
    <3>3. region[boot_free_list].size \in 0..(Word - 1)
      BY <3>1 DEF Header
    <3>4. region[boot_free_list].size <= Cardinality(P)
      BY <1>1, <2>2, <2>3, <2>4, <3>1, <3>3 DEF Word
    <3> QED
      BY <2>3, <3>1, <3>2, <3>4
  <2>10. CASE FreeBelowTraps(start, size)
    <3>1. /\ boot_free_list # NULL /\ pool' = pool /\ pc' = "trap" /\ UNCHANGED boot_free_list
      BY <2>10 DEF FreeBelowTraps, history
    <3>2. region[start].size \in 0..(Word - 1)
      BY DEF Header
    <3>3. /\ region' \in [Addr -> Header] /\ region'[boot_free_list].next = NULL
          /\ region'[boot_free_list].size = region[boot_free_list].size
          /\ ListBytes' = ListBytes
      BY <2>8, <2>10, <3>2 DEF FreeBelowTraps
    <3> QED
      BY <3>1, <3>3
  <2> QED
    BY <2>1, <2>5, <2>6, <2>7, <2>9, <2>10 DEF boot_free
<1>4. ~AllocStep
  BY DEF AllocStep, Scan, AllocFails, alloc_after, alloc_before
<1>5. ~(\E size \in AllocSizes, alignment \in Alignments : ClientAlloc(size, alignment))
  BY DEF GivingOnly
<1>6. CASE UNCHANGED allocVars
  BY <1>2, <1>6 DEF allocVars
<1> QED
  BY <1>3, <1>4, <1>5, <1>6 DEF Next

\* Nothing is given at first.
LEMMA HandoffInitial == AllocInit => HandoffInv
<1>1. ASSUME AllocInit PROVE region \in [Addr -> Header]
  BY <1>1, MachineAssumption DEF AllocInit, Header, Word
<1> QED
  BY <1>1 DEF AllocInit, HandoffInv

\* While memory is handed over, the list never offers more bytes than were
\* given, even though boot_free merges blocks that are not adjacent.
THEOREM HandoffNeverOvercommits ==
  ASSUME GivingOnly
  PROVE  Spec => []NeverOvercommits
<1>1. HandoffInv /\ [Next]_allocVars => HandoffInv'
  BY HandoffNext
<1>2. HandoffInv => NeverOvercommits
  <2> SUFFICES ASSUME HandoffInv PROVE Cardinality(ListBytes) <= Cardinality(pool)
    BY DEF NeverOvercommits
  <2>1. Cardinality(pool) \in 0..Top /\ Top \in Nat
    BY PoolLemma, MachineAssumption DEF HandoffInv
  <2>2. CASE boot_free_list = NULL
    <3>1. Cardinality(ListBytes) = 0
      BY <2>2, FS_EmptySet DEF ListBytes
    <3> QED
      BY <2>1, <3>1
  <2>3. CASE boot_free_list # NULL
    <3>1. boot_free_list \in Nat /\ region[boot_free_list].size \in Nat
      BY <2>3, MachineAssumption DEF HandoffInv, Header, Addr, Word
    <3>2. Cardinality(ListBytes) = region[boot_free_list].size
      BY <2>3, <3>1, BytesLemma DEF ListBytes
    <3> QED
      BY <2>3, <3>2 DEF HandoffInv
  <2> QED
    BY <2>2, <2>3
<1> QED
  BY <1>1, <1>2, HandoffInitial, PTL DEF Spec

\* While memory is handed over, no boot_free loses what an earlier one added.
THEOREM HandoffKeepsList ==
  ASSUME GivingOnly
  PROVE  Spec => FreeKeepsList
<1> DEFINE Keeps == pc = "idle" /\ pc' # "scan" => ListBytes \subseteq ListBytes'
<1>1. HandoffInv /\ [Next]_allocVars => HandoffInv' /\ Keeps
  BY HandoffNext
<1>2. FreeKeepsList <=> [][Keeps]_allocVars
  BY DEF FreeKeepsList
<1> HIDE DEF Keeps
<1> QED
  BY <1>1, <1>2, HandoffInitial, PTL DEF Spec
=============================================================================
