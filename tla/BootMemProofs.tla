--------------------------- MODULE BootMemProofs ---------------------------
(***************************************************************************)
(* The memory boot as a whole: for every device tree boot_free can cope    *)
(* with, what is allocated after the scan is usable memory, and the        *)
(* allocator writes nowhere else.                                          *)
(***************************************************************************)
EXTENDS BootMem, FreeListLemmas

\* The proofs about the scan, with the variables of the composition.
MemP == INSTANCE FdtMemProofs WITH pc <- scan_pc

SupportedTrees == \A f \in Fdts : RoomForHeaders(f) /\ NoFalseNeighbours(f)

\* No request comes near the end of the address space.
SupportedRequests ==
  \A size \in AllocSizes, alignment \in Alignments : size + 2^alignment < Half

(***************************************************************************)
(* The inductive invariant.  Pieces that boot_free links below the head    *)
(* are lost, but stay linked to it: the cuts of boot_alloc then write to   *)
(* their headers, and leave the head where it was.  So the list is not     *)
(* sound in the sense of FreeListProofs; it stays in usable memory.        *)
(***************************************************************************)
Placed(a) == Bytes(a, HeaderSize) \subseteq Usable

HeadInv ==
  boot_free_list # NULL =>
    /\ region[boot_free_list].next = NULL
    /\ Bytes(boot_free_list, region[boot_free_list].size) \subseteq Usable
    /\ Placed(boot_free_list)
    /\ region[boot_free_list].prev # NULL =>
         /\ region[boot_free_list].prev < boot_free_list
         /\ Placed(region[boot_free_list].prev)

ListInv ==
  /\ boot_free_list \in Addr \cup {NULL}
  /\ region \in [Addr -> Header]
  /\ HeadInv

SearchingInv == pc = "scan" => scan_pc = "done" /\ RequestInv /\ SearchInv

\* Until the first allocation the head is one of the pieces, and there is one
\* as soon as a byte has been given.
KeptInv ==
  /\ scan_pc # "done" => live = {}
  /\ live = {} =>
       /\ given # {} => boot_free_list # NULL
       /\ boot_free_list # NULL =>
            [start |-> boot_free_list, size |-> region[boot_free_list].size] \in Mem!Pieces(fdt)

AllocatorInv == ListInv /\ SearchingInv /\ KeptInv /\ BlocksUsable

BootInv == MemP!CoreInv /\ MemP!BorderInv /\ AllocatorInv

\* What a step stores in headers, it stores in usable memory.
Stores == \A a \in Addr : region'[a] # region[a] => Placed(a)
-----------------------------------------------------------------------------
(***************************************************************************)
(* The scan inside the composition.                                        *)
(***************************************************************************)
\* The definitions of the scan mean the same under both names.
LEMMA SameTerms ==
  /\ Mem!Fdt = MemP!Fdt
  /\ Mem!AtBootFree <=> MemP!AtBootFree
  /\ Mem!Usable(fdt) = MemP!Usable(fdt)
  /\ Mem!Pieces(fdt) = MemP!Pieces(fdt)
<1>1. Mem!Fdt = MemP!Fdt
  BY DEF Mem!Fdt, MemP!Fdt, Mem!Region, MemP!Region
<1>2. Mem!AtBootFree <=> MemP!AtBootFree
  BY DEF Mem!AtBootFree, MemP!AtBootFree, Mem!Excluded, MemP!Excluded
<1>3. Mem!Usable(fdt) = MemP!Usable(fdt)
  BY DEF Mem!Usable, MemP!Usable, Mem!NodeBytes, MemP!NodeBytes, Mem!Forbidden, MemP!Forbidden,
         Mem!Bytes, MemP!Bytes
<1>4. /\ Mem!Starts(fdt) = MemP!Starts(fdt)
      /\ Mem!Ends(fdt) = MemP!Ends(fdt)
  BY DEF Mem!Starts, MemP!Starts, Mem!Ends, MemP!Ends, Mem!Blocks, MemP!Blocks,
         Mem!Reserved, MemP!Reserved
<1>5. Mem!Pieces(fdt) = MemP!Pieces(fdt)
  BY <1>3, <1>4 DEF Mem!Pieces, MemP!Pieces, Mem!Bytes, MemP!Bytes
<1> QED
  BY <1>1, <1>2, <1>3, <1>5

LEMMA SameSteps ==
  /\ Mem!ScanInit <=> MemP!ScanInit
  /\ Mem!ScanStep <=> MemP!ScanStep
  /\ \A ok \in BOOLEAN : Mem!HandOver(ok) <=> MemP!HandOver(ok)
<1>1. Mem!ScanInit <=> MemP!ScanInit
  BY DEF Mem!ScanInit, MemP!ScanInit
<1>2. Mem!ScanStep <=> MemP!ScanStep
  BY DEF Mem!ScanStep, MemP!ScanStep, Mem!NextBlock, MemP!NextBlock, Mem!NextNode, MemP!NextNode,
         Mem!Finish, MemP!Finish, Mem!SkipPiece, MemP!SkipPiece, Mem!StartPiece, MemP!StartPiece,
         Mem!Covered, MemP!Covered, Mem!Trim, MemP!Trim, Mem!Split, MemP!Split,
         Mem!Nothing, MemP!Nothing, Mem!Return, MemP!Return, Mem!AboveKernel, MemP!AboveKernel,
         Mem!Left, MemP!Left, Mem!Excluded, MemP!Excluded, Mem!trim_or_split_around_reserved,
         MemP!trim_or_split_around_reserved, Mem!results, MemP!results, Mem!call, MemP!call,
         Mem!loops, MemP!loops
<1>3. \A ok \in BOOLEAN : Mem!HandOver(ok) <=> MemP!HandOver(ok)
  BY DEF Mem!HandOver, MemP!HandOver, Mem!AtBootFree, MemP!AtBootFree, Mem!Excluded,
         MemP!Excluded, Mem!Return, MemP!Return, Mem!Bytes, MemP!Bytes
<1> QED
  BY <1>1, <1>2, <1>3

\* The assumption of the scan holds in the composition.
LEMMA ScanAssumption == Fdts \subseteq MemP!Fdt /\ KernelEnd \in Nat
BY TreesAssumption, SameTerms

\* A step of the composition is a step of the scan or leaves it alone, and the
\* device tree never changes.
LEMMA ScanMoves ==
  ASSUME BootInv, [Next]_vars
  PROVE  /\ MemP!CoreInv' /\ MemP!BorderInv'
         /\ fdt \in Fdts /\ fdt' = fdt
<1>1. MemP!CoreInv /\ MemP!BorderInv
  BY DEF BootInv
<1>2. fdt \in Fdts
  BY <1>1 DEF MemP!CoreInv, MemP!TypeOK
<1>3. [MemP!Next]_(MemP!scanVars)
  <2>1. CASE Detect
    BY <2>1, SameSteps DEF Detect, MemP!Next
  <2>2. CASE GivePiece
    BY <2>2, SameSteps DEF GivePiece, MemP!Next
  <2>3. CASE UNCHANGED scanVars
    BY <2>3 DEF scanVars, MemP!scanVars, MemP!loops, MemP!call, MemP!results
  <2> QED
    BY <2>1, <2>2, <2>3 DEF Next, GiveTraps, Allocate, vars
<1>4. MemP!CoreInv'
  BY <1>1, <1>3, ScanAssumption, MemP!CoreNext
<1>5. MemP!BorderInv'
  BY <1>1, <1>3, ScanAssumption, MemP!BorderNext
<1>6. fdt' = fdt
  BY <1>3 DEF MemP!Next, MemP!ScanStep, MemP!NextBlock, MemP!NextNode, MemP!Finish,
     MemP!SkipPiece, MemP!StartPiece, MemP!Covered, MemP!Trim, MemP!Split, MemP!HandOver,
     MemP!scanVars
<1> QED
  BY <1>2, <1>4, <1>5, <1>6

\* What is passed to boot_free: a piece of the tree, in RAM, with room for its
\* header.
LEMMA PieceLemma ==
  ASSUME SupportedTrees, BootInv, Mem!AtBootFree
  PROVE  /\ piece \in Mem!Pieces(fdt)
         /\ piece.start \in Addr /\ piece.size \in HeaderSize..Top
         /\ piece = [start |-> piece.start, size |-> piece.size]
         /\ Bytes(piece.start, piece.size) \subseteq Usable
         /\ Placed(piece.start)
         /\ scan_pc # "done" /\ live = {}
<1>1. MemP!CoreInv /\ MemP!BorderInv /\ MemP!AtBootFree
  BY SameTerms DEF BootInv
<1>2. piece \in Mem!Pieces(fdt)
  BY <1>1, ScanAssumption, MemP!GivesPieces, SameTerms
<1>3. piece \in MemP!Region /\ fdt \in Fdts
  BY <1>1 DEF MemP!CoreInv, MemP!TypeOK
<1>4. /\ piece.start \in Nat /\ piece.size \in Nat
      /\ piece = [start |-> piece.start, size |-> piece.size]
  BY <1>3 DEF MemP!Region
<1>5. Bytes(piece.start, piece.size) \subseteq Usable /\ piece.size > 0
  BY <1>2 DEF Mem!Pieces, Mem!Bytes, Bytes, Usable
<1>6. Usable \subseteq Addr
  BY <1>3, TreesAssumption DEF Usable
<1>7. piece.size >= HeaderSize
  BY <1>2, <1>3 DEF SupportedTrees, RoomForHeaders
<1>8. HeaderSize \in Nat /\ Top \in Nat
  BY MachineAssumption
<1>9. piece.start \in Bytes(piece.start, piece.size)
      /\ piece.start + piece.size - 1 \in Bytes(piece.start, piece.size)
  BY <1>4, <1>5 DEF Bytes
<1>10. piece.start \in Addr /\ piece.start + piece.size - 1 \in Addr
  BY <1>5, <1>6, <1>9
<1>11. piece.size \in HeaderSize..Top
  BY <1>4, <1>7, <1>8, <1>10 DEF Addr
<1>12. Bytes(piece.start, HeaderSize) \subseteq Bytes(piece.start, piece.size)
  BY <1>4, <1>7, <1>8 DEF Bytes
<1>13. scan_pc # "done" /\ live = {}
  BY DEF Mem!AtBootFree, BootInv, AllocatorInv, KeptInv
<1> QED
  BY <1>2, <1>4, <1>5, <1>10, <1>11, <1>12, <1>13 DEF Placed
-----------------------------------------------------------------------------
(***************************************************************************)
(* The list operations on the last region of a list.                       *)
(***************************************************************************)
\* Unlinking it writes to the header in front of it only.
LEMMA UnlinkLast ==
  ASSUME NEW hdr \in [Addr -> Header], NEW r \in Addr, hdr[r].next = NULL
  PROVE  Unlinked(hdr, r) =
           [a \in Addr |-> IF a = hdr[r].prev THEN [hdr[a] EXCEPT !.next = NULL] ELSE hdr[a]]
<1>1. \A a \in Addr : a # NULL
  BY MachineAssumption DEF Addr, NULL
<1>2. \A a \in Addr : hdr[a] \in Header
  OBVIOUS
<1>3. \A a \in Addr :
        Unlinked(hdr, r)[a] = IF a = hdr[r].prev THEN [hdr[a] EXCEPT !.next = NULL] ELSE hdr[a]
  BY <1>1, <1>2 DEF Unlinked, Header
<1> QED
  BY <1>3 DEF Unlinked

\* Moving it writes the new header and to the header in front of it.
LEMMA MoveLast ==
  ASSUME NEW hdr \in [Addr -> Header], NEW r \in Addr, hdr[r].next = NULL,
         NEW to \in Addr, NEW size
  PROVE  Moved(hdr, r, to, size) =
           [a \in Addr |->
              IF a = to THEN [next |-> NULL, prev |-> hdr[r].prev, size |-> size]
              ELSE IF a = hdr[r].prev THEN [hdr[a] EXCEPT !.next = to] ELSE hdr[a]]
<1>1. \A a \in Addr : a # NULL
  BY MachineAssumption DEF Addr, NULL
<1>2. \A a \in Addr : hdr[a] \in Header
  OBVIOUS
<1>3. \A a \in Addr :
        Moved(hdr, r, to, size)[a] =
          IF a = to THEN [next |-> NULL, prev |-> hdr[r].prev, size |-> size]
          ELSE IF a = hdr[r].prev THEN [hdr[a] EXCEPT !.next = to] ELSE hdr[a]
  BY <1>1, <1>2 DEF Moved, Header
<1> QED
  BY <1>3 DEF Moved

\* The head of the list lies in RAM.
LEMMA BootHead ==
  ASSUME ListInv, fdt \in Fdts
  PROVE  /\ HeadInRam
         /\ boot_free_list # NULL =>
              /\ boot_free_list \in Addr
              /\ region[boot_free_list] \in Header
              /\ region[boot_free_list].next = NULL
              /\ region[boot_free_list].size \in 0..Top
              /\ region[boot_free_list].prev \in Addr \cup {NULL}
<1> SUFFICES ASSUME boot_free_list # NULL
             PROVE  /\ boot_free_list \in Addr
                    /\ region[boot_free_list] \in Header
                    /\ region[boot_free_list].next = NULL
                    /\ region[boot_free_list].size \in 0..Top
                    /\ region[boot_free_list].prev \in Addr \cup {NULL}
                    /\ boot_free_list + region[boot_free_list].size - 1 <= Top
  BY DEF HeadInRam
<1> DEFINE r == boot_free_list
           n == region[r].size
<1>1. r \in Addr /\ region[r] \in Header /\ region[r].next = NULL
  BY DEF ListInv, HeadInv
<1>2. n \in 0..(Word - 1) /\ region[r].prev \in Addr \cup {NULL}
  BY <1>1 DEF Header
<1>3. r \in 1..Top /\ Top \in Nat /\ n \in Nat
  BY <1>1, <1>2, MachineAssumption DEF Addr, Word
<1>4. Bytes(r, n) \subseteq Addr
  BY TreesAssumption DEF ListInv, HeadInv, Usable
<1> HIDE DEF r, n
<1>5. r + n - 1 <= Top
  <2>1. CASE n = 0
    BY <1>3, <2>1
  <2>2. CASE n > 0
    <3>1. r + n - 1 \in Bytes(r, n)
      BY <1>3, <2>2 DEF Bytes
    <3> QED
      BY <1>4, <3>1 DEF Addr
  <2> QED
    BY <1>3, <2>1, <2>2
<1>6. n \in 0..Top
  BY <1>3, <1>5
<1> QED
  BY <1>1, <1>2, <1>5, <1>6 DEF r, n

-----------------------------------------------------------------------------
(***************************************************************************)
(* Giving a piece.                                                         *)
(***************************************************************************)
\* boot_free with a piece of a supported tree: it starts the list, is refused,
\* or is linked below the head, with or without a trap.
LEMMA PieceKinds ==
  ASSUME SupportedTrees, BootInv, Mem!AtBootFree, boot_free(piece.start, piece.size)
  PROVE  \/ FreeFirst(piece.start, piece.size)
         \/ boot_free_list # NULL /\ UNCHANGED <<listVars, pc, history>>
         \/ FreeBelow(piece.start, piece.size)
         \/ FreeBelowTraps(piece.start, piece.size)
<1>1. /\ piece \in Mem!Pieces(fdt) /\ piece.size \in HeaderSize..Top /\ live = {}
      /\ fdt \in Fdts
  BY PieceLemma DEF BootInv, MemP!CoreInv, MemP!TypeOK
<1>2. ~(piece.size < HeaderSize)
  BY <1>1, MachineAssumption
<1>3. ~FreeTooSmall(piece.start, piece.size)
  BY <1>2 DEF FreeTooSmall
<1>4. ASSUME boot_free_list # NULL PROVE curr_end # piece.start
  <2> DEFINE p == [start |-> boot_free_list, size |-> region[boot_free_list].size]
  <2>1. p \in Mem!Pieces(fdt)
    BY <1>1, <1>4 DEF BootInv, AllocatorInv, KeptInv
  <2>2. Wrap(p.start + HeaderSize * p.size) # piece.start
    BY <1>1, <2>1 DEF SupportedTrees, NoFalseNeighbours
  <2>3. p.start = boot_free_list /\ p.size = region[boot_free_list].size
    OBVIOUS
  <2> HIDE DEF p
  <2> QED
    BY <2>2, <2>3 DEF curr_end
<1>5. ~FreeMerge(piece.start, piece.size)
  BY <1>4 DEF FreeMerge
<1>6. FreeRefused(piece.start, piece.size) =>
        boot_free_list # NULL /\ UNCHANGED <<listVars, pc, history>>
  BY DEF FreeRefused, Refuse
<1> QED
  BY <1>3, <1>5, <1>6 DEF boot_free

\* The list after the piece: still in usable memory, and so are the stores.
LEMMA GiveKeepsList ==
  ASSUME SupportedTrees, BootInv, Mem!AtBootFree, boot_free(piece.start, piece.size),
         fdt' = fdt
  PROVE  /\ ListInv' /\ Stores
         /\ live' = {}
         /\ boot_free_list' # NULL
         /\ [start |-> boot_free_list', size |-> region'[boot_free_list'].size]
               \in Mem!Pieces(fdt)
<1> DEFINE start == piece.start
           size == piece.size
           r == boot_free_list
<1>1. /\ piece \in Mem!Pieces(fdt)
      /\ start \in Addr /\ size \in HeaderSize..Top
      /\ piece = [start |-> start, size |-> size]
      /\ Bytes(start, size) \subseteq Usable
      /\ Placed(start)
      /\ live = {}
  BY PieceLemma
<1>2. size \in 0..(Word - 1) /\ NULL \notin Addr /\ Addr \subseteq Nat /\ size \in Nat
  BY <1>1, MachineAssumption DEF Word, NULL, Addr
<1>3. /\ ListInv /\ region \in [Addr -> Header] /\ fdt \in Fdts
      /\ r # NULL => [start |-> r, size |-> region[r].size] \in Mem!Pieces(fdt)
  BY <1>1 DEF BootInv, AllocatorInv, ListInv, KeptInv, MemP!CoreInv, MemP!TypeOK
<1>4. Usable' = Usable
  BY DEF Usable, Mem!Usable, Mem!NodeBytes, Mem!Forbidden, Mem!Bytes
<1> HIDE DEF start, size, r
<1>5. CASE FreeFirst(start, size)
  <2> DEFINE new == [next |-> NULL, prev |-> NULL, size |-> size]
  <2>1. /\ region' = [region EXCEPT ![start] = new] /\ boot_free_list' = start
        /\ live' = live \ {[start |-> start, size |-> size]}
    BY <1>5 DEF FreeFirst, Accept
  <2>2. new \in Header
    BY <1>2 DEF Header
  <2>3. region' \in [Addr -> Header] /\ region'[start] = new
    BY <1>1, <1>3, <2>1, <2>2
  <2>4. HeadInv'
    BY <1>1, <1>4, <2>1, <2>3 DEF HeadInv, Placed, Bytes
  <2>5. ListInv'
    BY <1>1, <2>1, <2>3, <2>4 DEF ListInv
  <2>6. Stores
    BY <1>1, <1>3, <2>1 DEF Stores
  <2>7. [start |-> boot_free_list', size |-> region'[boot_free_list'].size] = piece
    BY <1>1, <2>1, <2>3
  <2> QED
    BY <1>1, <1>2, <2>1, <2>5, <2>6, <2>7
<1>6. CASE boot_free_list # NULL /\ UNCHANGED <<listVars, pc, history>>
  <2>1. UNCHANGED <<boot_free_list, region, live>>
    BY <1>6 DEF listVars, history
  <2>2. ListInv'
    BY <1>3, <1>4, <2>1 DEF ListInv, HeadInv, Placed, Bytes
  <2>3. Stores
    BY <2>1 DEF Stores
  <2> QED
    BY <1>1, <1>3, <1>6, <2>1, <2>2, <2>3 DEF r
<1>7. ASSUME boot_free_list # NULL, boot_free_list > start + size, NEW n \in 0..(Word - 1),
             region' = LinkedBelow(start, n), boot_free_list' = boot_free_list
      PROVE  /\ ListInv' /\ Stores
             /\ boot_free_list' # NULL
             /\ [start |-> boot_free_list', size |-> region'[boot_free_list'].size]
                   \in Mem!Pieces(fdt)
  <2> DEFINE new == [next |-> r, prev |-> NULL, size |-> n]
             old == [region[r] EXCEPT !.prev = start]
  <2>1. /\ r \in Addr /\ region[r] \in Header /\ r > start + size /\ r' = r
        /\ region[r].next = NULL
    BY <1>3, <1>7, BootHead DEF r
  <2>2. start < r /\ start # r
    BY <1>1, <1>2, <2>1
  <2>3. region' = [region EXCEPT ![start] = new, ![r] = old]
    BY <1>3, <1>7, <2>1, <2>2 DEF LinkedBelow, r
  <2>4. /\ new \in Header /\ old \in Header
        /\ old.next = NULL /\ old.prev = start /\ old.size = region[r].size
    BY <1>1, <1>7, <2>1 DEF Header
  <2> HIDE DEF new, old
  <2>5. /\ region' \in [Addr -> Header]
        /\ region'[r] = old
        /\ \A a \in Addr : a # r /\ a # start => region'[a] = region[a]
    BY <1>1, <1>3, <2>1, <2>2, <2>3, <2>4
  <2>6. Placed(r) /\ Bytes(r, region[r].size) \subseteq Usable
    BY <1>3, <1>7 DEF ListInv, HeadInv, r
  <2>7. HeadInv'
    BY <1>1, <1>4, <1>7, <2>1, <2>2, <2>4, <2>5, <2>6 DEF HeadInv, Placed, Bytes, r
  <2>8. ListInv'
    BY <1>7, <2>1, <2>5, <2>7 DEF ListInv, r
  <2>9. Stores
    BY <1>1, <2>5, <2>6 DEF Stores
  <2> QED
    BY <1>3, <1>7, <2>4, <2>5, <2>8, <2>9 DEF r
<1>8. CASE FreeBelow(start, size)
  <2>1. /\ boot_free_list # NULL /\ boot_free_list > start + size
        /\ region' = LinkedBelow(start, size) /\ boot_free_list' = boot_free_list
        /\ live' = live \ {[start |-> start, size |-> size]}
    BY <1>8 DEF FreeBelow, Accept
  <2> QED
    BY <1>1, <1>2, <1>7, <2>1
<1>9. CASE FreeBelowTraps(start, size)
  <2>1. /\ boot_free_list # NULL /\ boot_free_list > start + size
        /\ region' = LinkedBelow(start, region[start].size) /\ boot_free_list' = boot_free_list
        /\ live' = live
    BY <1>9 DEF FreeBelowTraps, history
  <2>2. region[start].size \in 0..(Word - 1)
    BY <1>1, <1>3 DEF Header
  <2> QED
    BY <1>1, <1>7, <2>1, <2>2
<1> QED
  BY <1>5, <1>6, <1>8, <1>9, PieceKinds DEF start, size
-----------------------------------------------------------------------------
(***************************************************************************)
(* Allocating.  A head that has a neighbour below it stays the head when   *)
(* boot_alloc unlinks or moves it: only the neighbour's header is written. *)
(***************************************************************************)
\* The block that boot_alloc returns lies in the region it was cut from.
LEMMA BlockStaysUsable ==
  ASSUME ListInv, BlocksUsable, boot_free_list # NULL, fdt \in Fdts,
         NEW ptr \in Nat, ptr >= boot_free_list,
         req.size \in Nat, ptr + req.size <= boot_free_list + region[boot_free_list].size,
         Return(ptr), Usable' = Usable
  PROVE  BlocksUsable' /\ live' # {} /\ pc' = "idle"
<1> DEFINE r == boot_free_list
           b == [start |-> ptr, size |-> req.size]
<1>1. live' = live \cup {b} /\ pc' = "idle"
  BY DEF Return
<1>2. r \in Nat /\ region[r].size \in Nat
  BY BootHead, MachineAssumption DEF Addr
<1>3. Bytes(r, region[r].size) \subseteq Usable
  BY DEF ListInv, HeadInv
<1>4. Bytes(ptr, req.size) \subseteq Bytes(r, region[r].size)
  <2> SUFFICES ASSUME NEW x \in ptr..(ptr + req.size - 1)
               PROVE  x \in r..(r + region[r].size - 1)
    BY DEF Bytes
  <2> QED
    BY <1>2
<1>5. BlockBytes(b) \subseteq Usable
  BY <1>3, <1>4 DEF BlockBytes
<1>6. \A c \in live' : BlockBytes(c) \subseteq Usable'
  BY <1>1, <1>5 DEF BlocksUsable
<1>7. BlocksUsable'
  BY <1>6 DEF BlocksUsable, BlockBytes, Bytes
<1> QED
  BY <1>1, <1>7

\* A cut from the end of the head.
LEMMA AfterKeepsList ==
  ASSUME ListInv, BlocksUsable, RequestInv, SearchInv, alloc_after,
         fdt \in Fdts, Usable' = Usable
  PROVE  ListInv' /\ Stores /\ BlocksUsable' /\ live' # {} /\ pc' = "idle"
<1> DEFINE r == boot_free_list
           P == region[r].prev
<1>1. PICK left \in 0..Top, u \in 0..(2^req.alignment - 1) :
           /\ r # NULL
           /\ region[r].size = left + req.size + u
           /\ LET shrunk == [region EXCEPT ![r].size = left]
              IN IF left < HeaderSize
                 THEN /\ region' = Unlinked(shrunk, r)
                      /\ boot_free_list' = HeadWithout(r)
                 ELSE region' = shrunk /\ boot_free_list' = r
           /\ Return(r + left)
  BY BootHead, AfterCut
<1>2. /\ r \in Addr /\ region[r] \in Header /\ region[r].next = NULL
      /\ region[r].size \in 0..Top /\ P \in Addr \cup {NULL}
  BY <1>1, BootHead
<1>3. /\ region \in [Addr -> Header] /\ Placed(r) /\ Bytes(r, region[r].size) \subseteq Usable
      /\ P # NULL => P < r /\ Placed(P)
  BY <1>1 DEF ListInv, HeadInv
<1>4. /\ r \in Nat /\ NULL \notin Addr /\ left \in Nat /\ left \in 0..(Word - 1)
      /\ u \in Nat /\ req.size \in Nat /\ Addr \subseteq Nat
  BY <1>2, RequestType, RequestAssumption, MachineAssumption DEF Addr, NULL, Word, RequestInv
<1> DEFINE shrunk == [region EXCEPT ![r].size = left]
<1>5. /\ shrunk \in [Addr -> Header] /\ shrunk[r].next = NULL /\ shrunk[r].prev = P
      /\ shrunk[r].size = left
      /\ \A a \in Addr : a # r => shrunk[a] = region[a]
  BY <1>2, <1>3, <1>4 DEF Header
<1>6. Bytes(r, left) \subseteq Usable
  BY <1>1, <1>3, <1>4 DEF Bytes
<1>7. BlocksUsable' /\ live' # {} /\ pc' = "idle"
  BY <1>1, <1>2, <1>4, BlockStaysUsable
<1> HIDE DEF shrunk
<1>8. CASE left < HeaderSize
  <2>1. region' = Unlinked(shrunk, r) /\ boot_free_list' = HeadWithout(r)
    BY <1>1, <1>8 DEF shrunk
  <2>2. region' =
          [a \in Addr |-> IF a = P THEN [shrunk[a] EXCEPT !.next = NULL] ELSE shrunk[a]]
    BY <1>2, <1>5, <2>1, UnlinkLast
  <2>3. region' \in [Addr -> Header]
    BY <1>5, <2>2 DEF Header
  <2>4. P # r
    BY <1>2, <1>3, <1>4
  <2>5. region'[r] = shrunk[r] /\ \A a \in Addr : a # r /\ a # P => region'[a] = region[a]
    BY <1>2, <1>5, <2>2, <2>4
  <2>6. Stores
    BY <1>3, <1>4, <2>5 DEF Stores
  <2>7. boot_free_list' = IF P # NULL THEN r ELSE NULL
    BY <1>2, <2>1 DEF HeadWithout
  <2>8. HeadInv'
    BY <1>3, <1>5, <1>6, <2>5, <2>7 DEF HeadInv, Placed, Bytes
  <2> QED
    BY <1>2, <1>7, <2>3, <2>6, <2>7, <2>8 DEF ListInv
<1>9. CASE ~(left < HeaderSize)
  <2>1. region' = shrunk /\ boot_free_list' = r
    BY <1>1, <1>9 DEF shrunk
  <2>2. Stores
    BY <1>3, <1>5, <2>1 DEF Stores
  <2>3. HeadInv'
    BY <1>3, <1>5, <1>6, <2>1 DEF HeadInv, Placed, Bytes
  <2> QED
    BY <1>2, <1>5, <1>7, <2>1, <2>2, <2>3 DEF ListInv
<1> QED
  BY <1>8, <1>9
\* A cut from the start of the head.
LEMMA BeforeKeepsList ==
  ASSUME ListInv, BlocksUsable, RequestInv, SearchInv, alloc_before,
         fdt \in Fdts, Usable' = Usable
  PROVE  ListInv' /\ Stores /\ BlocksUsable' /\ live' # {} /\ pc' = "idle"
<1> DEFINE r == boot_free_list
           P == region[r].prev
<1>1. PICK left \in 0..Top, v \in 1..(2^req.alignment) :
           /\ r # NULL
           /\ region[r].size = left + req.size + v
           /\ LET to == r + v + req.size
              IN IF left < HeaderSize
                 THEN /\ region' = Unlinked(region, r)
                      /\ boot_free_list' = HeadWithout(r)
                 ELSE /\ to \in Addr
                      /\ region' = Moved(region, r, to, left)
                      /\ boot_free_list' = HeadMoved(r, to)
           /\ Return(r + v)
  BY BootHead, BeforeCut
<1>2. /\ r \in Addr /\ region[r] \in Header /\ region[r].next = NULL
      /\ region[r].size \in 0..Top /\ P \in Addr \cup {NULL}
  BY <1>1, BootHead
<1>3. /\ region \in [Addr -> Header] /\ Placed(r) /\ Bytes(r, region[r].size) \subseteq Usable
      /\ P # NULL => P < r /\ Placed(P)
  BY <1>1 DEF ListInv, HeadInv
<1>4. /\ r \in Nat /\ NULL \notin Addr /\ left \in Nat /\ left \in 0..(Word - 1)
      /\ v \in Nat \ {0} /\ req.size \in Nat /\ Addr \subseteq Nat /\ HeaderSize \in Nat
  BY <1>2, RequestType, RequestAssumption, MachineAssumption DEF Addr, NULL, Word, RequestInv
<1>5. P # r
  BY <1>2, <1>3, <1>4
<1>6. BlocksUsable' /\ live' # {} /\ pc' = "idle"
  BY <1>1, <1>2, <1>4, BlockStaysUsable
<1>7. CASE left < HeaderSize
  <2>1. region' = Unlinked(region, r) /\ boot_free_list' = HeadWithout(r)
    BY <1>1, <1>7
  <2>2. region' =
          [a \in Addr |-> IF a = P THEN [region[a] EXCEPT !.next = NULL] ELSE region[a]]
    BY <1>2, <1>3, <2>1, UnlinkLast
  <2>3. region' \in [Addr -> Header]
    BY <1>3, <2>2 DEF Header
  <2>4. region'[r] = region[r] /\ \A a \in Addr : a # P => region'[a] = region[a]
    BY <1>2, <1>5, <2>2
  <2>5. Stores
    BY <1>3, <1>4, <2>4 DEF Stores
  <2>6. boot_free_list' = IF P # NULL THEN r ELSE NULL
    BY <1>2, <2>1 DEF HeadWithout
  <2>7. HeadInv'
    BY <1>2, <1>3, <2>4, <2>6 DEF HeadInv, Placed, Bytes
  <2> QED
    BY <1>2, <1>6, <2>3, <2>5, <2>6, <2>7 DEF ListInv
<1>8. CASE ~(left < HeaderSize)
  <2> DEFINE to == r + v + req.size
             new == [next |-> NULL, prev |-> P, size |-> left]
  <2>1. /\ to \in Addr /\ region' = Moved(region, r, to, left)
        /\ boot_free_list' = HeadMoved(r, to)
    BY <1>1, <1>8
  <2>2. to > r /\ to # r /\ to \in Nat /\ to + left = r + region[r].size
    BY <1>1, <1>4
  <2> HIDE DEF to
  <2>3. region' =
          [a \in Addr |-> IF a = to THEN new
                          ELSE IF a = P THEN [region[a] EXCEPT !.next = to] ELSE region[a]]
    BY <1>2, <1>3, <2>1, MoveLast
  <2>4. new \in Header /\ new.next = NULL /\ new.prev = P /\ new.size = left
    BY <1>2, <1>4 DEF Header
  <2> HIDE DEF new
  <2>5. region' \in [Addr -> Header]
    <3>1. \A a \in Addr : [region[a] EXCEPT !.next = to] \in Header
      BY <1>3, <2>1 DEF Header
    <3> QED
      BY <1>3, <2>3, <2>4, <3>1
  <2>6. /\ region'[r] = region[r] /\ region'[to] = new
        /\ \A a \in Addr : a # P /\ a # to => region'[a] = region[a]
    BY <1>2, <1>5, <2>1, <2>2, <2>3
  <2>7. Bytes(to, left) \subseteq Usable /\ Placed(to)
    <3>1. Bytes(to, left) \subseteq Bytes(r, region[r].size)
      BY <1>2, <1>4, <2>2 DEF Bytes
    <3>2. Bytes(to, HeaderSize) \subseteq Bytes(to, left)
      BY <1>4, <1>8, <2>2 DEF Bytes
    <3> QED
      BY <1>3, <3>1, <3>2 DEF Placed
  <2>8. Stores
    BY <1>3, <1>4, <2>6, <2>7 DEF Stores
  <2>9. boot_free_list' = IF P # NULL THEN r ELSE to
    BY <1>2, <2>1 DEF HeadMoved
  <2>10. HeadInv'
    <3>1. CASE P # NULL
      BY <1>2, <1>3, <2>6, <2>9, <3>1 DEF HeadInv, Placed, Bytes
    <3>2. CASE P = NULL
      BY <2>4, <2>6, <2>7, <2>9, <3>2 DEF HeadInv, Placed, Bytes
    <3> QED
      BY <3>1, <3>2
  <2> QED
    BY <1>2, <1>6, <2>1, <2>5, <2>8, <2>9, <2>10 DEF ListInv
<1> QED
  BY <1>7, <1>8

\* Everything that allocates.
LEMMA AllocateKeeps ==
  ASSUME SupportedRequests, BootInv, Allocate
  PROVE  AllocatorInv' /\ Stores
<1>1. /\ ListInv /\ SearchingInv /\ KeptInv /\ BlocksUsable /\ fdt \in Fdts
  BY DEF BootInv, AllocatorInv, MemP!CoreInv, MemP!TypeOK
<1>2. scan_pc = "done" /\ scan_pc' = scan_pc /\ fdt' = fdt /\ given' = given
  BY DEF Allocate, scanVars
<1>3. Usable' = Usable
  BY <1>2 DEF Usable, Mem!Usable, Mem!NodeBytes, Mem!Forbidden, Mem!Bytes
<1>4. ASSUME UNCHANGED <<listVars, history>>
      PROVE  ListInv' /\ KeptInv' /\ BlocksUsable' /\ Stores
  <2>1. UNCHANGED <<boot_free_list, region, live>>
    BY <1>4 DEF listVars, history
  <2>2. Mem!Pieces(fdt)' = Mem!Pieces(fdt)
    BY <1>2 DEF Mem!Pieces, Mem!Usable, Mem!NodeBytes, Mem!Forbidden, Mem!Bytes, Mem!Starts,
       Mem!Ends, Mem!Blocks, Mem!Reserved
  <2>3. ListInv'
    BY <1>1, <1>3, <2>1 DEF ListInv, HeadInv, Placed, Bytes
  <2>4. KeptInv'
    BY <1>1, <1>2, <2>1, <2>2 DEF KeptInv
  <2>5. BlocksUsable'
    BY <1>1, <1>3, <2>1 DEF BlocksUsable, BlockBytes, Bytes
  <2> QED
    BY <2>1, <2>3, <2>4, <2>5 DEF Stores
<1>5. ASSUME NEW size \in AllocSizes, NEW alignment \in Alignments, boot_alloc(size, alignment)
      PROVE  AllocatorInv' /\ Stores
  <2>1. /\ req' = [size |-> size, alignment |-> alignment]
        /\ curr' = boot_free_list /\ smallest_fitting' = NULL /\ smallest_fit' = Word - 1
        /\ UNCHANGED <<listVars, history>> /\ boot_free_list' = boot_free_list
    BY <1>5 DEF boot_alloc, listVars
  <2>2. RequestInv'
    BY <2>1 DEF RequestInv, SupportedRequests
  <2>3. SearchInv'
    BY <2>1 DEF SearchInv
  <2> QED
    BY <1>2, <1>4, <2>1, <2>2, <2>3 DEF AllocatorInv, SearchingInv
<1>6. CASE Scan
  <2>1. RequestInv /\ SearchInv /\ UNCHANGED <<listVars, history>>
    BY <1>1, <1>6 DEF SearchingInv, Scan
  <2>2. RequestInv' /\ SearchInv'
    BY <1>1, <1>6, <2>1, BootHead, SearchStep
  <2> QED
    BY <1>2, <1>4, <2>1, <2>2 DEF AllocatorInv, SearchingInv
<1>7. CASE AllocFails
  <2>1. pc' = "idle" /\ UNCHANGED <<listVars, history>>
    BY <1>7 DEF AllocFails
  <2> QED
    BY <1>4, <2>1 DEF AllocatorInv, SearchingInv
<1>8. CASE alloc_after \/ alloc_before
  <2>1. RequestInv /\ SearchInv
    BY <1>1, <1>8 DEF SearchingInv, alloc_after, alloc_before
  <2>2. ListInv' /\ Stores /\ BlocksUsable' /\ live' # {} /\ pc' = "idle"
    BY <1>1, <1>3, <1>8, <2>1, AfterKeepsList, BeforeKeepsList
  <2> QED
    BY <1>2, <2>2 DEF AllocatorInv, SearchingInv, KeptInv
<1> QED
  BY <1>5, <1>6, <1>7, <1>8 DEF Allocate, AllocStep
-----------------------------------------------------------------------------
(***************************************************************************)
(* The whole boot.                                                         *)
(***************************************************************************)
LEMMA BootInit ==
  ASSUME Init
  PROVE  BootInv
<1>1. MemP!ScanInit /\ AllocInit
  BY SameSteps DEF Init
<1>2. MemP!CoreInv
  BY <1>1, ScanAssumption, MemP!CoreInit
<1>3. MemP!BorderInv
  BY <1>1, ScanAssumption, MemP!BorderInit
<1>4. boot_free_list = NULL /\ live = {} /\ pc = "idle" /\ given = {}
  BY <1>1 DEF AllocInit, MemP!ScanInit
<1>5. region \in [Addr -> Header]
  <2>1. [next |-> NULL, prev |-> NULL, size |-> 0] \in Header
    BY MachineAssumption DEF Header, Word
  <2> QED
    BY <1>1, <2>1 DEF AllocInit
<1>6. AllocatorInv
  BY <1>4, <1>5 DEF AllocatorInv, ListInv, HeadInv, SearchingInv, KeptInv, BlocksUsable
<1> QED
  BY <1>2, <1>3, <1>6 DEF BootInv

\* One step of the boot.
LEMMA BootNext ==
  ASSUME SupportedTrees, SupportedRequests, BootInv, [Next]_vars
  PROVE  BootInv' /\ Stores
<1>1. MemP!CoreInv' /\ MemP!BorderInv' /\ fdt \in Fdts /\ fdt' = fdt
  BY ScanMoves
<1>2. ListInv /\ SearchingInv /\ KeptInv /\ BlocksUsable
  BY DEF BootInv, AllocatorInv
<1>3. Usable' = Usable
  BY <1>1 DEF Usable, Mem!Usable, Mem!NodeBytes, Mem!Forbidden, Mem!Bytes
<1>4. Mem!Pieces(fdt)' = Mem!Pieces(fdt)
  BY <1>1 DEF Mem!Pieces, Mem!Usable, Mem!NodeBytes, Mem!Forbidden, Mem!Bytes, Mem!Starts,
     Mem!Ends, Mem!Blocks, Mem!Reserved
<1>5. ASSUME UNCHANGED allocVars
      PROVE  ListInv' /\ BlocksUsable' /\ Stores
  <2>1. UNCHANGED <<boot_free_list, region, live>>
    BY <1>5 DEF allocVars, listVars, history
  <2>2. ListInv'
    BY <1>2, <1>3, <2>1 DEF ListInv, HeadInv, Placed, Bytes
  <2>3. BlocksUsable'
    BY <1>2, <1>3, <2>1 DEF BlocksUsable, BlockBytes, Bytes
  <2> QED
    BY <2>1, <2>2, <2>3 DEF Stores
<1>6. CASE Detect
  <2>1. scan_pc # "done" /\ given' = given
    BY <1>6 DEF Detect, Mem!ScanStep, Mem!NextBlock, Mem!NextNode, Mem!Finish, Mem!SkipPiece,
       Mem!StartPiece, Mem!Covered, Mem!Trim, Mem!Split, Mem!results, Mem!Return
  <2>2. UNCHANGED <<boot_free_list, region, live, pc>>
    BY <1>6 DEF Detect, allocVars, listVars, history
  <2>3. SearchingInv'
    BY <1>2, <2>1, <2>2 DEF SearchingInv
  <2>4. KeptInv'
    BY <1>2, <1>4, <2>1, <2>2 DEF KeptInv
  <2> QED
    BY <1>1, <1>5, <1>6, <2>3, <2>4 DEF BootInv, AllocatorInv, Detect
<1>7. CASE GivePiece \/ GiveTraps
  <2>1. Mem!AtBootFree /\ boot_free(piece.start, piece.size) /\ pc' # "scan"
    BY <1>7 DEF GivePiece, GiveTraps, Mem!HandOver
  <2>2. /\ ListInv' /\ Stores /\ live' = {}
        /\ boot_free_list' # NULL
        /\ [start |-> boot_free_list', size |-> region'[boot_free_list'].size]
               \in Mem!Pieces(fdt)
    BY <1>1, <2>1, GiveKeepsList
  <2>3. SearchingInv' /\ BlocksUsable'
    BY <2>1, <2>2 DEF SearchingInv, BlocksUsable
  <2>4. KeptInv'
    BY <1>4, <2>2 DEF KeptInv
  <2> QED
    BY <1>1, <2>2, <2>3, <2>4 DEF BootInv, AllocatorInv
<1>8. CASE Allocate
  BY <1>1, <1>8, AllocateKeeps DEF BootInv
<1>9. CASE UNCHANGED vars
  <2>1. UNCHANGED <<boot_free_list, region, live, pc, req, curr, smallest_fitting, smallest_fit,
                    should_alloc_before, scan_pc, given, allocVars>>
    BY <1>9 DEF vars, allocVars, listVars, history, locals, scanVars
  <2>2. SearchingInv'
    BY <1>2, <2>1 DEF SearchingInv, RequestInv, SearchInv, Greater, After, Before,
       region_size_alloc_after, region_size_alloc_before, AfterNeeds, BeforeNeeds,
       alloc_after_unalignment, alloc_before_unalignment
  <2>3. KeptInv'
    BY <1>2, <1>4, <2>1 DEF KeptInv
  <2> QED
    BY <1>1, <1>5, <2>1, <2>2, <2>3 DEF BootInv, AllocatorInv
<1> QED
  BY <1>6, <1>7, <1>8, <1>9 DEF Next

\* The invariant of the memory boot, for every set of device trees boot_free
\* can cope with.
THEOREM BootInvariance ==
  ASSUME SupportedTrees, SupportedRequests
  PROVE  Spec => []BootInv
<1>1. Init => BootInv
  BY BootInit
<1>2. BootInv /\ [Next]_vars => BootInv'
  BY BootNext
<1> QED
  BY <1>1, <1>2, PTL DEF Spec

\* boot_alloc after fdt_boot_mem_init returns memory the device tree declares,
\* never a byte of the kernel, of a reserved region or of the tree itself.
THEOREM BootBlocksUsable ==
  ASSUME SupportedTrees, SupportedRequests
  PROVE  Spec => []BlocksUsable
<1>1. BootInv => BlocksUsable
  BY DEF BootInv, AllocatorInv
<1> QED
  BY <1>1, BootInvariance, PTL

\* Neither boot_free nor boot_alloc stores a header outside usable memory: the
\* device tree is intact while fdt_boot_mem_init still reads it.
THEOREM BootHeadersUsable ==
  ASSUME SupportedTrees, SupportedRequests
  PROVE  Spec => HeadersUsable
<1>1. BootInv /\ [Next]_vars =>
        [\A a \in Addr : region'[a] # region[a] => Bytes(a, HeaderSize) \subseteq Usable]_vars
  BY BootNext DEF Stores, Placed
<1> QED
  BY <1>1, BootInvariance, PTL DEF Spec, HeadersUsable

\* If there is usable memory, the list is not empty when fdt_boot_mem_init
\* returns, although boot_free refuses or loses most of the pieces.
THEOREM BootEndsWithMemory ==
  ASSUME SupportedTrees, SupportedRequests
  PROVE  Spec => []BootLeavesMemory
<1>1. BootInv => BootLeavesMemory
  <2> SUFFICES ASSUME BootInv, scan_pc = "done", live = {}, Usable # {}
               PROVE  ListBytes # {}
    BY DEF BootLeavesMemory
  <2>1. MemP!Complete
    BY ScanAssumption, MemP!EndIsComplete DEF BootInv
  <2>2. given = Usable
    BY <2>1, SameTerms DEF MemP!Complete, Usable
  <2>3. /\ boot_free_list # NULL
        /\ [start |-> boot_free_list, size |-> region[boot_free_list].size] \in Mem!Pieces(fdt)
    BY <2>2 DEF BootInv, AllocatorInv, KeptInv
  <2>4. region[boot_free_list].size > 0
    BY <2>3 DEF Mem!Pieces
  <2>5. boot_free_list \in Nat /\ region[boot_free_list].size \in Nat
    <3>1. ListInv /\ fdt \in Fdts
      BY DEF BootInv, AllocatorInv, MemP!CoreInv, MemP!TypeOK
    <3> QED
      BY <2>3, <3>1, BootHead, MachineAssumption DEF Addr
  <2>6. boot_free_list \in Bytes(boot_free_list, region[boot_free_list].size)
    BY <2>4, <2>5 DEF Bytes
  <2> QED
    BY <2>3, <2>6 DEF ListBytes
<1> QED
  BY <1>1, BootInvariance, PTL
=============================================================================
