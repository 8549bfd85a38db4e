------------------------------- MODULE FdtMem -------------------------------
(***************************************************************************)
(* Memory detection, kernel/of/fdt_mem.c: every block of memory the device *)
(* tree declares is given to the boot allocator, except the kernel and     *)
(* what lies below it, the reserved regions and the device tree itself.    *)
(*                                                                         *)
(* try_boot_free_region is recursive.  A call ends in a sum of two calls   *)
(* when a reserved region splits its piece, so its stack is the sequence   *)
(* of the pieces that still wait for their call.  C leaves the order of    *)
(* the two calls open: either piece may come first.                        *)
(*                                                                         *)
(* A device tree is what the iterators of kernel/of/fdt.c make of it: the  *)
(* reserve entries up to the terminator, the place of the blob, and the    *)
(* register blocks of each node whose device_type is "memory".             *)
(***************************************************************************)
EXTENDS Integers, Sequences, FiniteSets

CONSTANTS
  Fdts,       \* the device trees the kernel may be booted with
  KernelEnd   \* __kernel_end

Region == [start: Nat, size: Nat]
Fdt == [resv: Seq(Region), blob: Region, mem: Seq(Seq(Region))]

\* No region wraps around the end of the address space: addresses are Nat.
ASSUME FdtAssumption ==
  /\ Fdts \subseteq Fdt
  /\ KernelEnd \in Nat

VARIABLES
  fdt,               \* the device tree
  pc,                \* "node", "call", "entries" or "done"
  mem_node, i,       \* the loops of fdt_boot_mem_init
  total_mem_seen, total_mem_freed,
  piece,             \* start and size of the running try_boot_free_region
  entry,             \* the reserved region it looks at next
  depth,             \* how many calls of it are on the stack
  pending,           \* the pieces that wait, innermost first
  given,             \* history: the bytes passed to boot_free
  accepted           \* history: those it accepted

loops    == <<mem_node, i, total_mem_seen>>
call     == <<piece, entry, depth, pending>>
results  == <<total_mem_freed, given, accepted>>
scanVars == <<fdt, pc, loops, call, results>>

Bytes(r) == r.start..(r.start + r.size - 1)

-----------------------------------------------------------------------------
\* What is left of piece p beside the reserved region r: nothing, one piece,
\* or two when r lies inside p.
trim_or_split_around_reserved(p, r) ==
  LET end      == p.start + p.size
      resv_end == r.start + r.size
      Span(a, b) == [start |-> a, size |-> b - a]
  IN  IF resv_end <= p.start \/ r.start > end THEN <<p>>
      ELSE IF r.start <= p.start
           THEN IF resv_end >= end THEN <<>> ELSE <<Span(resv_end, end)>>
           ELSE IF resv_end < end
                THEN <<Span(p.start, r.start), Span(resv_end, end)>>
                ELSE <<Span(p.start, r.start)>>

\* Mutant: the blob is forgotten.
EntriesOnly == fdt.resv

\* What a call has to keep out of the allocator: the reserve entries and then
\* the blob.  The code treats the blob like one more entry.
Excluded == Append(fdt.resv, fdt.blob)

\* Mutant: the kernel is not cut off.
KernelIgnored(p) == p

\* The piece without the kernel and the firmware below it.
AboveKernel(p) ==
  IF p.start < KernelEnd
  THEN [start |-> KernelEnd, size |-> p.start + p.size - KernelEnd]
  ELSE p

\* Mutant: the loop over the register blocks does not go on.
ReturnAgain ==
  IF pending = <<>>
  THEN /\ pc' = "node"
       /\ UNCHANGED <<i, piece, depth, pending>>
  ELSE /\ pc' = "call"
       /\ piece' = Head(pending).piece
       /\ depth' = Head(pending).depth
       /\ pending' = Tail(pending)
       /\ UNCHANGED i

\* The call returns: to the sum that waits for the other half of a split, or
\* to the loop over the register blocks.
Return ==
  IF pending = <<>>
  THEN /\ pc' = "node"
       /\ i' = i + 1
       /\ UNCHANGED <<piece, depth, pending>>
  ELSE /\ pc' = "call"
       /\ piece' = Head(pending).piece
       /\ depth' = Head(pending).depth
       /\ pending' = Tail(pending)
       /\ UNCHANGED i

-----------------------------------------------------------------------------
\* fdt_boot_mem_init: the next register block of the node is looked up, always
\* with index 0, and handed to try_boot_free_region.
NextBlock ==
  /\ pc = "node"
  /\ mem_node <= Len(fdt.mem)
  /\ i < Len(fdt.mem[mem_node])
  /\ piece' = fdt.mem[mem_node][1]
  /\ total_mem_seen' = total_mem_seen + fdt.mem[mem_node][1].size
  /\ depth' = 1
  /\ pc' = "call"
  /\ UNCHANGED <<fdt, mem_node, i, entry, pending, results>>

NextNode ==
  /\ pc = "node"
  /\ mem_node <= Len(fdt.mem)
  /\ i >= Len(fdt.mem[mem_node])
  /\ mem_node' = mem_node + 1
  /\ i' = 0
  /\ UNCHANGED <<fdt, pc, total_mem_seen, call, results>>

Finish ==
  /\ pc = "node"
  /\ mem_node > Len(fdt.mem)
  /\ pc' = "done"
  /\ UNCHANGED <<fdt, loops, call, results>>

\* Mutant: a piece that starts below the end of the kernel is dropped whole.
NothingBelow == piece.size = 0 \/ piece.start < KernelEnd

\* Mutant: a piece that ends below the end of the kernel is not dropped.
NothingEmpty == piece.size = 0

\* try_boot_free_region up to its loop.
Nothing == piece.size = 0 \/ piece.start + piece.size <= KernelEnd

\* Mutant: the call for an empty piece does not return.
SkipPieceStays ==
  /\ pc = "call"
  /\ Nothing
  /\ UNCHANGED scanVars

SkipPiece ==
  /\ pc = "call"
  /\ Nothing
  /\ Return
  /\ UNCHANGED <<fdt, mem_node, total_mem_seen, entry, results>>

StartPiece ==
  /\ pc = "call"
  /\ ~Nothing
  /\ piece' = AboveKernel(piece)
  /\ entry' = 1
  /\ pc' = "entries"
  /\ UNCHANGED <<fdt, loops, depth, pending, results>>

\* One turn of the loop over the reserved regions.
Left == trim_or_split_around_reserved(piece, Excluded[entry])

Covered ==
  /\ pc = "entries"
  /\ entry <= Len(Excluded)
  /\ Len(Left) = 0
  /\ Return
  /\ UNCHANGED <<fdt, mem_node, total_mem_seen, entry, results>>

\* Mutant: a trimmed piece is handed to a new call, like a split one.
TrimRecurses ==
  /\ pc = "entries"
  /\ entry <= Len(Excluded)
  /\ Len(Left) = 1
  /\ piece' = Left[1]
  /\ depth' = depth + 1
  /\ pc' = "call"
  /\ UNCHANGED <<fdt, loops, entry, pending, results>>

Trim ==
  /\ pc = "entries"
  /\ entry <= Len(Excluded)
  /\ Len(Left) = 1
  /\ piece' = Left[1]
  /\ entry' = entry + 1
  /\ UNCHANGED <<fdt, pc, loops, depth, pending, results>>

Split(first, second) ==
  /\ pc = "entries"
  /\ entry <= Len(Excluded)
  /\ Len(Left) = 2
  /\ piece' = Left[first]
  /\ pending' = <<[piece |-> Left[second], depth |-> depth + 1]>> \o pending
  /\ depth' = depth + 1
  /\ pc' = "call"
  /\ UNCHANGED <<fdt, loops, entry, results>>

\* boot_free(start, size): its answer is the allocator's business.
AtBootFree == pc = "entries" /\ entry > Len(Excluded)

\* Mutant: what boot_free refuses is counted as freed.
HandOverCounted(ok) ==
  /\ AtBootFree
  /\ given' = given \cup Bytes(piece)
  /\ accepted' = IF ok THEN accepted \cup Bytes(piece) ELSE accepted
  /\ total_mem_freed' = total_mem_freed + piece.size
  /\ Return
  /\ UNCHANGED <<fdt, mem_node, total_mem_seen, entry>>

HandOver(ok) ==
  /\ AtBootFree
  /\ given' = given \cup Bytes(piece)
  /\ IF ok
     THEN /\ accepted' = accepted \cup Bytes(piece)
          /\ total_mem_freed' = total_mem_freed + piece.size
     ELSE UNCHANGED <<accepted, total_mem_freed>>
  /\ Return
  /\ UNCHANGED <<fdt, mem_node, total_mem_seen, entry>>

ScanInit ==
  /\ fdt \in Fdts
  /\ pc = "node"
  /\ mem_node = 1
  /\ i = 0
  /\ total_mem_seen = 0
  /\ total_mem_freed = 0
  /\ piece = [start |-> 0, size |-> 0]
  /\ entry = 1
  /\ depth = 0
  /\ pending = <<>>
  /\ given = {}
  /\ accepted = {}

\* A step that calls nobody.
ScanStep ==
  \/ NextBlock \/ NextNode \/ Finish
  \/ SkipPiece \/ StartPiece
  \/ Covered \/ Trim \/ Split(1, 2) \/ Split(2, 1)

Next == ScanStep \/ \E ok \in BOOLEAN : HandOver(ok)

(***************************************************************************)
(* fdt_boot_mem_init runs alone and without interruption.                  *)
(***************************************************************************)
Spec == ScanInit /\ [][Next]_scanVars /\ WF_scanVars(Next)

-----------------------------------------------------------------------------
(***************************************************************************)
(* Properties.                                                             *)
(***************************************************************************)
\* The type invariant: in particular no piece has a negative size.
TypeOK ==
  /\ fdt \in Fdts
  /\ pc \in {"node", "call", "entries", "done"}
  /\ mem_node \in 1..(Len(fdt.mem) + 1)
  /\ i \in Nat
  /\ total_mem_seen \in Nat /\ total_mem_freed \in Nat
  /\ piece \in Region
  /\ entry \in Nat \ {0}
  /\ depth \in Nat
  /\ pending \in Seq([piece: Region, depth: Nat])
  /\ given \subseteq Nat /\ accepted \subseteq Nat

\* The bytes that must never reach the allocator.
Forbidden(f) ==
  (0..(KernelEnd - 1)) \cup Bytes(f.blob) \cup UNION {Bytes(f.resv[k]) : k \in DOMAIN f.resv}

\* The bytes of the memory node n that the code looks at.
NodeBytes(f, n) == IF f.mem[n] = <<>> THEN {} ELSE Bytes(f.mem[n][1])

\* The memory the kernel may use.
Usable(f) == (UNION {NodeBytes(f, n) : n \in DOMAIN f.mem}) \ Forbidden(f)

\* Where a run of usable bytes may begin and end: at a border of the kernel, of
\* a memory block or of a reserved region.
Blocks(f) == { f.mem[n][1] : n \in { m \in DOMAIN f.mem : f.mem[m] # <<>> } }
Reserved(f) == { f.resv[k] : k \in DOMAIN f.resv } \cup {f.blob}
Starts(f) ==
  {KernelEnd} \cup { b.start : b \in Blocks(f) } \cup { r.start + r.size : r \in Reserved(f) }
Ends(f) == { b.start + b.size : b \in Blocks(f) } \cup { r.start : r \in Reserved(f) }

\* The runs of usable bytes between two borders.
Pieces(f) ==
  { p \in { [start |-> a, size |-> b - a] : a \in Starts(f), b \in Ends(f) } :
      p.size > 0 /\ Bytes(p) \subseteq Usable(f) }

\* boot_free is never called for a byte of the kernel, the firmware below it,
\* a reserved region or the device tree, nor for no bytes at all, in
\* whatever order the regions split and cover each other.
NeverReserved ==
  AtBootFree => piece.size > 0 /\ Bytes(piece) \cap Forbidden(fdt) = {}

\* "careful never to free the same address more than once"
\* (include/kernel/mem/boot.h:16)
GivenOnce == AtBootFree => Bytes(piece) \cap given = {}

\* No usable byte is lost: when the scan is over, what was passed to boot_free
\* is exactly the declared memory without the forbidden bytes.
Complete == pc = "done" => given = Usable(fdt)

\* The report at the end is exact: total_mem_freed is the number of bytes the
\* allocator accepted, and no more than was seen.
ReportExact ==
  pc = "done" => /\ total_mem_freed = Cardinality(accepted)
                 /\ total_mem_freed <= total_mem_seen

\* The recursion needs at most one stack frame per excluded region, and one:
\* each region splits a piece at most once on the way down.
DepthBounded == depth <= Len(Excluded) + 1

\* The scan ends.
Terminates == <>(pc = "done")
=============================================================================
