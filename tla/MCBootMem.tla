----------------------------- MODULE MCBootMem -----------------------------
(***************************************************************************)
(* Device trees for the whole memory boot: one memory block with the       *)
(* kernel at its start, one reserved region or none, and the blob anywhere *)
(* in it or behind it; and three adjacent memory nodes in any order, which *)
(* boot_free refuses, loses below the head, or merges at a scaled end.     *)
(***************************************************************************)
EXTENDS BootMem, FiniteSets

R(a, n) == [start |-> a, size |-> n]

ResvLists == { <<>> } \cup { <<R(a, n)>> : a \in 1..Top, n \in 1..3 }

Blobs == { R(a, 2) : a \in 1..(Top + 1) }

AllFdts == [resv: ResvLists, blob: Blobs, mem: { << <<R(1, Top)>> >> }]

\* The layout of a tree does not depend on the set of trees the scan may get.
Layout == INSTANCE FdtMem WITH Fdts <- AllFdts, pc <- scan_pc

LargeFdts == { f \in AllFdts : \A p \in Layout!Pieces(f) : p.size >= HeaderSize }

PlainFdts ==
  { f \in LargeFdts :
      \A p, q \in Layout!Pieces(f) : Wrap(p.start + HeaderSize * p.size) # q.start }

\* Three blocks behind the kernel, one behind the other.
Adjacent ==
  { b \in { <<R(KernelEnd, x), R(KernelEnd + x, y), R(KernelEnd + x + y, z)>> :
              x, y, z \in 2..4 } :
      b[3].start + b[3].size - 1 <= Top }

Orders == { p \in [1..3 -> 1..3] : {p[k] : k \in 1..3} = 1..3 }

AdjacentFdts ==
  { [resv |-> <<>>, blob |-> R(Top + 1, 2), mem |-> [k \in 1..3 |-> <<b[p[k]]>>]] :
      b \in Adjacent, p \in Orders }

BootFdts == PlainFdts \cup AdjacentFdts

ASSUME TreesAreSupported ==
  /\ \A f \in LargeFdts : RoomForHeaders(f)
  /\ \A f \in PlainFdts : RoomForHeaders(f) /\ NoFalseNeighbours(f)
  /\ \A f \in AdjacentFdts : RoomForHeaders(f)
  /\ \E f \in AdjacentFdts : ~NoFalseNeighbours(f)
=============================================================================
