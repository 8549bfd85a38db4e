----------------------------- MODULE MCFdtMem -----------------------------
(***************************************************************************)
(* Device trees for TLC: every pair of reserved regions and every place of *)
(* the blob around and inside one or two memory blocks, of which the first *)
(* overlaps the kernel.                                                    *)
(***************************************************************************)
EXTENDS FdtMem

CONSTANTS MaxAddr, MaxSize, MaxResv, Memories

Regions == [start: 0..MaxAddr, size: 0..MaxSize]

\* An entry of two zeros ends the list of reserve entries.
ResvLists == UNION {[1..n -> Regions \ {[start |-> 0, size |-> 0]}] : n \in 0..MaxResv}

Blobs == {b \in Regions : b.size = MaxSize}

R(a, n) == [start |-> a, size |-> n]

\* Memory nodes with one register block or none; one block is empty, one
\* ends where the kernel does and one below.
OneBlockMemories ==
  { <<>>, << <<R(5, 0)>> >>, << <<R(0, 9)>> >>, << <<R(4, 5)>>, <<R(1, 1)>>, <<>>, <<R(0, 1)>> >> }

\* A node with two register blocks.
TwoBlockMemories == { << <<R(3, 4), R(8, 3)>> >> }

MCFdts == [resv: ResvLists, blob: Blobs, mem: Memories]
=============================================================================
