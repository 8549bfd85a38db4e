------------------------------ MODULE BootMem ------------------------------
(***************************************************************************)
(* The memory part of the boot: kmain calls fdt_boot_mem_init, which scans *)
(* the device tree (FdtMem) and passes every piece to boot_free (FreeList),*)
(* and then allocates (arch/riscv/kernel.c, arch/arm64/kernel.c).  The     *)
(* answer of boot_free is the one the scan goes on with.                   *)
(***************************************************************************)
EXTENDS FreeList, Sequences

CONSTANTS Fdts, KernelEnd

VARIABLES
  fdt, scan_pc, mem_node, i, total_mem_seen, total_mem_freed,
  piece, entry, depth, pending, given, accepted

Mem == INSTANCE FdtMem WITH pc <- scan_pc

\* A memory node of a device tree describes RAM.
ASSUME TreesAssumption ==
  /\ Fdts \subseteq Mem!Fdt
  /\ KernelEnd \in Nat
  /\ \A f \in Fdts : Mem!Usable(f) \subseteq Addr

scanVars == <<fdt, scan_pc, mem_node, i, total_mem_seen, total_mem_freed,
              piece, entry, depth, pending, given, accepted>>
vars == <<allocVars, scanVars>>

Init == AllocInit /\ Mem!ScanInit

Detect == Mem!ScanStep /\ UNCHANGED allocVars

\* boot_free returns and the scan goes on.
GivePiece ==
  /\ boot_free(piece.start, piece.size)
  /\ pc' = "idle"
  /\ Mem!HandOver(err' = "KERR_SUCCESS")

\* boot_free does not return.
GiveTraps ==
  /\ Mem!AtBootFree
  /\ boot_free(piece.start, piece.size)
  /\ pc' = "trap"
  /\ UNCHANGED scanVars

\* Everything that allocates runs after the scan. Clients do not write into
\* their blocks: kmain allocates once and writes nothing.
Allocate ==
  /\ scan_pc = "done"
  /\ \/ \E size \in AllocSizes, alignment \in Alignments : boot_alloc(size, alignment)
     \/ AllocStep
  /\ UNCHANGED scanVars

Next == Detect \/ GivePiece \/ GiveTraps \/ Allocate

Spec == Init /\ [][Next]_vars /\ WF_vars(Detect \/ GivePiece \/ GiveTraps)

-----------------------------------------------------------------------------
Usable == Mem!Usable(fdt)

(***************************************************************************)
(* The device trees boot_free can cope with: every piece the scan makes    *)
(* has room for a header, and none starts where boot_free wrongly computes *)
(* the end of another.                                                     *)
(***************************************************************************)
RoomForHeaders(f) == \A p \in Mem!Pieces(f) : p.size >= HeaderSize

NoFalseNeighbours(f) ==
  \A p, q \in Mem!Pieces(f) : Wrap(p.start + HeaderSize * p.size) # q.start

\* What boot_alloc returns is memory the device tree declares, and no part of
\* the kernel, of a reserved region or of the device tree itself.
BlocksUsable == \A b \in live : BlockBytes(b) \subseteq Usable

\* The headers of the free list are stored in usable memory only: giving and
\* allocating memory never overwrites the device tree the scan still reads.
\* Address 0, where boot_free stores through a NULL fully_before, is no RAM and
\* is not counted.
HeadersUsable ==
  [][\A a \in Addr : region'[a] # region[a] => Bytes(a, HeaderSize) \subseteq Usable]_vars

\* If there is usable memory, the boot ends with memory to allocate.
BootLeavesMemory == scan_pc = "done" /\ live = {} /\ Usable # {} => ListBytes # {}
=============================================================================
