-------------------------- MODULE FreeListClients --------------------------
(***************************************************************************)
(* The boot allocator under every sequence of calls its header permits     *)
(* (include/kernel/mem/boot.h): boot_free gives memory that is not already *)
(* the allocator's, either fresh RAM or a block boot_alloc returned;       *)
(* boot_alloc asks for any size and alignment.                             *)
(*                                                                         *)
(* The code does not support all of these calls.  Four kinds of call break *)
(* it; the constant Avoid names the ones the clients of an instance leave  *)
(* out, so that each kind can be studied by itself.                        *)
(***************************************************************************)
EXTENDS FreeList

CONSTANT Avoid

AllHazards == {"below_head", "scaled_end", "too_small", "huge"}

ASSUME AvoidAssumption == Avoid \subseteq AllHazards

\* The block lies below the first region of the list.
BelowHead(start, size) == boot_free_list # NULL /\ start + size < boot_free_list

FreeHazards(start, size) ==
  {h \in AllHazards :
     \/ h = "below_head" /\ BelowHead(start, size)
     \/ h = "too_small"  /\ BelowHead(start, size) /\ size < HeaderSize
     \/ h = "scaled_end" /\ boot_free_list # NULL /\ start = curr_end}

AllocHazards(size, alignment) ==
  {h \in AllHazards : h = "huge" /\ size + 2^alignment >= Half}

\* "needs to be careful never to free the same address more than once"
Permitted(start, size) ==
  /\ start + size - 1 <= Top
  /\ Bytes(start, size) \cap pool = {}
  /\ \A b \in live :
       \/ b = [start |-> start, size |-> size]
       \/ BlockBytes(b) \cap Bytes(start, size) = {}

ClientFree(start, size) ==
  /\ Permitted(start, size)
  /\ FreeHazards(start, size) \cap Avoid = {}
  /\ boot_free(start, size)

ClientAlloc(size, alignment) ==
  /\ AllocHazards(size, alignment) \cap Avoid = {}
  /\ boot_alloc(size, alignment)

Next ==
  \/ \E start \in Addr, size \in 1..Top : ClientFree(start, size)
  \/ \E size \in AllocSizes, alignment \in Alignments : ClientAlloc(size, alignment)
  \/ AllocStep

(***************************************************************************)
(* One hart runs the kernel and nothing preempts it: a boot_alloc that has *)
(* started keeps running.  Clients need not call.                          *)
(***************************************************************************)
Spec == AllocInit /\ [][Next]_allocVars /\ WF_allocVars(AllocStep)

\* Every boot_alloc returns: its search loop ends whatever was given before.
BootAllocReturns == pc = "scan" ~> pc = "idle"

(***************************************************************************)
(* What the header promises, without the list: see BootAlloc.              *)
(***************************************************************************)
Promise == INSTANCE BootAlloc WITH asked <- IF pc = "scan" THEN {req} ELSE {}

\* The free list implements the promise of the header: a boot_alloc returns
\* NULL or a block of the size and alignment it was asked for, all of it the
\* allocator's, and nothing else changes hands.
ImplementsBootAlloc == Promise!Spec
=============================================================================
