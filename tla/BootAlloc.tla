----------------------------- MODULE BootAlloc -----------------------------
(***************************************************************************)
(* What include/kernel/mem/boot.h promises of a boot allocator, whichever  *)
(* backend is linked in: memory given to it is its own until it hands it   *)
(* out again in an aligned block, and it never hands out a byte it does    *)
(* not own.  It may refuse any call.                                       *)
(***************************************************************************)
EXTENDS Integers

CONSTANTS Top, AllocSizes, Alignments

VARIABLES
  pool,   \* the bytes the allocator owns
  live,   \* the blocks clients hold
  asked   \* the request boot_alloc is working on, if any

Bytes(start, size) == start..(start + size - 1)

Init == pool = {} /\ live = {} /\ asked = {}

\* boot_free: the block may not be the allocator's already.
boot_free(start, size) ==
  /\ asked = {}
  /\ Bytes(start, size) \cap pool = {}
  /\ pool' = pool \cup Bytes(start, size)
  /\ live' = live \ {[start |-> start, size |-> size]}
  /\ UNCHANGED asked

\* A client calls boot_alloc.
Ask(size, alignment) ==
  /\ asked = {}
  /\ asked' = {[size |-> size, alignment |-> alignment]}
  /\ UNCHANGED <<pool, live>>

\* boot_alloc returns some block that the allocator owns, as long as was asked
\* and aligned as was asked.
Grant(request, start) ==
  /\ start % 2^request.alignment = 0
  /\ Bytes(start, request.size) \subseteq pool
  /\ pool' = pool \ Bytes(start, request.size)
  /\ live' = live \cup {[start |-> start, size |-> request.size]}
  /\ asked' = {}

\* boot_alloc returns NULL.
Fail ==
  /\ asked' = {}
  /\ UNCHANGED <<pool, live>>

Next ==
  \/ \E start \in 1..Top, size \in 1..Top : boot_free(start, size)
  \/ \E size \in AllocSizes, alignment \in Alignments : Ask(size, alignment)
  \/ \E request \in asked, start \in 1..(Top + 1) : Grant(request, start)
  \/ Fail

Spec == Init /\ [][Next]_<<pool, live, asked>>
=============================================================================
