------------------------------ MODULE FreeList ------------------------------
(***************************************************************************)
(* The boot memory allocator, kernel/mem/boot/free_list.c.                 *)
(*                                                                         *)
(* The allocator keeps a doubly linked list of free regions; the header    *)
(* of a region (struct boot_free_region) is stored in the first bytes of   *)
(* the region itself.  Memory enters it through boot_free and leaves it    *)
(* through boot_alloc.  There is no lock and one hart: a call runs to its  *)
(* end before the next one starts.  The search loop of boot_alloc is one   *)
(* action per region of the list; every other function is one action.      *)
(*                                                                         *)
(* Addresses and sizes are numbers of bytes.  The unit and the size of the *)
(* header are parameters: nothing below depends on HeaderSize being 24.    *)
(***************************************************************************)
EXTENDS Integers, FiniteSets

CONSTANTS
  HeaderSize,   \* sizeof(struct boot_free_region)
  Top,          \* the machine has RAM at the addresses 1..Top
  Half,         \* 2^63: size_t is 0..2*Half-1, ssize_t is -Half..Half-1
  AllocSizes,   \* sizes clients pass to boot_alloc
  Alignments    \* alignments (exponents of 2) clients pass to boot_alloc

\* #define NULL 0 (libc/include/stddef.h)
NULL == 0
Addr == 1..Top
Word == 2 * Half

ASSUME MachineAssumption ==
  /\ HeaderSize \in Nat \ {0, 1}
  /\ Top \in Nat \ {0}
  /\ Half \in Nat
  /\ Top < Half

ASSUME RequestAssumption ==
  /\ AllocSizes \subseteq 0..(Word - 1)
  /\ Alignments \subseteq Nat
  /\ \A a \in Alignments : 2^a \in Nat \ {0}

VARIABLES
  boot_free_list,       \* the head of the list, or NULL
  region,               \* region[a]: the header fields stored at address a
  pc,                   \* "idle", "scan" (in boot_alloc) or "trap"
  req,                  \* the arguments of the boot_alloc that is running
  curr,                 \* the locals of boot_alloc
  smallest_fitting,
  smallest_fit,
  should_alloc_before,
  err,                  \* what the last boot_free returned
  pool,                 \* history: bytes given by boot_free, not handed out
  live                  \* history: the blocks clients hold from boot_alloc

listVars  == <<boot_free_list, region>>
locals    == <<req, curr, smallest_fitting, smallest_fit, should_alloc_before>>
history   == <<pool, live>>
allocVars == <<listVars, pc, locals, err, history>>

Header == [next: Addr \cup {NULL}, prev: Addr \cup {NULL}, size: 0..(Word - 1)]

Bytes(start, size) == start..(start + size - 1)

-----------------------------------------------------------------------------
(***************************************************************************)
(* Machine arithmetic: size_t wraps around, and a cast to ssize_t          *)
(* reinterprets the upper half of the range as negative numbers.           *)
(***************************************************************************)
Wrap(x)   == x % Word
Signed(x) == IF x < Half THEN x ELSE x - Word

\* Mutant: the start of the region is taken for aligned.
BeforeUnpadded(r, alignment) == 0

(***************************************************************************)
(* How many bytes an allocation wastes for its alignment when it is cut    *)
(* from the end and from the start of region r.  The second function       *)
(* answers a whole unit, not 0, for a region that is already aligned.      *)
(***************************************************************************)
alloc_after_unalignment(r, size, alignment) ==
  (r + region[r].size - size) % 2^alignment

alloc_before_unalignment(r, alignment) == 2^alignment - (r % 2^alignment)

AfterNeeds(r, size, alignment) ==
  Wrap(size + alloc_after_unalignment(r, size, alignment))

BeforeNeeds(r, size, alignment) ==
  Wrap(size + alloc_before_unalignment(r, alignment))

\* Mutant: one byte more than the region is left with.
AfterOffByOne(r, size, alignment) ==
  Signed(region[r].size) - Signed(AfterNeeds(r, size, alignment)) + 1

region_size_alloc_after(r, size, alignment) ==
  Signed(region[r].size) - Signed(AfterNeeds(r, size, alignment))

region_size_alloc_before(r, size, alignment) ==
  Signed(region[r].size) - Signed(BeforeNeeds(r, size, alignment))

(***************************************************************************)
(* Taking region r out of the list: the headers afterwards (hdr is their   *)
(* value before), and the new head.  NULL is not in Addr, so the tests     *)
(* `prev != NULL' and `next != NULL' are the two comparisons with a.       *)
(***************************************************************************)
Unlinked(hdr, r) ==
  [a \in Addr |->
     [next |-> IF a = hdr[r].prev THEN hdr[r].next ELSE hdr[a].next,
      prev |-> IF a = hdr[r].next THEN hdr[r].prev ELSE hdr[a].prev,
      size |-> hdr[a].size]]

\* Mutant: the head is not updated when the first region leaves.
HeadKept(r) == boot_free_list

HeadWithout(r) ==
  IF region[r].prev # NULL THEN boot_free_list ELSE region[r].next

(***************************************************************************)
(* Moving the header of region r up to address `to': the new header takes  *)
(* over the links of the old one and its neighbours point to it.           *)
(***************************************************************************)
Moved(hdr, r, to, size) ==
  [a \in Addr |->
     IF a = to
     THEN [next |-> hdr[r].next, prev |-> hdr[r].prev, size |-> size]
     ELSE [next |-> IF a = hdr[r].prev THEN to ELSE hdr[a].next,
           prev |-> IF a = hdr[r].next THEN to ELSE hdr[a].prev,
           size |-> hdr[a].size]]

\* Mutant: the head stays where the block is.
HeadStays(r, to) == boot_free_list

HeadMoved(r, to) == IF region[r].prev # NULL THEN boot_free_list ELSE to

-----------------------------------------------------------------------------
\* Mutant: what an earlier search found is not reset.
AllocStale(size, alignment) ==
  /\ pc = "idle"
  /\ pc' = "scan"
  /\ req' = [size |-> size, alignment |-> alignment]
  /\ curr' = boot_free_list
  /\ smallest_fit' = Word - 1
  /\ UNCHANGED <<listVars, smallest_fitting, should_alloc_before, err, history>>

(***************************************************************************)
(* boot_alloc(size, alignment): the call, one turn of the search loop per  *)
(* region, and the three ways it ends.                                     *)
(***************************************************************************)
boot_alloc(size, alignment) ==
  /\ pc = "idle"
  /\ pc' = "scan"
  /\ req' = [size |-> size, alignment |-> alignment]
  /\ curr' = boot_free_list
  /\ smallest_fitting' = NULL
  /\ smallest_fit' = Word - 1
  /\ should_alloc_before' = FALSE
  /\ UNCHANGED <<listVars, err, history>>

\* The size region r is left with if the request is cut from its better end.
After(r)   == region_size_alloc_after(r, req.size, req.alignment)
Before(r)  == region_size_alloc_before(r, req.size, req.alignment)
Greater(r) == IF After(r) > Before(r) THEN After(r) ELSE Before(r)

\* Mutant: a region of exactly the size is passed over.
StrictlyBetterFit(r) == Greater(r) > 0 /\ smallest_fit > Greater(r)

BetterFit(r) == Greater(r) >= 0 /\ smallest_fit > Greater(r)

Scan ==
  /\ pc = "scan"
  /\ curr # NULL
  /\ IF BetterFit(curr)
     THEN /\ smallest_fit' = Greater(curr)
          /\ smallest_fitting' = curr
          /\ should_alloc_before' = (After(curr) # Greater(curr))
     ELSE UNCHANGED <<smallest_fit, smallest_fitting, should_alloc_before>>
  /\ curr' = region[curr].next
  /\ UNCHANGED <<listVars, pc, req, err, history>>

\* boot_alloc returns NULL.
AllocFails ==
  /\ pc = "scan"
  /\ curr = NULL
  /\ smallest_fitting = NULL
  /\ pc' = "idle"
  /\ UNCHANGED <<listVars, locals, err, history>>

\* boot_alloc returns ptr: the client now holds the block.
Return(ptr) ==
  /\ pc' = "idle"
  /\ pool' = pool \ Bytes(ptr, req.size)
  /\ live' = live \cup {[start |-> ptr, size |-> req.size]}
  /\ UNCHANGED <<locals, err>>

\* Mutant: a rest of just one header is dropped.
AllocAfterDrops ==
  LET r      == smallest_fitting
      left   == Wrap(region[r].size - AfterNeeds(r, req.size, req.alignment))
      shrunk == [region EXCEPT ![r].size = left]
  IN /\ pc = "scan"
     /\ curr = NULL
     /\ r # NULL
     /\ ~should_alloc_before
     /\ IF left <= HeaderSize
        THEN /\ region' = Unlinked(shrunk, r)
             /\ boot_free_list' = HeadWithout(r)
        ELSE /\ region' = shrunk
             /\ UNCHANGED boot_free_list
     /\ Return(Wrap(r + left))

(***************************************************************************)
(* alloc_after: the block is the aligned end of the region.  The shrunk    *)
(* size is stored before the test, so it is also stored in a region that   *)
(* is then too small for its header and leaves the list.                   *)
(***************************************************************************)
alloc_after ==
  LET r      == smallest_fitting
      left   == Wrap(region[r].size - AfterNeeds(r, req.size, req.alignment))
      shrunk == [region EXCEPT ![r].size = left]
  IN /\ pc = "scan"
     /\ curr = NULL
     /\ r # NULL
     /\ ~should_alloc_before
     /\ IF left < HeaderSize
        THEN /\ region' = Unlinked(shrunk, r)
             /\ boot_free_list' = HeadWithout(r)
        ELSE /\ region' = shrunk
             /\ UNCHANGED boot_free_list
     /\ Return(Wrap(r + left))

(***************************************************************************)
(* alloc_before: the block is the aligned start of the region, and the     *)
(* header moves behind it, or the region leaves the list.                  *)
(***************************************************************************)
alloc_before ==
  LET r    == smallest_fitting
      used == BeforeNeeds(r, req.size, req.alignment)
      left == Wrap(region[r].size - used)
  IN /\ pc = "scan"
     /\ curr = NULL
     /\ r # NULL
     /\ should_alloc_before
     /\ IF left < HeaderSize
        THEN /\ region' = Unlinked(region, r)
             /\ boot_free_list' = HeadWithout(r)
        ELSE /\ region' = Moved(region, r, Wrap(r + used), left)
             /\ boot_free_list' = HeadMoved(r, Wrap(r + used))
     /\ Return(Wrap(r + alloc_before_unalignment(r, req.alignment)))

-----------------------------------------------------------------------------
(***************************************************************************)
(* boot_free(start, size).                                                 *)
(*                                                                         *)
(* The search loop runs its body at most once: every branch returns or     *)
(* breaks, and the one that should move on (`fully_before = curr') falls   *)
(* through to the return of KERR_EXIST.  So only the head is examined.     *)
(* Its end is computed as `curr + curr->size' on a struct pointer, which   *)
(* scales the size by sizeof(struct boot_free_region).                     *)
(***************************************************************************)
curr_end == Wrap(boot_free_list + HeaderSize * region[boot_free_list].size)

\* boot_free returns e and the list stays as it is.
Refuse(e) ==
  /\ err' = e
  /\ UNCHANGED <<listVars, pc, locals, history>>

\* boot_free accepts the block: it is no longer the client's.
Accept(start, size) ==
  /\ err' = "KERR_SUCCESS"
  /\ pool' = pool \cup Bytes(start, size)
  /\ live' = live \ {[start |-> start, size |-> size]}
  /\ UNCHANGED <<pc, locals>>

FreeTooSmall(start, size) ==
  /\ boot_free_list = NULL
  /\ size < HeaderSize
  /\ Refuse("KERR_EMPTY")

\* Mutant: a block that has no room for a header is taken too.
FreeFirstAny(start, size) ==
  /\ boot_free_list = NULL
  /\ region' = [region EXCEPT ![start] =
                  [next |-> NULL, prev |-> NULL, size |-> size]]
  /\ boot_free_list' = start
  /\ Accept(start, size)

\* Mutant: the only region is linked to itself.
FreeFirstCircular(start, size) ==
  /\ boot_free_list = NULL
  /\ size >= HeaderSize
  /\ region' = [region EXCEPT ![start] =
                  [next |-> start, prev |-> NULL, size |-> size]]
  /\ boot_free_list' = start
  /\ Accept(start, size)

FreeFirst(start, size) ==
  /\ boot_free_list = NULL
  /\ size >= HeaderSize
  /\ region' = [region EXCEPT ![start] =
                  [next |-> NULL, prev |-> NULL, size |-> size]]
  /\ boot_free_list' = start
  /\ Accept(start, size)

\* Mutant: the size is scaled like the end.
AbsorbedScaled(c, end, size) ==
  [region EXCEPT ![c].size = Wrap(region[c].size + HeaderSize * size)]

\* The headers after [start, end) is merged into region c, and the region
\* behind it too when that one starts at end.
Absorbed(c, end, size) ==
  LET next == region[c].next
  IN IF next # NULL /\ next = end
     THEN [a \in Addr |->
            [next |-> IF a = c THEN region[next].next ELSE region[a].next,
             prev |-> IF a = region[next].next THEN region[next].prev
                                               ELSE region[a].prev,
             size |-> IF a = c THEN Wrap(region[c].size + size + region[next].size)
                               ELSE region[a].size]]
     ELSE [region EXCEPT ![c].size = Wrap(region[c].size + size)]

OverlapsNext(end) ==
  LET next == region[boot_free_list].next IN next # NULL /\ next < end

FreeMerge(start, size) ==
  /\ boot_free_list # NULL
  /\ curr_end = start
  /\ ~OverlapsNext(start + size)
  /\ region' = Absorbed(boot_free_list, start + size, size)
  /\ UNCHANGED boot_free_list
  /\ Accept(start, size)

FreeRefused(start, size) ==
  /\ boot_free_list # NULL
  /\ \/ curr_end = start /\ OverlapsNext(start + size)
     \/ curr_end < start
     \/ curr_end > start /\ boot_free_list <= start + size
  /\ Refuse("KERR_EXIST")

(***************************************************************************)
(* The block lies below the head.  fully_before is NULL, so the store to   *)
(* fully_before->next goes to address 0: it traps before `size' is         *)
(* stored, or, where address 0 takes stores, it is lost and the call goes  *)
(* on.  The head of the list is not updated.                               *)
(***************************************************************************)
LinkedBelow(start, size) ==
  [region EXCEPT ![start] = [next |-> boot_free_list, prev |-> NULL, size |-> size],
                 ![boot_free_list].prev = start]

\* Mutant: the new region becomes the whole list.
FreeBelowAlone(start, size) ==
  /\ boot_free_list # NULL
  /\ boot_free_list > start + size
  /\ region' = [region EXCEPT ![start] =
                  [next |-> NULL, prev |-> NULL, size |-> size]]
  /\ boot_free_list' = start
  /\ Accept(start, size)

FreeBelow(start, size) ==
  /\ boot_free_list # NULL
  /\ boot_free_list > start + size
  /\ region' = LinkedBelow(start, size)
  /\ UNCHANGED boot_free_list
  /\ Accept(start, size)

FreeBelowTraps(start, size) ==
  /\ boot_free_list # NULL
  /\ boot_free_list > start + size
  /\ region' = LinkedBelow(start, region[start].size)
  /\ pc' = "trap"
  /\ UNCHANGED <<boot_free_list, locals, err, history>>

boot_free(start, size) ==
  /\ pc = "idle"
  /\ \/ FreeTooSmall(start, size)
     \/ FreeFirst(start, size)
     \/ FreeMerge(start, size)
     \/ FreeRefused(start, size)
     \/ FreeBelow(start, size)
     \/ FreeBelowTraps(start, size)

\* Nothing has been given yet.  What RAM holds then is never read as a header.
AllocInit ==
  /\ boot_free_list = NULL
  /\ region = [a \in Addr |-> [next |-> NULL, prev |-> NULL, size |-> 0]]
  /\ pc = "idle"
  /\ req = [size |-> 0, alignment |-> 0]
  /\ curr = NULL
  /\ smallest_fitting = NULL
  /\ smallest_fit = 0
  /\ should_alloc_before = FALSE
  /\ err = "KERR_SUCCESS"
  /\ pool = {}
  /\ live = {}

AllocStep == Scan \/ AllocFails \/ alloc_after \/ alloc_before

-----------------------------------------------------------------------------
(***************************************************************************)
(* Properties.  pool and live record who owns each byte: a byte given by   *)
(* boot_free is the allocator's (pool) until boot_alloc returns it in a    *)
(* block, which is the client's (live) until it is freed.                  *)
(***************************************************************************)
\* A block of 0 bytes may start just behind the last byte of RAM.
Block == [start: 1..(Top + 1), size: 0..(Word - 1)]

BlockBytes(b) == Bytes(b.start, b.size)

\* The bytes the free list offers to boot_alloc.
ListBytes ==
  IF boot_free_list = NULL THEN {}
  ELSE Bytes(boot_free_list, region[boot_free_list].size)

\* The type invariant: in particular the links stay in RAM or NULL, and no
\* block starts at NULL or behind RAM.
AllocTypeOK ==
  /\ boot_free_list \in Addr \cup {NULL}
  /\ region \in [Addr -> Header]
  /\ pc \in {"idle", "scan", "trap"}
  /\ req \in [size: 0..(Word - 1), alignment: Nat]
  /\ curr \in Addr \cup {NULL}
  /\ smallest_fitting \in Addr \cup {NULL}
  /\ smallest_fit \in 0..(Word - 1)
  /\ should_alloc_before \in BOOLEAN
  /\ err \in {"KERR_SUCCESS", "KERR_EXIST", "KERR_EMPTY"}
  /\ pool \subseteq Addr
  /\ live \subseteq Block

\* The list never has a second region: boot_free examines the head alone, and
\* links a further region only below the head, without making it the head.
AtMostOneRegion ==
  boot_free_list # NULL => region[boot_free_list].next = NULL

\* Every region of the list starts with its own header, has room for it, is
\* properly linked, and consists of bytes the allocator was given and has
\* not handed out: what a client holds is never offered, or overwritten
\* by a header.
ListSound ==
  boot_free_list # NULL =>
    /\ region[boot_free_list].prev = NULL
    /\ region[boot_free_list].size >= HeaderSize
    /\ ListBytes \subseteq pool

\* Two blocks that clients hold at the same time share no byte, and no byte
\* of them belongs to the allocator.
NoOverlap ==
  /\ \A b, c \in live : b # c => BlockBytes(b) \cap BlockBytes(c) = {}
  /\ \A b \in live : BlockBytes(b) \cap pool = {}

\* The assertions of alloc_after and alloc_before (`If we don't have a
\* previous, we are the boot_free_list') never fail.
AssertionsHold ==
  pc = "scan" /\ smallest_fitting # NULL
    => \/ region[smallest_fitting].prev # NULL
       \/ boot_free_list = smallest_fitting

\* A placement of the request inside region r, aligned to 2^alignment.
Fits(r, size, alignment) ==
  \E p \in r..(r + region[r].size - size) : p % 2^alignment = 0

\* boot_alloc fails only if the list has no region that could hold the
\* request at an aligned address: looking at the two ends of a region is
\* enough, although the start is padded by a whole unit when it is aligned.
FailsOnlyIfNothingFits ==
  pc = "scan" /\ curr = NULL /\ smallest_fitting = NULL /\ boot_free_list # NULL
    => ~Fits(boot_free_list, req.size, req.alignment)

\* While memory is only given, the list never claims more bytes than were
\* given, even where boot_free merges blocks that are not adjacent.  (Not
\* behind an allocation: cutting a block from the start of a head that has a
\* lost region below it leaves the head on the block.)
NeverOvercommits == live = {} => Cardinality(ListBytes) <= Cardinality(pool)

\* Memory that boot_alloc could hand out stays in the list when more memory
\* is given: no boot_free loses what an earlier one added.
FreeKeepsList ==
  [][pc = "idle" /\ pc' # "scan" => ListBytes \subseteq ListBytes']_allocVars

\* A header is only stored in memory that is the allocator's before or
\* after the call.
StoresStayInPool ==
  [][\A a \in Addr :
       region'[a] # region[a] => Bytes(a, HeaderSize) \subseteq pool \cup pool'
    ]_allocVars

\* A boot_alloc takes, besides the block, less than one alignment unit and
\* one header from the list: the rest of the region stays allocatable.
BoundedWaste ==
  [][\A b \in live' \ live :
       \A a \in ListBytes \ ListBytes' :
         \/ a \in BlockBytes(b)
         \/ b.start - a \in 1..(2^req.alignment + HeaderSize - 2)
         \/ a - (b.start + b.size) \in 0..(2^req.alignment + HeaderSize - 3)
    ]_allocVars
=============================================================================
