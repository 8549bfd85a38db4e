# A TLA+ model of the riscy-os boot path

riscy-os is a small RISC-V and ARM64 kernel. At the modelled commit it boots on
one hart, reads the flattened device tree, finds the memory in it, hands that to
a boot allocator, sets up shutdown and reboot through a syscon register, and
then loops over a UART. There are no interrupts, no threads and no locks: what is
hard here is a device register that changes between two reads, pointer and list manipulation inside the memory being managed,
binary parsing, arithmetic at the edges of integer types, recursion, and long
sequences of legal calls that end in an illegal state. All paths below are
relative to `src/`.

## Inventory

| Component | State | Operations | Interacts with | What makes it correct |
|---|---|---|---|---|
| Boot allocator, `kernel/mem/boot/free_list.c` | a doubly linked list whose headers are the first bytes of the free regions | `boot_free`, `boot_alloc` (search, `alloc_after`, `alloc_before`), `boot_mem_dump` | memory detection gives, `kmain` allocates | blocks disjoint, aligned, owned; nothing owned is lost; fails only if nothing fits |
| Memory detection, `kernel/of/fdt_mem.c` | locals of two loops and a recursion | `fdt_boot_mem_init`, `try_boot_free_region`, `trim_or_split_around_reserved` | reads the device tree, calls `boot_free` | no reserved byte given, every other byte given once, ends, bounded stack |
| Flattened device tree, `kernel/of/fdt.c` | none: pointers into a read-only blob | header check; iterators over nodes, subnodes, properties, parents, reserve entries; lookups; searches; register blocks | everything that needs the hardware description | agrees with the tree that was written |
| Early output, `kernel/early_output.c` | a table of 8 callbacks | register, unregister, `early_putchar`, `early_puts` | drivers register; `printk` prints | each callback prints each string once; overflow is reported |
| Syscon driver, `drivers/syscon/syscon.c` | two actions: found, register, mask, value | two initialisers, shutdown, reboot | device tree, `kmain` | writes only the described bits of a register inside the block |
| Kernel main, `arch/*/kernel.c` | flags of the drivers; the UART register | boot sequence, constructors, input loop | all of the above | a command that stays in the register is obeyed; it is known when one can be lost |
| Formatter, `libc/src/stdio/printf.c` | a 32 byte buffer | `formatted_print`, `pointer_print` | early output | every registered callback prints the formatted text, the count is right, it ends |
| libc strings, endian helpers | none | `memmove`, `strcmp`, ... | all | standard |
| Entry code, `arch/*/entry.S` | registers, stack, `.bss` | set-up, jump to `kmain` | firmware | one hart, cleared `.bss` |

The hard behaviours, each with its line, are in `PROJECT.json` under `hazards`.

## Modules

| Module | Models |
|---|---|
| `FreeList` | `free_list.c`. Variables: the head, the header stored at each address, the locals of `boot_alloc`, the result of `boot_free`. `pool` and `live` are history: which bytes are the allocator's, which blocks are the clients'. |
| `BootAlloc` | the abstract promise of `include/kernel/mem/boot.h`: only `pool`, `live` and the request being served, no list. |
| `FreeListClients` | all call sequences the header permits, minus the kinds named in `Avoid`; liveness; the refinement `ImplementsBootAlloc`. |
| `FreeListLemmas` | TLAPS lemmas about `FreeList` whoever calls it: its arithmetic, the search and the two cuts. |
| `FreeListProofs` | TLAPS proofs about `FreeListClients`. |
| `FdtMem` | `fdt_mem.c`. The recursion of `try_boot_free_region` is the sequence `pending` of pieces that wait for their call; C does not order the two calls of a sum, so `Split` takes them in either order. |
| `FdtMemProofs` | TLAPS proofs about `FdtMem`. |
| `BootMem` | `FdtMem` (by `INSTANCE`) and `FreeList` composed as `kmain` does: the piece is the argument of `boot_free`, its answer goes back to the scan, allocation follows. |
| `BootMemProofs` | TLAPS proofs about `BootMem`, from `FreeListLemmas` and an instance of `FdtMemProofs`. |
| `Fdt` | `fdt.c` as operators on the bytes of the structure block and of the reservation block in front of it. Every loop is a recursive function of the pointer it moves, or of a record of the locals it changes, so that it can be reasoned about. |
| `FdtBlob` | an external producer that writes a reservation block, then a structure block token by token, and keeps the tree they describe: the reference the functions of `Fdt` are compared with. A blob is of one of the `Kinds`: the names it may use, its size and its reservation blocks. `tokens` is history: each token, and what the producer had written when it was behind it. |
| `FdtBlobProofs` | TLAPS proofs that the functions of `Fdt` read what the producer of `FdtBlob` wrote. |
| `EarlyOutput` | `early_output.c`. A component: one step per slot of the output loop; `member` and `lost` are history: who was told `KERR_SUCCESS` and has not left, and which of these found the table full. |
| `Printk` | `printf.c` over `EarlyOutput` (by `EXTENDS`). The format is scanned one character per step; every flush and conversion is an `early_puts` that runs to its end first. Stack memory holds any byte of `Junk` before it is written. |
| `PrintkProofs` | TLAPS proofs about `Printk` and `EarlyOutput`. |
| `Induction` | induction over the natural numbers in a form the provers can use, and from it what the library's `FlattenSeq` returns and the rule for loops written as recursive functions. |
| `Syscon` | `syscon.c`. A component: 32-bit words are sets of bits; `offset + 4` is computed modulo `Word`. |
| `Kernel` | `entry.S` and `kmain` of both architectures over `Syscon` (by `EXTENDS`): the loop that clears `.bss`, in which the two actions lie, `fdt_verify`, the two initialisers, the function arrays, and the input loop with one read of the UART per step. |
| `KernelProofs` | TLAPS proofs about `Kernel` and `Syscon`. |
| `MC*` | constants for TLC. |

Conventions. C names are kept. NULL is 0 and addresses start at 1. `size_t` is
`0..2*Half-1`; `Wrap` and `Signed` are its wrap-around and the cast to `ssize_t`.
Definitions whose comment begins with `Mutant:` are not part of the model: each is
a plausible bug that must make a property fail (`PROJECT.json`, `mutants`).

Notes on faithfulness:

* `boot_free` looks like a loop over the list, but every branch of its body
  returns or breaks, so only the head is examined. The model says so with four
  guarded actions instead of a loop.
* `curr + curr->size` on a struct pointer scales the size (`curr_end`).
* The store through the NULL `fully_before` either traps (`FreeBelowTraps`) or is
  absorbed by whatever is at address 0 (`FreeBelow`): both are outcomes of real
  machines, so both are in the model.
* In `BootMem` clients do not write into their blocks, as `kmain`, which allocates once
  and writes nothing. A stale header can lie in a block there (see the proofs of the
  memory boot), so a client that wrote could change the list.
* `HeadersUsable` is about the bytes of RAM. The store through the NULL `fully_before`
  goes to address 0, which is none, and is not counted.
* In `FdtMem` a device tree is what the iterators deliver. Addresses do not wrap.
  `Complete` speaks of the first register block of each node, the only one the
  code reads; that the others are missed is the finding `two_blocks`.
* In `Fdt` the strings block is a sequence of names indexed by offset; values of one
  or two cells are kept as their bytes. A node without a name has `DebugName`, as in
  `fdt_node_name`, which no search of the run looks for. Memory behind the block has no zero bytes.
* `Printk` allows registering and unregistering between two calls only: the one
  hart does nothing else while it prints. A NUL given to `%c` is counted but not
  printed, since `early_puts` stops at it.
* In `Kernel` the pointer `UART` is not volatile, but the builds pass no
  optimisation flag, so each `*UART` is a load of its own. The register is a
  single cell without a status bit, as `kmain` uses it: a key replaces the last
  one. The loops of both architectures are the same code. On riscv the clearing
  loop stops at `__bss_end`; on arm64 it compares with `x6`, which is one of the
  values `X6` the firmware may have left. `X6` does not go beyond the next
  section: how far a larger one would clear memory is not modelled.
* After `syscon_shutdown` or `syscon_reboot` wrote the register the machine is off
  as far as the model goes; a device that ignores the write would run into
  `unreachable()`.

## Runs

Passing runs:

| Run | Shows | Bounds |
|---|---|---|
| `disciplined` | the allocator is correct under all call sequences that avoid the four unsupported kinds (`below_head`, `scaled_end`, `too_small`, `huge`) | 8 bytes, header 2: regions with no, exact and spare room for a header, alignments 1, 2, 4, sizes 0 and 3 |
| `memory_scan` | the scan gives every usable byte once and no other, reports exact totals, ends, and needs at most one frame per excluded region and one | all pairs of reserved regions of size up to 2 and places of the blob over addresses 0..8, so that they nest, touch, cover, are empty |
| `memory_boot` | scan and allocator together: blocks and headers in usable memory, some memory at the end; giving memory, with wrong merges and stores below the head, never loses the head's bytes and never lists more bytes than were given | 10 bytes, kernel at the start, one reserved region or none, or three adjacent memory nodes of 2 to 4 bytes in any order; alignments 1 and 4, so that both cuts meet a head that has a lost region below it |
| `fdt` | the iterators agree with the tree, inherited properties come from the nearest node, where the cell counts the code takes are the parent's the first register block and the number of blocks are right, the four searches find every match, reserve entries are read exactly | iterators: 4 nodes (a step from depth 2 back to depth 1 needs four), names of 3 and 4 bytes, a value that looks like `FDT_BEGIN_NODE`, one NOP anywhere; lookups: 3 nodes, addresses of 0, 1, 2 cells, sizes of 1, 2, string lists with and without terminator for `device_type`; up to two reserve entries, with one of the numbers 0, before a terminator, padding, what looks like an entry, half a terminator or none |
| `printk` | every callback that found a slot prints exactly the formatted text, no other prints; the result is its length; the call ends | 2 slots, 3 callbacks, so the table overflows and has holes; a buffer of 3 and pointers of 1 byte; every format of up to 3 characters over a letter, `%`, `c`, `s` that does not end in a single `%`, and longer ones that cross the end of the buffer; strings that are empty and longer than the buffer; a `%c` argument of 0 and one above 255; zero and non-zero junk |
| `kernel` | riscv clears `.bss` and nothing behind it; an action is all of one tree; one register, inside its block, gets the described bits; a command is lost only if its key arrives behind its comparison, else obeyed | words of 2 bytes and a `.bss` of 5, so its last word is partial; `x6` in front of, in and behind `.bss`; each field of the tree missing in turn, registers at the start, at the end of and across the block; 4 commands and another key, changing between any two reads |

Deadlock is checked except where the system really stops: after a trap
(`memory_boot`), when the scan is over (`memory_scan`), when a blob is
complete (`fdt`), when the machine is off, halted or has panicked (`kernel`).

Violation runs, one per disagreement between code and documentation (quoted in
`PROJECT.json`, `findings`): `two_blocks` (the scan gives a register block
twice), `reserved_allocated` (scan and allocator together: reserved memory is
allocated), `bad_phandle` (the search by phandle hangs: `SearchExact` fails),
`final_percent` (a final `%` is
not printed), `table_full` (a full callback table is not noticed), `bss_arm64` (on arm64 `kmain`
may start with `.bss` not cleared).

The passing runs leave out some calls and inputs because the code does not
handle them. They are in the models, and a change of one constant shows them:

* `disciplined` has no block below the head: it is linked to the head but never
  becomes the head, so it is lost (`free_list.c:256`). `memory_boot` has such blocks. Without
  `scaled_end`: `NoOverlap` fails, blocks that are not adjacent are merged (209).
  Without `below_head` and `too_small`: `StoresStayInPool` fails, the size of a
  block is only checked while the list is empty (191). Without `huge`, with a
  size of `2*Half - 2`: `ImplementsBootAlloc` fails, the size is negative as an
  `ssize_t` (62).
* A block above the head is refused with `KERR_EXIST` although it was never given
  before (242), so of the pieces around a reserved region only one may be used.
* The devicetree specification, cited in `fdt.h:13-14`, encodes `reg` in the cells of
  the parent, and so do the trees of the repository
  (`misc/dts/qemu-riscv64-virt.dts:120-132`, `191-199`). The code takes the node's own
  counts first and then those of any ancestor (`fdt.c:616`, `639`), which `fdt.h:248-254`
  calls inherited. `FirstBlockExact` states the rule of the specification. Its guard
  `CellsFromParent` leaves out the nodes for which the two rules take different
  properties; without the guard TLC finds it violated.
* `fdt` looks at the first register block. The offset of any other is
  computed in cells and added to a byte pointer (`fdt.c:732`), and a `reg` shorter
  than one block passes the length check (725).
* `kernel` has no offset at which `offset + 4` wraps; one of `Word - 4` passes the
  check of `syscon.c:92` and `RegisterInBlock` fails.
* `printk` has no format that ends in a single `%`; they are in `final_percent`. The
  loop ends at the terminator before the branch that, as its comment says
  (`printf.c:108`), needs `to output the final %`. The loop steps over the
  terminator of an empty format; no caller has one and `PrintkAssumption` excludes it.
* A driver that registers while the table is full is told `KERR_SUCCESS`
  (`table_full`) and never printed to. `FormattedOutput` says nothing of what such a
  driver (`lost`) prints.
* `LostOnlyIfLate` says when a command is lost: its key arrives after the register
  was compared with it and before the turn's last read (`kernel.c:158`), which takes
  it for the old key. The loop then waits until another key is typed.

Fairness. The kernel runs on one hart without interrupts, so a function that has
started keeps running: weak fairness on the steps of `boot_alloc`
(`FreeListClients`), on all steps of the scan (`FdtMem`, `BootMem`), on the formatter
and the output loops (`Printk`: callbacks return) and on the steps of the hart in
`Kernel`. Clients are never forced to call, drivers to register or users to type.

## Proofs

### The allocator (`FreeListProofs`)

For every memory size, header size, width, set of sizes and alignments, and under
`Avoid = AllHazards`: `TypeCorrect`, `ListIsSound`, `BlocksDisjoint`,
`NoAssertionFails`, `FailureIsJustified`,
`HeadersStayInPool`, `WasteIsBounded` and the refinement `Refinement`. All rest on
`Invariance`. Its invariant `IInv` strengthens the properties with the state of a
running search: the request is one of the permitted ones and does not wrap, the
search stands at the head or behind it, and what it has found is the head, together
with the size it would be left with. Without the last part nothing would tie the
decision of the search to the cut made after it. The lemmas follow the code:
rounding an address down or up to an alignment (`Rounding`, `RoundingIsTight`), the
machine arithmetic is exact in the range of the permitted requests, where the two
cuts put the block (`AfterCut`, `BeforeCut`) and what they do to the list
(`CutAfter`, `CutBefore`), and one preservation lemma per action. Those that need no
owner of the memory are in `FreeListLemmas`.
`2^alignment` is opaque to the provers; all that is assumed of it is that it is a
positive number (`RequestAssumption`).

For the phase in which memory is only given (`GivingOnly`: no sizes to request, and
blocks without room for a header avoided): `HandoffNeverOvercommits` and
`HandoffKeepsList`, with wrong merges and blocks below the head. The list is not
sound there, so they have an invariant of their own, `HandoffInv`: the head has no
successor, and its size is at most the number of bytes given, so that even a
merge of blocks that are not adjacent is paid for by given bytes. `NeverOvercommits` speaks
of this phase only: it claims nothing once a block has been allocated.

### The scan (`FdtMemProofs`)

For every set of device trees: `ScanTypes`, `ScanNeverReserved`, `ScanComplete`,
`ScanDepthBounded`, and under `SimpleLayout` (one register block per node, nodes do
not overlap) `ScanGivesOnce` and `ScanReportExact`. The invariant `CoreInv` says that
what has been given, the running piece and the waiting pieces together cover
exactly the usable bytes seen so far (`CoverInv`), that the piece is clean of the
regions already passed (`EntriesInv`), and `DisjointInv` that these parts do not
overlap. `DepthInv`: the depth of the running call and of every waiting one, plus
the number of excluded regions that could still split its piece, is at most the
number of excluded regions plus one. A region that has split a piece splits neither
half again, and a bound on the running call alone is not inductive, since a return
takes up a call that waited. `SeenInv` and `CountInv` tie the two totals to the
bytes seen and accepted.

`ScanGivesPieces`: whatever `boot_free` is called with is one of the `Pieces` of the
tree, an interval of usable bytes between two borders of blocks and excluded
regions. `BorderInv` says so of the running piece and of those that wait. It is
what makes a condition on the tree alone, without the scan, possible in `BootMem`.

### The memory boot (`BootMemProofs`)

For every memory size, header size, width and set of device trees whose memory
nodes describe RAM (`TreesAssumption`): `BootBlocksUsable`, `BootHeadersUsable` and
`BootEndsWithMemory`. The hypothesis `SupportedTrees` is that every piece of a tree has
room for a header and that no piece starts where `boot_free` wrongly computes the end
of another (`RoomForHeaders`, `NoFalseNeighbours`): `reserved_allocated` shows that
without the second reserved memory is allocated. `SupportedRequests` keeps sizes below
half of the address space. The run `memory_boot` has these
trees and, besides, adjacent memory nodes, for some of which a wrong merge happens
and which are beyond the theorems.

The list is not sound here. A piece below the head is linked to it and lost, so the
head may have a neighbour in front of it; when `boot_alloc` then uses the head up, it
unlinks or moves it, which writes the neighbour's header and leaves the head
where it was, although its memory is now allocated. So blocks may overlap after a
boot (TLC finds `NoOverlap` violated with the constants of `memory_boot`), and `ListSound` and `NoOverlap` are claimed for `disciplined` only. What does
hold is `ListInv`: the head has no successor, and its bytes, its header and
the header in front of it are usable memory. `KeptInv` adds that until the first
allocation the head is one of the pieces, which rules out the wrong merge and
leaves memory at the end, and `BootInv` conjoins this with `CoreInv` and `BorderInv`
of the scan, whose lemmas are cited through the instance `MemP`.

### Kernel and syscon (`KernelProofs`)

For every tree, size of a word and of `.bss`, set of keys and registers:
`KernelTypes`, `BssIsCleared`, `FoundOfOneTree`, `CommandLostOnlyIfLate`,
`TreeSaysWhatIsWritten`, and `RegisterIsInBlock` under `NoWrap` (no offset of a tree
wraps when 4 is added; without it the property is false). `KernelInv` adds to the
properties that no action has a source while `.bss` is being cleared (`NothingYet`),
where the cursor of the clearing loop stands and which bytes are dirty
(`ClearInv`), that a found action has a register in its tree and that the flags of
`kmain` are about initialised actions (`FoundInv`), and that a key whose comparison has been passed in this turn arrived behind it
(`PassedInv`).

### Printing (`PrintkProofs`)

For every length of the buffer and the table, every set of callbacks and calls:
`PrintkTypes`, `CallbacksAreOnce`, and `PrintkIsCorrect`: `FormattedOutput`, the
functional correctness of `printk`, for calls whose format does not end in a single `%`
(`NoFinalPercent`). The callbacks it is about are `Served`, the members that found a slot. The invariant `PrintkInv` covers the table, the
output loop, the buffer and the parse of the format (`ScanInv`: `escaped` says that a
run of `%` of odd length ends in front of `pos`, and `args` holds the arguments of
the conversions still to come). `TextInv` says that what the callbacks have
printed, followed by what is on its way to them or in the buffer, is the text of
the format up to `pos`. The hypothesis `PointersAgree` is about data, not about
the state: the digits `pointer_print` writes for a `%p` argument of the calls
are the hexadecimal digits of the number. `pointer_print` is a fixed loop over
`16^k`, which the provers cannot compute; TLC checks it through `FormattedOutput`.
For the same reason `PrintkAssumption` states that `16^k` is positive.

`Formatted` is a fold, so what it is must be proved by induction. The
library's induction theorems have an operator parameter, but its theorem that a
well-founded order has minimal elements (`WFMin`) has none: `Induction` derives
from it that a set of numbers which is closed under successors contains all up to
a bound, and from that the equations of `FlattenSeq`.

While `FormattedOutput` was proved, the definition `Stands` turned out to have two
cases that overlap (a `%%` and a plain `%`), so that the text of such a format was not
determined; it is now.

### The device tree (`FdtBlobProofs`)

For every strings block, every set of names, values and reserve entries and for trees of
every shape and size: `PropsTheorem`, `WalkTheorem`, `ChildrenTheorem`,
`ParentsTheorem`, `FirstBlockTheorem`, `ReserveTheorem` and `SearchTheorem`, that is
every property of the run `fdt`, `FirstBlockTheorem` for the nodes whose cell
counts are their parent's (`CellsFromParent`): `ParentLemma` shows that the second node
of the walk is the parent and `CellsRead` that the counts the code takes are then the
parent's. They say that the functions of `fdt.c`, which
know nothing but bytes, give back the tree the producer had in mind.

*What was written.* The properties speak of a complete block only and the producer's
variables do not say where the tokens are, so none of them is inductive.
`FdtBlob` keeps `tokens`, a history of what each step wrote, and the inductive
invariant `BlobInv` is about that history: the tokens stand one
behind the other from the first byte on (`Layout`), each holds the bytes of the node or
property it is about (`Contents`), each follows from the one before (`Steps`, with
`Current` for the last), the open nodes are an end of the line of ancestors of the
last node (`Stacks`), a node that was closed does not open again (`Closed`), and every
node and property has its token (`Written`). `Closed` is what makes skipping a
subtree right: behind the end of a node no later node is below it. `SideInv` keeps
what a producer chooses once, and that values are among those their names permit.

*What is read.* `fdt_next_token` leads from each token to the next, whatever the bytes
in names and values look like, because `Contents` and the padding give the
length it computes. Every loop of `fdt.c` is an instance of the loop rule of
`Induction` (`LoopRule`): a function defined by recursion exists and satisfies its
equation if each turn takes a rank down (`LoopExists`), and what holds at the start of
a loop and is kept by a turn holds where it stops. The rank is the number
of bytes left, so the proofs show as well that each loop ends. The invariants of the
loops are the interesting part: `fdt_next_node` keeps that `increase` is the
difference of the numbers of open nodes, `fdt_next_token_after_node` that `depth` counts
the nodes opened since, and the walk of `fdt_node_get_parents` that
`curr_branch` holds the line of the current node, whose length never exceeds
`fdt_max_depth`, so that no store goes beside the array.

*Hypotheses.* `BlobAssumption` gives bytes their range, the producer at least a root
node, and a reservation block its form: no entry is both 0, and padding that
is long enough for an entry starts with the terminator. The name `DebugName`, which
`fdt_node_name` gives to a node without one, is no unit name a search looks for. `SearchTheorem` has the hypothesis `WellFormed`: the
value of every `phandle` is one cell, and a `compatible` list ends with a terminator. Both are
what the devicetree specification says of them, and both are needed: without
the first the search never ends (`bad_phandle`), without the second `strings_len`
wraps and the loop over the strings reads on behind the property (`fdt.c:476`). The
other theorems do without it, malformed values included.

### Only model-checked

* Liveness (`BootAllocReturns`, `Terminates`, `PrintfReturns`, `CommandObeyed`): the
  prover has no fairness.
* The digits of one pointer (`PointersAgree`).

## Not modelled

* `boot_mem_dump`, `fdt_dump` and all wording of output: they change no state.
* 32-bit builds. In them `be32toh` would take the upper half of a reserve entry.
* Regions at the end of the address space (`fdt_mem.c:21`): addresses of `FdtMem` do
  not wrap. TLC would need a second copy of the scan with widths for one edge.
* Several harts (`arch/riscv/entry.S:24`): they would share one stack, so what
  they do is undefined from the first call on. The stack, `gp` and the control
  registers are set before any C code and never again.
* `memcpy`, `memmove` and `memset` have no caller in the kernel.
* The other conversions of `endian.h` (16 bit, little endian, host to ...), which
  nothing calls.
* `printf` in user space: `printf_puts` is a stub that aborts.
* The build system: no state of the running kernel.

## Plan

Modelled: every component that keeps state at the commit. Proved: every safety
property that a passing run checks. What could be added is in the list above: the
digits of one pointer, a copy of the scan with addresses that wrap, and lists of
strings without a terminator, for which the promise of `fdt_find_compatible_node`
would have to be decided first.
