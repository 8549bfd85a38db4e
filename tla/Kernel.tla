------------------------------- MODULE Kernel -------------------------------
(***************************************************************************)
(* The hart from _start to its end: the entry code clears .bss, in which   *)
(* the drivers keep their state, kmain checks the device tree, initialises *)
(* the drivers, calls the constructors, and obeys keys until one of them   *)
(* ends it.                                                                *)
(*                                                                         *)
(* The UART's receive register may change between any two of kmain's reads *)
(* of it, which are steps of their own.  The memory phase of kmain is in   *)
(* BootMem, its output in Printk.                                          *)
(***************************************************************************)
EXTENDS Syscon

CONSTANTS
  WordBytes,   \* what one store of the clearing loop covers
  BssEnd,      \* __bss_end, in bytes from __bss_start
  NextStart,   \* where the section behind .bss starts
  Place,       \* where shutdown_action and reboot_action are in .bss
  X6,          \* what the firmware may leave in x6
  Garbage,     \* what memory may make of a structure before it is cleared
  Headers,     \* what the header of the device tree may say
  Keys,        \* the keys
  NoKey,       \* what the receive register holds before the first key
  Arrays       \* .preinit_array, .init_array and .fini_array

\* .bss starts at a page boundary and the next section is at one, too.
ASSUME KernelAssumption ==
  /\ WordBytes \in Nat \ {0} /\ BssEnd \in Nat \ {0}
  /\ NextStart \in Nat /\ NextStart % WordBytes = 0 /\ NextStart >= BssEnd
  /\ Place \in [Actions -> 0..(BssEnd - 1)]
  /\ X6 \subseteq 0..NextStart
  /\ Garbage \subseteq Action
  /\ Headers \subseteq [magic: BOOLEAN, last_comp_version: Nat]
  /\ {"%", "!", "^", "&"} \subseteq Keys /\ NoKey \notin Keys
  /\ DOMAIN Arrays = {"preinit", "init", "fini"}
  /\ \A a \in DOMAIN Arrays : Len(Arrays[a]) \in Nat

VARIABLES
  arch,       \* "riscv" or "arm64"
  limit,      \* t6 or x6: what the clearing loop compares with
  cursor,     \* t5 or x5: the next word to clear
  dirty,      \* the bytes that were not cleared
  pc,         \* where the hart is
  func,       \* how many functions of the current array were called
  ran,        \* history: the functions called from the arrays
  uart,       \* the receive register
  old_uart,   \* what kmain waits to change
  since       \* history: where kmain was in this turn when the key arrived

entryVars == <<arch, limit, cursor, dirty>>
loopVars == <<func, ran, uart, old_uart, since>>
vars == <<sysconVars, entryVars, pc, loopVars>>

\* The reads of one turn of the loop, in order; then it waits.
Turn == <<"echo", "percent", "bang", "caret", "amp", "old">>
InTurn == { Turn[n] : n \in DOMAIN Turn }

-----------------------------------------------------------------------------
\* Clearing some bytes clears the structures that are there.
Clear(bytes) ==
  /\ dirty' = dirty \ bytes
  /\ action' = [a \in Actions |-> IF Place[a] \in bytes THEN NoAction ELSE action[a]]

Word8 == cursor..(cursor + WordBytes - 1)

ClearGoesOn == cursor' = cursor + WordBytes /\ UNCHANGED <<pc, limit>>

\* The hart jumps to kmain, which uses the registers for other things.
ClearEnds == pc' = "verify" /\ cursor' = 0 /\ limit' = 0

\* Mutant: the loop ends at the last whole word.
ClearShort ==
  /\ pc = "clear"
  /\ Clear(Word8)
  /\ IF cursor + 2 * WordBytes <= limit THEN ClearGoesOn ELSE ClearEnds
  /\ UNCHANGED <<ok, mmio, power, source, arch, loopVars>>

\* One turn of __bss_clear_loop.
ClearWord ==
  /\ pc = "clear"
  /\ Clear(Word8)
  /\ IF cursor + WordBytes < limit THEN ClearGoesOn ELSE ClearEnds
  /\ UNCHANGED <<ok, mmio, power, source, arch, loopVars>>

\* The check of the header; magic is whether it is FDT_HEADER_MAGIC.
FDT_COMPAT_VERSION == 17

fdt_verify(header) ==
  CASE ~header.magic -> "FDT_BAD_MAGIC"
    [] header.magic /\ header.last_comp_version > FDT_COMPAT_VERSION -> "FDT_INCOMPATIBLE"
    [] OTHER -> "FDT_VALID"

\* kmain can read the device tree; the memory phase follows.
Verified(header) ==
  /\ pc = "verify"
  /\ fdt_verify(header) = "FDT_VALID"
  /\ pc' = "reboot_init"
  /\ UNCHANGED <<sysconVars, entryVars, loopVars>>

NotVerified(header) ==
  /\ pc = "verify"
  /\ fdt_verify(header) # "FDT_VALID"
  /\ pc' = "ended"
  /\ power' = "abort"
  /\ UNCHANGED <<action, ok, mmio, source, entryVars, loopVars>>

syscon_reboot_init ==
  /\ pc = "reboot_init"
  /\ \E t \in Trees["reboot"] : syscon_init_generic_action("reboot", t)
  /\ pc' = "shutdown_init"
  /\ UNCHANGED <<entryVars, loopVars>>

syscon_shutdown_init ==
  /\ pc = "shutdown_init"
  /\ \E t \in Trees["shutdown"] : syscon_init_generic_action("shutdown", t)
  /\ pc' = "preinit"
  /\ UNCHANGED <<entryVars, loopVars>>

\* preinit(), init() and fini(), one function at a time.
process_func_array ==
  /\ pc \in DOMAIN Arrays
  /\ func < Len(Arrays[pc])
  /\ func' = func + 1
  /\ ran' = Append(ran, Arrays[pc][func + 1])
  /\ UNCHANGED <<sysconVars, entryVars, pc, uart, old_uart, since>>

\* The array is done: the loop follows the constructors, and the halt loop of
\* the entry code the destructors.
ArrayDone ==
  /\ pc \in DOMAIN Arrays
  /\ func = Len(Arrays[pc])
  /\ func' = 0
  /\ pc' = [preinit |-> "init", init |-> "echo", fini |-> "halt"][pc]
  /\ UNCHANGED <<sysconVars, entryVars, ran, uart, old_uart, since>>

Boot ==
  \/ ClearWord
  \/ \E header \in Headers : Verified(header) \/ NotVerified(header)
  \/ syscon_reboot_init \/ syscon_shutdown_init
  \/ process_func_array \/ ArrayDone

-----------------------------------------------------------------------------
\* A read of the register that changes nothing but where kmain is.
Goto(from, to) ==
  /\ pc = from
  /\ pc' = to
  /\ UNCHANGED <<sysconVars, entryVars, loopVars>>

Echo == Goto("echo", "percent")

TestPercent == IF uart = "%" THEN Goto("percent", "fini") ELSE Goto("percent", "bang")

TestBang ==
  \/ uart # "!" /\ Goto("bang", "caret")
  \/ /\ uart = "!"
     /\ pc = "bang"
     /\ pc' = "ended"
     /\ power' = "abort"
     /\ UNCHANGED <<action, ok, mmio, source, entryVars, loopVars>>

\* Mutant: the flag of the other action is tested.
TestCaretWrongFlag ==
  \/ ~(ok["shutdown"] /\ uart = "^") /\ Goto("caret", "amp")
  \/ /\ ok["shutdown"] /\ uart = "^"
     /\ pc = "caret"
     /\ pc' = "rebooting"
     /\ Trigger("reboot")
     /\ UNCHANGED <<entryVars, loopVars>>

\* The register is only read if the flag is set.
TestCaret ==
  \/ ~(ok["reboot"] /\ uart = "^") /\ Goto("caret", "amp")
  \/ /\ ok["reboot"] /\ uart = "^"
     /\ pc = "caret"
     /\ pc' = "rebooting"
     /\ Trigger("reboot")
     /\ UNCHANGED <<entryVars, loopVars>>

TestAmpersand ==
  \/ ~(ok["shutdown"] /\ uart = "&") /\ Goto("amp", "old")
  \/ /\ ok["shutdown"] /\ uart = "&"
     /\ pc = "amp"
     /\ pc' = "shutting_down"
     /\ Trigger("shutdown")
     /\ UNCHANGED <<entryVars, loopVars>>

Remember ==
  /\ pc = "old"
  /\ old_uart' = uart
  /\ pc' = "wait"
  /\ UNCHANGED <<sysconVars, entryVars, func, ran, uart, since>>

\* Mutant: the register is compared with itself.
NoticeNothing ==
  /\ pc = "wait"
  /\ uart # uart
  /\ pc' = "echo"
  /\ since' = "echo"
  /\ old_uart' = NoKey
  /\ UNCHANGED <<sysconVars, entryVars, func, ran, uart>>

\* The loop that waits reads another key than the old one, and old_uart goes
\* out of scope.
Notice ==
  /\ pc = "wait"
  /\ uart # old_uart
  /\ pc' = "echo"
  /\ since' = "echo"
  /\ old_uart' = NoKey
  /\ UNCHANGED <<sysconVars, entryVars, func, ran, uart>>

Loop == Echo \/ TestPercent \/ TestBang \/ TestCaret \/ TestAmpersand \/ Remember \/ Notice

\* The user types another key, which replaces the one in the register.
\* Outside the loop nobody reads it.
Key(k) ==
  /\ pc \in InTurn \cup {"wait"}
  /\ k # uart
  /\ uart' = k
  /\ since' = IF pc = "wait" THEN since ELSE pc
  /\ UNCHANGED <<sysconVars, entryVars, pc, func, ran, old_uart>>

Init ==
  /\ SysconInit
  /\ action \in [Actions -> Garbage \cup {NoAction}]
  /\ arch \in {"riscv", "arm64"}
  /\ limit \in IF arch = "riscv" THEN {BssEnd} ELSE X6
  /\ cursor = 0
  /\ dirty = 0..(NextStart + WordBytes)
  /\ pc = "clear"
  /\ func = 0 /\ ran = <<>>
  /\ uart = NoKey /\ old_uart = NoKey /\ since = "echo"

Next == Boot \/ Loop \/ \E k \in Keys : Key(k)

\* The hart never stops executing; nobody need type.
Spec == Init /\ [][Next]_vars /\ WF_vars(Boot \/ Loop)

-----------------------------------------------------------------------------
\* The commands, and where a turn compares the register with them.
Commands == {"%", "!", "^", "&"}
Compared == [k \in Commands |-> CASE k = "%" -> 2 [] k = "!" -> 3 [] k = "^" -> 4 [] k = "&" -> 5]

\* kmain acts on the key.
Armed(k) == (k = "^" => ok["reboot"]) /\ (k = "&" => ok["shutdown"])

\* kmain has done what the key asks for.
Obeyed(k) ==
  CASE k = "%" -> pc = "halt" /\ ran = Arrays["preinit"] \o Arrays["init"] \o Arrays["fini"]
    [] k = "!" -> power = "abort"
    [] k = "^" -> power = "off" /\ pc = "rebooting"
    [] k = "&" -> power = "off" /\ pc = "shutting_down"

\* The type invariant.
KernelTypeOK ==
  /\ SysconTypeOK
  /\ arch \in {"riscv", "arm64"}
  /\ limit \in 0..NextStart /\ cursor \in 0..(NextStart + WordBytes)
  /\ dirty \subseteq 0..(NextStart + WordBytes)
  /\ pc \in {"clear", "verify", "reboot_init", "shutdown_init", "wait", "halt", "ended",
             "rebooting", "shutting_down"} \cup InTurn \cup DOMAIN Arrays
  /\ func \in Nat
  /\ {uart, old_uart} \subseteq Keys \cup {NoKey}
  /\ since \in InTurn

\* On riscv kmain starts with every byte of .bss cleared, also those behind
\* the last whole word, and with every byte of the next section as it was.
BssCleared ==
  arch = "riscv" /\ pc = "verify" =>
    /\ dirty \cap 0..(BssEnd - 1) = {}
    /\ NextStart..(NextStart + WordBytes) \subseteq dirty

\* The wait loop is entered with the key of an armed command, which it then
\* ignores until the key changes, only if the key arrived in this very turn
\* and behind its own comparison.
LostOnlyIfLate ==
  pc = "wait" /\ old_uart \in Commands /\ Armed(old_uart) =>
    \E n \in DOMAIN Turn : Turn[n] = since /\ n > Compared[old_uart]

\* The key of an armed command that is in the register when a turn starts, or
\* that replaces the old key while kmain waits, is obeyed if it is left there.
CommandObeyed ==
  \A k \in Commands :
    (uart = k /\ Armed(k) /\ (pc = "echo" \/ (pc = "wait" /\ old_uart # k)))
      ~> (Obeyed(k) \/ uart # k)

\* arm64/entry.S:22, `Clear .bss': kmain starts with every byte cleared.
BssZeroed == pc = "verify" => dirty \cap 0..(BssEnd - 1) = {}
=============================================================================
