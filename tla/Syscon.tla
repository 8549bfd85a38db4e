------------------------------- MODULE Syscon -------------------------------
(***************************************************************************)
(* Shutdown and reboot through a syscon register, drivers/syscon/syscon.c. *)
(*                                                                         *)
(* An action (shutdown or reboot) is a register, a mask and a value; its   *)
(* initialiser collects them from the device tree field by field and fails *)
(* at the first thing that is missing.  32-bit words are sets of bits.     *)
(***************************************************************************)
EXTENDS Naturals, Sequences

CONSTANTS
  Bits,      \* the bits of a register
  Word,      \* 2^32: offset + 4 is computed in uint32_t
  Registers, \* the addresses a pointer to a register may hold
  Syscons,   \* phandle -> the first register block of the node, size 0 if none
  Trees      \* what the device tree may say of each action

Actions == {"shutdown", "reboot"}

\* A property that does not exist or has not one cell is <<>>, else <<cell>>.
Cell(values) == {<<>>} \cup { <<v>> : v \in values }

Tree == [node: BOOLEAN, regmap: Cell(0..(Word - 1)), offset: Cell(0..(Word - 1)),
         mask: Cell(SUBSET Bits), value: Cell(SUBSET Bits)]

ASSUME SysconAssumption ==
  /\ Word \in Nat \ {0}
  /\ Trees \in [Actions -> SUBSET Tree]
  /\ Registers \subseteq Nat /\ 0 \in Registers
  /\ \A p \in DOMAIN Syscons :
       /\ Syscons[p] \in [address: Nat, size: Nat]
       /\ \A offset \in 0..(Word - 1) : Syscons[p].address + offset \in Registers

VARIABLES
  action,    \* shutdown_action and reboot_action
  ok,        \* what kmain remembers: the initialiser returned KERR_SUCCESS
  mmio,      \* the registers, by address
  power,     \* "on", "off" after a register was written, "abort"
  source     \* history: <<the tree each action was initialised from>>, or <<>>

sysconVars == <<action, ok, mmio, power, source>>

\* Mutant: only the start of the register is checked.
OffsetStarts(offset, size) == offset <= size

\* The check that the register ends inside the block, in uint32_t.
OffsetFits(offset, size) == (offset + 4) % Word <= size

\* Everything up to the register itself is there.
HasRegister(t) ==
  /\ t.node
  /\ t.regmap # <<>>
  /\ t.regmap[1] \in DOMAIN Syscons
  /\ Syscons[t.regmap[1]].size > 0
  /\ t.offset # <<>>
  /\ OffsetFits(t.offset[1], Syscons[t.regmap[1]].size)

\* Mutant: the offset is scaled by the size of a pointer.
RegisterScaled(t) == Syscons[t.regmap[1]].address + 8 * t.offset[1]

Register(t) == Syscons[t.regmap[1]].address + t.offset[1]

\* Mutant: no mask is an empty mask.
MaskEmpty(t) == IF t.mask # <<>> THEN t.mask[1] ELSE {}

Mask(t)     == IF t.mask # <<>> THEN t.mask[1] ELSE Bits
Value(t)    == IF t.value # <<>> THEN t.value[1] ELSE Mask(t)

-----------------------------------------------------------------------------
\* The initialiser gives up before it stores anything but found.
InitGivesUp(a, t) ==
  /\ ~HasRegister(t)
  /\ action' = [action EXCEPT ![a].found = FALSE]
  /\ ok' = [ok EXCEPT ![a] = FALSE]

\* Mutant: found is not reset first.
InitIncompleteFound(a, t) ==
  /\ HasRegister(t)
  /\ t.mask = <<>> /\ t.value = <<>>
  /\ action' = [action EXCEPT ![a] =
                  [found |-> @.found, reg |-> Register(t), mask |-> Mask(t), value |-> @.value]]
  /\ ok' = [ok EXCEPT ![a] = FALSE]

\* There is neither a mask nor a value: register and mask are stored by then.
InitIncomplete(a, t) ==
  /\ HasRegister(t)
  /\ t.mask = <<>> /\ t.value = <<>>
  /\ action' = [action EXCEPT ![a] =
                  [found |-> FALSE, reg |-> Register(t), mask |-> Mask(t), value |-> @.value]]
  /\ ok' = [ok EXCEPT ![a] = FALSE]

InitSucceeds(a, t) ==
  /\ HasRegister(t)
  /\ t.mask # <<>> \/ t.value # <<>>
  /\ action' = [action EXCEPT ![a] =
                  [found |-> TRUE, reg |-> Register(t), mask |-> Mask(t), value |-> Value(t)]]
  /\ ok' = [ok EXCEPT ![a] = TRUE]

\* syscon_shutdown_init and syscon_reboot_init.
syscon_init_generic_action(a, t) ==
  /\ power = "on"
  /\ InitGivesUp(a, t) \/ InitIncomplete(a, t) \/ InitSucceeds(a, t)
  /\ source' = [source EXCEPT ![a] = <<t>>]
  /\ UNCHANGED <<mmio, power>>

\* syscon_shutdown and syscon_reboot, called as their contract asks: after the
\* initialiser returned KERR_SUCCESS.  The bits of the mask take the value;
\* what the machine does then is the device's, and the call never returns.
Trigger(a) ==
  LET r == action[a]
  IN /\ power = "on"
     /\ ok[a]
     /\ IF r.found
        THEN /\ mmio' = [mmio EXCEPT ![r.reg] = (@ \ r.mask) \cup (r.value \cap r.mask)]
             /\ power' = "off"
        ELSE /\ power' = "abort"
             /\ UNCHANGED mmio
     /\ UNCHANGED <<action, ok, source>>

\* struct generic_syscon_action
Action == [found: BOOLEAN, reg: Registers, mask: SUBSET Bits, value: SUBSET Bits]

NoAction == [found |-> FALSE, reg |-> 0, mask |-> {}, value |-> {}]

\* Everything but the two structures, which are in .bss.
SysconInit ==
  /\ ok = [a \in Actions |-> FALSE]
  /\ mmio \in { [r \in Registers |-> b] : b \in {{}, Bits} }
  /\ power = "on"
  /\ source = [a \in Actions |-> <<>>]

-----------------------------------------------------------------------------
\* The types of the driver's state.
SysconTypeOK ==
  /\ action \in [Actions -> Action]
  /\ ok \in [Actions -> BOOLEAN]
  /\ mmio \in [Registers -> SUBSET Bits]
  /\ power \in {"on", "off", "abort"}
  /\ DOMAIN source = Actions
  /\ \A a \in Actions : source[a] \in {<<>>} \cup { <<t>> : t \in Trees[a] }

Initialised == { a \in Actions : source[a] # <<>> }

\* An action whose initialiser returned KERR_SUCCESS is found, so that the
\* assertions of syscon_shutdown and syscon_reboot hold, and an action that is
\* found is all of one tree: no field is left over from an initialisation that
\* failed half way, or from memory that was not cleared.
FoundIsOfOneTree ==
  \A a \in Initialised :
    LET r == action[a]
        t == source[a][1]
    IN /\ ok[a] <=> r.found
       /\ r.found => r.reg = Register(t) /\ r.mask = Mask(t) /\ r.value = Value(t)

\* The register lies inside the register block of its syscon (the check of
\* syscon.c:91 `if the end of the 32-bit register is outside').
RegisterInBlock ==
  \A a \in Initialised :
    action[a].found =>
      LET block == Syscons[source[a][1].regmap[1]]
      IN /\ action[a].reg >= block.address
         /\ action[a].reg + 4 <= block.address + block.size

\* A shutdown or reboot writes one register, leaves the bits outside the
\* tree's mask as they are, and gives the others the tree's value, or all
\* ones if the tree has no value.
WritesWhatTreeSays ==
  [][mmio' # mmio \/ (power = "on" /\ power' = "off") =>
       \E a \in Initialised :
         LET t == source[a][1]
             r == Register(t)
         IN /\ ok[a]
            /\ \A q \in Registers \ {r} : mmio'[q] = mmio[q]
            /\ \A b \in Bits :
                 b \in mmio'[r] <=>
                   IF t.mask # <<>> /\ b \notin t.mask[1] THEN b \in mmio[r]
                   ELSE t.value = <<>> \/ b \in t.value[1]]_sysconVars
=============================================================================
