---------------------------- MODULE KernelProofs ----------------------------
(***************************************************************************)
(* The boot and the input loop of kmain are sound for every layout of      *)
(* .bss, every device tree, every set of keys and whatever memory held     *)
(* before it was cleared.                                                  *)
(***************************************************************************)
EXTENDS Kernel, Integers, TLAPS

(***************************************************************************)
(* The inductive invariant.                                                *)
(***************************************************************************)
\* While .bss is being cleared nothing is initialised.
NothingYet == pc = "clear" => \A a \in Actions : source[a] = <<>> /\ ~ok[a]

\* On riscv the loop has cleared what is below its cursor and nothing else,
\* and the cursor is a whole number of words away from the next section.
ClearInv ==
  pc = "clear" /\ arch = "riscv" =>
    /\ limit = BssEnd
    /\ cursor < BssEnd
    /\ (NextStart - cursor) % WordBytes = 0
    /\ dirty = cursor..(NextStart + WordBytes)

\* What is found has a register, and kmain's flags are about an initialisation.
FoundInv ==
  /\ \A a \in Initialised : action[a].found => HasRegister(source[a][1])
  /\ \A a \in Actions : ok[a] => a \in Initialised

\* The place of a read in the turn.
At(place, n) == n \in DOMAIN Turn /\ Turn[n] = place

\* A key whose command kmain would obey, and which it has passed in this turn,
\* arrived behind the comparison.  The wait loop keeps that for the old key.
PassedInv ==
  /\ \A n \in DOMAIN Turn :
       At(pc, n) /\ uart \in Commands /\ Armed(uart) /\ n > Compared[uart] =>
         \E m \in DOMAIN Turn : At(since, m) /\ m > Compared[uart]
  /\ LostOnlyIfLate

KernelInv ==
  /\ KernelTypeOK
  /\ NothingYet
  /\ ClearInv
  /\ BssCleared
  /\ FoundIsOfOneTree
  /\ FoundInv
  /\ PassedInv

-----------------------------------------------------------------------------
(***************************************************************************)
(* What a device tree says.                                                *)
(***************************************************************************)
\* A cell that exists holds one of the values.
LEMMA CellLemma ==
  ASSUME NEW S, NEW c \in Cell(S), c # <<>>
  PROVE  c[1] \in S
BY DEF Cell

\* What is read from a tree has the type of the fields of the structure.
LEMMA TreeLemma ==
  ASSUME NEW a \in Actions, NEW t \in Trees[a]
  PROVE  /\ t \in Tree
         /\ Mask(t) \in SUBSET Bits
         /\ Value(t) \in SUBSET Bits
         /\ HasRegister(t) => Register(t) \in Registers
<1>1. t \in Tree
  BY SysconAssumption
<1>2. /\ t.mask \in Cell(SUBSET Bits) /\ t.value \in Cell(SUBSET Bits)
      /\ t.offset \in Cell(0..(Word - 1)) /\ t.regmap \in Cell(0..(Word - 1))
  BY <1>1 DEF Tree
<1>3. Mask(t) \in SUBSET Bits
  BY <1>2, CellLemma DEF Mask
<1>4. Value(t) \in SUBSET Bits
  BY <1>2, <1>3, CellLemma DEF Value
<1>5. ASSUME HasRegister(t)
      PROVE  Register(t) \in Registers
  <2>1. t.offset[1] \in 0..(Word - 1) /\ t.regmap[1] \in DOMAIN Syscons
    BY <1>2, <1>5, CellLemma DEF HasRegister
  <2> QED
    BY <2>1, SysconAssumption DEF Register
<1> QED
  BY <1>1, <1>3, <1>4, <1>5
-----------------------------------------------------------------------------
(***************************************************************************)
(* The start.                                                              *)
(***************************************************************************)
\* Nothing is cleared, initialised or read before the first step.
LEMMA KernelInitial == Init => KernelInv
<1> SUFFICES ASSUME Init PROVE KernelInv
  OBVIOUS
<1>1. KernelTypeOK
  <2>1. NoAction \in Action
    BY SysconAssumption DEF NoAction, Action
  <2>2. action \in [Actions -> Action]
    BY <2>1, KernelAssumption DEF Init
  <2>3. ok \in [Actions -> BOOLEAN] /\ power = "on"
    BY DEF Init, SysconInit
  <2>4. mmio \in [Registers -> SUBSET Bits]
    BY DEF Init, SysconInit
  <2>5. DOMAIN source = Actions /\ \A a \in Actions : source[a] = <<>>
    BY DEF Init, SysconInit
  <2>6. SysconTypeOK
    BY <2>2, <2>3, <2>4, <2>5 DEF SysconTypeOK
  <2>7. limit \in 0..NextStart /\ cursor \in 0..(NextStart + WordBytes)
    BY KernelAssumption DEF Init
  <2>8. since \in InTurn
    <3>1. Turn[1] = "echo" /\ 1 \in DOMAIN Turn
      BY DEF Turn
    <3> QED
      BY <3>1 DEF Init, InTurn
  <2> QED
    BY <2>6, <2>7, <2>8, KernelAssumption DEF Init, KernelTypeOK
<1>2. NothingYet /\ FoundIsOfOneTree /\ FoundInv
  BY DEF Init, SysconInit, NothingYet, FoundIsOfOneTree, FoundInv, Initialised
<1>3. ClearInv
  BY KernelAssumption DEF Init, ClearInv
<1>4. BssCleared /\ PassedInv
  <2>1. \A n \in DOMAIN Turn : Turn[n] # "clear"
    BY DEF Turn
  <2> QED
    BY <2>1 DEF Init, BssCleared, PassedInv, LostOnlyIfLate, At
<1> QED
  BY <1>1, <1>2, <1>3, <1>4 DEF KernelInv

-----------------------------------------------------------------------------
(***************************************************************************)
(* Clearing .bss.                                                          *)
(***************************************************************************)
\* A positive multiple of a word is at least a word, and is still a multiple
\* with a word less.
LEMMA WholeWords ==
  ASSUME NEW w \in Nat \ {0}, NEW x \in Nat \ {0}, x % w = 0
  PROVE  x >= w /\ (x - w) % w = 0
<1>1. x >= w
  OBVIOUS
<1>2. (x - w) % w = 0
  <2> DEFINE k == x \div w
  <2>1. k \in Int /\ x = w * k
    OBVIOUS
  <2> HIDE DEF k
  <2>2. x - w = w * (k - 1) /\ k - 1 \in Int
    BY <2>1
  <2>3. \A j \in Int : (w * j) % w = 0
    OBVIOUS
  <2> QED
    BY <2>2, <2>3
<1> QED
  BY <1>1, <1>2

\* One turn of the loop clears a word of .bss, or the rest of it.
LEMMA ClearPreserves ==
  ASSUME KernelInv, ClearWord
  PROVE  KernelInv'
<1> USE DEF KernelInv
<1>1. /\ WordBytes \in Nat \ {0} /\ BssEnd \in Nat \ {0} /\ NextStart \in Nat
      /\ NextStart >= BssEnd
      /\ cursor \in Nat /\ limit \in 0..NextStart
  BY KernelAssumption DEF KernelTypeOK
<1>2. /\ pc = "clear" /\ dirty' = dirty \ Word8
      /\ action' = [a \in Actions |-> IF Place[a] \in Word8 THEN NoAction ELSE action[a]]
      /\ UNCHANGED <<ok, mmio, power, source, arch, func, ran, uart, old_uart, since>>
  BY DEF ClearWord, Clear, loopVars
<1>3. \/ /\ cursor + WordBytes < limit
         /\ cursor' = cursor + WordBytes /\ pc' = "clear" /\ limit' = limit
      \/ /\ cursor + WordBytes >= limit
         /\ pc' = "verify" /\ cursor' = 0 /\ limit' = 0
  BY <1>1, <1>2 DEF ClearWord, ClearGoesOn, ClearEnds
<1>4. KernelTypeOK'
  <2>1. NoAction \in Action
    BY SysconAssumption DEF NoAction, Action
  <2>2. action' \in [Actions -> Action]
    BY <1>2, <2>1 DEF KernelTypeOK, SysconTypeOK
  <2>3. SysconTypeOK'
    BY <1>2, <2>2 DEF KernelTypeOK, SysconTypeOK
  <2>4. limit' \in 0..NextStart /\ cursor' \in 0..(NextStart + WordBytes)
    BY <1>1, <1>3
  <2> QED
    BY <1>2, <1>3, <2>3, <2>4 DEF KernelTypeOK
<1>5. Initialised = {} /\ Initialised' = {} /\ \A a \in Actions : ~ok[a]
  BY <1>2 DEF NothingYet, Initialised
<1>6. NothingYet' /\ FoundIsOfOneTree' /\ FoundInv'
  BY <1>2, <1>5 DEF NothingYet, FoundIsOfOneTree, FoundInv
<1>7. ASSUME arch = "riscv"
      PROVE  /\ NextStart - cursor \in Nat \ {0}
             /\ NextStart - cursor >= WordBytes
             /\ (NextStart - (cursor + WordBytes)) % WordBytes = 0
             /\ limit = BssEnd
             /\ dirty' = (cursor + WordBytes)..(NextStart + WordBytes)
  <2>1. /\ limit = BssEnd /\ cursor < BssEnd /\ (NextStart - cursor) % WordBytes = 0
        /\ dirty = cursor..(NextStart + WordBytes)
    BY <1>2, <1>7 DEF ClearInv
  <2>2. NextStart - cursor \in Nat \ {0}
    BY <1>1, <2>1
  <2>3. NextStart - cursor >= WordBytes /\ ((NextStart - cursor) - WordBytes) % WordBytes = 0
    BY <1>1, <2>1, <2>2, WholeWords
  <2>4. (NextStart - cursor) - WordBytes = NextStart - (cursor + WordBytes)
    BY <1>1
  <2>5. dirty' = (cursor + WordBytes)..(NextStart + WordBytes)
    BY <1>1, <1>2, <2>1, <2>3 DEF Word8
  <2> QED
    BY <2>1, <2>2, <2>3, <2>4, <2>5
<1>8. ClearInv'
  BY <1>1, <1>2, <1>3, <1>7 DEF ClearInv
<1>9. BssCleared'
  BY <1>1, <1>2, <1>3, <1>7 DEF BssCleared
<1>10. PassedInv'
  <2>1. \A n \in DOMAIN Turn : Turn[n] # "clear" /\ Turn[n] # "verify"
    BY DEF Turn
  <2> QED
    BY <1>3, <2>1 DEF PassedInv, LostOnlyIfLate, At
<1> QED
  BY <1>4, <1>6, <1>8, <1>9, <1>10
-----------------------------------------------------------------------------
(***************************************************************************)
(* The driver.                                                             *)
(***************************************************************************)
\* A step behind the entry code that leaves the driver alone.
LEMMA DriverStays ==
  ASSUME KernelInv,
         UNCHANGED <<action, ok, mmio, source, entryVars>>,
         power' \in {"on", "off", "abort"},
         pc' \notin {"clear", "verify"}
  PROVE  /\ SysconTypeOK' /\ NothingYet' /\ ClearInv' /\ BssCleared'
         /\ FoundIsOfOneTree' /\ FoundInv'
<1> USE DEF KernelInv
<1>1. SysconTypeOK'
  BY DEF KernelTypeOK, SysconTypeOK
<1>2. NothingYet' /\ ClearInv' /\ BssCleared'
  BY DEF NothingYet, ClearInv, BssCleared
<1>3. FoundIsOfOneTree' /\ FoundInv'
  BY DEF FoundIsOfOneTree, FoundInv, Initialised
<1> QED
  BY <1>1, <1>2, <1>3

\* However an initialiser ends, the structure is of one type, and found only
\* if it is all of the tree.
LEMMA InitialiserLemma ==
  ASSUME KernelInv, NEW a \in Actions, NEW t \in Trees[a],
         syscon_init_generic_action(a, t)
  PROVE  /\ SysconTypeOK' /\ FoundIsOfOneTree' /\ FoundInv'
<1> USE DEF KernelInv
<1>1. /\ t \in Tree /\ Mask(t) \in SUBSET Bits /\ Value(t) \in SUBSET Bits
      /\ HasRegister(t) => Register(t) \in Registers
  BY TreeLemma
<1>2. /\ action \in [Actions -> Action] /\ ok \in [Actions -> BOOLEAN]
      /\ DOMAIN source = Actions
      /\ \A b \in Actions : source[b] \in {<<>>} \cup { <<u>> : u \in Trees[b] }
      /\ mmio \in [Registers -> SUBSET Bits] /\ power \in {"on", "off", "abort"}
  BY DEF KernelTypeOK, SysconTypeOK
<1>3. /\ source' = [source EXCEPT ![a] = <<t>>] /\ mmio' = mmio /\ power' = power
  BY DEF syscon_init_generic_action
<1>4. /\ DOMAIN source' = Actions /\ source'[a] = <<t>>
      /\ \A b \in Actions : b # a => source'[b] = source[b]
  BY <1>2, <1>3
<1>5. \E r \in Action, found \in BOOLEAN :
        /\ action' = [action EXCEPT ![a] = r] /\ ok' = [ok EXCEPT ![a] = found]
        /\ r.found = found
        /\ found => /\ HasRegister(t)
                    /\ r.reg = Register(t) /\ r.mask = Mask(t) /\ r.value = Value(t)
  <2>1. action[a] \in Action
    BY <1>2
  <2>2. CASE InitGivesUp(a, t)
    <3> DEFINE r == [action[a] EXCEPT !.found = FALSE]
    <3>1. r \in Action /\ r.found = FALSE
      BY <2>1 DEF Action
    <3>2. action' = [action EXCEPT ![a] = r] /\ ok' = [ok EXCEPT ![a] = FALSE]
      BY <1>2, <2>2 DEF InitGivesUp
    <3> QED
      BY <3>1, <3>2
  <2>3. CASE InitIncomplete(a, t)
    <3> DEFINE r == [found |-> FALSE, reg |-> Register(t), mask |-> Mask(t),
                     value |-> action[a].value]
    <3>1. r \in Action /\ r.found = FALSE
      BY <1>1, <2>1, <2>3 DEF Action, InitIncomplete
    <3>2. action' = [action EXCEPT ![a] = r] /\ ok' = [ok EXCEPT ![a] = FALSE]
      BY <1>2, <2>3 DEF InitIncomplete
    <3> QED
      BY <3>1, <3>2
  <2>4. CASE InitSucceeds(a, t)
    <3> DEFINE r == [found |-> TRUE, reg |-> Register(t), mask |-> Mask(t),
                     value |-> Value(t)]
    <3>1. /\ r \in Action /\ r.found = TRUE /\ HasRegister(t)
          /\ r.reg = Register(t) /\ r.mask = Mask(t) /\ r.value = Value(t)
      BY <1>1, <2>4 DEF Action, InitSucceeds
    <3>2. action' = [action EXCEPT ![a] = r] /\ ok' = [ok EXCEPT ![a] = TRUE]
      BY <1>2, <2>4 DEF InitSucceeds
    <3> HIDE DEF r
    <3> QED
      BY <3>1, <3>2
  <2> QED
    BY <2>2, <2>3, <2>4 DEF syscon_init_generic_action
<1>6. PICK r \in Action, found \in BOOLEAN :
        /\ action' = [action EXCEPT ![a] = r] /\ ok' = [ok EXCEPT ![a] = found]
        /\ r.found = found
        /\ found => /\ HasRegister(t)
                    /\ r.reg = Register(t) /\ r.mask = Mask(t) /\ r.value = Value(t)
  BY <1>5
<1>7. /\ action' \in [Actions -> Action] /\ ok' \in [Actions -> BOOLEAN]
      /\ action'[a] = r /\ ok'[a] = found
      /\ \A b \in Actions : b # a => action'[b] = action[b] /\ ok'[b] = ok[b]
  BY <1>2, <1>6
<1>8. SysconTypeOK'
  BY <1>2, <1>3, <1>4, <1>7 DEF SysconTypeOK
<1>9. <<t>>[1] = t /\ <<t>> # <<>>
  OBVIOUS
<1>10. \A b \in Actions : b \in Initialised' <=> (b = a \/ b \in Initialised)
  BY <1>4, <1>9 DEF Initialised
<1>11. FoundIsOfOneTree'
  <2> SUFFICES ASSUME NEW b \in Actions, b \in Initialised'
               PROVE  /\ ok'[b] <=> action'[b].found
                      /\ action'[b].found =>
                           /\ action'[b].reg = Register(source'[b][1])
                           /\ action'[b].mask = Mask(source'[b][1])
                           /\ action'[b].value = Value(source'[b][1])
    BY DEF FoundIsOfOneTree, Initialised
  <2>1. CASE b = a
    BY <1>4, <1>6, <1>7, <1>9, <2>1
  <2>2. CASE b # a
    BY <1>4, <1>7, <1>10, <2>2 DEF FoundIsOfOneTree
  <2> QED
    BY <2>1, <2>2
<1>12. FoundInv'
  <2> SUFFICES ASSUME NEW b \in Actions
               PROVE  /\ b \in Initialised' /\ action'[b].found => HasRegister(source'[b][1])
                      /\ ok'[b] => b \in Initialised'
    BY DEF FoundInv, Initialised
  <2>1. CASE b = a
    BY <1>4, <1>6, <1>7, <1>9, <1>10, <2>1
  <2>2. CASE b # a
    BY <1>4, <1>7, <1>10, <2>2 DEF FoundInv
  <2> QED
    BY <2>1, <2>2
<1> QED
  BY <1>8, <1>11, <1>12

\* A trigger that kmain's flag allows writes the one register of its tree.
LEMMA TriggerLemma ==
  ASSUME KernelInv, NEW a \in Actions, Trigger(a)
  PROVE  LET t == source[a][1]
             r == Register(t)
         IN /\ ok[a] /\ a \in Initialised /\ source[a] = <<t>> /\ t \in Trees[a]
            /\ r \in Registers
            /\ mmio' = [mmio EXCEPT ![r] = (@ \ Mask(t)) \cup (Value(t) \cap Mask(t))]
            /\ power = "on" /\ power' = "off"
            /\ UNCHANGED <<action, ok, source>>
<1> DEFINE t == source[a][1]
<1> USE DEF KernelInv
<1>1. ok[a] /\ power = "on" /\ UNCHANGED <<action, ok, source>>
  BY DEF Trigger
<1>2. a \in Initialised
  BY <1>1 DEF FoundInv
<1>3. source[a] = <<t>> /\ t \in Trees[a]
  <2>1. source[a] # <<>> /\ source[a] \in {<<>>} \cup { <<u>> : u \in Trees[a] }
    BY <1>2 DEF Initialised, KernelTypeOK, SysconTypeOK
  <2>2. PICK u \in Trees[a] : source[a] = <<u>>
    BY <2>1
  <2> QED
    BY <2>2
<1>4. /\ action[a].found /\ HasRegister(t)
      /\ action[a].reg = Register(t) /\ action[a].mask = Mask(t) /\ action[a].value = Value(t)
  BY <1>1, <1>2 DEF FoundIsOfOneTree, FoundInv
<1>5. Register(t) \in Registers
  BY <1>3, <1>4, TreeLemma
<1> HIDE DEF t
<1>6. /\ mmio' = [mmio EXCEPT ![Register(t)] =
                   (@ \ Mask(t)) \cup (Value(t) \cap Mask(t))]
      /\ power' = "off"
  BY <1>4 DEF Trigger
<1> QED
  BY <1>1, <1>2, <1>3, <1>5, <1>6 DEF t
-----------------------------------------------------------------------------
(***************************************************************************)
(* The turn of the input loop.                                             *)
(***************************************************************************)
\* The reads of a turn are six different places.
LEMMA TurnLemma ==
  /\ DOMAIN Turn = 1..6
  /\ Turn[1] = "echo" /\ Turn[2] = "percent" /\ Turn[3] = "bang"
  /\ Turn[4] = "caret" /\ Turn[5] = "amp" /\ Turn[6] = "old"
  /\ InTurn = {"echo", "percent", "bang", "caret", "amp", "old"}
<1>1. /\ DOMAIN Turn = 1..6
      /\ Turn[1] = "echo" /\ Turn[2] = "percent" /\ Turn[3] = "bang"
      /\ Turn[4] = "caret" /\ Turn[5] = "amp" /\ Turn[6] = "old"
  BY DEF Turn
<1>2. \A n \in 1..6 : n = 1 \/ n = 2 \/ n = 3 \/ n = 4 \/ n = 5 \/ n = 6
  OBVIOUS
<1>3. InTurn = {"echo", "percent", "bang", "caret", "amp", "old"}
  BY <1>1, <1>2 DEF InTurn
<1> QED
  BY <1>1, <1>3

\* The place of a read determines its number.
LEMMA TurnInjective ==
  ASSUME NEW n \in DOMAIN Turn, NEW m \in DOMAIN Turn, Turn[n] = Turn[m]
  PROVE  n = m
<1>1. n \in 1..6 /\ m \in 1..6
  BY TurnLemma
<1>2. \A k \in 1..6 : k = 1 \/ k = 2 \/ k = 3 \/ k = 4 \/ k = 5 \/ k = 6
  OBVIOUS
<1> QED
  BY <1>1, <1>2, TurnLemma

\* Where the register is compared with each command.
LEMMA ComparedLemma ==
  /\ Compared["%"] = 2 /\ Compared["!"] = 3 /\ Compared["^"] = 4 /\ Compared["&"] = 5
  /\ \A k \in Commands : Compared[k] \in 2..5
BY DEF Compared, Commands

\* The turn goes on: no command that is obeyed here was in the register.
LEMMA PassedStep ==
  ASSUME KernelInv, NEW n \in 1..5, pc = Turn[n], pc' = Turn[n + 1],
         UNCHANGED <<ok, uart, since>>,
         uart \in Commands /\ Armed(uart) => Compared[uart] # n
  PROVE  PassedInv'
<1>1. n \in DOMAIN Turn /\ n + 1 \in DOMAIN Turn
  BY TurnLemma
<1>2. pc' \in InTurn /\ pc' # "wait"
  BY <1>1, TurnLemma DEF InTurn
<1>3. LostOnlyIfLate'
  BY <1>2 DEF LostOnlyIfLate
<1>4. ASSUME NEW k \in DOMAIN Turn, At(pc', k), uart \in Commands, Armed(uart),
             k > Compared[uart]
      PROVE  \E m \in DOMAIN Turn : At(since, m) /\ m > Compared[uart]
  <2>1. k = n + 1
    BY <1>1, <1>4, TurnInjective DEF At
  <2>2. n > Compared[uart]
    BY <1>4, <2>1, ComparedLemma
  <2> QED
    BY <1>1, <1>4, <2>2 DEF KernelInv, PassedInv, At
<1>5. Armed(uart)' <=> Armed(uart)
  BY DEF Armed
<1> QED
  BY <1>3, <1>4, <1>5 DEF PassedInv, At

\* A read that only moves kmain on.
LEMMA GotoPreserves ==
  ASSUME KernelInv, NEW from, NEW to, Goto(from, to),
         to \in InTurn \cup DOMAIN Arrays \cup {"wait"},
         from \in InTurn, PassedInv'
  PROVE  KernelInv'
<1>1. /\ pc' = to /\ UNCHANGED <<action, ok, mmio, power, source, entryVars, loopVars>>
  BY DEF Goto, sysconVars
<1>2. pc' \notin {"clear", "verify"}
  BY <1>1, TurnLemma, KernelAssumption
<1>3. KernelTypeOK /\ power \in {"on", "off", "abort"}
  BY DEF KernelInv, KernelTypeOK, SysconTypeOK
<1>4. /\ SysconTypeOK' /\ NothingYet' /\ ClearInv' /\ BssCleared'
      /\ FoundIsOfOneTree' /\ FoundInv'
  BY <1>1, <1>2, <1>3, DriverStays
<1>5. KernelTypeOK'
  BY <1>1, <1>3, <1>4 DEF KernelTypeOK, entryVars, loopVars
<1> QED
  BY <1>4, <1>5 DEF KernelInv

\* A read that ends the loop.
LEMMA LeavePreserves ==
  ASSUME KernelInv, UNCHANGED <<action, ok, source, entryVars, loopVars>>,
         mmio' \in [Registers -> SUBSET Bits],
         power' \in {"on", "off", "abort"},
         pc' \in {"ended", "rebooting", "shutting_down"}
  PROVE  KernelInv'
<1>1. /\ NothingYet' /\ ClearInv' /\ BssCleared' /\ FoundIsOfOneTree' /\ FoundInv'
  BY DEF KernelInv, NothingYet, ClearInv, BssCleared, FoundIsOfOneTree, FoundInv,
         Initialised, entryVars
<1>2. SysconTypeOK'
  BY DEF KernelInv, KernelTypeOK, SysconTypeOK
<1>3. KernelTypeOK'
  BY <1>2 DEF KernelInv, KernelTypeOK, entryVars, loopVars
<1>4. PassedInv'
  <2>1. (pc \notin InTurn /\ pc # "wait")'
    BY TurnLemma
  <2>2. \A n \in DOMAIN Turn : Turn[n] \in InTurn
    BY DEF InTurn
  <2> QED
    BY <2>1, <2>2 DEF PassedInv, LostOnlyIfLate, At
<1> QED
  BY <1>1, <1>3, <1>4 DEF KernelInv

\* The same for a read that triggers an action.
LEMMA TriggerPreserves ==
  ASSUME KernelInv, NEW a \in Actions, Trigger(a), UNCHANGED <<entryVars, loopVars>>,
         pc' \in {"rebooting", "shutting_down"}
  PROVE  KernelInv'
<1> DEFINE t == source[a][1]
<1>1. /\ t \in Trees[a] /\ Register(t) \in Registers
      /\ mmio' = [mmio EXCEPT ![Register(t)] = (@ \ Mask(t)) \cup (Value(t) \cap Mask(t))]
      /\ power' = "off" /\ UNCHANGED <<action, ok, source>>
  BY TriggerLemma
<1>2. Mask(t) \in SUBSET Bits /\ Value(t) \in SUBSET Bits
  BY <1>1, TreeLemma
<1>3. mmio \in [Registers -> SUBSET Bits]
  BY DEF KernelInv, KernelTypeOK, SysconTypeOK
<1> HIDE DEF t
<1>4. mmio' \in [Registers -> SUBSET Bits]
  BY <1>1, <1>2, <1>3
<1> QED
  BY <1>1, <1>4, LeavePreserves

-----------------------------------------------------------------------------
(***************************************************************************)
(* The steps.                                                              *)
(***************************************************************************)
\* A step to a place outside the turn and the clearing of .bss keeps the
\* invariant if it keeps the types.
LEMMA MovePreserves ==
  ASSUME KernelInv, UNCHANGED <<action, ok, mmio, source, entryVars>>,
         power' \in {"on", "off", "abort"},
         pc' \notin {"clear", "verify"}, KernelTypeOK', PassedInv'
  PROVE  KernelInv'
BY DriverStays DEF KernelInv

\* Outside the turn and the wait loop there is nothing to lose.
LEMMA PassedOutside ==
  ASSUME pc' \notin InTurn, pc' # "wait"
  PROVE  PassedInv'
<1>1. \A n \in DOMAIN Turn : Turn[n] \in InTurn
  BY DEF InTurn
<1> QED
  BY <1>1 DEF PassedInv, LostOnlyIfLate, At

\* At the first read of a turn nothing has been passed.
LEMMA PassedFirst ==
  ASSUME pc' = "echo"
  PROVE  PassedInv'
<1>1. LostOnlyIfLate'
  BY DEF LostOnlyIfLate
<1>2. ASSUME NEW n \in DOMAIN Turn, At(pc', n), uart' \in Commands
      PROVE  ~(n > Compared[uart'])
  <2>1. 1 \in DOMAIN Turn /\ Turn[1] = "echo"
    BY TurnLemma
  <2>2. n = 1
    BY <1>2, <2>1, TurnInjective DEF At
  <2> QED
    BY <1>2, <2>2, ComparedLemma
<1> QED
  BY <1>1, <1>2 DEF PassedInv, At

\* kmain's check of the header.
LEMMA VerifyPreserves ==
  ASSUME KernelInv, NEW header \in Headers, Verified(header) \/ NotVerified(header)
  PROVE  KernelInv'
<1>1. KernelTypeOK /\ power \in {"on", "off", "abort"}
  BY DEF KernelInv, KernelTypeOK, SysconTypeOK
<1>2. /\ pc' \in {"reboot_init", "ended"} /\ power' \in {"on", "off", "abort"}
      /\ UNCHANGED <<action, ok, mmio, source, entryVars, loopVars>>
  BY <1>1 DEF Verified, NotVerified, sysconVars
<1>3. PassedInv'
  BY <1>2, TurnLemma, PassedOutside
<1>4. SysconTypeOK'
  BY <1>2, DriverStays
<1>5. KernelTypeOK'
  BY <1>1, <1>2, <1>4 DEF KernelTypeOK, entryVars, loopVars
<1> QED
  BY <1>2, <1>3, <1>5, MovePreserves

\* An initialiser, and where kmain goes then.
LEMMA InitialiserPreserves ==
  ASSUME KernelInv, syscon_reboot_init \/ syscon_shutdown_init
  PROVE  KernelInv'
<1>1. /\ pc' \in {"shutdown_init", "preinit"} /\ UNCHANGED <<entryVars, loopVars>>
  BY DEF syscon_reboot_init, syscon_shutdown_init
<1>2. \E a \in Actions : \E t \in Trees[a] : syscon_init_generic_action(a, t)
  BY DEF syscon_reboot_init, syscon_shutdown_init, Actions
<1>3. SysconTypeOK' /\ FoundIsOfOneTree' /\ FoundInv'
  BY <1>2, InitialiserLemma
<1>4. PassedInv'
  BY <1>1, TurnLemma, PassedOutside
<1>5. KernelTypeOK'
  BY <1>1, <1>3, KernelAssumption DEF KernelInv, KernelTypeOK, entryVars, loopVars
<1>6. NothingYet' /\ ClearInv' /\ BssCleared'
  BY <1>1 DEF NothingYet, ClearInv, BssCleared
<1> QED
  BY <1>3, <1>4, <1>5, <1>6 DEF KernelInv

\* A constructor or destructor runs, or an array is done.
LEMMA ArrayPreserves ==
  ASSUME KernelInv, process_func_array \/ ArrayDone
  PROVE  KernelInv'
<1>1. /\ pc \in {"preinit", "init", "fini"} /\ KernelTypeOK
      /\ power \in {"on", "off", "abort"}
  BY KernelAssumption DEF KernelInv, KernelTypeOK, SysconTypeOK, process_func_array, ArrayDone
<1>2. /\ UNCHANGED <<action, ok, mmio, power, source, entryVars, uart, old_uart, since>>
      /\ func' \in Nat
  BY <1>1 DEF process_func_array, ArrayDone, sysconVars, KernelTypeOK
<1>3. pc' \in {"preinit", "init", "fini", "echo", "halt"}
  <2>1. CASE process_func_array
    BY <1>1, <2>1 DEF process_func_array
  <2>2. CASE ArrayDone
    BY <1>1, <2>2 DEF ArrayDone
  <2> QED
    BY <2>1, <2>2
<1>4. PassedInv'
  <2>1. CASE pc' = "echo"
    BY <2>1, PassedFirst
  <2>2. CASE pc' # "echo"
    BY <1>3, <2>2, TurnLemma, PassedOutside
  <2> QED
    BY <2>1, <2>2
<1>5. SysconTypeOK'
  BY <1>1, <1>2, <1>3, DriverStays
<1>6. KernelTypeOK'
  BY <1>1, <1>2, <1>3, <1>5, TurnLemma, KernelAssumption DEF KernelTypeOK, entryVars
<1> QED
  BY <1>1, <1>2, <1>3, <1>4, <1>6, MovePreserves

\* The six reads of a turn.
LEMMA ReadPreserves ==
  ASSUME KernelInv, Echo \/ TestPercent \/ TestBang \/ TestCaret \/ TestAmpersand
  PROVE  KernelInv'
<1> USE DEF Commands
<1>1. /\ KernelTypeOK /\ mmio \in [Registers -> SUBSET Bits]
  BY DEF KernelInv, KernelTypeOK, SysconTypeOK
<1>2. ASSUME NEW n \in 1..5, Goto(Turn[n], Turn[n + 1]),
             uart \in Commands /\ Armed(uart) => Compared[uart] # n
      PROVE  KernelInv'
  <2>1. pc = Turn[n] /\ pc' = Turn[n + 1] /\ UNCHANGED <<ok, uart, since>>
    BY <1>2 DEF Goto, sysconVars, loopVars
  <2>2. PassedInv'
    BY <1>2, <2>1, PassedStep
  <2>3. Turn[n] \in InTurn /\ Turn[n + 1] \in InTurn
    BY TurnLemma DEF InTurn
  <2> QED
    BY <1>2, <2>2, <2>3, GotoPreserves
<1>3. CASE Echo
  <2>1. Goto(Turn[1], Turn[1 + 1])
    BY <1>3, TurnLemma DEF Echo
  <2> QED
    BY <1>2, <2>1, ComparedLemma
<1>4. CASE TestPercent
  <2>1. CASE uart = "%"
    <3>1. Goto("percent", "fini")
      BY <1>4, <2>1 DEF TestPercent
    <3>2. PassedInv'
      BY <3>1, TurnLemma, PassedOutside DEF Goto
    <3> QED
      BY <3>1, <3>2, TurnLemma, KernelAssumption, GotoPreserves
  <2>2. CASE uart # "%"
    <3>1. Goto(Turn[2], Turn[2 + 1])
      BY <1>4, <2>2, TurnLemma DEF TestPercent
    <3> QED
      BY <1>2, <2>2, <3>1, ComparedLemma
  <2> QED
    BY <2>1, <2>2
<1>5. CASE TestBang
  <2>1. CASE uart = "!"
    BY <1>1, <1>5, <2>1, LeavePreserves DEF TestBang
  <2>2. CASE uart # "!"
    <3>1. Goto(Turn[3], Turn[3 + 1])
      BY <1>5, <2>2, TurnLemma DEF TestBang
    <3> QED
      BY <1>2, <2>2, <3>1, ComparedLemma
  <2> QED
    BY <2>1, <2>2
<1>6. CASE TestCaret
  <2>1. CASE ok["reboot"] /\ uart = "^"
    BY <1>6, <2>1, TriggerPreserves DEF TestCaret, Actions
  <2>2. CASE ~(ok["reboot"] /\ uart = "^")
    <3>1. Goto(Turn[4], Turn[4 + 1])
      BY <1>6, <2>2, TurnLemma DEF TestCaret
    <3> QED
      BY <1>2, <2>2, <3>1, ComparedLemma DEF Armed
  <2> QED
    BY <2>1, <2>2
<1>7. CASE TestAmpersand
  <2>1. CASE ok["shutdown"] /\ uart = "&"
    BY <1>7, <2>1, TriggerPreserves DEF TestAmpersand, Actions
  <2>2. CASE ~(ok["shutdown"] /\ uart = "&")
    <3>1. Goto(Turn[5], Turn[5 + 1])
      BY <1>7, <2>2, TurnLemma DEF TestAmpersand
    <3> QED
      BY <1>2, <2>2, <3>1, ComparedLemma DEF Armed
  <2> QED
    BY <2>1, <2>2
<1> QED
  BY <1>3, <1>4, <1>5, <1>6, <1>7

\* The last read of a turn is the old key, whose command was passed.
LEMMA RememberPreserves ==
  ASSUME KernelInv, Remember
  PROVE  KernelInv'
<1>1. /\ pc = "old" /\ pc' = "wait" /\ old_uart' = uart
      /\ UNCHANGED <<action, ok, mmio, power, source, entryVars, func, ran, uart, since>>
  BY DEF Remember, sysconVars
<1>2. KernelTypeOK /\ power \in {"on", "off", "abort"}
  BY DEF KernelInv, KernelTypeOK, SysconTypeOK
<1>3. SysconTypeOK'
  BY <1>1, <1>2, DriverStays
<1>4. KernelTypeOK'
  BY <1>1, <1>2, <1>3 DEF KernelTypeOK, entryVars
<1>5. LostOnlyIfLate'
  <2> SUFFICES ASSUME uart \in Commands, Armed(uart)
               PROVE  \E m \in DOMAIN Turn : At(since, m) /\ m > Compared[uart]
    BY <1>1 DEF LostOnlyIfLate, Armed, At
  <2>1. 6 \in DOMAIN Turn /\ At(pc, 6) /\ 6 > Compared[uart]
    BY <1>1, TurnLemma, ComparedLemma DEF At
  <2> QED
    BY <2>1 DEF KernelInv, PassedInv
<1>6. PassedInv'
  <2>1. \A n \in DOMAIN Turn : Turn[n] # pc'
    BY <1>1 DEF Turn
  <2> QED
    BY <1>5, <2>1 DEF PassedInv, At
<1> QED
  BY <1>1, <1>2, <1>4, <1>6, MovePreserves

\* The wait loop sees another key.
LEMMA NoticePreserves ==
  ASSUME KernelInv, Notice
  PROVE  KernelInv'
<1>1. /\ pc' = "echo" /\ since' = "echo" /\ old_uart' = NoKey
      /\ UNCHANGED <<action, ok, mmio, power, source, entryVars, func, ran, uart>>
  BY DEF Notice, sysconVars
<1>2. KernelTypeOK /\ power \in {"on", "off", "abort"}
  BY DEF KernelInv, KernelTypeOK, SysconTypeOK
<1>3. SysconTypeOK'
  BY <1>1, <1>2, DriverStays
<1>4. KernelTypeOK'
  BY <1>1, <1>2, <1>3, TurnLemma DEF KernelTypeOK, entryVars
<1> QED
  BY <1>1, <1>2, <1>4, PassedFirst, MovePreserves

\* A key arrives, and the place where kmain is then is remembered.
LEMMA KeyPreserves ==
  ASSUME KernelInv, NEW k \in Keys, Key(k)
  PROVE  KernelInv'
<1>1. /\ pc \in InTurn \cup {"wait"} /\ pc' = pc /\ uart' = k
      /\ since' = IF pc = "wait" THEN since ELSE pc
      /\ UNCHANGED <<action, ok, mmio, power, source, entryVars, func, ran, old_uart>>
  BY DEF Key, sysconVars
<1>2. KernelTypeOK /\ power \in {"on", "off", "abort"}
  BY DEF KernelInv, KernelTypeOK, SysconTypeOK
<1>3. pc' \notin {"clear", "verify"}
  BY <1>1, TurnLemma
<1>4. SysconTypeOK'
  BY <1>1, <1>2, <1>3, DriverStays
<1>5. KernelTypeOK'
  BY <1>1, <1>2, <1>4 DEF KernelTypeOK, entryVars
<1>6. PassedInv'
  <2>1. CASE pc = "wait"
    <3>1. \A n \in DOMAIN Turn : Turn[n] # pc'
      BY <1>1, <2>1 DEF Turn
    <3>2. LostOnlyIfLate'
      BY <1>1, <2>1 DEF KernelInv, PassedInv, LostOnlyIfLate, Armed
    <3> QED
      BY <3>1, <3>2 DEF PassedInv, At
  <2>2. CASE pc # "wait"
    <3>1. pc' # "wait" /\ since' = pc'
      BY <1>1, <2>2
    <3> QED
      BY <3>1 DEF PassedInv, LostOnlyIfLate, At
  <2> QED
    BY <2>1, <2>2
<1> QED
  BY <1>1, <1>2, <1>3, <1>5, <1>6, MovePreserves

\* Every step preserves the invariant.
LEMMA KernelStep == KernelInv /\ [Next]_vars => KernelInv'
<1> SUFFICES ASSUME KernelInv, [Next]_vars PROVE KernelInv'
  OBVIOUS
<1>1. CASE Boot
  <2>1. CASE \E header \in Headers : Verified(header) \/ NotVerified(header)
    BY <2>1, VerifyPreserves
  <2> QED
    BY <1>1, <2>1, ClearPreserves, InitialiserPreserves, ArrayPreserves DEF Boot
<1>2. CASE Loop
  BY <1>2, ReadPreserves, RememberPreserves, NoticePreserves DEF Loop
<1>3. CASE \E k \in Keys : Key(k)
  BY <1>3, KeyPreserves
<1>4. CASE UNCHANGED vars
  BY <1>4 DEF vars, sysconVars, entryVars, loopVars, KernelInv, KernelTypeOK, SysconTypeOK,
              NothingYet, ClearInv, BssCleared, FoundIsOfOneTree, FoundInv, Initialised,
              PassedInv, LostOnlyIfLate, Armed, At
<1> QED
  BY <1>1, <1>2, <1>3, <1>4 DEF Next

-----------------------------------------------------------------------------
(***************************************************************************)
(* The theorems.                                                           *)
(***************************************************************************)
\* The invariant holds in every state the hart reaches.
THEOREM KernelInvariance == Spec => []KernelInv
BY KernelInitial, KernelStep, PTL DEF Spec

\* The state of the entry code, of the driver and of the input loop keeps its
\* types: above all, the clearing loop never runs out of .bss and the page
\* behind it, and every register pointer is one of a syscon's block.
THEOREM KernelTypes == Spec => []KernelTypeOK
<1>1. KernelInv => KernelTypeOK
  BY DEF KernelInv
<1> QED
  BY <1>1, KernelInvariance, PTL

\* kmain starts on riscv with .bss cleared to its last byte and with nothing
\* behind its page touched, wherever .bss ends and whatever memory held.
THEOREM BssIsCleared == Spec => []BssCleared
<1>1. KernelInv => BssCleared
  BY DEF KernelInv
<1> QED
  BY <1>1, KernelInvariance, PTL

\* An initialiser of the syscon driver leaves an action either not found or
\* whole, for every device tree and every content of memory before.
THEOREM FoundOfOneTree == Spec => []FoundIsOfOneTree
<1>1. KernelInv => FoundIsOfOneTree
  BY DEF KernelInv
<1> QED
  BY <1>1, KernelInvariance, PTL

\* The loop of kmain loses the key of an armed command only if the key came
\* behind the command's own comparison in the very same turn.
THEOREM CommandLostOnlyIfLate == Spec => []LostOnlyIfLate
<1>1. KernelInv => LostOnlyIfLate
  BY DEF KernelInv, PassedInv
<1> QED
  BY <1>1, KernelInvariance, PTL

\* No tree gives an offset so near to 2^32 that the check of the register's
\* end wraps around.
NoWrap ==
  \A a \in Actions : \A t \in Trees[a] : t.offset # <<>> => t.offset[1] + 4 < Word

\* Where the check of the offset does not wrap, the register of an action that
\* is found lies inside the block of its syscon.
THEOREM RegisterIsInBlock ==
  ASSUME NoWrap
  PROVE  Spec => []RegisterInBlock
<1>1. KernelInv => RegisterInBlock
  <2> SUFFICES ASSUME KernelInv, NEW a \in Initialised, action[a].found
               PROVE  LET block == Syscons[source[a][1].regmap[1]]
                      IN /\ action[a].reg >= block.address
                         /\ action[a].reg + 4 <= block.address + block.size
    BY DEF RegisterInBlock
  <2> DEFINE t == source[a][1]
             offset == t.offset[1]
             block == Syscons[t.regmap[1]]
  <2>1. a \in Actions /\ t \in Trees[a]
    <3>1. source[a] \in {<<>>} \cup { <<u>> : u \in Trees[a] } /\ source[a] # <<>>
      BY DEF Initialised, KernelInv, KernelTypeOK, SysconTypeOK
    <3>2. PICK u \in Trees[a] : source[a] = <<u>>
      BY <3>1
    <3> QED
      BY <3>2 DEF Initialised
  <2>2. HasRegister(t) /\ action[a].reg = Register(t)
    BY DEF KernelInv, FoundInv, FoundIsOfOneTree
  <2>3. t \in Tree
    BY <2>1, TreeLemma
  <2> HIDE DEF t
  <2>4. offset \in 0..(Word - 1) /\ t.regmap[1] \in DOMAIN Syscons
    <3>1. t.offset \in Cell(0..(Word - 1)) /\ t.offset # <<>> /\ t.regmap[1] \in DOMAIN Syscons
      BY <2>2, <2>3 DEF Tree, HasRegister
    <3> QED
      BY <3>1, CellLemma
  <2>5. block.address \in Nat /\ block.size \in Nat
    BY <2>4, SysconAssumption
  <2>6. offset + 4 < Word
    BY <2>1, <2>2 DEF NoWrap, HasRegister
  <2>7. (offset + 4) % Word <= block.size /\ action[a].reg = block.address + offset
    BY <2>2 DEF HasRegister, OffsetFits, Register
  <2> HIDE DEF offset, block
  <2>8. (offset + 4) % Word = offset + 4
    BY <2>4, <2>6, SysconAssumption
  <2>9. action[a].reg >= block.address /\ action[a].reg + 4 <= block.address + block.size
    BY <2>4, <2>5, <2>7, <2>8
  <2> QED
    BY <2>9 DEF t, block
<1> QED
  BY <1>1, KernelInvariance, PTL

\* What a shutdown or a reboot writes is what the device tree asks for: one
\* register, and in it the bits of the mask.
THEOREM TreeSaysWhatIsWritten == Spec => WritesWhatTreeSays
<1> DEFINE Writes ==
      mmio' # mmio \/ (power = "on" /\ power' = "off") =>
        \E a \in Initialised :
          LET t == source[a][1]
              r == Register(t)
          IN /\ ok[a]
             /\ \A q \in Registers \ {r} : mmio'[q] = mmio[q]
             /\ \A b \in Bits :
                  b \in mmio'[r] <=>
                    IF t.mask # <<>> /\ b \notin t.mask[1] THEN b \in mmio[r]
                    ELSE t.value = <<>> \/ b \in t.value[1]
<1>1. KernelInv /\ [Next]_vars => Writes
  <2> SUFFICES ASSUME KernelInv, [Next]_vars,
                      mmio' # mmio \/ (power = "on" /\ power' = "off")
               PROVE  \E a \in Initialised :
                        LET t == source[a][1]
                            r == Register(t)
                        IN /\ ok[a]
                           /\ \A q \in Registers \ {r} : mmio'[q] = mmio[q]
                           /\ \A b \in Bits :
                                b \in mmio'[r] <=>
                                  IF t.mask # <<>> /\ b \notin t.mask[1] THEN b \in mmio[r]
                                  ELSE t.value = <<>> \/ b \in t.value[1]
    OBVIOUS
  <2>1. PICK a \in Actions : Trigger(a)
    <3>1. ASSUME Boot PROVE FALSE
      BY <3>1 DEF Boot, ClearWord, Verified, NotVerified, syscon_reboot_init,
                  syscon_shutdown_init, syscon_init_generic_action, process_func_array,
                  ArrayDone, sysconVars
    <3>2. ASSUME Remember \/ Notice \/ (\E k \in Keys : Key(k)) \/ UNCHANGED vars PROVE FALSE
      BY <3>2 DEF Remember, Notice, Key, vars, sysconVars
    <3>3. CASE Echo \/ TestPercent \/ TestBang \/ TestCaret \/ TestAmpersand
      BY <3>3 DEF Echo, TestPercent, TestBang, TestCaret, TestAmpersand, Goto, sysconVars,
                  Actions
    <3> QED
      BY <3>1, <3>2, <3>3 DEF Next, Loop
  <2> DEFINE t == source[a][1]
             r == Register(t)
  <2>2. /\ ok[a] /\ a \in Initialised /\ t \in Trees[a] /\ r \in Registers
        /\ mmio' = [mmio EXCEPT ![r] = (@ \ Mask(t)) \cup (Value(t) \cap Mask(t))]
    BY <2>1, TriggerLemma
  <2>3. mmio \in [Registers -> SUBSET Bits]
    BY DEF KernelInv, KernelTypeOK, SysconTypeOK
  <2> HIDE DEF t, r
  <2>4. \A q \in Registers \ {r} : mmio'[q] = mmio[q]
    BY <2>2, <2>3
  <2>5. ASSUME NEW b \in Bits
        PROVE  b \in mmio'[r] <=>
                 IF t.mask # <<>> /\ b \notin t.mask[1] THEN b \in mmio[r]
                 ELSE t.value = <<>> \/ b \in t.value[1]
    <3>1. mmio'[r] = (mmio[r] \ Mask(t)) \cup (Value(t) \cap Mask(t))
      BY <2>2, <2>3
    <3>2. b \in Mask(t) <=> ~(t.mask # <<>> /\ b \notin t.mask[1])
      BY DEF Mask
    <3>3. b \in Mask(t) => (b \in Value(t) <=> (t.value = <<>> \/ b \in t.value[1]))
      BY DEF Value
    <3> QED
      BY <3>1, <3>2, <3>3
  <2> QED
    BY <2>2, <2>4, <2>5 DEF t, r
<1>2. [][Writes]_sysconVars <=> WritesWhatTreeSays
  BY DEF WritesWhatTreeSays
<1> HIDE DEF Writes
<1> QED
  BY <1>1, <1>2, KernelInvariance, PTL DEF Spec
=============================================================================
