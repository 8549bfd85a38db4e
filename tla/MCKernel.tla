------------------------------ MODULE MCKernel ------------------------------
(***************************************************************************)
(* Two syscons, one of them without a register block, a phandle that       *)
(* refers to nothing, and words of 16; a small .bss, a constructor and a   *)
(* destructor, the four commands and another key.                          *)
(***************************************************************************)
EXTENDS Kernel

MCSyscons == <<[address |-> 4, size |-> 8], [address |-> 0, size |-> 0]>>

MCRegisters == 0..19

\* Everything an action may have, at each of the offsets.
Given(offsets) ==
  [node: {TRUE}, regmap: {<<1>>}, offset: { <<o>> : o \in offsets },
   mask: Cell({{1}}), value: Cell({{2}})]

NoTree == [node |-> FALSE, regmap |-> <<>>, offset |-> <<>>, mask |-> <<>>, value |-> <<>>]

Whole == [node |-> TRUE, regmap |-> <<1>>, offset |-> <<4>>, mask |-> <<{1}>>, value |-> <<{2}>>]

\* One thing is missing or malformed.
Broken ==
  {NoTree, [Whole EXCEPT !.regmap = <<>>], [Whole EXCEPT !.regmap = <<2>>],
   [Whole EXCEPT !.regmap = <<3>>], [Whole EXCEPT !.offset = <<>>]}

\* Registers at the start of the block, at its end and across it, for one
\* action; the other, which shares the code, is found or incomplete.
MCTrees ==
  [shutdown |-> Broken \cup Given({0, 4, 5}),
   reboot   |-> {Whole, [Whole EXCEPT !.mask = <<>>, !.value = <<>>]}]

\* .bss ends in the middle of its third word, and x6 is before or behind its end.
MCPlace == [shutdown |-> 1, reboot |-> 4]
MCX6 == {0, 3, 8}
MCGarbage == {[found |-> TRUE, reg |-> 3, mask |-> {1}, value |-> {1}]}

MCHeaders == [magic: BOOLEAN, last_comp_version: 16..18]

MCKeys == {"%", "!", "^", "&", "a"}
MCArrays == [preinit |-> <<>>, init |-> <<"foo">>, fini |-> <<"bar">>]
=============================================================================
