-------------------------------- MODULE MCFdt --------------------------------
(***************************************************************************)
(* Small structure blocks: one kind for the iterators, one for the reserve *)
(* entries, one for register blocks, two for the searches.                 *)
(***************************************************************************)
EXTENDS FdtBlob

\* Names that end just before and just behind a cell boundary.
Abc  == <<97, 98, 99>>
Abcd == <<97, 98, 99, 100>>

MCStrings == <<"x", "#address-cells", "#size-cells", "reg",
               "compatible", "device_type", "phandle">>

\* Braces are not allowed in unit names.
MCDebugName == <<123, 125>>

\* A register block of that many cells.
Reg(cells) == [k \in 1..(4 * cells) |-> k]

\* x: a value that looks like a token, of a cell and a bit.  Addresses of 0, 1
\* and 2 cells, sizes of 1 and 2 (the defaults are 2 and 1), and regs of less
\* than one block, one, two and three.  Lists of strings, with and without the
\* terminator where that is allowed.
MCValues(name) ==
  CASE name = "x"              -> {<<0, 0, 0, 1, 0>>}
    [] name = "#address-cells" -> {<<>>, Cell(1)}
    [] name = "#size-cells"    -> {Cell(2)}
    [] name = "reg"            -> {Reg(3), Reg(6)}
    [] name = "compatible"     -> {<<97, 0>>, <<97, 98, 99, 0, 97, 0>>}
    [] name = "device_type"    -> {<<97, 0>>, <<97>>}
    [] name = "phandle"        -> {Cell(1)}

\* A phandle of two cells as well.
BadValues(name) == IF name = "phandle" THEN {Cell(1), Cell(1) \o Cell(2)} ELSE {}

\* A reservation block of its terminator alone.
Zeroes(n) == [k \in 1..n |-> 0]
NoReserves == {[entries |-> <<>>, tail |-> Zeroes(16)]}

\* Up to two entries, of which one of the two numbers may be 0.  Behind them
\* the terminator, alone, with padding or with bytes that look like another
\* entry; or no terminator, or half of one.
Entries == {[address |-> 0, size |-> 5], [address |-> 300, size |-> 0],
            [address |-> 65536, size |-> 258]}
Tails == {Zeroes(16), Zeroes(20), Zeroes(16) \o Reg(4)}
BadTails == {<<>>, Zeroes(8)}
Reserves ==
  [entries: UNION { [1..n -> Entries] : n \in 0..2 }, tail: Tails] \cup
  [entries: UNION { [1..n -> Entries] : n \in 1..2 }, tail: BadTails]

Shape == [unitNames |-> {Abc, Abcd}, strings |-> {"x"}, nodes |-> 4, props |-> 1, nops |-> 1,
          reserves |-> NoReserves]
Root == [unitNames |-> {}, strings |-> {}, nodes |-> 1, props |-> 0, nops |-> 0,
         reserves |-> Reserves]
Registers == [unitNames |-> {Abc}, strings |-> {"#address-cells", "#size-cells", "reg"},
              nodes |-> 3, props |-> 2, nops |-> 0, reserves |-> NoReserves]
Search(names, strings) == [unitNames |-> names, strings |-> strings,
                           nodes |-> 3, props |-> 2, nops |-> 0, reserves |-> NoReserves]

SearchKinds == {Search({Abc, Abcd}, {"device_type"}), Search({Abc}, {"compatible", "phandle"})}
MCKinds == {Shape, Root, Registers} \cup SearchKinds
=============================================================================
