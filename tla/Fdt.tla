-------------------------------- MODULE Fdt --------------------------------
(***************************************************************************)
(* The flattened device tree, kernel/of/fdt.c.                             *)
(*                                                                         *)
(* The structure block is a sequence of bytes, and a token, node or        *)
(* property pointer is a position in it.  Everything the kernel knows of   *)
(* the tree it finds by walking forward over the tokens, so what a         *)
(* property holds must never be taken for a token.  The functions below    *)
(* are those of the source, with fdt left out.                             *)
(***************************************************************************)
EXTENDS Integers, Sequences

CONSTANTS
  Strings,    \* the strings block: the property name at each offset
  DebugName   \* what the kernel calls a node without a name

VARIABLES
  mem_rsvmap,   \* the memory reservation block: all bytes in front of the next block
  dt_struct     \* the structure block, which is the next one

NULL == 0

FDT_BEGIN_NODE == 1
FDT_END_NODE   == 2
FDT_PROP       == 3
FDT_NOP        == 4
FDT_END        == 9

\* A pointer into the structure block, or NULL.
Pointer == 0..Len(dt_struct)

\* Behind the structure block lies memory that is not its: no byte of it is 0.
Byte(p) == IF p <= Len(dt_struct) THEN dt_struct[p] ELSE 255

\* The bytes a pointer p to n bytes points to.
Memory(p, n) == [k \in 1..n |-> Byte(p + k - 1)]

be32toh(p) == ((Byte(p) * 256 + Byte(p + 1)) * 256 + Byte(p + 2)) * 256 + Byte(p + 3)

strlen(p) ==
  CHOOSE n \in 0..Len(dt_struct) :
    /\ Byte(p + n) = 0 \/ p + n > Len(dt_struct)
    /\ \A k \in 0..(n - 1) : Byte(p + k) # 0

\* The string at p, without its terminator.
String(p) == Memory(p, strlen(p))

-----------------------------------------------------------------------------
\* The memory reservation block; behind it lie the bytes of the next one.
RsvByte(p) == IF p <= Len(mem_rsvmap) THEN mem_rsvmap[p] ELSE Byte(p - Len(mem_rsvmap))

\* The two cells of a big endian number.
RsvCell(p) ==
  ((RsvByte(p) * 256 + RsvByte(p + 1)) * 256 + RsvByte(p + 2)) * 256 + RsvByte(p + 3)

be64toh(p) == RsvCell(p) * 65536 * 65536 + RsvCell(p + 4)

fdt_memrsv_ptr_invalid(ptr) == ptr < 1 \/ ptr > Len(mem_rsvmap)

\* Address and size are both 0.
EndsReserves(entry) == \A k \in 0..15 : RsvByte(entry + k) = 0

\* The first entry is read without a check.
fdt_reserve_entry_begin == IF EndsReserves(1) THEN NULL ELSE 1

\* Mutant: only the first byte of the entry is checked.
NextReserveStarts(entry) ==
  IF fdt_memrsv_ptr_invalid(entry + 16) \/ EndsReserves(entry + 16) THEN NULL ELSE entry + 16

\* The last byte of the entry must be in front of the structure block.
fdt_next_reserve_entry(entry) ==
  IF fdt_memrsv_ptr_invalid(entry + 16 + 15) \/ EndsReserves(entry + 16) THEN NULL
  ELSE entry + 16

fdt_reserve_entry_address(entry) == be64toh(entry)

fdt_reserve_entry_size(entry) == be64toh(entry + 8)

-----------------------------------------------------------------------------
\* Mutant: a full cell is followed by an empty one.
cell_len_more(n) == n \div 4 + 1

\* How many cells n bytes take.
cell_len(n) == n \div 4 + (IF n % 4 # 0 THEN 1 ELSE 0)

fdt_prop_val_len(prop) == be32toh(prop + 4)

fdt_prop_name_offset(prop) == be32toh(prop + 8)

fdt_prop_val(prop) == prop + 12

fdt_struct_ptr_invalid(ptr) == ptr < 1 \/ ptr > Len(dt_struct)

fdt_token_begin == 1

fdt_next_token(token) ==
  LET val  == be32toh(token)
      next == CASE val \in {FDT_NOP, FDT_END_NODE} -> token + 4
                [] val = FDT_BEGIN_NODE -> token + 4 + 4 * cell_len(strlen(token + 4) + 1)
                [] val = FDT_PROP -> token + 4 + 4 * (2 + cell_len(fdt_prop_val_len(token)))
                [] OTHER -> NULL
  IN IF fdt_struct_ptr_invalid(next) THEN NULL ELSE next

-----------------------------------------------------------------------------
\* The loops over tokens: from token on, over those in skip, to the first one
\* of kind want.
Seek(token, skip, want) ==
  LET seek[t \in Pointer] ==
        IF t # NULL /\ be32toh(t) \in skip THEN seek[fdt_next_token(t)]
        ELSE IF t # NULL /\ be32toh(t) = want THEN t
        ELSE NULL
  IN seek[token]

fdt_node_begin ==
  Seek(fdt_token_begin, {FDT_END_NODE, FDT_PROP, FDT_NOP, FDT_END}, FDT_BEGIN_NODE)

\* The next node and its depth, where node has the given depth.  At the last
\* node *depth is left alone.
fdt_next_node(node, depth) ==
  LET seek[s \in [token : Pointer, increase : Int]] ==
        IF s.token = NULL THEN [node |-> NULL, depth |-> depth]
        ELSE IF be32toh(s.token) = FDT_BEGIN_NODE
        THEN [node |-> s.token, depth |-> depth + s.increase]
        ELSE seek[[token    |-> fdt_next_token(s.token),
                   increase |-> IF be32toh(s.token) = FDT_END_NODE THEN s.increase - 1
                                ELSE s.increase]]
  IN seek[[token |-> fdt_next_token(node), increase |-> 1]]

fdt_max_depth ==
  LET deepest[s \in [node : Pointer, depth : Int, max : Int]] ==
        IF s.node = NULL THEN s.max
        ELSE LET next == fdt_next_node(s.node, s.depth)
             IN deepest[[node |-> next.node, depth |-> next.depth,
                         max  |-> IF s.depth > s.max THEN s.depth ELSE s.max]]
  IN deepest[[node |-> fdt_node_begin, depth |-> 0, max |-> 0]]

fdt_node_prop_begin(node) == Seek(fdt_next_token(node), {FDT_NOP}, FDT_PROP)

\* Mutant: the properties of subnodes are taken for the node's.
NextPropBelow(prop) == Seek(fdt_next_token(prop), {FDT_NOP, FDT_BEGIN_NODE}, FDT_PROP)

fdt_node_next_prop(prop) == Seek(fdt_next_token(prop), {FDT_NOP}, FDT_PROP)

fdt_node_subnode_begin(node) ==
  Seek(fdt_next_token(node), {FDT_NOP, FDT_PROP}, FDT_BEGIN_NODE)

\* The token behind the node's END_NODE; depth counts the open nodes.
fdt_next_token_after_node(node) ==
  LET now(s)   == CASE be32toh(s.token) = FDT_BEGIN_NODE -> s.depth + 1
                    [] be32toh(s.token) = FDT_END_NODE -> s.depth - 1
                    [] OTHER -> s.depth
      after[s \in [token : Pointer \ {NULL}, depth : Int]] ==
        IF fdt_next_token(s.token) = NULL \/ now(s) <= 0 THEN fdt_next_token(s.token)
        ELSE after[[token |-> fdt_next_token(s.token), depth |-> now(s)]]
  IN after[[token |-> node, depth |-> 0]]

\* Mutant: the subnode itself is not skipped.
NextSubnodeInside(subnode) ==
  Seek(fdt_next_token(subnode), {FDT_NOP, FDT_PROP}, FDT_BEGIN_NODE)

fdt_node_next_subnode(subnode) ==
  Seek(fdt_next_token_after_node(subnode), {FDT_NOP, FDT_PROP}, FDT_BEGIN_NODE)

\* The walk down to node, with the branch of nodes that leads to it: the one of
\* depth d is curr_branch[d + 1].  A store outside curr_branch would be a store
\* over the stack.
BranchTo(node) ==
  LET walk[s \in [curr : Pointer, depth : Int, branch : Seq(Pointer)]] ==
        IF s.curr = NULL \/ s.curr = node THEN [branch |-> s.branch, depth |-> s.depth]
        ELSE IF s.depth + 1 \notin DOMAIN s.branch THEN [branch |-> s.branch, depth |-> -1]
        ELSE LET next == fdt_next_node(s.curr, s.depth)
             IN walk[[curr   |-> next.node, depth |-> next.depth,
                      branch |-> [s.branch EXCEPT ![s.depth + 1] = s.curr]]]
  IN walk[[curr |-> fdt_node_begin, depth |-> 0,
           branch |-> [k \in 1..(fdt_max_depth + 1) |-> NULL]]]

\* Mutant: the branch is not reversed.
ParentsFromRoot(found, parents_len) ==
  [k \in 1..(IF parents_len < found.depth THEN parents_len ELSE found.depth) |->
     found.branch[k]]

\* The end of the branch, from node upwards, as far as it fits in parents_len.
Parents(found, parents_len) ==
  [k \in 1..(IF parents_len < found.depth THEN parents_len ELSE found.depth) |->
     found.branch[found.depth - k + 1]]

\* What fdt_node_get_parents leaves in an array of parents_len entries.
fdt_node_get_parents(node, parents_len) == Parents(BranchTo(node), parents_len)

-----------------------------------------------------------------------------
\* The name of a property, or "" when the offset is outside the block.
fdt_string_from_offset(offset) == IF offset < Len(Strings) THEN Strings[offset + 1] ELSE ""

fdt_prop_name(prop) == fdt_string_from_offset(fdt_prop_name_offset(prop))

PropFrom(prop, name) ==
  LET from[p \in Pointer] ==
        IF p = NULL \/ fdt_prop_name(p) = name THEN p ELSE from[fdt_node_next_prop(p)]
  IN from[prop]

fdt_get_prop_by_name(node, start, name) ==
  PropFrom(IF start # NULL THEN fdt_node_next_prop(start) ELSE fdt_node_prop_begin(node), name)

\* The first of the nodes that has the property.
FirstWith(nodes, prop_name) ==
  LET from[i \in 1..(Len(nodes) + 1)] ==
        IF i > Len(nodes) THEN NULL
        ELSE LET prop == fdt_get_prop_by_name(nodes[i], NULL, prop_name)
             IN IF prop # NULL THEN prop ELSE from[i + 1]
  IN from[1]

fdt_node_get_inherited_prop(node, prop_name) ==
  FirstWith(<<node>> \o fdt_node_get_parents(node, fdt_max_depth), prop_name)

fdt_prop_num_cells(prop) == fdt_prop_val_len(prop) \div 4

fdt_prop_get_cell(prop, index) ==
  IF index >= fdt_prop_num_cells(prop) THEN 0 ELSE be32toh(fdt_prop_val(prop) + 4 * index)

\* A property of no cells counts as 0, also when it is inherited.
CellCount(prop, default) == IF prop = NULL THEN default ELSE fdt_prop_get_cell(prop, 0)

\* Mutant: the default is that of the size.
AddressCellsDefault1(node) == CellCount(fdt_node_get_inherited_prop(node, "#address-cells"), 1)

fdt_node_get_address_cells(node) == CellCount(fdt_node_get_inherited_prop(node, "#address-cells"), 2)

fdt_node_get_size_cells(node) == CellCount(fdt_node_get_inherited_prop(node, "#size-cells"), 1)

\* How many blocks of reg_block_cells cells reg has.
NumBlocks(reg, reg_block_cells) ==
  IF reg = NULL \/ reg_block_cells = 0 THEN 0
  ELSE fdt_prop_num_cells(reg) \div reg_block_cells

fdt_node_num_register_blocks(node) ==
  NumBlocks(fdt_get_prop_by_name(node, NULL, "reg"),
            fdt_node_get_address_cells(node) + fdt_node_get_size_cells(node))

\* The address and size a caller gets, as the bytes of the big endian numbers.
\* An error gives NULL and 0.
NoBlock == [address |-> <<>>, size |-> <<>>]

\* Block `index' of reg.  The offset index * reg_block_cells is in cells, and is
\* added to a pointer to bytes.
BlockAt(reg, address_cells, size_cells, index) ==
  LET reg_block_cells == address_cells + size_cells
      address_ptr     == fdt_prop_val(reg) + index * reg_block_cells
      size_ptr        == address_ptr + 4 * address_cells
  IN IF \/ reg = NULL
        \/ fdt_prop_val_len(reg) < index * reg_block_cells * 4
        \/ address_cells \notin {1, 2}
        \/ size_cells \notin {1, 2}
     THEN NoBlock
     ELSE [address |-> Memory(address_ptr, 4 * address_cells),
           size    |-> Memory(size_ptr, 4 * size_cells)]

fdt_node_get_register_block(node, index) ==
  BlockAt(fdt_get_prop_by_name(node, NULL, "reg"), fdt_node_get_address_cells(node),
          fdt_node_get_size_cells(node), index)

-----------------------------------------------------------------------------
\* One of the strings from p on is compat.  strings_len is a size_t and the
\* loop tests it against 0, so it goes on when a string without terminator
\* takes strings_len below 0, until it leaves the blob.
AnyString(strings, len, compat) ==
  LET any[s \in [strings : Nat \ {0}, len : Int]] ==
        IF s.len = 0 \/ s.strings > Len(dt_struct) THEN FALSE
        ELSE IF String(s.strings) = compat THEN TRUE
        ELSE LET past == strlen(s.strings) + 1
             IN any[[strings |-> s.strings + past, len |-> s.len - past]]
  IN any[[strings |-> strings, len |-> len]]

fdt_node_is_compatible(node, compat) ==
  LET prop == fdt_get_prop_by_name(node, NULL, "compatible")
  IN prop # NULL /\ AnyString(fdt_prop_val(prop), fdt_prop_val_len(prop), compat)

\* The property counts as equal even if its terminator is missing.
HasDeviceType(node, type) ==
  LET prop == fdt_get_prop_by_name(node, NULL, "device_type")
  IN /\ prop # NULL
     /\ Memory(fdt_prop_val(prop), fdt_prop_val_len(prop)) \in {type, Append(type, 0)}

\* A node without a name is given a debug name (FDT_DEBUG_DEBUG_NAMELESS_NODES).
fdt_node_name(node) == IF String(node + 4) = <<>> THEN DebugName ELSE String(node + 4)

HasUnitName(node, name) == fdt_node_name(node) = name

\* The nodes behind which fdt_find_node_by_phandle never looks: it goes back
\* to the head of its loop without going to the next node.
BadPhandle(node) ==
  LET prop == fdt_get_prop_by_name(node, NULL, "phandle")
  IN prop # NULL /\ fdt_prop_num_cells(prop) # 1

HasPhandle(node, phandle) ==
  LET prop == fdt_get_prop_by_name(node, NULL, "phandle")
  IN /\ prop # NULL
     /\ ~BadPhandle(node)
     /\ fdt_prop_get_cell(prop, 0) = phandle

\* The loop of the four searches, and how they differ.
Loops == -1

Matches(node, by, key) ==
  CASE by = "compatible"  -> fdt_node_is_compatible(node, key)
    [] by = "device_type" -> HasDeviceType(node, key)
    [] by = "unit_name"   -> HasUnitName(node, key)
    [] by = "phandle"     -> HasPhandle(node, key)

FindFrom(start, by, key) ==
  LET from[node \in Pointer] ==
        IF node = NULL THEN NULL
        ELSE IF by = "phandle" /\ BadPhandle(node) THEN Loops
        ELSE IF Matches(node, by, key) THEN node
        ELSE from[fdt_next_node(node, 0).node]
  IN from[start]

\* Mutant: the search begins on start itself.
FindInclusive(start, by, key) ==
  FindFrom(IF start # NULL THEN start ELSE fdt_node_begin, by, key)

Find(start, by, key) ==
  FindFrom(IF start # NULL THEN fdt_next_node(start, 0).node ELSE fdt_node_begin, by, key)

fdt_find_compatible_node(start, compat)   == Find(start, "compatible", compat)
fdt_find_node_by_device_type(start, type) == Find(start, "device_type", type)
fdt_find_node_by_unit_name(start, name)   == Find(start, "unit_name", name)
fdt_find_node_by_phandle(start, phandle)  == Find(start, "phandle", phandle)
=============================================================================
