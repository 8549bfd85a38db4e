------------------------------- MODULE FdtBlob -------------------------------
(***************************************************************************)
(* The device trees the kernel may find.  A producer (the firmware, or     *)
(* dtc) writes a version 17 structure block token by token and keeps the   *)
(* tree it describes; in every block it can complete, the functions of Fdt *)
(* are compared with that tree.                                            *)
(***************************************************************************)
EXTENDS Fdt, FiniteSets, SequencesExt

CONSTANTS
  Values(_),   \* Values(name): what a property of that name may hold
  Kinds        \* the kinds of blocks: the names of nodes, as bytes other than 0,
               \* the names of properties, bounds (props are per node), and the
               \* reserve entries with what follows them

ASSUME BlobAssumption ==
  /\ \A k \in Kinds : /\ k.unitNames \subseteq Seq(1..255)
                     /\ DebugName \notin k.unitNames
                     /\ k.strings \subseteq { Strings[j] : j \in DOMAIN Strings }
                     /\ k.nodes \in Nat \ {0} /\ k.props \in Nat /\ k.nops \in Nat
                     /\ \A r \in k.reserves :
                          /\ r.entries \in Seq([address : Nat, size : Nat])
                          /\ \A j \in DOMAIN r.entries :
                               r.entries[j].address # 0 \/ r.entries[j].size # 0
                          /\ r.tail \in Seq(0..255)
                          /\ Len(r.tail) >= 16 => \A j \in 1..16 : r.tail[j] = 0
                          /\ r.entries # <<>> \/ Len(r.tail) >= 16
  /\ Strings \in Seq(STRING)
  /\ \A k \in DOMAIN Strings : Values(Strings[k]) \subseteq Seq(0..255)

VARIABLES
  reserve,   \* the reserve entries and the bytes behind them
  kind,      \* the kind of block that is being written
  tree,      \* the nodes in order: where they are, the nodes above, the properties
  open,      \* the nodes that have begun and not ended, innermost first
  tokens,    \* history: the tokens, and what the producer had written behind each
  nops,      \* how many NOP tokens were written
  complete   \* FDT_END is written: the kernel may read the block

resvVars == <<mem_rsvmap, reserve>>
blobVars == <<resvVars, dt_struct, kind, tree, open, tokens, nops, complete>>

Cell(n) == <<n \div 16777216, (n \div 65536) % 256, (n \div 256) % 256, n % 256>>

\* Two cells, of which the addresses and sizes here fill the second.
Cell64(n) == Cell(0) \o Cell(n)

\* bytes, and zeroes up to the next cell
Padded(bytes) == bytes \o [k \in 1..((4 - (Len(bytes) % 4)) % 4) |-> 0]

Here == Len(dt_struct) + 1

\* A token of that kind is written, with all that belongs to it.
Token(is, bytes) ==
  /\ dt_struct' = dt_struct \o Cell(is) \o bytes
  /\ tokens' = Append(tokens, [at |-> Here, is |-> is, bytes |-> bytes,
                               nodes |-> Len(tree'), open |-> open',
                               props |-> IF tree' = <<>> THEN 0 ELSE Len(Last(tree').props)])

BeginNode(name) ==
  /\ ~complete
  /\ tree = <<>> \/ open # <<>>
  /\ (tree = <<>>) <=> (name = <<>>)
  /\ Len(tree) < kind.nodes
  /\ tree' = Append(tree, [at |-> Here, name |-> name, props |-> <<>>, above |-> open])
  /\ open' = <<Len(tree) + 1>> \o open
  /\ Token(FDT_BEGIN_NODE, Padded(Append(name, 0)))
  /\ UNCHANGED <<resvVars, kind, nops, complete>>

\* Properties come before subnodes, a node has one of each name, and they
\* stand in the order of the strings block.
Property(k, val) ==
  LET n == Head(open)
  IN /\ ~complete
     /\ open # <<>>
     /\ n = Len(tree)
     /\ Len(tree[n].props) < kind.props
     /\ \A p \in DOMAIN tree[n].props :
          \E j \in 1..(k - 1) : tree[n].props[p].name = Strings[j]
     /\ tree' = [tree EXCEPT ![n].props =
                   Append(@, [at |-> Here, name |-> Strings[k], val |-> val])]
     /\ UNCHANGED <<resvVars, kind, open, nops, complete>>
     /\ Token(FDT_PROP, Cell(Len(val)) \o Cell(k - 1) \o Padded(val))

Nop ==
  /\ ~complete
  /\ nops < kind.nops
  /\ nops' = nops + 1
  /\ UNCHANGED <<resvVars, kind, tree, open, complete>>
  /\ Token(FDT_NOP, <<>>)

EndNode ==
  /\ ~complete
  /\ open # <<>>
  /\ open' = Tail(open)
  /\ UNCHANGED <<resvVars, kind, tree, nops, complete>>
  /\ Token(FDT_END_NODE, <<>>)

End ==
  /\ ~complete
  /\ open = <<>> /\ tree # <<>>
  /\ complete' = TRUE
  /\ UNCHANGED <<resvVars, kind, tree, open, nops>>
  /\ Token(FDT_END, <<>>)

Init ==
  /\ kind \in Kinds
  /\ reserve \in kind.reserves
  /\ mem_rsvmap = FlattenSeq([k \in DOMAIN reserve.entries |->
                                Cell64(reserve.entries[k].address) \o
                                Cell64(reserve.entries[k].size)]) \o reserve.tail
  /\ dt_struct = <<>>
  /\ tree = <<>>
  /\ open = <<>>
  /\ tokens = <<>>
  /\ nops = 0
  /\ complete = FALSE

Next ==
  \/ \E name \in kind.unitNames \cup {<<>>} : BeginNode(name)
  \/ \E k \in DOMAIN Strings : Strings[k] \in kind.strings /\ \E val \in Values(Strings[k]) : Property(k, val)
  \/ Nop \/ EndNode \/ End

Spec == Init /\ [][Next]_blobVars

-----------------------------------------------------------------------------
(***************************************************************************)
(* The tree, in the producer's terms.                                      *)
(***************************************************************************)
Nodes == DOMAIN tree

\* The ancestors of node n, nearest first.
Ancestors(n) == tree[n].above

Depth(n) == Len(Ancestors(n))

Children(n) == { m \in Nodes : Ancestors(m) # <<>> /\ Head(Ancestors(m)) = n }

\* Where the node is; NULL for no node.
At(n) == IF n \in Nodes THEN tree[n].at ELSE NULL

\* Where the first of these nodes is; NULL if there is none.
First(S) == IF S = {} THEN NULL ELSE At(CHOOSE n \in S : \A m \in S : n <= m)

\* The first element of seq that satisfies Is, or 0.
FirstIndex(seq, Is(_)) ==
  LET is == { k \in DOMAIN seq : Is(seq[k]) }
  IN IF is = {} THEN 0 ELSE CHOOSE k \in is : \A l \in is : k <= l

\* The record of the property of node n with the given name.
Prop(n, name) ==
  LET k == FirstIndex(tree[n].props, LAMBDA p : p.name = name)
  IN IF k = 0 THEN [at |-> NULL, name |-> name, val |-> <<>>] ELSE tree[n].props[k]

Has(n, name) == Prop(n, name).at # NULL

-----------------------------------------------------------------------------
\* fdt_node_begin and fdt_next_node visit every node, in order, and keep
\* *depth right, whatever looks like a token in names and values; and so
\* fdt_max_depth is the depth of the deepest node.
WalkExact ==
  complete =>
    /\ fdt_node_begin = At(1)
    /\ \A n \in Nodes : Depth(n) <= fdt_max_depth
    /\ \E n \in Nodes : Depth(n) = fdt_max_depth
    /\ \A n \in Nodes :
         LET next == fdt_next_node(At(n), Depth(n))
         IN /\ next.node = At(n + 1)
            /\ next.depth = Depth(IF n + 1 \in Nodes THEN n + 1 ELSE n)

\* fdt_node_subnode_begin and fdt_node_next_subnode visit exactly the
\* children of a node, in order, and not their children.
ChildrenExact ==
  complete =>
    \A n \in Nodes :
      /\ fdt_node_subnode_begin(At(n)) = First(Children(n))
      /\ \A c \in Children(n) :
           fdt_node_next_subnode(At(c)) = First({ d \in Children(n) : d > c })

\* fdt_node_prop_begin and fdt_node_next_prop visit exactly the properties
\* of a node, in order, and end before its first subnode.
PropsExact ==
  complete =>
    \A n \in Nodes :
      LET p == tree[n].props
          Place(k) == IF k \in DOMAIN p THEN p[k].at ELSE NULL
      IN /\ fdt_node_prop_begin(At(n)) = Place(1)
         /\ \A k \in DOMAIN p : fdt_node_next_prop(p[k].at) = Place(k + 1)

\* fdt_node_get_parents fills the array with the ancestors, nearest first, as
\* many as it has room for, and never stores outside curr_branch; and so
\* fdt_node_get_inherited_prop finds the closest definition: the node's own,
\* or that of the nearest ancestor that has one.
ParentsExact ==
  complete =>
    \A n \in Nodes :
      LET a == Ancestors(n)
          line == <<n>> \o a
      IN /\ \A room \in {1, kind.nodes} :
              fdt_node_get_parents(At(n), room)
                = [k \in 1..(IF room < Len(a) THEN room ELSE Len(a)) |-> At(a[k])]
         /\ \A name \in kind.strings :
              LET near == FirstIndex(line, LAMBDA m : Has(m, name))
              IN fdt_node_get_inherited_prop(At(n), name)
                   = IF near = 0 THEN NULL ELSE Prop(line[near], name).at

\* The number in the first cell of a value.
Number(val) == ((val[1] * 256 + val[2]) * 256 + val[3]) * 256 + val[4]

\* The number of cells the producer writes addresses or sizes of node n with:
\* its parent says so, or nobody.
CellsGiven(n, name, default) ==
  LET parent == Head(Ancestors(n))
      val    == Prop(parent, name).val
  IN IF Ancestors(n) = <<>> \/ ~Has(parent, name) THEN default
     ELSE IF Len(val) < 4 THEN 0 ELSE Number(val)

\* From n upwards, the first node that gives the two counts is its parent, or
\* there is none: the node has no counts of its own (those are for its
\* children), and it does not depend on those of nodes above its parent.
CellsFromParent(n) ==
  \A name \in {"#address-cells", "#size-cells"} :
    FirstIndex(<<n>> \o Ancestors(n), LAMBDA m : Has(m, name)) \in {0, 2}

\* The bytes of block `index' of the node's reg, or NoBlock if reg does not
\* have it.
RegBlock(n, index) ==
  LET ac  == CellsGiven(n, "#address-cells", 2)
      sc  == CellsGiven(n, "#size-cells", 1)
      reg == Prop(n, "reg").val
      at  == index * 4 * (ac + sc)
  IN IF ac \notin {1, 2} \/ sc \notin {1, 2} \/ at + 4 * (ac + sc) > Len(reg) THEN NoBlock
     ELSE [address |-> SubSeq(reg, at + 1, at + 4 * ac),
           size    |-> SubSeq(reg, at + 4 * ac + 1, at + 4 * (ac + sc))]

\* Where a node's cell counts are those of its parent, its first register
\* block is read as it was written, and fdt_node_num_register_blocks counts
\* the blocks there are.  Elsewhere the code goes by other counts than the
\* producer: it takes the node's own, and then those of any ancestor.
FirstBlockExact ==
  complete =>
    \A n \in { m \in Nodes : Has(m, "reg") /\ CellsFromParent(m) } :
      RegBlock(n, 0) # NoBlock =>
        LET count == fdt_node_num_register_blocks(At(n))
        IN /\ fdt_node_get_register_block(At(n), 0) = RegBlock(n, 0)
           /\ RegBlock(n, count - 1) # NoBlock
           /\ RegBlock(n, count) = NoBlock

\* What the four searches look for, in the producer's terms.
IsMatch(n, by, key) ==
  CASE by = "compatible"  ->
         \E a, b \in 0..Len(Prop(n, "compatible").val) :
           LET v == Prop(n, "compatible").val
           IN /\ a = 0 \/ v[a] = 0
              /\ SubSeq(v, a + 1, b) = Append(key, 0)
    [] by = "device_type" -> Has(n, "device_type") /\
                             Prop(n, "device_type").val \in {key, Append(key, 0)}
    [] by = "unit_name"   -> key # <<>> /\ tree[n].name = key
    [] by = "phandle"     -> Prop(n, "phandle").val = Cell(key)

\* A search from any node finds the next node that matches, so repeating it
\* enumerates all of them.
Finds(by, key) ==
  \A n \in {0} \cup Nodes :
    Find(At(n), by, key) = First({ m \in Nodes : m > n /\ IsMatch(m, by, key) })

\* What to search for: the strings in the values, and the parts of them.
Keys(name) ==
  { key \in UNION { { SubSeq(v, i, j) : i, j \in 1..Len(v) } :
                     v \in IF name \in kind.strings THEN Values(name) ELSE {} } :
      \A i \in DOMAIN key : key[i] # 0 }

\* The four searches, by compatible string, device type, unit name and
\* phandle, find every node they should, and no other.
SearchExact ==
  complete =>
    /\ \A key \in Keys("compatible") : Finds("compatible", key)
    /\ \A key \in Keys("device_type") : Finds("device_type", key)
    /\ \A key \in kind.unitNames : Finds("unit_name", key)
    /\ "phandle" \in kind.strings => \A key \in 1..2 : Finds("phandle", key)

\* fdt_reserve_entry_begin and fdt_next_reserve_entry visit every entry in
\* front of the terminator, in order, and none behind it; in a block without
\* one they end before the structure block.  What they give the memory scan
\* is what was written.
ReserveExact ==
  LET e == reserve.entries
      Place(k) == IF k \in DOMAIN e THEN 16 * k - 15 ELSE NULL
  IN complete =>
       /\ fdt_reserve_entry_begin = Place(1)
       /\ \A k \in DOMAIN e :
            /\ fdt_next_reserve_entry(Place(k)) = Place(k + 1)
            /\ fdt_reserve_entry_address(Place(k)) = e[k].address
            /\ fdt_reserve_entry_size(Place(k)) = e[k].size
=============================================================================
