--------------------------- MODULE FdtBlobProofs ---------------------------
(***************************************************************************)
(* Proofs that the functions of Fdt read what the producer of FdtBlob has  *)
(* written, for every set of names, values and reserve entries and for     *)
(* trees of every shape.                                                   *)
(***************************************************************************)
EXTENDS FdtBlob, Induction

-----------------------------------------------------------------------------
(***************************************************************************)
(* The inductive invariant: what the producer has written, by its history. *)
(***************************************************************************)
Kind == {FDT_BEGIN_NODE, FDT_END_NODE, FDT_PROP, FDT_NOP, FDT_END}

PropRecord == [at : Nat, name : STRING, val : Seq(Nat)]
NodeRecord == [at : Nat, name : Seq(Nat), props : Seq(PropRecord), above : Seq(Nat)]
TokenRecord ==
  [at : Nat, is : Kind, bytes : Seq(Nat), nodes : Nat, open : Seq(Nat), props : Nat]

BlobTypes ==
  /\ dt_struct \in Seq(Nat)
  /\ tree \in Seq(NodeRecord)
  /\ open \in Seq(Nat)
  /\ tokens \in Seq(TokenRecord)
  /\ complete \in BOOLEAN

\* What the producer had written in front of token k.
Start == [at |-> 0, is |-> FDT_NOP, bytes |-> <<>>, nodes |-> 0, open |-> <<>>, props |-> 0]
Before(k) == IF k = 1 THEN Start ELSE tokens[k - 1]

\* Where token k is, or will be.
Place(k) == IF k \in DOMAIN tokens THEN tokens[k].at ELSE Here

\* In the block d these bytes stand at p.
Holds(d, p, bytes) ==
  \A i \in 1..Len(bytes) : p + i - 1 \in 1..Len(d) /\ d[p + i - 1] = bytes[i]

\* The tokens stand one behind the other, from the first byte on, and only the
\* last one of a complete block is FDT_END.
Layout ==
  /\ Place(1) = 1
  /\ \A k \in DOMAIN tokens :
       /\ tokens[k].at >= 1
       /\ Place(k + 1) = tokens[k].at + 4 + Len(tokens[k].bytes)
       /\ Holds(dt_struct, tokens[k].at, Cell(tokens[k].is))
       /\ Holds(dt_struct, tokens[k].at + 4, tokens[k].bytes)
       /\ tokens[k].is = FDT_END <=> complete /\ k = Len(tokens)
  /\ complete => tokens # <<>>

\* What a token stands for is in the tree.
BytesOf(tr, t) ==
  /\ t.is = FDT_BEGIN_NODE =>
       /\ t.nodes \in DOMAIN tr
       /\ tr[t.nodes].at = t.at
       /\ \A i \in DOMAIN tr[t.nodes].name : tr[t.nodes].name[i] # 0
       /\ t.bytes = Padded(Append(tr[t.nodes].name, 0))
  /\ t.is = FDT_PROP =>
       /\ t.nodes \in DOMAIN tr
       /\ t.props \in DOMAIN tr[t.nodes].props
       /\ tr[t.nodes].props[t.props].at = t.at
       /\ \E j \in DOMAIN Strings :
            /\ tr[t.nodes].props[t.props].name = Strings[j]
            /\ t.bytes = Cell(Len(tr[t.nodes].props[t.props].val)) \o
                         (Cell(j - 1) \o Padded(tr[t.nodes].props[t.props].val))
  /\ t.is \notin {FDT_BEGIN_NODE, FDT_PROP} => t.bytes = <<>>

Contents == \A k \in DOMAIN tokens : BytesOf(tree, tokens[k])

\* The number of properties of node n; there is no node 0.
NumProps(tr, n) == IF n = 0 THEN 0 ELSE Len(tr[n].props)

\* What a token does, from what was written before it.
StepOf(tr, b, t) ==
  /\ t.is = FDT_BEGIN_NODE =>
       /\ t.nodes = b.nodes + 1 /\ t.props = 0
       /\ t.open = <<t.nodes>> \o b.open
       /\ tr[t.nodes].above = b.open
  /\ t.is # FDT_BEGIN_NODE => t.nodes = b.nodes
  /\ t.is = FDT_PROP => t.props = b.props + 1 /\ t.open = b.open /\ b.open # <<>>
  /\ t.is \notin {FDT_BEGIN_NODE, FDT_PROP} => t.props = b.props
  /\ t.is = FDT_NOP => t.open = b.open
  /\ t.is = FDT_END_NODE => b.open # <<>> /\ t.open = Tail(b.open)
  /\ t.is = FDT_END => b.open = <<>> /\ t.open = <<>>
  /\ t.is \in {FDT_BEGIN_NODE, FDT_END_NODE, FDT_END} => b.props = NumProps(tr, b.nodes)

Steps == \A k \in DOMAIN tokens : StepOf(tree, Before(k), tokens[k])

\* The last token's record is what the producer is at.
Current ==
  LET b == Before(Len(tokens) + 1)
  IN b.nodes = Len(tree) /\ b.open = open /\ b.props = NumProps(tree, Len(tree))

\* A stack of nodes, all up to n, innermost first.
Stack(s, n) ==
  /\ \A i \in 1..Len(s) : s[i] \in 1..n
  /\ \A i, j \in 1..Len(s) : i < j => s[i] > s[j]

\* s is an end of t.
EndOf(s, t) ==
  /\ Len(s) <= Len(t)
  /\ \A d \in 0..(Len(s) - 1) : s[Len(s) - d] = t[Len(t) - d]

Line(tr, n) == <<n>> \o tr[n].above

Stacks ==
  /\ Stack(open, Len(tree))
  /\ \A n \in DOMAIN tree : Stack(tree[n].above, n - 1)
  /\ \A k \in DOMAIN tokens :
       /\ tokens[k].nodes <= Len(tree)
       /\ Stack(tokens[k].open, tokens[k].nodes)
       /\ tokens[k].nodes = 0 => tokens[k].open = <<>>
       /\ tokens[k].nodes # 0 => EndOf(tokens[k].open, Line(tree, tokens[k].nodes))

\* A node of s was open behind token t, or began later.
OpenSince(t, s) == \A i \in 1..Len(s) : s[i] > t.nodes \/ \E j \in 1..Len(t.open) : s[i] = t.open[j]

\* The innermost open node is not node n.
Behind(o, n) == o # <<>> => o[1] < n

\* What was closed is not opened again.
Closed ==
  \A k \in DOMAIN tokens :
    /\ OpenSince(tokens[k], open)
    /\ \A m \in DOMAIN tree : m > tokens[k].nodes => OpenSince(tokens[k], tree[m].above)
    /\ tokens[k].is = FDT_END_NODE /\ tokens[k].nodes = Len(tree) => Behind(open, Len(tree))

\* Node n has a token, and so has its property p.
Begins(toks, n) == \E k \in DOMAIN toks : toks[k].is = FDT_BEGIN_NODE /\ toks[k].nodes = n

Gives(toks, n, p) ==
  \E k \in DOMAIN toks : toks[k].is = FDT_PROP /\ toks[k].nodes = n /\ toks[k].props = p

\* Every node and every property has a token, and the nodes are in order.
Written ==
  /\ \A n \in DOMAIN tree : Begins(tokens, n)
  /\ \A n \in DOMAIN tree : \A p \in DOMAIN tree[n].props : Gives(tokens, n, p)
  /\ \A n \in DOMAIN tree : tree[n].at < Here
  /\ \A m, n \in DOMAIN tree : m < n => tree[m].at < tree[n].at

BlobInv ==
  BlobTypes /\ Layout /\ Contents /\ Steps /\ Current /\ Stacks /\ Closed /\ Written
-----------------------------------------------------------------------------
(***************************************************************************)
(* Sequences.                                                              *)
(***************************************************************************)
\* The elements of a sequence.
LEMMA ElemLemma ==
  ASSUME NEW S, NEW s \in Seq(S)
  PROVE  /\ Len(s) \in Nat /\ DOMAIN s = 1..Len(s)
         /\ \A k \in 1..Len(s) : s[k] \in S
OBVIOUS

\* What Append returns.
LEMMA AppendLemma ==
  ASSUME NEW S, NEW s \in Seq(S), NEW x \in S
  PROVE  /\ Append(s, x) \in Seq(S)
         /\ Len(Append(s, x)) = Len(s) + 1
         /\ \A k \in 1..Len(s) : Append(s, x)[k] = s[k]
         /\ Append(s, x)[Len(s) + 1] = x
OBVIOUS

\* What joining two sequences returns.
LEMMA JoinLemma ==
  ASSUME NEW S, NEW s \in Seq(S), NEW t \in Seq(S)
  PROVE  /\ s \o t \in Seq(S)
         /\ Len(s \o t) = Len(s) + Len(t)
         /\ \A k \in 1..Len(s) : (s \o t)[k] = s[k]
         /\ \A k \in 1..Len(t) : (s \o t)[Len(s) + k] = t[k]
OBVIOUS

\* Bytes joined are bytes, as many as both.
LEMMA JoinBytes ==
  ASSUME NEW s \in Seq(Nat), NEW t \in Seq(Nat)
  PROVE  s \o t \in Seq(Nat) /\ Len(s \o t) = Len(s) + Len(t)
OBVIOUS

\* Joining is associative.
LEMMA JoinThree ==
  ASSUME NEW s \in Seq(Nat), NEW t \in Seq(Nat), NEW u \in Seq(Nat)
  PROVE  (s \o t) \o u = s \o (t \o u)
OBVIOUS

\* A division by 256 in front of another.
LEMMA DivLemma ==
  ASSUME NEW n \in Nat
  PROVE  \E q \in Nat, r \in 0..255 : q = n \div 256 /\ r = n % 256 /\ n = 256 * q + r
<1>1. n % 256 = n - 256 * (n \div 256)
  BY Z3
<1>2. PICK q \in Nat, r \in 0..255 : q = n \div 256 /\ r = n % 256
  OBVIOUS
<1>3. r = n - 256 * q
  BY <1>1, <1>2
<1>4. n = 256 * q + r
  BY <1>3
<1> QED BY <1>2, <1>4

\* The first cells of a number divided by what is behind them.
LEMMA QuotientLemma ==
  ASSUME NEW a \in Nat, NEW r \in Nat
  PROVE  /\ r < 65536 => (65536 * a + r) \div 65536 = a
         /\ r < 16777216 => (16777216 * a + r) \div 16777216 = a
BY SMT

\* The four bytes of a cell are its number, big endian.
LEMMA CellLemma ==
  ASSUME NEW n \in Nat
  PROVE  /\ Cell(n) \in Seq(Nat)
         /\ Len(Cell(n)) = 4
         /\ ((Cell(n)[1] * 256 + Cell(n)[2]) * 256 + Cell(n)[3]) * 256 + Cell(n)[4] = n
<1>1. PICK a \in Nat, x \in 0..255 : a = n \div 256 /\ x = n % 256 /\ n = 256 * a + x
  BY DivLemma
<1>2. PICK b \in Nat, y \in 0..255 : b = a \div 256 /\ y = a % 256 /\ a = 256 * b + y
  BY DivLemma
<1>3. PICK c \in Nat, z \in 0..255 : c = b \div 256 /\ z = b % 256 /\ b = 256 * c + z
  BY DivLemma
<1>4. n \div 65536 = b
  <2>1. n = 65536 * b + (256 * y + x) /\ 256 * y + x \in Nat /\ 256 * y + x < 65536
    BY <1>1, <1>2, SMT
  <2> QED BY <2>1, QuotientLemma, SMT
<1>5. n \div 16777216 = c
  <2>1. /\ n = 16777216 * c + (65536 * z + 256 * y + x)
        /\ 65536 * z + 256 * y + x \in Nat /\ 65536 * z + 256 * y + x < 16777216
    BY <1>1, <1>2, <1>3, SMT
  <2> QED BY <2>1, QuotientLemma, SMT
<1>6. Cell(n) = <<c, z, y, x>>
  <2>1. b % 256 = z /\ a % 256 = y /\ n % 256 = x /\ a = n \div 256
    BY <1>1, <1>2, <1>3, Zenon
  <2>2. (n \div 65536) % 256 = z
    BY <1>4, <2>1, SMT
  <2>3. (n \div 256) % 256 = y
    BY <2>1, Zenon
  <2> QED BY <1>5, <2>1, <2>2, <2>3, SMT DEF Cell
<1>7. ((c * 256 + z) * 256 + y) * 256 + x = n
  BY <1>1, <1>2, <1>3
<1> QED BY <1>6, <1>7

\* Padded bytes fill the cells cell_len counts and begin with the bytes.
LEMMA PaddedLemma ==
  ASSUME NEW s \in Seq(Nat)
  PROVE  /\ Padded(s) \in Seq(Nat)
         /\ Len(Padded(s)) = 4 * cell_len(Len(s))
         /\ Len(Padded(s)) >= Len(s)
         /\ \A k \in 1..Len(s) : Padded(s)[k] = s[k]
<1> DEFINE m == (4 - (Len(s) % 4)) % 4
           z == [k \in 1..m |-> 0]
<1>1. Len(s) \in Nat /\ m \in Nat
  OBVIOUS
<1>2. z \in Seq(Nat) /\ Len(z) = m
  BY <1>1
<1>3. Padded(s) = s \o z
  BY DEF Padded
<1>4. Len(s) + m = 4 * cell_len(Len(s))
  BY <1>1 DEF cell_len
<1> HIDE DEF m, z
<1> QED BY <1>1, <1>2, <1>3, <1>4, JoinLemma
-----------------------------------------------------------------------------
(***************************************************************************)
(* The invariant holds.                                                    *)
(***************************************************************************)
\* What stands in a block, stands in it when the block has grown.
LEMMA HoldsLonger ==
  ASSUME NEW d \in Seq(Nat), NEW e \in Seq(Nat), NEW p \in Nat, NEW b \in Seq(Nat),
         Holds(d, p, b)
  PROVE  Holds(d \o e, p, b)
BY JoinLemma DEF Holds

\* What is appended to a block stands behind it.
LEMMA HoldsEnd ==
  ASSUME NEW d \in Seq(Nat), NEW e \in Seq(Nat)
  PROVE  Holds(d \o e, Len(d) + 1, e)
<1>1. \A i \in 1..Len(e) : /\ Len(d) + 1 + i - 1 = Len(d) + i
                           /\ Len(d) + i \in 1..Len(d \o e)
                           /\ (d \o e)[Len(d) + i] = e[i]
  BY JoinLemma
<1> QED BY <1>1 DEF Holds

\* Where two parts stand joined, each of them stands.
LEMMA HoldsFront ==
  ASSUME NEW d \in Seq(Nat), NEW a \in Seq(Nat), NEW b \in Seq(Nat), NEW p \in Nat,
         Holds(d, p, a \o b)
  PROVE  Holds(d, p, a) /\ Holds(d, p + Len(a), b)
<1>1. Holds(d, p, a)
  BY JoinLemma DEF Holds
<1>2. Holds(d, p + Len(a), b)
  <2> SUFFICES ASSUME NEW i \in 1..Len(b)
               PROVE  p + Len(a) + i - 1 \in 1..Len(d) /\ d[p + Len(a) + i - 1] = b[i]
    BY DEF Holds
  <2>1. Len(a) + i \in 1..Len(a \o b) /\ (a \o b)[Len(a) + i] = b[i]
    BY JoinLemma
  <2>2. p + (Len(a) + i) - 1 = p + Len(a) + i - 1
    OBVIOUS
  <2> QED BY <2>1, <2>2 DEF Holds
<1> QED BY <1>1, <1>2

\* What the new token is.
New(is, bytes) == [at |-> Here, is |-> is, bytes |-> bytes, nodes |-> Len(tree'), open |-> open',
                   props |-> NumProps(tree', Len(tree'))]

\* What a token adds to the block and the history, and that the rest stays.
LEMMA TokenStep ==
  ASSUME BlobTypes, NEW is \in Kind, NEW bytes \in Seq(Nat), Token(is, bytes),
         tree' \in Seq(NodeRecord), open' \in Seq(Nat)
  PROVE  /\ dt_struct' \in Seq(Nat) /\ Len(dt_struct') = Len(dt_struct) + 4 + Len(bytes)
         /\ tokens' \in Seq(TokenRecord) /\ Len(tokens') = Len(tokens) + 1
         /\ \A k \in 1..Len(tokens) : tokens'[k] = tokens[k]
         /\ tokens'[Len(tokens) + 1] = New(is, bytes)
         /\ \A p \in Nat, b \in Seq(Nat) : Holds(dt_struct, p, b) => Holds(dt_struct', p, b)
         /\ Holds(dt_struct', Here, Cell(is))
         /\ Holds(dt_struct', Here + 4, bytes)
<1>1. is \in Nat /\ Cell(is) \in Seq(Nat) /\ Len(Cell(is)) = 4
  <2>1. is \in Nat
    BY DEF Kind, FDT_BEGIN_NODE, FDT_END_NODE, FDT_PROP, FDT_NOP, FDT_END
  <2> QED BY <2>1, CellLemma
<1>2. dt_struct \in Seq(Nat) /\ tokens \in Seq(TokenRecord) /\ Len(dt_struct) \in Nat
  BY DEF BlobTypes
<1> DEFINE x == Cell(is) \o bytes
<1>3. x \in Seq(Nat) /\ Len(x) = 4 + Len(bytes)
  BY <1>1, JoinBytes
<1>4. dt_struct' = dt_struct \o x
  <2>1. dt_struct' = dt_struct \o Cell(is) \o bytes
    BY DEF Token
  <2> QED BY <1>1, <1>2, <2>1, JoinThree
<1> HIDE DEF x
<1>5. dt_struct' \in Seq(Nat) /\ Len(dt_struct') = Len(dt_struct) + 4 + Len(bytes)
  <2>1. dt_struct' \in Seq(Nat) /\ Len(dt_struct') = Len(dt_struct) + Len(x)
    BY <1>2, <1>3, <1>4, JoinBytes
  <2>2. Len(bytes) \in Nat
    OBVIOUS
  <2> QED BY <1>2, <1>3, <2>1, <2>2
<1>6. \A p \in Nat, b \in Seq(Nat) : Holds(dt_struct, p, b) => Holds(dt_struct', p, b)
  BY <1>2, <1>3, <1>4, HoldsLonger
<1>7. Holds(dt_struct', Here, x)
  BY <1>2, <1>3, <1>4, HoldsEnd DEF Here
<1>8. Here \in Nat
  BY <1>2 DEF Here
<1>9. Holds(dt_struct', Here, Cell(is)) /\ Holds(dt_struct', Here + 4, bytes)
  BY <1>1, <1>5, <1>7, <1>8, HoldsFront DEF x
<1>10. tokens' = Append(tokens, New(is, bytes))
  <2>1. (IF tree' = <<>> THEN 0 ELSE Len(Last(tree').props)) = NumProps(tree', Len(tree'))
    BY DEF Last, NumProps
  <2> QED BY <2>1 DEF Token, New
<1>11. New(is, bytes) \in TokenRecord
  <2>1. NumProps(tree', Len(tree')) \in Nat
    <3>1. CASE Len(tree') = 0
      BY <3>1 DEF NumProps
    <3>2. CASE Len(tree') # 0
      <4>1. tree'[Len(tree')] \in NodeRecord
        BY <3>2
      <4>2. tree'[Len(tree')].props \in Seq(PropRecord)
        BY <4>1 DEF NodeRecord
      <4> QED BY <3>2, <4>2 DEF NumProps
    <3> QED BY <3>1, <3>2
  <2>2. Len(tree') \in Nat
    OBVIOUS
  <2> QED BY <1>8, <2>1, <2>2 DEF New, TokenRecord
<1> QED BY <1>2, <1>5, <1>6, <1>9, <1>10, <1>11, AppendLemma

\* A token is written where the last one ends.
LEMMA LayoutStep ==
  ASSUME BlobTypes, Layout, NEW is \in Kind, NEW bytes \in Seq(Nat), Token(is, bytes),
         tree' \in Seq(NodeRecord), open' \in Seq(Nat),
         ~complete, is = FDT_END <=> complete'
  PROVE  Layout'
<1> DEFINE K == Len(tokens)
<1>1. /\ dt_struct' \in Seq(Nat) /\ Len(dt_struct') = Len(dt_struct) + 4 + Len(bytes)
      /\ tokens' \in Seq(TokenRecord) /\ Len(tokens') = K + 1
      /\ \A k \in 1..K : tokens'[k] = tokens[k]
      /\ tokens'[K + 1] = New(is, bytes)
      /\ \A p \in Nat, b \in Seq(Nat) : Holds(dt_struct, p, b) => Holds(dt_struct', p, b)
      /\ Holds(dt_struct', Here, Cell(is))
      /\ Holds(dt_struct', Here + 4, bytes)
  BY TokenStep
<1>2. K \in Nat /\ DOMAIN tokens = 1..K /\ DOMAIN tokens' = 1..(K + 1)
  BY <1>1, ElemLemma DEF BlobTypes
<1>3. Len(dt_struct) \in Nat /\ Len(bytes) \in Nat /\ Here' = Here + 4 + Len(bytes) /\ Here \in Nat /\ Here >= 1
  BY <1>1, ElemLemma DEF BlobTypes, Here
<1>4. \A k \in 1..(K + 1) : Place(k)' = Place(k)
  BY <1>1, <1>2 DEF Place, New
<1> HIDE DEF K
<1>6. Place(1)' = 1
  BY <1>2, <1>4 DEF Layout
<1>7. ASSUME NEW k \in 1..(K + 1)
      PROVE  /\ tokens'[k].at >= 1
             /\ Place(k + 1)' = tokens'[k].at + 4 + Len(tokens'[k].bytes)
             /\ Holds(dt_struct', tokens'[k].at, Cell(tokens'[k].is))
             /\ Holds(dt_struct', tokens'[k].at + 4, tokens'[k].bytes)
             /\ tokens'[k].is = FDT_END <=> complete' /\ k = K + 1
  <2>1. CASE k \in 1..K
    <3>1. tokens'[k] = tokens[k] /\ k \in DOMAIN tokens /\ k # K + 1 /\ k + 1 \in 1..(K + 1)
      BY <1>1, <1>2, <2>1
    <3>2. tokens[k].at \in Nat /\ tokens[k].at + 4 \in Nat /\ tokens[k].bytes \in Seq(Nat) /\ tokens[k].is \in Nat
      <4>1. tokens[k] \in TokenRecord
        BY <3>1, <1>2, <2>1, ElemLemma DEF BlobTypes
      <4>2. tokens[k].at \in Nat /\ tokens[k].bytes \in Seq(Nat) /\ tokens[k].is \in Kind
        BY <4>1 DEF TokenRecord
      <4> QED BY <4>2 DEF Kind, FDT_BEGIN_NODE, FDT_END_NODE, FDT_PROP, FDT_NOP, FDT_END
    <3>3. Cell(tokens[k].is) \in Seq(Nat)
      BY <3>2, CellLemma
    <3>4. /\ tokens[k].at >= 1
          /\ Place(k + 1) = tokens[k].at + 4 + Len(tokens[k].bytes)
          /\ Holds(dt_struct, tokens[k].at, Cell(tokens[k].is))
          /\ Holds(dt_struct, tokens[k].at + 4, tokens[k].bytes)
          /\ tokens[k].is # FDT_END
      BY <3>1 DEF Layout
    <3>5. Holds(dt_struct', tokens[k].at, Cell(tokens[k].is)) /\ Holds(dt_struct', tokens[k].at + 4, tokens[k].bytes)
      BY <1>1, <3>2, <3>3, <3>4
    <3>6. Place(k + 1)' = tokens[k].at + 4 + Len(tokens[k].bytes)
      BY <1>4, <3>1, <3>4
    <3> QED BY <3>1, <3>4, <3>5, <3>6
  <2>2. CASE k = K + 1
    <3>1. /\ tokens'[k].at = Here /\ tokens'[k].is = is /\ tokens'[k].bytes = bytes
      BY <1>1, <2>2 DEF New
    <3>2. Place(k + 1)' = Here'
      <4>1. k + 1 \notin 1..(K + 1)
        BY <1>2, <2>2
      <4> QED BY <1>2, <4>1 DEF Place
    <3> QED BY <1>1, <1>3, <2>2, <3>1, <3>2
  <2> QED BY <1>2, <2>1, <2>2
<1>8. tokens' # <<>>
  BY <1>1, <1>2
<1> QED BY <1>1, <1>2, <1>6, <1>7, <1>8 DEF Layout

\* The tree ts is tr with more nodes or properties.
Grows(tr, ts) ==
  /\ Len(tr) <= Len(ts)
  /\ \A n \in 1..Len(tr) :
       /\ ts[n].at = tr[n].at /\ ts[n].name = tr[n].name /\ ts[n].above = tr[n].above
       /\ Len(tr[n].props) <= Len(ts[n].props)
       /\ \A p \in 1..Len(tr[n].props) : ts[n].props[p] = tr[n].props[p]

\* The fields of a node, and of a token.
LEMMA NodeLemma ==
  ASSUME NEW tr \in Seq(NodeRecord), NEW n \in 1..Len(tr)
  PROVE  /\ tr[n].at \in Nat /\ tr[n].name \in Seq(Nat)
         /\ tr[n].props \in Seq(PropRecord) /\ tr[n].above \in Seq(Nat)
         /\ Len(tr) \in Nat /\ Len(tr[n].props) \in Nat /\ Len(tr[n].above) \in Nat
         /\ DOMAIN tr = 1..Len(tr) /\ DOMAIN tr[n].props = 1..Len(tr[n].props)
         /\ \A p \in 1..Len(tr[n].props) : tr[n].props[p] \in PropRecord
<1>1. tr[n] \in NodeRecord
  BY ElemLemma
<1>2. /\ tr[n].at \in Nat /\ tr[n].name \in Seq(Nat)
      /\ tr[n].props \in Seq(PropRecord) /\ tr[n].above \in Seq(Nat)
  BY <1>1 DEF NodeRecord
<1> QED BY <1>2, ElemLemma

\* The types of the fields of a token.
LEMMA TokenLemma ==
  ASSUME NEW s \in Seq(TokenRecord), NEW k \in 1..Len(s)
  PROVE  /\ s[k] \in TokenRecord
         /\ s[k].at \in Nat /\ s[k].is \in Kind /\ s[k].is \in Nat /\ s[k].bytes \in Seq(Nat)
         /\ s[k].nodes \in Nat /\ s[k].open \in Seq(Nat) /\ s[k].props \in Nat
<1>1. s[k] \in TokenRecord
  BY ElemLemma
<1>2. /\ s[k].at \in Nat /\ s[k].is \in Kind /\ s[k].bytes \in Seq(Nat)
      /\ s[k].nodes \in Nat /\ s[k].open \in Seq(Nat) /\ s[k].props \in Nat
  BY <1>1 DEF TokenRecord
<1>3. s[k].is \in Nat
  BY <1>2 DEF Kind, FDT_BEGIN_NODE, FDT_END_NODE, FDT_PROP, FDT_NOP, FDT_END
<1> QED BY <1>1, <1>2, <1>3

\* A tree that has grown still has what an earlier token stands for.
LEMMA BytesLonger ==
  ASSUME NEW tr \in Seq(NodeRecord), NEW ts \in Seq(NodeRecord), Grows(tr, ts),
         NEW t, BytesOf(tr, t)
  PROVE  BytesOf(ts, t)
<1>1. /\ Len(tr) \in Nat /\ DOMAIN tr = 1..Len(tr) /\ Len(ts) \in Nat /\ DOMAIN ts = 1..Len(ts)
  BY ElemLemma
<1>2. ASSUME t.nodes \in 1..Len(tr)
      PROVE  /\ t.nodes \in 1..Len(ts)
             /\ ts[t.nodes].at = tr[t.nodes].at /\ ts[t.nodes].name = tr[t.nodes].name
             /\ DOMAIN tr[t.nodes].props = 1..Len(tr[t.nodes].props)
             /\ DOMAIN ts[t.nodes].props = 1..Len(ts[t.nodes].props)
             /\ \A p \in DOMAIN tr[t.nodes].props : p \in DOMAIN ts[t.nodes].props /\ ts[t.nodes].props[p] = tr[t.nodes].props[p]
  <2>1. t.nodes \in 1..Len(ts)
    BY <1>1, <1>2 DEF Grows
  <2>2. /\ DOMAIN tr[t.nodes].props = 1..Len(tr[t.nodes].props) /\ Len(tr[t.nodes].props) \in Nat
        /\ DOMAIN ts[t.nodes].props = 1..Len(ts[t.nodes].props) /\ Len(ts[t.nodes].props) \in Nat
    BY <1>2, <2>1, NodeLemma
  <2> QED BY <1>2, <2>1, <2>2 DEF Grows
<1>3. CASE t.is = FDT_BEGIN_NODE
  BY <1>1, <1>2, <1>3 DEF BytesOf, FDT_BEGIN_NODE, FDT_PROP
<1>4. CASE t.is = FDT_PROP
  BY <1>1, <1>2, <1>4 DEF BytesOf, FDT_BEGIN_NODE, FDT_PROP
<1>5. CASE t.is \notin {FDT_BEGIN_NODE, FDT_PROP}
  BY <1>5 DEF BytesOf
<1> QED BY <1>3, <1>4, <1>5

\* Every token still stands for what is in the tree.
LEMMA ContentsStep ==
  ASSUME BlobTypes, Contents, NEW is \in Kind, NEW bytes \in Seq(Nat), Token(is, bytes),
         tree' \in Seq(NodeRecord), open' \in Seq(Nat),
         Grows(tree, tree'), BytesOf(tree', New(is, bytes))
  PROVE  Contents'
<1>1. /\ tokens' \in Seq(TokenRecord) /\ Len(tokens') = Len(tokens) + 1
      /\ \A k \in 1..Len(tokens) : tokens'[k] = tokens[k]
      /\ tokens'[Len(tokens) + 1] = New(is, bytes)
  BY TokenStep
<1>2. tree \in Seq(NodeRecord) /\ Len(tokens) \in Nat /\ DOMAIN tokens = 1..Len(tokens) /\ DOMAIN tokens' = 1..(Len(tokens) + 1)
  BY <1>1, ElemLemma DEF BlobTypes
<1> SUFFICES ASSUME NEW k \in 1..(Len(tokens) + 1) PROVE BytesOf(tree', tokens'[k])
  BY <1>2 DEF Contents
<1>3. CASE k \in 1..Len(tokens)
  <2>1. BytesOf(tree, tokens[k])
    BY <1>2, <1>3 DEF Contents
  <2> QED BY <1>1, <1>2, <1>3, <2>1, BytesLonger
<1>4. CASE k = Len(tokens) + 1
  BY <1>1, <1>4
<1> QED BY <1>2, <1>3, <1>4

\* What was written before a token does not change.
LEMMA BeforeStep ==
  ASSUME BlobTypes, NEW is \in Kind, NEW bytes \in Seq(Nat), Token(is, bytes),
         tree' \in Seq(NodeRecord), open' \in Seq(Nat)
  PROVE  \A k \in 1..(Len(tokens) + 1) : Before(k)' = Before(k)
<1>1. \A k \in 1..Len(tokens) : tokens'[k] = tokens[k]
  BY TokenStep
<1>2. Len(tokens) \in Nat
  BY DEF BlobTypes
<1> SUFFICES ASSUME NEW k \in 1..(Len(tokens) + 1) PROVE Before(k)' = Before(k)
  OBVIOUS
<1>3. CASE k = 1
  BY <1>3 DEF Before, Start
<1>4. CASE k # 1
  <2>1. k - 1 \in 1..Len(tokens)
    BY <1>2, <1>4
  <2> QED BY <1>1, <1>4, <2>1 DEF Before
<1> QED BY <1>3, <1>4

\* A token in front of the end is in one of these cases.
LEMMA StepLonger ==
  ASSUME NEW tr, NEW ts, NEW b, NEW t, StepOf(tr, b, t),
         t.is = FDT_BEGIN_NODE => ts[t.nodes].above = tr[t.nodes].above,
         t.is \in {FDT_BEGIN_NODE, FDT_END_NODE} => NumProps(ts, b.nodes) = NumProps(tr, b.nodes),
         t.is # FDT_END
  PROVE  StepOf(ts, b, t)
BY DEF StepOf

\* Every token still follows from the one before it, the new one included.
LEMMA StepsStep ==
  ASSUME BlobTypes, Layout, Contents, Steps, NEW is \in Kind, NEW bytes \in Seq(Nat), Token(is, bytes),
         tree' \in Seq(NodeRecord), open' \in Seq(Nat), ~complete,
         Grows(tree, tree'), StepOf(tree', Before(Len(tokens) + 1), New(is, bytes)),
         \A k \in 1..Len(tokens) :
           tokens[k].is \in {FDT_BEGIN_NODE, FDT_END_NODE} =>
             NumProps(tree', Before(k).nodes) = NumProps(tree, Before(k).nodes)
  PROVE  Steps' /\ Current'
<1>1. /\ tokens' \in Seq(TokenRecord) /\ Len(tokens') = Len(tokens) + 1
      /\ \A k \in 1..Len(tokens) : tokens'[k] = tokens[k]
      /\ tokens'[Len(tokens) + 1] = New(is, bytes)
  BY TokenStep
<1>2. tree \in Seq(NodeRecord) /\ Len(tokens) \in Nat /\ DOMAIN tokens = 1..Len(tokens) /\ DOMAIN tokens' = 1..(Len(tokens) + 1)
  BY <1>1, ElemLemma DEF BlobTypes
<1>3. \A k \in 1..(Len(tokens) + 1) : Before(k)' = Before(k)
  BY BeforeStep
<1>4. ASSUME NEW k \in 1..(Len(tokens) + 1) PROVE StepOf(tree', Before(k), tokens'[k])
  <2>1. CASE k \in 1..Len(tokens)
    <3>1. StepOf(tree, Before(k), tokens[k]) /\ tokens[k].is # FDT_END
      BY <1>2, <2>1 DEF Steps, Layout
    <3>2. tokens[k].is = FDT_BEGIN_NODE => tree'[tokens[k].nodes].above = tree[tokens[k].nodes].above
      BY <1>2, <2>1, ElemLemma DEF Contents, BytesOf, Grows
    <3>3. tokens[k].is \in {FDT_BEGIN_NODE, FDT_END_NODE} =>
             NumProps(tree', Before(k).nodes) = NumProps(tree, Before(k).nodes)
      BY <2>1
    <3>4. StepOf(tree', Before(k), tokens[k])
      BY <3>1, <3>2, <3>3, StepLonger
    <3> QED BY <1>1, <2>1, <3>4
  <2>2. CASE k = Len(tokens) + 1
    BY <1>1, <2>2
  <2> QED BY <1>2, <2>1, <2>2
<1>5. Steps'
  <2>1. \A k \in 1..(Len(tokens) + 1) : StepOf(tree', Before(k)', tokens'[k])
    BY <1>3, <1>4
  <2> QED BY <1>2, <2>1 DEF Steps
<1>6. Current'
  <2>1. Len(tokens') + 1 # 1 /\ Len(tokens') + 1 - 1 = Len(tokens) + 1
    BY <1>1, <1>2
  <2>2. Before(Len(tokens) + 1)' = New(is, bytes)
    BY <1>1, <2>1 DEF Before
  <2> QED BY <2>2 DEF Current, New
<1> QED BY <1>5, <1>6

\* The open nodes are still an end of the line of the last node.
LEMMA StacksStep ==
  ASSUME BlobTypes, Stacks, NEW is \in Kind, NEW bytes \in Seq(Nat), Token(is, bytes),
         tree' \in Seq(NodeRecord), open' \in Seq(Nat), Grows(tree, tree'),
         Stack(open', Len(tree')),
         \A n \in 1..Len(tree') : n <= Len(tree) \/ Stack(tree'[n].above, n - 1),
         Len(tree') = 0 => open' = <<>>,
         Len(tree') # 0 => EndOf(open', Line(tree', Len(tree')))
  PROVE  Stacks'
<1>1. /\ tokens' \in Seq(TokenRecord) /\ Len(tokens') = Len(tokens) + 1
      /\ \A k \in 1..Len(tokens) : tokens'[k] = tokens[k]
      /\ tokens'[Len(tokens) + 1] = New(is, bytes)
  BY TokenStep
<1>2. /\ tree \in Seq(NodeRecord) /\ Len(tokens) \in Nat /\ DOMAIN tokens = 1..Len(tokens)
      /\ DOMAIN tokens' = 1..(Len(tokens) + 1) /\ tokens \in Seq(TokenRecord)
      /\ Len(tree) \in Nat /\ DOMAIN tree = 1..Len(tree) /\ Len(tree') \in Nat /\ DOMAIN tree' = 1..Len(tree')
      /\ Len(tree) <= Len(tree')
  BY <1>1, ElemLemma DEF BlobTypes, Grows
<1>3. ASSUME NEW n \in 1..Len(tree') PROVE Stack(tree'[n].above, n - 1)
  <2>1. CASE n <= Len(tree)
    <3>1. n \in 1..Len(tree)
      BY <1>2, <2>1
    <3>2. Stack(tree[n].above, n - 1)
      BY <1>2, <3>1 DEF Stacks
    <3>3. tree'[n].above = tree[n].above
      BY <3>1 DEF Grows
    <3> QED BY <3>2, <3>3
  <2> QED BY <2>1
<1>4. ASSUME NEW k \in 1..(Len(tokens) + 1)
      PROVE  /\ tokens'[k].nodes <= Len(tree')
             /\ Stack(tokens'[k].open, tokens'[k].nodes)
             /\ tokens'[k].nodes = 0 => tokens'[k].open = <<>>
             /\ tokens'[k].nodes # 0 => EndOf(tokens'[k].open, Line(tree', tokens'[k].nodes))
  <2>1. CASE k \in 1..Len(tokens)
    <3>1. /\ tokens[k].nodes <= Len(tree)
          /\ Stack(tokens[k].open, tokens[k].nodes)
          /\ tokens[k].nodes = 0 => tokens[k].open = <<>>
          /\ tokens[k].nodes # 0 => EndOf(tokens[k].open, Line(tree, tokens[k].nodes))
      BY <1>2, <2>1 DEF Stacks
    <3>2. tokens[k].nodes \in Nat
      BY <1>2, <2>1, TokenLemma
    <3>3. tokens[k].nodes # 0 => Line(tree', tokens[k].nodes) = Line(tree, tokens[k].nodes)
      <4>1. tokens[k].nodes # 0 => tokens[k].nodes \in 1..Len(tree)
        BY <1>2, <3>1, <3>2
      <4>2. tokens[k].nodes # 0 => tree'[tokens[k].nodes].above = tree[tokens[k].nodes].above
        BY <4>1 DEF Grows
      <4> QED BY <4>2 DEF Line
    <3>4. tokens[k].nodes <= Len(tree')
      BY <1>2, <3>1, <3>2
    <3>5. tokens'[k] = tokens[k]
      BY <1>1, <2>1
    <3> QED BY <3>1, <3>3, <3>4, <3>5
  <2>2. CASE k = Len(tokens) + 1
    <3>1. tokens'[k].nodes = Len(tree') /\ tokens'[k].open = open'
      BY <1>1, <2>2 DEF New
    <3> QED BY <1>2, <3>1
  <2>3. k \in 1..Len(tokens) \/ k = Len(tokens) + 1
    BY <1>2
  <2> QED BY <2>1, <2>2, <2>3, Zenon
<1> QED BY <1>2, <1>3, <1>4 DEF Stacks

\* Only nodes behind node n are opened.
OpensNew(o, p, n) == \A i \in 1..Len(p) : p[i] > n \/ \E j \in 1..Len(o) : p[i] = o[j]

\* A new node stands below the open ones.
StandsIn(tr, ts, o) == \A m \in 1..Len(ts) : m <= Len(tr) \/ ts[m].above = o

\* As long as no node begins, the open nodes stay, or the innermost one ends.
KeepsBehind(o, p, tr, ts) == Len(ts) = Len(tr) => p = o \/ Behind(p, Len(tr))

\* What was closed stays closed.
LEMMA ClosedStep ==
  ASSUME BlobTypes, Stacks, Closed, NEW is \in Kind, NEW bytes \in Seq(Nat), Token(is, bytes),
         tree' \in Seq(NodeRecord), open' \in Seq(Nat), Grows(tree, tree'),
         OpensNew(open, open', Len(tree)), StandsIn(tree, tree', open),
         KeepsBehind(open, open', tree, tree'),
         is = FDT_END_NODE => Behind(open', Len(tree'))
  PROVE  Closed'
<1>1. /\ tokens' \in Seq(TokenRecord) /\ Len(tokens') = Len(tokens) + 1
      /\ \A k \in 1..Len(tokens) : tokens'[k] = tokens[k]
      /\ tokens'[Len(tokens) + 1] = New(is, bytes)
  BY TokenStep
<1>2. /\ tree \in Seq(NodeRecord) /\ Len(tokens) \in Nat /\ DOMAIN tokens = 1..Len(tokens)
      /\ DOMAIN tokens' = 1..(Len(tokens) + 1) /\ tokens \in Seq(TokenRecord)
      /\ Len(tree) \in Nat /\ DOMAIN tree = 1..Len(tree) /\ Len(tree') \in Nat /\ DOMAIN tree' = 1..Len(tree')
      /\ Len(tree) <= Len(tree') /\ open \in Seq(Nat)
  BY <1>1, ElemLemma DEF BlobTypes, Grows
<1>3. ASSUME NEW k \in 1..(Len(tokens) + 1)
      PROVE  /\ OpenSince(tokens'[k], open')
             /\ \A m \in 1..Len(tree') : m > tokens'[k].nodes => OpenSince(tokens'[k], tree'[m].above)
             /\ tokens'[k].is = FDT_END_NODE /\ tokens'[k].nodes = Len(tree') => Behind(open', Len(tree'))
  <2>1. CASE k \in 1..Len(tokens)
    <3>1. /\ OpenSince(tokens[k], open)
          /\ \A m \in 1..Len(tree) : m > tokens[k].nodes => OpenSince(tokens[k], tree[m].above)
          /\ tokens[k].is = FDT_END_NODE /\ tokens[k].nodes = Len(tree) => Behind(open, Len(tree))
      BY <1>2, <2>1 DEF Closed
    <3>2. tokens[k].nodes \in Nat /\ tokens[k].nodes <= Len(tree) /\ tokens'[k] = tokens[k]
      BY <1>1, <1>2, <2>1, TokenLemma DEF Stacks
    <3>3. OpenSince(tokens[k], open')
      <4> SUFFICES ASSUME NEW i \in 1..Len(open')
                   PROVE  open'[i] > tokens[k].nodes \/ \E j \in 1..Len(tokens[k].open) : open'[i] = tokens[k].open[j]
        BY DEF OpenSince
      <4>1. CASE open'[i] > Len(tree)
        <5>1. open'[i] \in Nat
          BY ElemLemma
        <5> QED BY <1>2, <3>2, <4>1, <5>1
      <4>2. CASE \E j \in 1..Len(open) : open'[i] = open[j]
        BY <3>1, <4>2 DEF OpenSince
      <4> QED BY <4>1, <4>2 DEF OpensNew
    <3>4. ASSUME NEW m \in 1..Len(tree'), m > tokens[k].nodes PROVE OpenSince(tokens[k], tree'[m].above)
      <4>1. CASE m <= Len(tree)
        <5>1. m \in 1..Len(tree)
          BY <1>2, <4>1
        <5>2. tree'[m].above = tree[m].above
          BY <5>1 DEF Grows
        <5> QED BY <3>1, <3>4, <5>1, <5>2
      <4>2. CASE tree'[m].above = open
        BY <3>1, <4>2
      <4> QED BY <4>1, <4>2 DEF StandsIn
    <3>5. tokens[k].is = FDT_END_NODE /\ tokens[k].nodes = Len(tree') => Behind(open', Len(tree'))
      <4> SUFFICES ASSUME tokens[k].is = FDT_END_NODE, tokens[k].nodes = Len(tree')
                   PROVE  Behind(open', Len(tree'))
        OBVIOUS
      <4>1. Len(tree') = Len(tree)
        <5>1. Len(tree) \in Nat /\ Len(tree') \in Nat /\ Len(tree) <= Len(tree')
          BY <1>2
        <5>2. Len(tree') <= Len(tree)
          BY <3>2
        <5> QED BY <5>1, <5>2
      <4>2. open' = open \/ Behind(open', Len(tree))
        BY <4>1 DEF KeepsBehind
      <4>3. Behind(open, Len(tree))
        BY <3>1, <4>1
      <4> QED BY <4>1, <4>2, <4>3, Zenon
    <3> QED BY <3>2, <3>3, <3>4, <3>5
  <2>2. CASE k = Len(tokens) + 1
    <3>1. tokens'[k].nodes = Len(tree') /\ tokens'[k].open = open' /\ tokens'[k].is = is
      BY <1>1, <2>2 DEF New
    <3>2. OpenSince(tokens'[k], open')
      BY <3>1 DEF OpenSince
    <3>3. \A m \in 1..Len(tree') : ~(m > tokens'[k].nodes)
      BY <1>2, <3>1
    <3> QED BY <3>1, <3>2, <3>3
  <2>3. k \in 1..Len(tokens) \/ k = Len(tokens) + 1
    BY <1>2
  <2> QED BY <2>1, <2>2, <2>3, Zenon
<1> QED BY <1>2, <1>3 DEF Closed

\* A new node or property is what the token stands for.
Writes(tr, ts, is, at) ==
  /\ Len(ts) <= Len(tr) + 1
  /\ \A n \in 1..Len(ts) :
       \/ n <= Len(tr)
       \/ is = FDT_BEGIN_NODE /\ n = Len(ts) /\ ts[n].at = at /\ ts[n].props = <<>>
  /\ \A n \in 1..Len(tr) : \A p \in 1..Len(ts[n].props) :
       p <= Len(tr[n].props) \/ (is = FDT_PROP /\ n = Len(ts) /\ p = NumProps(ts, Len(ts)))

\* Every node and property still has its token.
LEMMA WrittenStep ==
  ASSUME BlobTypes, Written, NEW is \in Kind, NEW bytes \in Seq(Nat), Token(is, bytes),
         tree' \in Seq(NodeRecord), open' \in Seq(Nat), Grows(tree, tree'), Writes(tree, tree', is, Here)
  PROVE  Written'
<1>1. /\ tokens' \in Seq(TokenRecord) /\ Len(tokens') = Len(tokens) + 1
      /\ \A k \in 1..Len(tokens) : tokens'[k] = tokens[k]
      /\ tokens'[Len(tokens) + 1] = New(is, bytes)
      /\ Len(dt_struct') = Len(dt_struct) + 4 + Len(bytes)
  BY TokenStep
<1>2. /\ tree \in Seq(NodeRecord) /\ Len(tokens) \in Nat /\ DOMAIN tokens = 1..Len(tokens)
      /\ DOMAIN tokens' = 1..(Len(tokens) + 1) /\ tokens \in Seq(TokenRecord)
      /\ Len(tree) \in Nat /\ DOMAIN tree = 1..Len(tree) /\ Len(tree') \in Nat /\ DOMAIN tree' = 1..Len(tree')
      /\ Len(tree) <= Len(tree')
  BY <1>1, ElemLemma DEF BlobTypes, Grows
<1>3. Here \in Nat /\ Here' \in Nat /\ Here < Here'
  BY <1>1 DEF BlobTypes, Here
<1>4. /\ tokens'[Len(tokens) + 1].is = is /\ tokens'[Len(tokens) + 1].nodes = Len(tree')
      /\ tokens'[Len(tokens) + 1].props = NumProps(tree', Len(tree')) /\ Len(tokens) + 1 \in 1..Len(tokens')
  BY <1>1, <1>2 DEF New
<1>5. ASSUME NEW n \in 1..Len(tree') PROVE Begins(tokens', n)
  <2>1. CASE n <= Len(tree)
    <3>1. n \in DOMAIN tree
      BY <1>2, <2>1
    <3>2. PICK k \in 1..Len(tokens) : tokens[k].is = FDT_BEGIN_NODE /\ tokens[k].nodes = n
      BY <1>2, <3>1 DEF Written, Begins
    <3>3. k \in 1..Len(tokens') /\ tokens'[k] = tokens[k]
      BY <1>1, <1>2, <3>2
    <3> QED BY <1>1, <1>2, <3>2, <3>3 DEF Begins
  <2>2. CASE is = FDT_BEGIN_NODE /\ n = Len(tree')
    BY <1>1, <1>2, <1>4, <2>2 DEF Begins
  <2> QED BY <2>1, <2>2 DEF Writes
<1>6. ASSUME NEW n \in 1..Len(tree'), NEW p \in 1..Len(tree'[n].props) PROVE Gives(tokens', n, p)
  <2>1. CASE n <= Len(tree)
    <3>1. n \in 1..Len(tree)
      BY <1>2, <2>1
    <3>2. CASE p <= Len(tree[n].props)
      <4>1. p \in DOMAIN tree[n].props
        BY <1>2, <3>1, <3>2, NodeLemma
      <4>2. PICK k \in 1..Len(tokens) : tokens[k].is = FDT_PROP /\ tokens[k].nodes = n /\ tokens[k].props = p
        <5>1. Gives(tokens, n, p)
          BY <1>2, <3>1, <4>1 DEF Written
        <5> QED BY <1>2, <5>1 DEF Gives
      <4>3. k \in 1..Len(tokens') /\ tokens'[k] = tokens[k]
        BY <1>1, <1>2, <4>2
      <4> QED BY <1>1, <1>2, <4>2, <4>3 DEF Gives
    <3>3. CASE is = FDT_PROP /\ n = Len(tree') /\ p = NumProps(tree', Len(tree'))
      BY <1>1, <1>2, <1>4, <3>3 DEF Gives
    <3> QED BY <3>1, <3>2, <3>3 DEF Writes
  <2>2. CASE tree'[n].props = <<>>
    BY <2>2
  <2> QED BY <2>1, <2>2 DEF Writes
<1>7. \A n \in 1..Len(tree') : DOMAIN tree'[n].props = 1..Len(tree'[n].props)
  BY NodeLemma
<1>8. ASSUME NEW n \in 1..Len(tree') PROVE tree'[n].at < Here'
  <2>1. CASE n <= Len(tree)
    <3>1. n \in 1..Len(tree)
      BY <1>2, <2>1
    <3>2. tree[n].at < Here /\ tree'[n].at = tree[n].at /\ tree[n].at \in Nat
      BY <1>2, <3>1, NodeLemma DEF Written, Grows
    <3> QED BY <1>3, <3>2
  <2>2. CASE tree'[n].at = Here
    BY <1>3, <2>2
  <2> QED BY <2>1, <2>2 DEF Writes
<1>9. ASSUME NEW m \in 1..Len(tree'), NEW n \in 1..Len(tree'), m < n PROVE tree'[m].at < tree'[n].at
  <2>1. m \in 1..Len(tree)
    <3>1. Len(tree') <= Len(tree) + 1
      BY DEF Writes
    <3> QED BY <1>2, <1>9, <3>1
  <2>2. tree[m].at < Here /\ tree'[m].at = tree[m].at /\ tree[m].at \in Nat
    BY <1>2, <2>1, NodeLemma DEF Written, Grows
  <2>3. CASE n <= Len(tree)
    <3>1. n \in 1..Len(tree)
      BY <1>2, <2>3
    <3>2. tree'[n].at = tree[n].at /\ tree[m].at < tree[n].at
      BY <1>2, <1>9, <2>1, <3>1 DEF Written, Grows
    <3> QED BY <2>2, <3>2
  <2>4. CASE tree'[n].at = Here
    BY <2>2, <2>4
  <2> QED BY <2>3, <2>4 DEF Writes
<1> QED BY <1>1, <1>2, <1>5, <1>6, <1>7, <1>8, <1>9 DEF Written

\* No property is added to a node where a token says it has no more.
KeepsProps(tr, ts) ==
  \A k \in 1..Len(tokens) :
    tokens[k].is \in {FDT_BEGIN_NODE, FDT_END_NODE} =>
      NumProps(ts, Before(k).nodes) = NumProps(tr, Before(k).nodes)

NewStacks(tr, ts) == \A n \in 1..Len(ts) : n <= Len(tr) \/ Stack(ts[n].above, n - 1)

\* What the open nodes are in a tree of that many nodes.
OpenIn(tr, o) ==
  /\ Stack(o, Len(tr))
  /\ Len(tr) = 0 => o = <<>>
  /\ Len(tr) # 0 => EndOf(o, Line(tr, Len(tr)))

\* The parts put together: what a step that writes a token has to satisfy to keep
\* the invariant.
LEMMA TokenKeepsInv ==
  ASSUME BlobInv, NEW is \in Kind, NEW bytes \in Seq(Nat), Token(is, bytes),
         tree' \in Seq(NodeRecord), open' \in Seq(Nat), complete' \in BOOLEAN,
         ~complete, is = FDT_END <=> complete', Grows(tree, tree'),
         BytesOf(tree', New(is, bytes)), StepOf(tree', Before(Len(tokens) + 1), New(is, bytes)),
         KeepsProps(tree, tree'), NewStacks(tree, tree'), OpenIn(tree', open'),
         OpensNew(open, open', Len(tree)), StandsIn(tree, tree', open),
         KeepsBehind(open, open', tree, tree'), is = FDT_END_NODE => Behind(open', Len(tree')),
         Writes(tree, tree', is, Here)
  PROVE  BlobInv'
<1>1. BlobTypes /\ Layout /\ Contents /\ Steps /\ Current /\ Stacks /\ Closed /\ Written
  BY DEF BlobInv
<1>2. BlobTypes'
  <2>1. dt_struct' \in Seq(Nat) /\ tokens' \in Seq(TokenRecord)
    BY <1>1, TokenStep
  <2> QED BY <2>1 DEF BlobTypes
<1>3. Layout'
  BY <1>1, LayoutStep
<1>4. Contents'
  BY <1>1, ContentsStep
<1>5. Steps' /\ Current'
  BY <1>1, StepsStep DEF KeepsProps
<1>6. Stacks'
  BY <1>1, StacksStep DEF NewStacks, OpenIn
<1>7. Closed'
  BY <1>1, ClosedStep
<1>8. Written'
  BY <1>1, WrittenStep
<1> QED BY <1>2, <1>3, <1>4, <1>5, <1>6, <1>7, <1>8 DEF BlobInv

\* Where the producer is.
LEMMA NowLemma ==
  ASSUME BlobInv
  PROVE  /\ Before(Len(tokens) + 1).nodes = Len(tree)
         /\ Before(Len(tokens) + 1).open = open
         /\ Before(Len(tokens) + 1).props = NumProps(tree, Len(tree))
         /\ OpenIn(tree, open)
         /\ Len(tree) \in Nat /\ Len(open) \in Nat /\ Len(tokens) \in Nat /\ Here \in Nat /\ Here >= 1
         /\ tree \in Seq(NodeRecord) /\ open \in Seq(Nat)
<1>1. /\ tree \in Seq(NodeRecord) /\ open \in Seq(Nat) /\ tokens \in Seq(TokenRecord) /\ dt_struct \in Seq(Nat)
  BY DEF BlobInv, BlobTypes
<1>2. Len(tree) \in Nat /\ Len(open) \in Nat /\ Len(tokens) \in Nat /\ Here \in Nat /\ Here >= 1
  BY <1>1, ElemLemma DEF Here
<1>3. /\ Before(Len(tokens) + 1).nodes = Len(tree)
      /\ Before(Len(tokens) + 1).open = open
      /\ Before(Len(tokens) + 1).props = NumProps(tree, Len(tree))
  BY DEF BlobInv, Current
<1>4. Stack(open, Len(tree))
  BY DEF BlobInv, Stacks
<1>5. (Len(tree) = 0 => open = <<>>) /\ (Len(tree) # 0 => EndOf(open, Line(tree, Len(tree))))
  <2>1. CASE Len(tokens) = 0
    BY <1>3, <2>1 DEF Before, Start
  <2>2. CASE Len(tokens) # 0
    <3>1. Len(tokens) \in DOMAIN tokens /\ Len(tokens) + 1 # 1 /\ Len(tokens) + 1 - 1 = Len(tokens)
      BY <1>1, <1>2, <2>2, ElemLemma
    <3>2. tokens[Len(tokens)].nodes = Len(tree) /\ tokens[Len(tokens)].open = open
      BY <1>3, <3>1 DEF Before
    <3> QED BY <3>1, <3>2 DEF BlobInv, Stacks
  <2> QED BY <2>1, <2>2
<1> QED BY <1>1, <1>2, <1>3, <1>4, <1>5 DEF OpenIn

\* A token that leaves the tree alone.
LEMMA SameTree ==
  ASSUME BlobInv, tree' = tree, NEW at, NEW is
  PROVE  /\ tree' \in Seq(NodeRecord) /\ Grows(tree, tree')
         /\ KeepsProps(tree, tree') /\ NewStacks(tree, tree')
         /\ StandsIn(tree, tree', open) /\ Writes(tree, tree', is, at)
<1>1. tree \in Seq(NodeRecord) /\ Len(tree) \in Nat
  BY NowLemma
<1>2. \A n \in 1..Len(tree) : Len(tree[n].props) \in Nat
  BY <1>1, NodeLemma
<1>3. KeepsProps(tree, tree)
  BY DEF KeepsProps
<1> QED BY <1>1, <1>2, <1>3 DEF Grows, NewStacks, StandsIn, Writes

\* One lemma per action: a NOP.
LEMMA NopKeepsInv ==
  ASSUME BlobInv, Nop
  PROVE  BlobInv'
<1>1. /\ ~complete /\ tree' = tree /\ open' = open /\ complete' = complete /\ Token(FDT_NOP, <<>>)
  BY DEF Nop
<1>2. FDT_NOP \in Kind /\ <<>> \in Seq(Nat) /\ FDT_NOP # FDT_END
  BY DEF Kind, FDT_NOP, FDT_END
<1>10. complete' \in BOOLEAN /\ (FDT_NOP = FDT_END <=> complete')
  BY <1>1, <1>2, Zenon DEF BlobInv, BlobTypes
<1>3. /\ Before(Len(tokens) + 1).nodes = Len(tree)
      /\ Before(Len(tokens) + 1).open = open
      /\ Before(Len(tokens) + 1).props = NumProps(tree, Len(tree))
      /\ OpenIn(tree, open) /\ open \in Seq(Nat) /\ Len(open) \in Nat
  BY NowLemma
<1>4. BytesOf(tree', New(FDT_NOP, <<>>))
  BY DEF BytesOf, New, FDT_BEGIN_NODE, FDT_PROP, FDT_NOP
<1>5. StepOf(tree', Before(Len(tokens) + 1), New(FDT_NOP, <<>>))
  BY <1>1, <1>3 DEF StepOf, New, FDT_BEGIN_NODE, FDT_PROP, FDT_NOP, FDT_END_NODE, FDT_END
<1>6. OpensNew(open, open', Len(tree)) /\ KeepsBehind(open, open', tree, tree') /\ OpenIn(tree', open')
  BY <1>1, <1>3 DEF OpensNew, KeepsBehind
<1>7. FDT_NOP # FDT_END_NODE
  BY DEF FDT_NOP, FDT_END_NODE
<1>8. /\ tree' \in Seq(NodeRecord) /\ Grows(tree, tree')
      /\ KeepsProps(tree, tree') /\ NewStacks(tree, tree')
      /\ StandsIn(tree, tree', open) /\ Writes(tree, tree', FDT_NOP, Here)
  BY <1>1, SameTree
<1>9. open' \in Seq(Nat)
  BY <1>1, <1>3
<1> QED BY <1>1, <1>2, <1>4, <1>5, <1>6, <1>7, <1>8, <1>9, <1>10, TokenKeepsInv

\* What the producer had written in front of a token is typed.
LEMMA BeforeLemma ==
  ASSUME BlobInv, NEW k \in 1..(Len(tokens) + 1)
  PROVE  /\ Before(k).nodes \in 0..Len(tree)
         /\ Before(k).open \in Seq(Nat) /\ Before(k).props \in Nat
         /\ Stack(Before(k).open, Before(k).nodes)
<1>1. tokens \in Seq(TokenRecord) /\ Len(tokens) \in Nat /\ Len(tree) \in Nat /\ DOMAIN tokens = 1..Len(tokens)
  BY ElemLemma DEF BlobInv, BlobTypes
<1>2. CASE k = 1
  BY <1>1, <1>2 DEF Before, Start, Stack
<1>3. CASE k # 1
  <2>1. k - 1 \in 1..Len(tokens) /\ Before(k) = tokens[k - 1]
    BY <1>1, <1>3 DEF Before
  <2>2. /\ tokens[k - 1].nodes \in Nat /\ tokens[k - 1].open \in Seq(Nat) /\ tokens[k - 1].props \in Nat
    BY <1>1, <2>1, TokenLemma
  <2>3. tokens[k - 1].nodes <= Len(tree) /\ Stack(tokens[k - 1].open, tokens[k - 1].nodes)
    BY <1>1, <2>1 DEF BlobInv, Stacks
  <2> QED BY <1>1, <2>1, <2>2, <2>3
<1> QED BY <1>2, <1>3

\* The end of the innermost open node.
LEMMA EndNodeKeepsInv ==
  ASSUME BlobInv, EndNode
  PROVE  BlobInv'
<1>1. /\ ~complete /\ open # <<>> /\ tree' = tree /\ open' = Tail(open) /\ complete' = complete
      /\ Token(FDT_END_NODE, <<>>)
  BY DEF EndNode
<1>2. FDT_END_NODE \in Kind /\ <<>> \in Seq(Nat) /\ FDT_END_NODE # FDT_END
  BY DEF Kind, FDT_END_NODE, FDT_END
<1>3. complete' \in BOOLEAN /\ (FDT_END_NODE = FDT_END <=> complete')
  BY <1>1, <1>2, Zenon DEF BlobInv, BlobTypes
<1>4. /\ Before(Len(tokens) + 1).nodes = Len(tree)
      /\ Before(Len(tokens) + 1).open = open
      /\ Before(Len(tokens) + 1).props = NumProps(tree, Len(tree))
      /\ OpenIn(tree, open) /\ open \in Seq(Nat) /\ Len(open) \in Nat
      /\ tree \in Seq(NodeRecord) /\ Len(tree) \in Nat
  BY NowLemma
<1>5. BytesOf(tree', New(FDT_END_NODE, <<>>))
  BY DEF BytesOf, New, FDT_BEGIN_NODE, FDT_PROP, FDT_END_NODE
<1>6. StepOf(tree', Before(Len(tokens) + 1), New(FDT_END_NODE, <<>>))
  BY <1>1, <1>4 DEF StepOf, New, FDT_BEGIN_NODE, FDT_PROP, FDT_NOP, FDT_END_NODE, FDT_END
<1>7. /\ open' \in Seq(Nat) /\ Len(open') \in Nat /\ Len(open') = Len(open) - 1
      /\ \A i \in 1..Len(open') : open'[i] = open[i + 1] /\ i + 1 \in 1..Len(open)
  BY <1>1, <1>4
<1>8. Stack(open, Len(tree)) /\ Len(tree) # 0 /\ EndOf(open, Line(tree, Len(tree)))
  BY <1>1, <1>4 DEF OpenIn
<1>9. OpensNew(open, open', Len(tree))
  BY <1>7 DEF OpensNew
<1>10. Stack(open', Len(tree))
  <2>1. \A i \in 1..Len(open') : open'[i] \in 1..Len(tree)
    BY <1>7, <1>8 DEF Stack
  <2>2. ASSUME NEW i \in 1..Len(open'), NEW j \in 1..Len(open'), i < j PROVE open'[i] > open'[j]
    <3>1. i + 1 \in 1..Len(open) /\ j + 1 \in 1..Len(open) /\ i + 1 < j + 1
      BY <1>7, <2>2
    <3>2. open[i + 1] > open[j + 1]
      BY <1>8, <3>1 DEF Stack
    <3> QED BY <1>7, <3>2
  <2> QED BY <2>1, <2>2 DEF Stack
<1>11. Behind(open', Len(tree))
  <2> SUFFICES ASSUME open' # <<>> PROVE open'[1] < Len(tree)
    BY DEF Behind
  <2>1. 1 \in 1..Len(open') /\ 2 \in 1..Len(open) /\ 1 \in 1..Len(open) /\ open'[1] = open[2]
    BY <1>7
  <2>2. open[1] \in 1..Len(tree) /\ open[1] > open[2] /\ open[2] \in 1..Len(tree)
    BY <1>8, <2>1 DEF Stack
  <2> QED BY <1>4, <2>1, <2>2
<1>12. EndOf(open', Line(tree, Len(tree)))
  <2> DEFINE l == Line(tree, Len(tree))
  <2>1. Len(l) \in Nat
    <3>1. Len(tree) \in 1..Len(tree)
      BY <1>4, <1>8
    <3>2. tree[Len(tree)].above \in Seq(Nat)
      BY <1>4, <3>1, NodeLemma
    <3> QED BY <1>4, <3>2 DEF Line
  <2> HIDE DEF l
  <2>2. Len(open') <= Len(l)
    BY <1>4, <1>7, <1>8, <2>1 DEF EndOf, l
  <2>3. ASSUME NEW d \in 0..(Len(open') - 1) PROVE open'[Len(open') - d] = l[Len(l) - d]
    <3>1. d \in 0..(Len(open) - 1) /\ Len(open') - d \in 1..Len(open') /\ Len(open') - d + 1 = Len(open) - d
      BY <1>4, <1>7
    <3>2. open[Len(open) - d] = l[Len(l) - d]
      BY <1>8, <3>1 DEF EndOf, l
    <3>3. open'[Len(open') - d] = open[Len(open') - d + 1]
      BY <1>7, <3>1
    <3> QED BY <3>1, <3>2, <3>3
  <2> QED BY <2>2, <2>3 DEF EndOf, l
<1>13. OpenIn(tree', open') /\ KeepsBehind(open, open', tree, tree') /\ Behind(open', Len(tree'))
  BY <1>1, <1>8, <1>10, <1>11, <1>12 DEF OpenIn, KeepsBehind
<1>14. /\ tree' \in Seq(NodeRecord) /\ Grows(tree, tree')
       /\ KeepsProps(tree, tree') /\ NewStacks(tree, tree')
       /\ StandsIn(tree, tree', open) /\ Writes(tree, tree', FDT_END_NODE, Here)
  BY <1>1, SameTree
<1>15. open' \in Seq(Nat)
  BY <1>7
<1> QED BY <1>1, <1>2, <1>3, <1>5, <1>6, <1>9, <1>13, <1>14, <1>15, TokenKeepsInv

\* The end of the block.
LEMMA EndKeepsInv ==
  ASSUME BlobInv, End
  PROVE  BlobInv'
<1>1. /\ ~complete /\ open = <<>> /\ tree' = tree /\ open' = open /\ complete' = TRUE
      /\ Token(FDT_END, <<>>)
  BY DEF End
<1>2. FDT_END \in Kind /\ <<>> \in Seq(Nat) /\ FDT_END # FDT_END_NODE
  BY DEF Kind, FDT_END_NODE, FDT_END
<1>3. complete' \in BOOLEAN /\ (FDT_END = FDT_END <=> complete')
  BY <1>1, Zenon
<1>4. /\ Before(Len(tokens) + 1).nodes = Len(tree)
      /\ Before(Len(tokens) + 1).open = open
      /\ Before(Len(tokens) + 1).props = NumProps(tree, Len(tree))
      /\ OpenIn(tree, open) /\ open \in Seq(Nat) /\ Len(open) \in Nat
  BY NowLemma
<1>5. BytesOf(tree', New(FDT_END, <<>>))
  BY DEF BytesOf, New, FDT_BEGIN_NODE, FDT_PROP, FDT_END
<1>6. StepOf(tree', Before(Len(tokens) + 1), New(FDT_END, <<>>))
  BY <1>1, <1>4 DEF StepOf, New, FDT_BEGIN_NODE, FDT_PROP, FDT_NOP, FDT_END_NODE, FDT_END
<1>7. OpensNew(open, open', Len(tree)) /\ KeepsBehind(open, open', tree, tree') /\ OpenIn(tree', open')
  BY <1>1, <1>4 DEF OpensNew, KeepsBehind
<1>8. /\ tree' \in Seq(NodeRecord) /\ Grows(tree, tree')
      /\ KeepsProps(tree, tree') /\ NewStacks(tree, tree')
      /\ StandsIn(tree, tree', open) /\ Writes(tree, tree', FDT_END, Here)
  BY <1>1, SameTree
<1>9. open' \in Seq(Nat)
  BY <1>1, <1>4
<1> QED BY <1>1, <1>2, <1>3, <1>5, <1>6, <1>7, <1>8, <1>9, TokenKeepsInv

\* What makes a BEGIN_NODE token stand for its node.
LEMMA BeginToken ==
  ASSUME NEW tr, NEW t, NEW b, t.is = FDT_BEGIN_NODE,
         t.nodes \in DOMAIN tr, tr[t.nodes].at = t.at,
         \A i \in DOMAIN tr[t.nodes].name : tr[t.nodes].name[i] # 0,
         t.bytes = Padded(Append(tr[t.nodes].name, 0)),
         t.nodes = b.nodes + 1, t.props = 0, t.open = <<t.nodes>> \o b.open,
         tr[t.nodes].above = b.open, b.props = NumProps(tr, b.nodes)
  PROVE  BytesOf(tr, t) /\ StepOf(tr, b, t)
<1>1. BytesOf(tr, t)
  BY DEF BytesOf, FDT_BEGIN_NODE, FDT_PROP
<1>2. StepOf(tr, b, t)
  BY DEF StepOf, FDT_BEGIN_NODE, FDT_PROP, FDT_NOP, FDT_END_NODE, FDT_END
<1> QED BY <1>1, <1>2

\* The five kinds of tokens differ.
LEMMA KindsDiffer ==
  /\ FDT_PROP # FDT_BEGIN_NODE /\ FDT_PROP # FDT_NOP /\ FDT_PROP # FDT_END_NODE /\ FDT_PROP # FDT_END
  /\ FDT_BEGIN_NODE # FDT_NOP /\ FDT_BEGIN_NODE # FDT_END_NODE /\ FDT_BEGIN_NODE # FDT_END
  /\ FDT_NOP # FDT_END_NODE /\ FDT_NOP # FDT_END /\ FDT_END_NODE # FDT_END
BY DEF FDT_BEGIN_NODE, FDT_PROP, FDT_NOP, FDT_END_NODE, FDT_END

\* What makes a PROP token stand for its property.
LEMMA PropToken ==
  ASSUME NEW tr, NEW t, NEW b, t.is = FDT_PROP,
         t.nodes \in DOMAIN tr, t.props \in DOMAIN tr[t.nodes].props,
         tr[t.nodes].props[t.props].at = t.at,
         NEW j \in DOMAIN Strings, tr[t.nodes].props[t.props].name = Strings[j],
         t.bytes = Cell(Len(tr[t.nodes].props[t.props].val)) \o
                     (Cell(j - 1) \o Padded(tr[t.nodes].props[t.props].val)),
         t.nodes = b.nodes, t.props = b.props + 1, t.open = b.open, b.open # <<>>
  PROVE  BytesOf(tr, t) /\ StepOf(tr, b, t)
<1>1. t.is # FDT_BEGIN_NODE /\ t.is # FDT_NOP /\ t.is # FDT_END_NODE /\ t.is # FDT_END
  BY KindsDiffer, Zenon
<1>2. BytesOf(tr, t)
  BY <1>1, Zenon DEF BytesOf
<1>3. StepOf(tr, b, t)
  BY <1>1, Zenon DEF StepOf
<1> QED BY <1>2, <1>3

\* The beginning of a node, below the innermost open one.
LEMMA BeginNodeKeepsInv ==
  ASSUME BlobInv, NEW name \in Seq(Nat), \A i \in 1..Len(name) : name[i] # 0, BeginNode(name)
  PROVE  BlobInv'
<1> DEFINE N == Len(tree) + 1
           bytes == Padded(Append(name, 0))
           node == [at |-> Here, name |-> name, props |-> <<>>, above |-> open]
<1>1. /\ ~complete /\ tree' = Append(tree, node) /\ open' = <<N>> \o open /\ complete' = complete
      /\ Token(FDT_BEGIN_NODE, bytes)
  BY DEF BeginNode
<1>2. FDT_BEGIN_NODE \in Kind /\ FDT_BEGIN_NODE # FDT_END /\ FDT_BEGIN_NODE # FDT_END_NODE /\ bytes \in Seq(Nat)
  <2>1. Append(name, 0) \in Seq(Nat)
    BY AppendLemma
  <2>2. bytes \in Seq(Nat)
    BY <2>1, PaddedLemma
  <2> HIDE DEF bytes
  <2> QED BY <2>2 DEF Kind, FDT_BEGIN_NODE, FDT_END_NODE, FDT_END
<1>3. complete' \in BOOLEAN /\ (FDT_BEGIN_NODE = FDT_END <=> complete')
  BY <1>1, <1>2, Zenon DEF BlobInv, BlobTypes
<1>4. /\ Before(Len(tokens) + 1).nodes = Len(tree)
      /\ Before(Len(tokens) + 1).open = open
      /\ Before(Len(tokens) + 1).props = NumProps(tree, Len(tree))
      /\ OpenIn(tree, open) /\ open \in Seq(Nat) /\ Len(open) \in Nat
      /\ tree \in Seq(NodeRecord) /\ Len(tree) \in Nat /\ Here \in Nat
  BY NowLemma
<1>5. node \in NodeRecord
  BY <1>4 DEF NodeRecord
<1>6. /\ tree' \in Seq(NodeRecord) /\ Len(tree') = N /\ tree'[N] = node
      /\ \A n \in 1..Len(tree) : tree'[n] = tree[n]
  BY <1>1, <1>4, <1>5, AppendLemma
<1>7. N \in Nat /\ N = Len(tree) + 1 /\ DOMAIN tree' = 1..N /\ N \in 1..N
  BY <1>4, <1>6, ElemLemma
<1>8. /\ node.at = Here /\ node.name = name /\ node.props = <<>> /\ node.above = open
  OBVIOUS
<1>9. /\ open' \in Seq(Nat) /\ Len(open') = Len(open) + 1 /\ open'[1] = N
      /\ \A i \in 1..Len(open) : open'[i + 1] = open[i]
  BY <1>1, <1>4, <1>7
<1> HIDE DEF node, N
<1>10. NumProps(tree', Len(tree')) = 0 /\ \A n \in 0..Len(tree) : NumProps(tree', n) = NumProps(tree, n)
  BY <1>4, <1>6, <1>7, <1>8 DEF NumProps
<1>11. BytesOf(tree', New(FDT_BEGIN_NODE, bytes)) /\ StepOf(tree', Before(Len(tokens) + 1), New(FDT_BEGIN_NODE, bytes))
  <2> DEFINE t == New(FDT_BEGIN_NODE, bytes)
             b == Before(Len(tokens) + 1)
  <2>1. /\ t.is = FDT_BEGIN_NODE /\ t.nodes = N /\ t.at = Here /\ t.bytes = bytes
        /\ t.open = open' /\ t.props = 0
    BY <1>6, <1>10 DEF New
  <2>2. b.nodes = Len(tree) /\ b.open = open /\ b.props = NumProps(tree', Len(tree))
    BY <1>4, <1>10
  <2>3. t.nodes \in DOMAIN tree' /\ tree'[t.nodes] = node
    BY <1>6, <1>7, <2>1
  <2> HIDE DEF t, b
  <2>4. /\ tree'[t.nodes].at = t.at /\ tree'[t.nodes].name = name /\ tree'[t.nodes].above = b.open
        /\ t.nodes = b.nodes + 1 /\ t.open = <<t.nodes>> \o b.open /\ b.props = NumProps(tree', b.nodes)
    BY <1>1, <1>7, <1>8, <2>1, <2>2, <2>3
  <2>5. t.bytes = Padded(Append(tree'[t.nodes].name, 0))
    BY <2>1, <2>4
  <2>6. \A i \in DOMAIN tree'[t.nodes].name : tree'[t.nodes].name[i] # 0
    BY <2>4, ElemLemma
  <2>7. BytesOf(tree', t) /\ StepOf(tree', b, t)
    BY <2>1, <2>3, <2>4, <2>5, <2>6, BeginToken
  <2> QED BY <2>7 DEF t, b
<1>13. Grows(tree, tree')
  <2>1. \A n \in 1..Len(tree) : Len(tree[n].props) \in Nat
    BY <1>4, NodeLemma
  <2> QED BY <1>4, <1>6, <1>7, <2>1 DEF Grows
<1>14. KeepsProps(tree, tree')
  <2> SUFFICES ASSUME NEW k \in 1..Len(tokens)
               PROVE  NumProps(tree', Before(k).nodes) = NumProps(tree, Before(k).nodes)
    BY DEF KeepsProps
  <2>1. Before(k).nodes \in 0..Len(tree)
    BY <1>4, BeforeLemma
  <2> QED BY <1>10, <2>1
<1>15. Stack(open, Len(tree))
  BY <1>4 DEF OpenIn
<1>16. Stack(open', N)
  <2>1. ASSUME NEW i \in 1..Len(open') PROVE i = 1 \/ (i - 1 \in 1..Len(open) /\ open'[i] = open[i - 1])
    <3>1. i # 1 => i - 1 \in 1..Len(open) /\ i - 1 + 1 = i
      BY <1>4, <1>9
    <3> QED BY <1>9, <3>1
  <2>2. \A i \in 1..Len(open) : open[i] \in 1..Len(tree)
    BY <1>15 DEF Stack
  <2>3. \A i \in 1..Len(open') : open'[i] \in 1..N
    <3> SUFFICES ASSUME NEW i \in 1..Len(open') PROVE open'[i] \in 1..N
      OBVIOUS
    <3>1. CASE i = 1
      BY <1>7, <1>9, <3>1
    <3>2. CASE i # 1
      <4>1. open'[i] \in 1..Len(tree)
        BY <2>1, <2>2, <3>2
      <4> QED BY <1>4, <1>7, <4>1
    <3> QED BY <3>1, <3>2
  <2>4. ASSUME NEW i \in 1..Len(open'), NEW j \in 1..Len(open'), i < j PROVE open'[i] > open'[j]
    <3>1. j - 1 \in 1..Len(open) /\ open'[j] = open[j - 1]
      BY <2>1, <2>4
    <3>2. CASE i = 1
      <4>1. open'[j] \in 1..Len(tree) /\ open'[i] = N
        BY <1>9, <2>2, <3>1, <3>2
      <4> QED BY <1>4, <1>7, <4>1
    <3>3. CASE i # 1
      <4>1. i - 1 \in 1..Len(open) /\ open'[i] = open[i - 1] /\ i - 1 < j - 1
        BY <2>1, <2>4, <3>3
      <4> QED BY <1>15, <3>1, <4>1 DEF Stack
    <3> QED BY <3>2, <3>3
  <2> QED BY <2>3, <2>4 DEF Stack
<1>17. OpenIn(tree', open')
  <2>1. Line(tree', Len(tree')) = open'
    BY <1>1, <1>6, <1>8 DEF Line
  <2>2. EndOf(open', open')
    BY <1>4, <1>9 DEF EndOf
  <2>3. Len(tree') # 0
    BY <1>4, <1>6, <1>7
  <2> QED BY <1>6, <1>16, <2>1, <2>2, <2>3 DEF OpenIn
<1>18. OpensNew(open, open', Len(tree))
  <2> SUFFICES ASSUME NEW i \in 1..Len(open')
               PROVE  open'[i] > Len(tree) \/ \E j \in 1..Len(open) : open'[i] = open[j]
    BY DEF OpensNew
  <2>1. CASE i = 1
    BY <1>4, <1>7, <1>9, <2>1
  <2>2. CASE i # 1
    <3>1. i - 1 \in 1..Len(open) /\ i - 1 + 1 = i
      BY <1>4, <1>9, <2>2
    <3>2. open'[i] = open[i - 1]
      BY <1>9, <3>1
    <3> QED BY <3>1, <3>2
  <2> QED BY <2>1, <2>2
<1>19. \A n \in 1..Len(tree') : n <= Len(tree) \/ n = N
  BY <1>4, <1>6, <1>7
<1>20. StandsIn(tree, tree', open)
  BY <1>6, <1>8, <1>19 DEF StandsIn
<1>21. NewStacks(tree, tree')
  <2>1. Stack(tree'[N].above, N - 1)
    <3>1. N - 1 = Len(tree)
      BY <1>4, <1>7
    <3> QED BY <1>6, <1>8, <1>15, <3>1
  <2> QED BY <1>19, <2>1 DEF NewStacks
<1>22. KeepsBehind(open, open', tree, tree')
  BY <1>4, <1>6, <1>7 DEF KeepsBehind
<1>23. Writes(tree, tree', FDT_BEGIN_NODE, Here)
  <2>1. \A n \in 1..Len(tree) : \A p \in 1..Len(tree'[n].props) : p <= Len(tree[n].props)
    <3>1. \A n \in 1..Len(tree) : Len(tree[n].props) \in Nat
      BY <1>4, NodeLemma
    <3> QED BY <1>6, <3>1
  <2>2. Len(tree') <= Len(tree) + 1
    BY <1>4, <1>6, <1>7
  <2> QED BY <1>6, <1>8, <1>19, <2>1, <2>2 DEF Writes
<1>24. FDT_BEGIN_NODE = FDT_END_NODE => Behind(open', Len(tree'))
  BY <1>2
<1> HIDE DEF bytes
<1> QED BY <1>1, <1>2, <1>3, <1>6, <1>9, <1>11, <1>13, <1>14, <1>17, <1>18, <1>20, <1>21,
           <1>22, <1>23, <1>24, TokenKeepsInv

\* What Property makes of the tree.
LEMMA PropertyTree ==
  ASSUME BlobInv, NEW k \in DOMAIN Strings, NEW val \in Seq(Nat), Property(k, val)
  PROVE  LET n    == Head(open)
             P    == Len(tree[n].props)
             prop == [at |-> Here, name |-> Strings[k], val |-> val]
         IN /\ n = open[1] /\ n \in 1..Len(tree) /\ P \in Nat
            /\ tree' \in Seq(NodeRecord) /\ Len(tree') = Len(tree)
            /\ tree'[n].at = tree[n].at /\ tree'[n].name = tree[n].name
            /\ tree'[n].above = tree[n].above
            /\ \A m \in 1..Len(tree) : m # n => tree'[m] = tree[m]
            /\ tree'[n].props = Append(tree[n].props, prop) /\ Len(tree'[n].props) = P + 1
            /\ tree'[n].props[P + 1] = prop
            /\ \A p \in 1..P : tree'[n].props[p] = tree[n].props[p]
            /\ DOMAIN tree'[n].props = 1..(P + 1)
<1> DEFINE n == Head(open)
           P == Len(tree[n].props)
           prop == [at |-> Here, name |-> Strings[k], val |-> val]
           node == [tree[n] EXCEPT !.props = Append(@, prop)]
<1>1. /\ open # <<>> /\ n = Len(tree)
      /\ tree' = [tree EXCEPT ![n].props = Append(@, prop)]
  BY DEF Property
<1>2. /\ OpenIn(tree, open) /\ open \in Seq(Nat) /\ Len(open) \in Nat
      /\ tree \in Seq(NodeRecord) /\ Len(tree) \in Nat /\ Here \in Nat
  BY NowLemma
<1>3. n = open[1] /\ n \in 1..Len(tree)
  BY <1>1, <1>2 DEF OpenIn, Stack
<1>4. prop \in PropRecord
  <2>1. Strings[k] \in STRING
    BY BlobAssumption, ElemLemma
  <2> QED BY <1>2, <2>1 DEF PropRecord
<1> HIDE DEF prop
<1>5. /\ tree[n] \in NodeRecord /\ tree[n].props \in Seq(PropRecord) /\ P \in Nat
  BY <1>2, <1>3, ElemLemma, NodeLemma
<1>6. /\ node \in NodeRecord /\ node.props = Append(tree[n].props, prop)
      /\ node.at = tree[n].at /\ node.name = tree[n].name /\ node.above = tree[n].above
  <2>1. Append(tree[n].props, prop) \in Seq(PropRecord)
    BY <1>4, <1>5, AppendLemma
  <2> QED BY <1>5, <2>1 DEF NodeRecord
<1>7. tree' = [tree EXCEPT ![n] = node]
  BY <1>1
<1> HIDE DEF node, n
<1>8. /\ tree' \in Seq(NodeRecord) /\ Len(tree') = Len(tree) /\ tree'[n] = node
       /\ \A m \in 1..Len(tree) : m # n => tree'[m] = tree[m]
  BY <1>2, <1>3, <1>6, <1>7
<1>9. /\ tree'[n].props = Append(tree[n].props, prop) /\ Len(tree'[n].props) = P + 1
       /\ tree'[n].props[P + 1] = prop
       /\ \A p \in 1..P : tree'[n].props[p] = tree[n].props[p]
       /\ DOMAIN tree'[n].props = 1..(P + 1)
  <2>1. tree'[n].props = Append(tree[n].props, prop)
    BY <1>6, <1>8
  <2>2. /\ Append(tree[n].props, prop) \in Seq(PropRecord)
        /\ Len(Append(tree[n].props, prop)) = P + 1
        /\ \A p \in 1..P : Append(tree[n].props, prop)[p] = tree[n].props[p]
        /\ Append(tree[n].props, prop)[P + 1] = prop
    BY <1>4, <1>5, AppendLemma
  <2>3. DOMAIN tree'[n].props = 1..(P + 1)
    BY <2>1, <2>2, ElemLemma
  <2> QED BY <2>1, <2>2, <2>3
<1> QED BY <1>3, <1>5, <1>6, <1>8, <1>9 DEF prop, n, P

\* A property of the node that has just begun.
LEMMA PropertyKeepsInv ==
  ASSUME BlobInv, NEW k \in DOMAIN Strings, NEW val \in Seq(Nat), Property(k, val)
  PROVE  BlobInv'
<1> DEFINE n == Head(open)
           P == Len(tree[n].props)
           prop == [at |-> Here, name |-> Strings[k], val |-> val]
           bytes == Cell(Len(val)) \o Cell(k - 1) \o Padded(val)
           node == [tree[n] EXCEPT !.props = Append(@, prop)]
<1>1. /\ ~complete /\ open # <<>> /\ n = Len(tree) /\ open' = open /\ complete' = complete
      /\ tree' = [tree EXCEPT ![n].props = Append(@, prop)]
      /\ Token(FDT_PROP, bytes)
  BY DEF Property
<1>2. /\ Before(Len(tokens) + 1).nodes = Len(tree)
      /\ Before(Len(tokens) + 1).open = open
      /\ Before(Len(tokens) + 1).props = NumProps(tree, Len(tree))
      /\ OpenIn(tree, open) /\ open \in Seq(Nat) /\ Len(open) \in Nat
      /\ tree \in Seq(NodeRecord) /\ Len(tree) \in Nat /\ Here \in Nat
  BY NowLemma
<1>3. n = open[1] /\ n \in 1..Len(tree)
  BY <1>1, <1>2 DEF OpenIn, Stack
<1>4. prop \in PropRecord /\ prop.at = Here /\ prop.name = Strings[k] /\ prop.val = val
  <2>1. Strings[k] \in STRING
    BY BlobAssumption, ElemLemma
  <2> QED BY <1>2, <2>1 DEF PropRecord
<1>5. k - 1 \in Nat /\ Len(val) \in Nat
  <2>1. DOMAIN Strings = 1..Len(Strings) /\ Len(Strings) \in Nat
    BY BlobAssumption, ElemLemma
  <2> QED BY <2>1
<1>6. bytes = Cell(Len(val)) \o (Cell(k - 1) \o Padded(val)) /\ bytes \in Seq(Nat)
  <2>1. Cell(Len(val)) \in Seq(Nat) /\ Cell(k - 1) \in Seq(Nat) /\ Padded(val) \in Seq(Nat)
    BY <1>5, CellLemma, PaddedLemma
  <2>2. bytes = Cell(Len(val)) \o (Cell(k - 1) \o Padded(val))
    BY <2>1, JoinThree
  <2>3. Cell(k - 1) \o Padded(val) \in Seq(Nat)
    BY <2>1, JoinBytes
  <2> QED BY <2>1, <2>2, <2>3, JoinBytes
<1> HIDE DEF bytes, prop
<1>7. /\ P \in Nat /\ tree' \in Seq(NodeRecord) /\ Len(tree') = Len(tree)
      /\ \A m \in 1..Len(tree) : m # n => tree'[m] = tree[m]
  BY PropertyTree
<1>8. tree'[n].at = tree[n].at /\ tree'[n].name = tree[n].name /\ tree'[n].above = tree[n].above
  BY PropertyTree
<1>10. tree' \in Seq(NodeRecord) /\ Len(tree') = Len(tree) /\ \A m \in 1..Len(tree) : m # n => tree'[m] = tree[m]
  BY <1>7
<1>11. /\ Len(tree'[n].props) = P + 1
       /\ tree'[n].props[P + 1] = prop
       /\ \A p \in 1..P : tree'[n].props[p] = tree[n].props[p]
       /\ DOMAIN tree'[n].props = 1..(P + 1)
  BY PropertyTree DEF prop
<1> HIDE DEF n, P
<1>12. NumProps(tree', Len(tree')) = P + 1 /\ NumProps(tree, Len(tree)) = P
       /\ \A m \in 0..Len(tree) : m # n => NumProps(tree', m) = NumProps(tree, m)
  BY <1>1, <1>2, <1>3, <1>10, <1>11 DEF NumProps, P
<1>13. FDT_PROP \in Kind /\ FDT_PROP # FDT_END /\ FDT_PROP # FDT_END_NODE
  BY DEF Kind, FDT_PROP, FDT_END_NODE, FDT_END
<1>14. complete' \in BOOLEAN /\ (FDT_PROP = FDT_END <=> complete')
  BY <1>1, <1>13, Zenon DEF BlobInv, BlobTypes
<1>15. BytesOf(tree', New(FDT_PROP, bytes)) /\ StepOf(tree', Before(Len(tokens) + 1), New(FDT_PROP, bytes))
  <2> DEFINE t == New(FDT_PROP, bytes)
             b == Before(Len(tokens) + 1)
  <2>1. /\ t.is = FDT_PROP /\ t.nodes = n /\ t.at = Here /\ t.bytes = bytes
        /\ t.open = open /\ t.props = P + 1
    BY <1>1, <1>10, <1>12 DEF New
  <2>2. b.nodes = n /\ b.open = open /\ b.props = P
    BY <1>1, <1>2, <1>12
  <2> HIDE DEF t, b
  <2>3. t.nodes \in DOMAIN tree'
    BY <1>3, <1>10, <2>1, ElemLemma
  <2>4. t.props \in DOMAIN tree'[t.nodes].props
    BY <1>7, <1>11, <2>1 DEF P
  <2>5. tree'[t.nodes].props[t.props] = prop
    BY <1>11, <2>1
  <2>6. /\ tree'[t.nodes].props[t.props].at = t.at /\ tree'[t.nodes].props[t.props].name = Strings[k]
        /\ tree'[t.nodes].props[t.props].val = val
    BY <1>4, <2>1, <2>5
  <2>7. t.bytes = Cell(Len(tree'[t.nodes].props[t.props].val)) \o
                    (Cell(k - 1) \o Padded(tree'[t.nodes].props[t.props].val))
    BY <1>6, <2>1, <2>6, Zenon
  <2>8. t.nodes = b.nodes /\ t.props = b.props + 1 /\ t.open = b.open /\ b.open # <<>>
    BY <1>1, <2>1, <2>2
  <2>9. BytesOf(tree', t) /\ StepOf(tree', b, t)
    BY <2>1, <2>3, <2>4, <2>6, <2>7, <2>8, PropToken
  <2> QED BY <2>9 DEF t, b
<1>16. Grows(tree, tree')
  <2>1. \A m \in 1..Len(tree) : Len(tree[m].props) \in Nat
    BY <1>2, NodeLemma
  <2>2. ASSUME NEW m \in 1..Len(tree)
        PROVE  /\ tree'[m].at = tree[m].at /\ tree'[m].name = tree[m].name /\ tree'[m].above = tree[m].above
               /\ Len(tree[m].props) <= Len(tree'[m].props)
               /\ \A p \in 1..Len(tree[m].props) : tree'[m].props[p] = tree[m].props[p]
    <3>1. CASE m = n
      BY <1>7, <1>8, <1>10, <1>11, <3>1 DEF P
    <3>2. CASE m # n
      BY <1>10, <2>1, <3>2
    <3> QED BY <3>1, <3>2
  <2> QED BY <1>2, <1>10, <2>2 DEF Grows
<1>17. KeepsProps(tree, tree')
  <2> SUFFICES ASSUME NEW i \in 1..Len(tokens), tokens[i].is \in {FDT_BEGIN_NODE, FDT_END_NODE}
               PROVE  Before(i).nodes \in 0..Len(tree) /\ Before(i).nodes # n
    BY <1>12 DEF KeepsProps
  <2>1. i \in DOMAIN tokens /\ tokens[i].nodes \in Nat /\ i \in 1..(Len(tokens) + 1)
    BY TokenLemma, ElemLemma DEF BlobInv, BlobTypes
  <2>2. Before(i).nodes \in 0..Len(tree) /\ tokens[i].nodes <= Len(tree) /\ StepOf(tree, Before(i), tokens[i])
    BY <2>1, BeforeLemma DEF BlobInv, Stacks, Steps
  <2>3. CASE tokens[i].is = FDT_BEGIN_NODE
    <3>1. tokens[i].nodes = Before(i).nodes + 1
      BY <2>2, <2>3 DEF StepOf
    <3> QED BY <1>1, <1>2, <2>1, <2>2, <3>1
  <2>4. CASE tokens[i].is = FDT_END_NODE
    <3>1. tokens[i].nodes = Before(i).nodes
      BY <2>2, <2>4 DEF StepOf, FDT_BEGIN_NODE, FDT_END_NODE
    <3>2. tokens[i].nodes = Len(tree) => Behind(open, Len(tree))
      BY <2>1, <2>4 DEF BlobInv, Closed
    <3>3. ~Behind(open, Len(tree))
      BY <1>1, <1>2, <1>3 DEF Behind
    <3> QED BY <1>1, <2>2, <3>1, <3>2, <3>3
  <2> QED BY <2>3, <2>4
<1>18. NewStacks(tree, tree') /\ StandsIn(tree, tree', open)
  BY <1>2, <1>10 DEF NewStacks, StandsIn
<1>19. OpenIn(tree', open')
  <2>1. Line(tree', Len(tree')) = Line(tree, Len(tree))
    BY <1>1, <1>8, <1>10 DEF Line
  <2> QED BY <1>1, <1>2, <1>10, <2>1 DEF OpenIn
<1>20. OpensNew(open, open', Len(tree)) /\ KeepsBehind(open, open', tree, tree')
  BY <1>1 DEF OpensNew, KeepsBehind
<1>21. Writes(tree, tree', FDT_PROP, Here)
  <2>1. ASSUME NEW m \in 1..Len(tree), NEW p \in 1..Len(tree'[m].props)
        PROVE  p <= Len(tree[m].props) \/ (m = Len(tree') /\ p = NumProps(tree', Len(tree')))
    <3>1. CASE m = n
      <4>1. p \in 1..(P + 1) /\ (p <= P \/ p = P + 1)
        BY <1>7, <1>11, <3>1
      <4> QED BY <1>1, <1>10, <1>12, <3>1, <4>1 DEF P
    <3>2. CASE m # n
      <4>1. Len(tree[m].props) \in Nat /\ tree'[m] = tree[m]
        BY <1>2, <1>10, <3>2, NodeLemma
      <4> QED BY <4>1
    <3> QED BY <3>1, <3>2
  <2>2. Len(tree') <= Len(tree) + 1 /\ \A m \in 1..Len(tree') : m <= Len(tree)
    BY <1>2, <1>10
  <2> QED BY <2>1, <2>2, Zenon DEF Writes
<1>22. open' \in Seq(Nat)
  BY <1>1, <1>2
<1>23. FDT_PROP = FDT_END_NODE => Behind(open', Len(tree'))
  BY <1>13
<1> QED BY <1>1, <1>6, <1>10, <1>13, <1>14, <1>15, <1>16, <1>17, <1>18, <1>19, <1>20, <1>21, <1>22,
           <1>23, TokenKeepsInv

\* A sequence over a set is one over every larger set.
LEMMA SeqOfMore ==
  ASSUME NEW S, NEW T, S \subseteq T, NEW s \in Seq(S)
  PROVE  s \in Seq(T)
OBVIOUS

\* Bytes are natural numbers, and the bytes of names are not 0.
LEMMA ByteSeqs ==
  /\ \A s \in Seq(0..255) : s \in Seq(Nat)
  /\ \A s \in Seq(1..255) : s \in Seq(Nat) /\ \A i \in 1..Len(s) : s[i] # 0
<1> DEFINE B == 0..255
           C == 1..255
<1>1. B \subseteq Nat /\ C \subseteq Nat /\ 0 \notin C
  OBVIOUS
<1>2. \A s \in Seq(0..255) : s \in Seq(Nat)
  <2> HIDE DEF B
  <2>1. \A s \in Seq(B) : s \in Seq(Nat)
    BY <1>1, SeqOfMore, Zenon
  <2> QED BY <2>1 DEF B
<1>3. \A s \in Seq(1..255) : s \in Seq(Nat)
  <2> HIDE DEF C
  <2>1. \A s \in Seq(C) : s \in Seq(Nat)
    BY <1>1, SeqOfMore, Zenon
  <2> QED BY <2>1 DEF C
<1>4. \A s \in Seq(1..255) : \A i \in 1..Len(s) : s[i] # 0
  <2> SUFFICES ASSUME NEW s \in Seq(1..255), NEW i \in 1..Len(s) PROVE s[i] # 0
    OBVIOUS
  <2>1. s[i] \in 1..255
    BY ElemLemma
  <2> QED BY <1>1, <2>1, Zenon
<1> QED BY <1>2, <1>3, <1>4

\* Nothing is written at first.
LEMMA InitInv == Init => BlobInv
<1> SUFFICES ASSUME Init PROVE BlobInv
  OBVIOUS
<1>1. dt_struct = <<>> /\ tree = <<>> /\ open = <<>> /\ tokens = <<>> /\ complete = FALSE
  BY DEF Init
<1>2. BlobTypes
  <2>1. <<>> \in Seq(Nat) /\ <<>> \in Seq(NodeRecord) /\ <<>> \in Seq(TokenRecord)
    OBVIOUS
  <2> QED BY <1>1, <2>1, Zenon DEF BlobTypes
<1>3. Len(tokens) = 0 /\ DOMAIN tokens = {} /\ Len(tree) = 0 /\ DOMAIN tree = {} /\ Len(open) = 0
      /\ Len(dt_struct) = 0
  BY <1>1
<1>4. Layout
  BY <1>1, <1>3 DEF Layout, Place, Here
<1>5. Contents /\ Steps
  BY <1>3 DEF Contents, Steps
<1>6. Current
  BY <1>1, <1>3 DEF Current, Before, Start, NumProps
<1>7. Stacks
  BY <1>3 DEF Stacks, Stack
<1>8. Closed /\ Written
  BY <1>3 DEF Closed, Written
<1> QED BY <1>2, <1>4, <1>5, <1>6, <1>7, <1>8 DEF BlobInv

\* A block keeps its kind.
KindInv == kind \in Kinds

\* Every step keeps the invariant.
LEMMA NextInv ==
  ASSUME BlobInv, KindInv, [Next]_blobVars
  PROVE  BlobInv' /\ KindInv'
<1>1. CASE UNCHANGED blobVars
  <2>1. /\ dt_struct' = dt_struct /\ tree' = tree /\ open' = open /\ tokens' = tokens
        /\ complete' = complete /\ kind' = kind
    BY <1>1 DEF blobVars
  <2> QED BY <2>1 DEF BlobInv, BlobTypes, Layout, Contents, Steps, Current, Stacks, Closed, Written,
                      Place, Before, Here, KindInv
<1>2. ASSUME NEW name \in kind.unitNames \cup {<<>>}, BeginNode(name) PROVE BlobInv' /\ KindInv'
  <2>1. name \in Seq(Nat) /\ \A i \in 1..Len(name) : name[i] # 0
    <3>1. CASE name \in kind.unitNames
      <4>1. name \in Seq(1..255)
        BY <3>1, BlobAssumption DEF KindInv
      <4> QED BY <4>1, ByteSeqs
    <3>2. CASE name = <<>>
      BY <3>2
    <3> QED BY <3>1, <3>2
  <2>2. kind' = kind
    BY <1>2 DEF BeginNode
  <2> QED BY <1>2, <2>1, <2>2, BeginNodeKeepsInv DEF KindInv
<1>3. ASSUME NEW k \in DOMAIN Strings, NEW val \in Values(Strings[k]), Property(k, val) PROVE BlobInv' /\ KindInv'
  <2>1. val \in Seq(Nat)
    BY <1>3, BlobAssumption, ByteSeqs
  <2>2. kind' = kind
    BY <1>3 DEF Property
  <2> QED BY <1>3, <2>1, <2>2, PropertyKeepsInv DEF KindInv
<1>4. CASE Nop
  BY <1>4, NopKeepsInv DEF Nop, KindInv
<1>5. CASE EndNode
  BY <1>5, EndNodeKeepsInv DEF EndNode, KindInv
<1>6. CASE End
  BY <1>6, EndKeepsInv DEF End, KindInv
<1> QED BY <1>1, <1>2, <1>3, <1>4, <1>5, <1>6 DEF Next

\* What the producer has written is what its history says: BlobInv holds in
\* every state, for every set of names and values.
THEOREM BlobInvariant == Spec => []BlobInv
<1>1. Init => BlobInv /\ KindInv
  BY InitInv DEF Init, KindInv
<1>2. BlobInv /\ KindInv /\ [Next]_blobVars => BlobInv' /\ KindInv'
  BY NextInv
<1> QED BY <1>1, <1>2, PTL DEF Spec
-----------------------------------------------------------------------------
(***************************************************************************)
(* What is read.                                                           *)
(***************************************************************************)
Blob == dt_struct \in Seq(Nat)

\* A byte, of the block or behind it.
LEMMA ByteLemma ==
  ASSUME Blob, NEW p \in Nat, p >= 1
  PROVE  Byte(p) \in Nat /\ (p <= Len(dt_struct) => Byte(p) = dt_struct[p])
<1>1. Len(dt_struct) \in Nat /\ \A k \in 1..Len(dt_struct) : dt_struct[k] \in Nat
  BY ElemLemma DEF Blob
<1>2. CASE p <= Len(dt_struct)
  <2>1. p \in 1..Len(dt_struct)
    BY <1>1, <1>2
  <2> QED BY <1>1, <1>2, <2>1 DEF Byte
<1>3. CASE ~(p <= Len(dt_struct))
  BY <1>3 DEF Byte
<1> QED BY <1>2, <1>3

\* Byte reads what stands in the block.
LEMMA HoldsByte ==
  ASSUME Blob, NEW p \in Nat, p >= 1, NEW b \in Seq(Nat), Holds(dt_struct, p, b)
  PROVE  \A i \in 0..(Len(b) - 1) : Byte(p + i) = b[i + 1] /\ p + i <= Len(dt_struct)
<1> SUFFICES ASSUME NEW i \in 0..(Len(b) - 1)
             PROVE  Byte(p + i) = b[i + 1] /\ p + i <= Len(dt_struct)
  OBVIOUS
<1>1. i + 1 \in 1..Len(b) /\ p + (i + 1) - 1 = p + i /\ p + i \in Nat /\ p + i >= 1
  OBVIOUS
<1>2. p + i \in 1..Len(dt_struct) /\ dt_struct[p + i] = b[i + 1]
  BY <1>1 DEF Holds
<1> QED BY <1>1, <1>2, ByteLemma

\* Where bytes stand, the first of them do.
LEMMA HoldsPrefix ==
  ASSUME NEW d, NEW p, NEW a, NEW b, Len(a) \in Nat, Len(b) \in Nat, Len(b) >= Len(a),
         \A i \in 1..Len(a) : b[i] = a[i], Holds(d, p, b)
  PROVE  Holds(d, p, a)
<1>1. \A i \in 1..Len(a) : i \in 1..Len(b)
  OBVIOUS
<1> QED BY <1>1, Zenon DEF Holds

\* A string is as long as it is to its terminator, or to the end.
LEMMA StrlenLemma ==
  ASSUME Blob, NEW p \in Nat, p >= 1
  PROVE  /\ strlen(p) \in 0..Len(dt_struct)
         /\ Byte(p + strlen(p)) = 0 \/ p + strlen(p) > Len(dt_struct)
         /\ \A k \in 0..(strlen(p) - 1) : Byte(p + k) # 0
<1> DEFINE L == Len(dt_struct)
           Stops == { n \in 0..L : Byte(p + n) = 0 \/ p + n > L }
<1>1. L \in Nat
  BY DEF Blob
<1>2. Stops \subseteq Nat /\ L \in Stops
  BY <1>1
<1>3. PICK n \in Stops : \A m \in Stops : n <= m
  BY <1>2, LeastElement
<1>4. \A k \in 0..(n - 1) : Byte(p + k) # 0
  BY <1>1, <1>3
<1>5. \E m \in 0..L : /\ Byte(p + m) = 0 \/ p + m > L
                      /\ \A k \in 0..(m - 1) : Byte(p + k) # 0
  BY <1>3, <1>4
<1> QED
  BY <1>5 DEF strlen

\* strlen finds the terminator of what was written as a string.
LEMMA ReadString ==
  ASSUME Blob, NEW p \in Nat, p >= 1, NEW s \in Seq(Nat), \A i \in 1..Len(s) : s[i] # 0,
         Holds(dt_struct, p, Append(s, 0))
  PROVE  strlen(p) = Len(s)
<1>1. /\ Append(s, 0) \in Seq(Nat) /\ Len(Append(s, 0)) = Len(s) + 1 /\ Len(s) \in Nat
      /\ \A k \in 1..Len(s) : Append(s, 0)[k] = s[k]
      /\ Append(s, 0)[Len(s) + 1] = 0
  BY AppendLemma, ElemLemma
<1>2. \A i \in 0..(Len(Append(s, 0)) - 1) : Byte(p + i) = Append(s, 0)[i + 1] /\ p + i <= Len(dt_struct)
  BY <1>1, HoldsByte
<1>3. Byte(p + Len(s)) = 0 /\ p + Len(s) <= Len(dt_struct)
  <2>1. Len(s) \in 0..(Len(Append(s, 0)) - 1)
    BY <1>1
  <2> QED BY <1>1, <1>2, <2>1
<1>4. ASSUME NEW i \in 0..(Len(s) - 1) PROVE Byte(p + i) # 0 /\ p + i <= Len(dt_struct)
  <2>1. i \in 0..(Len(Append(s, 0)) - 1) /\ i + 1 \in 1..Len(s)
    BY <1>1
  <2> QED BY <1>1, <1>2, <2>1
<1>5. /\ strlen(p) \in 0..Len(dt_struct)
      /\ Byte(p + strlen(p)) = 0 \/ p + strlen(p) > Len(dt_struct)
      /\ \A k \in 0..(strlen(p) - 1) : Byte(p + k) # 0
  BY StrlenLemma
<1>6. Len(dt_struct) \in Nat /\ strlen(p) \in Nat
  BY <1>5 DEF Blob
<1>7. ~(strlen(p) < Len(s))
  <2> SUFFICES ASSUME strlen(p) < Len(s) PROVE FALSE
    OBVIOUS
  <2>1. strlen(p) \in 0..(Len(s) - 1)
    BY <1>1, <1>6
  <2>2. Byte(p + strlen(p)) # 0 /\ p + strlen(p) <= Len(dt_struct)
    BY <1>4, <2>1
  <2> QED BY <1>5, <1>6, <2>2
<1>8. ~(strlen(p) > Len(s))
  <2> SUFFICES ASSUME strlen(p) > Len(s) PROVE FALSE
    OBVIOUS
  <2>1. Len(s) \in 0..(strlen(p) - 1)
    BY <1>1, <1>6
  <2> QED BY <1>3, <1>5, <2>1
<1> QED BY <1>1, <1>6, <1>7, <1>8

\* A big endian number of four bytes is a natural number.
LEMMA BigEndianLemma ==
  ASSUME NEW a \in Nat, NEW b \in Nat, NEW c \in Nat, NEW d \in Nat
  PROVE  ((a * 256 + b) * 256 + c) * 256 + d \in Nat
OBVIOUS

\* be32toh returns a natural number wherever it reads.
LEMMA NumberIsNat ==
  ASSUME Blob, NEW p \in Nat, p >= 1
  PROVE  be32toh(p) \in Nat
<1>1. p + 1 \in Nat /\ p + 2 \in Nat /\ p + 3 \in Nat /\ p + 1 >= 1 /\ p + 2 >= 1 /\ p + 3 >= 1
  OBVIOUS
<1>2. Byte(p) \in Nat /\ Byte(p + 1) \in Nat /\ Byte(p + 2) \in Nat /\ Byte(p + 3) \in Nat
  BY <1>1, ByteLemma
<1> QED BY <1>2, BigEndianLemma DEF be32toh

\* be32toh reads back the number that was written as a cell.
LEMMA ReadCell ==
  ASSUME Blob, NEW p \in Nat, p >= 1, NEW n \in Nat, Holds(dt_struct, p, Cell(n))
  PROVE  be32toh(p) = n /\ p + 3 <= Len(dt_struct)
<1>1. /\ Cell(n) \in Seq(Nat) /\ Len(Cell(n)) = 4
      /\ ((Cell(n)[1] * 256 + Cell(n)[2]) * 256 + Cell(n)[3]) * 256 + Cell(n)[4] = n
  BY CellLemma
<1>2. \A i \in 0..3 : Byte(p + i) = Cell(n)[i + 1] /\ p + i <= Len(dt_struct)
  <2>1. \A i \in 0..(Len(Cell(n)) - 1) : Byte(p + i) = Cell(n)[i + 1] /\ p + i <= Len(dt_struct)
    BY <1>1, HoldsByte
  <2>2. Len(Cell(n)) - 1 = 3
    BY <1>1
  <2> QED BY <2>1, <2>2
<1>3. Byte(p) = Cell(n)[1] /\ Byte(p + 1) = Cell(n)[2] /\ Byte(p + 2) = Cell(n)[3] /\ Byte(p + 3) = Cell(n)[4]
      /\ p + 3 <= Len(dt_struct)
  <2>1. 0 \in 0..3 /\ 1 \in 0..3 /\ 2 \in 0..3 /\ 3 \in 0..3 /\ p + 0 = p
    OBVIOUS
  <2>2. 0 + 1 = 1 /\ 1 + 1 = 2 /\ 2 + 1 = 3 /\ 3 + 1 = 4
    OBVIOUS
  <2>3. Byte(p + 0) = Cell(n)[0 + 1] /\ Byte(p + 1) = Cell(n)[1 + 1] /\ Byte(p + 2) = Cell(n)[2 + 1]
        /\ Byte(p + 3) = Cell(n)[3 + 1]
    BY <1>2, <2>1
  <2> QED BY <1>2, <2>1, <2>2, <2>3
<1> QED BY <1>1, <1>3 DEF be32toh

\* The token behind a token, by its kind.
Valid(next) == IF fdt_struct_ptr_invalid(next) THEN NULL ELSE next

\* The switch of fdt_next_token.
LEMMA NextTokenCases ==
  ASSUME NEW t
  PROVE  /\ be32toh(t) \in {FDT_NOP, FDT_END_NODE} => fdt_next_token(t) = Valid(t + 4)
         /\ be32toh(t) = FDT_BEGIN_NODE =>
              fdt_next_token(t) = Valid(t + 4 + 4 * cell_len(strlen(t + 4) + 1))
         /\ be32toh(t) = FDT_PROP =>
              fdt_next_token(t) = Valid(t + 4 + 4 * (2 + cell_len(fdt_prop_val_len(t))))
         /\ be32toh(t) \notin {FDT_NOP, FDT_END_NODE, FDT_BEGIN_NODE, FDT_PROP} =>
              fdt_next_token(t) = Valid(NULL)
<1> DEFINE val == be32toh(t)
           next == CASE val \in {FDT_NOP, FDT_END_NODE} -> t + 4
                     [] val = FDT_BEGIN_NODE -> t + 4 + 4 * cell_len(strlen(t + 4) + 1)
                     [] val = FDT_PROP -> t + 4 + 4 * (2 + cell_len(fdt_prop_val_len(t)))
                     [] OTHER -> NULL
<1>1. fdt_next_token(t) = Valid(next)
  BY Zenon DEF fdt_next_token, Valid
<1>2. val \in {FDT_NOP, FDT_END_NODE} => next = t + 4
  BY KindsDiffer, Zenon
<1>3. val = FDT_BEGIN_NODE => next = t + 4 + 4 * cell_len(strlen(t + 4) + 1)
  BY KindsDiffer, Zenon
<1>4. val = FDT_PROP => next = t + 4 + 4 * (2 + cell_len(fdt_prop_val_len(t)))
  BY KindsDiffer, Zenon
<1>5. val \notin {FDT_NOP, FDT_END_NODE, FDT_BEGIN_NODE, FDT_PROP} => next = NULL
  BY Zenon
<1> HIDE DEF next
<1> QED BY <1>1, <1>2, <1>3, <1>4, <1>5, Zenon

\* The walk over the tokens goes forward.
LEMMA NextTokenLemma ==
  ASSUME Blob, NEW t \in Pointer, t # NULL
  PROVE  /\ fdt_next_token(t) \in Pointer
         /\ fdt_next_token(t) # NULL => fdt_next_token(t) > t
<1>1. Len(dt_struct) \in Nat /\ t \in Nat /\ t >= 1 /\ t <= Len(dt_struct)
  BY DEF Blob, Pointer, NULL
<1>2. t + 4 \in Nat /\ t + 4 >= 1
  BY <1>1
<1>3. strlen(t + 4) \in Nat /\ be32toh(t + 4) \in Nat
  <2>1. strlen(t + 4) \in 0..Len(dt_struct)
    BY <1>2, StrlenLemma
  <2> QED BY <1>1, <1>2, <2>1, NumberIsNat
<1>4. cell_len(strlen(t + 4) + 1) \in Nat /\ cell_len(fdt_prop_val_len(t)) \in Nat
  BY <1>3 DEF cell_len, fdt_prop_val_len
<1>5. \A n \in Nat : n > t => Valid(n) \in Pointer /\ (Valid(n) # NULL => Valid(n) > t)
  BY <1>1 DEF Valid, Pointer, NULL, fdt_struct_ptr_invalid
<1>6. Valid(NULL) = NULL /\ NULL \in Pointer
  BY <1>1 DEF Valid, Pointer, NULL, fdt_struct_ptr_invalid
<1>7. CASE be32toh(t) \in {FDT_NOP, FDT_END_NODE}
  <2>1. fdt_next_token(t) = Valid(t + 4)
    BY <1>7, NextTokenCases
  <2> QED BY <1>1, <1>2, <1>5, <2>1
<1>8. CASE be32toh(t) = FDT_BEGIN_NODE
  <2> DEFINE n == t + 4 + 4 * cell_len(strlen(t + 4) + 1)
  <2>1. fdt_next_token(t) = Valid(n)
    BY <1>8, NextTokenCases
  <2>2. n \in Nat /\ n > t
    BY <1>1, <1>4
  <2> HIDE DEF n
  <2> QED BY <1>5, <2>1, <2>2
<1>9. CASE be32toh(t) = FDT_PROP
  <2> DEFINE n == t + 4 + 4 * (2 + cell_len(fdt_prop_val_len(t)))
  <2>1. fdt_next_token(t) = Valid(n)
    BY <1>9, NextTokenCases
  <2>2. n \in Nat /\ n > t
    BY <1>1, <1>4
  <2> HIDE DEF n
  <2> QED BY <1>5, <2>1, <2>2
<1>10. CASE be32toh(t) \notin {FDT_NOP, FDT_END_NODE, FDT_BEGIN_NODE, FDT_PROP}
  <2>1. fdt_next_token(t) = Valid(NULL)
    BY <1>10, NextTokenCases
  <2> QED BY <1>6, <2>1
<1> QED BY <1>7, <1>8, <1>9, <1>10

\* What the producer wrote is read back: the kinds of the tokens, and the way
\* from one token to the next.
LEMMA TokenRead ==
  ASSUME BlobInv, NEW k \in 1..Len(tokens)
  PROVE  /\ Blob
         /\ tokens[k].at \in Pointer /\ tokens[k].at # NULL
         /\ be32toh(tokens[k].at) = tokens[k].is
         /\ k < Len(tokens) => fdt_next_token(tokens[k].at) = tokens[k + 1].at
         /\ tokens[k].is = FDT_END => fdt_next_token(tokens[k].at) = NULL
<1> DEFINE t == tokens[k]
<1>1. Blob /\ tokens \in Seq(TokenRecord) /\ tree \in Seq(NodeRecord) /\ Len(tokens) \in Nat
  BY DEF BlobInv, BlobTypes, Blob
<1>2. /\ DOMAIN tokens = 1..Len(tokens) /\ Len(dt_struct) \in Nat
  BY <1>1, ElemLemma DEF Blob
<1>3. /\ t.at \in Nat /\ t.is \in Kind /\ t.is \in Nat /\ t.bytes \in Seq(Nat) /\ Len(t.bytes) \in Nat
      /\ t.nodes \in Nat /\ t.props \in Nat
  BY <1>1, TokenLemma
<1>4. /\ t.at >= 1
      /\ Place(k + 1) = t.at + 4 + Len(t.bytes)
      /\ Holds(dt_struct, t.at, Cell(t.is))
      /\ Holds(dt_struct, t.at + 4, t.bytes)
  BY <1>2 DEF BlobInv, Layout
<1>5. BytesOf(tree, t)
  BY <1>2 DEF BlobInv, Contents
<1> HIDE DEF t
<1>6. be32toh(t.at) = t.is /\ t.at + 3 <= Len(dt_struct)
  BY <1>1, <1>3, <1>4, ReadCell
<1>7. t.at \in Pointer /\ t.at # NULL
  BY <1>2, <1>3, <1>4, <1>6 DEF Pointer, NULL
<1>8. ASSUME t.is # FDT_END PROVE fdt_next_token(t.at) = Valid(t.at + 4 + Len(t.bytes))
  <2>1. CASE t.is \in {FDT_NOP, FDT_END_NODE}
    <3>1. t.bytes = <<>> /\ Len(t.bytes) = 0
      BY <1>5, <2>1, KindsDiffer DEF BytesOf
    <3>2. t.at + 4 + Len(t.bytes) = t.at + 4
      BY <1>3, <3>1
    <3> QED BY <1>6, <2>1, <3>2, NextTokenCases
  <2>2. CASE t.is = FDT_BEGIN_NODE
    <3> DEFINE name == tree[t.nodes].name
    <3>1. /\ t.nodes \in DOMAIN tree
          /\ \A i \in DOMAIN name : name[i] # 0
          /\ t.bytes = Padded(Append(name, 0))
      BY <1>5, <2>2 DEF BytesOf
    <3>2. t.nodes \in 1..Len(tree)
      BY <1>1, <3>1, ElemLemma
    <3>3. name \in Seq(Nat) /\ DOMAIN name = 1..Len(name) /\ Len(name) \in Nat
      BY <1>1, <3>2, NodeLemma, ElemLemma
    <3> HIDE DEF name
    <3>4. Append(name, 0) \in Seq(Nat) /\ Len(Append(name, 0)) = Len(name) + 1
      BY <3>3, AppendLemma
    <3>5. /\ Len(t.bytes) = 4 * cell_len(Len(name) + 1)
          /\ Len(t.bytes) >= Len(Append(name, 0))
          /\ \A i \in 1..Len(Append(name, 0)) : t.bytes[i] = Append(name, 0)[i]
      BY <3>1, <3>4, PaddedLemma
    <3>6. Holds(dt_struct, t.at + 4, Append(name, 0))
      <4>1. Len(Append(name, 0)) \in Nat
        BY <3>3, <3>4
      <4> QED BY <1>3, <1>4, <3>5, <4>1, HoldsPrefix
    <3>7. t.at + 4 \in Nat /\ t.at + 4 >= 1
      BY <1>3
    <3>8. strlen(t.at + 4) = Len(name)
      BY <1>1, <3>1, <3>3, <3>6, <3>7, ReadString
    <3>9. fdt_next_token(t.at) = Valid(t.at + 4 + 4 * cell_len(strlen(t.at + 4) + 1))
      BY <1>6, <2>2, NextTokenCases
    <3> QED BY <3>5, <3>8, <3>9
  <2>3. CASE t.is = FDT_PROP
    <3> DEFINE val == tree[t.nodes].props[t.props].val
    <3>1. /\ t.nodes \in DOMAIN tree /\ t.props \in DOMAIN tree[t.nodes].props
          /\ \E j \in DOMAIN Strings : t.bytes = Cell(Len(val)) \o (Cell(j - 1) \o Padded(val))
      BY <1>5, <2>3, Zenon DEF BytesOf
    <3>2. PICK j \in DOMAIN Strings : t.bytes = Cell(Len(val)) \o (Cell(j - 1) \o Padded(val))
      BY <3>1
    <3>3. t.nodes \in 1..Len(tree) /\ t.props \in 1..Len(tree[t.nodes].props)
      <4>1. t.nodes \in 1..Len(tree)
        BY <1>1, <3>1, ElemLemma
      <4> QED BY <1>1, <3>1, <4>1, NodeLemma
    <3>4. val \in Seq(Nat) /\ Len(val) \in Nat /\ j - 1 \in Nat
      <4>1. tree[t.nodes].props[t.props] \in PropRecord
        BY <1>1, <3>3, NodeLemma
      <4>2. val \in Seq(Nat)
        BY <4>1 DEF PropRecord
      <4>3. DOMAIN Strings = 1..Len(Strings) /\ Len(Strings) \in Nat
        BY BlobAssumption, ElemLemma
      <4>4. j - 1 \in Nat
        BY <4>3
      <4> QED BY <4>2, <4>4, ElemLemma
    <3> HIDE DEF val
    <3>5. /\ Cell(Len(val)) \in Seq(Nat) /\ Len(Cell(Len(val))) = 4
          /\ Cell(j - 1) \in Seq(Nat) /\ Len(Cell(j - 1)) = 4
          /\ Padded(val) \in Seq(Nat) /\ Len(Padded(val)) = 4 * cell_len(Len(val))
      BY <3>4, CellLemma, PaddedLemma
    <3>6. Cell(j - 1) \o Padded(val) \in Seq(Nat) /\ Len(Cell(j - 1) \o Padded(val)) = 4 + Len(Padded(val))
      BY <3>5, JoinBytes
    <3>7. Len(t.bytes) = 4 + Len(Cell(j - 1) \o Padded(val))
      BY <3>2, <3>5, <3>6, JoinBytes
    <3>8. Holds(dt_struct, t.at + 4, Cell(Len(val)))
      <4>1. Holds(dt_struct, t.at + 4, Cell(Len(val)) \o (Cell(j - 1) \o Padded(val)))
        BY <1>4, <3>2
      <4>2. t.at + 4 \in Nat /\ dt_struct \in Seq(Nat)
        BY <1>1, <1>3 DEF Blob
      <4> QED BY <3>5, <3>6, <4>1, <4>2, HoldsFront
    <3>9. be32toh(t.at + 4) = Len(val)
      <4>1. t.at + 4 \in Nat /\ t.at + 4 >= 1
        BY <1>3
      <4> QED BY <1>1, <3>4, <3>8, <4>1, ReadCell
    <3>10. cell_len(Len(val)) \in Nat
      BY <3>4 DEF cell_len
    <3>11. t.at + 4 + 4 * (2 + cell_len(Len(val))) = t.at + 4 + Len(t.bytes)
      BY <1>3, <3>5, <3>6, <3>7, <3>10
    <3>12. fdt_next_token(t.at) = Valid(t.at + 4 + 4 * (2 + cell_len(fdt_prop_val_len(t.at))))
      BY <1>6, <2>3, NextTokenCases
    <3> QED BY <3>9, <3>11, <3>12 DEF fdt_prop_val_len
  <2> QED BY <1>3, <1>8, <2>1, <2>2, <2>3 DEF Kind
<1>9. ASSUME k < Len(tokens) PROVE fdt_next_token(t.at) = tokens[k + 1].at
  <2>1. k + 1 \in 1..Len(tokens) /\ k # Len(tokens)
    BY <1>1, <1>9
  <2>2. t.is # FDT_END
    BY <1>2, <2>1 DEF BlobInv, Layout, t
  <2>3. tokens[k + 1].at = t.at + 4 + Len(t.bytes)
    <3>1. k + 1 \in DOMAIN tokens
      BY <1>2, <2>1, Zenon
    <3>2. Place(k + 1) = tokens[k + 1].at
      BY <3>1, Zenon DEF Place
    <3> QED BY <1>4, <3>2, Zenon
  <2>4. tokens[k + 1].at \in Nat /\ tokens[k + 1].at >= 1 /\ tokens[k + 1].is \in Nat
        /\ Holds(dt_struct, tokens[k + 1].at, Cell(tokens[k + 1].is))
    BY <1>1, <1>2, <2>1, TokenLemma DEF BlobInv, Layout
  <2>5. tokens[k + 1].at + 3 <= Len(dt_struct)
    BY <1>1, <2>4, ReadCell
  <2>6. Valid(tokens[k + 1].at) = tokens[k + 1].at
    BY <1>2, <2>4, <2>5 DEF Valid, fdt_struct_ptr_invalid
  <2> QED BY <1>8, <2>2, <2>3, <2>6
<1>10. t.is = FDT_END => fdt_next_token(t.at) = NULL
  <2>1. FDT_END \notin {FDT_NOP, FDT_END_NODE, FDT_BEGIN_NODE, FDT_PROP}
    BY KindsDiffer
  <2>2. t.is = FDT_END => fdt_next_token(t.at) = Valid(NULL)
    BY <1>6, <2>1, NextTokenCases
  <2>3. Valid(NULL) = NULL
    BY DEF Valid, NULL
  <2> QED BY <2>2, <2>3
<1> QED BY <1>1, <1>6, <1>7, <1>9, <1>10 DEF t

\* What holds on the way of a loop over tokens holds where it ends.
LEMMA SeekRule ==
  ASSUME Blob, NEW skip, NEW want, NEW token \in Pointer,
         NEW I \in SUBSET Pointer, token \in I,
         \A t \in I : t # NULL /\ be32toh(t) \in skip => fdt_next_token(t) \in I
  PROVE  \E t \in I : /\ t = NULL \/ be32toh(t) \notin skip
                      /\ Seek(token, skip, want) = IF t # NULL /\ be32toh(t) = want THEN t ELSE NULL
<1> DEFINE stop == { t \in Pointer : t = NULL \/ be32toh(t) \notin skip }
           val == [t \in Pointer |-> IF t # NULL /\ be32toh(t) = want THEN t ELSE NULL]
           next == [t \in Pointer |-> fdt_next_token(t)]
           rank == [t \in Pointer |-> IF t = NULL THEN 0 ELSE Len(dt_struct) + 1 - t]
           n == Len(dt_struct)
           Is(seek) == seek = [t \in Pointer |->
             IF t # NULL /\ be32toh(t) \in skip THEN seek[fdt_next_token(t)]
             ELSE IF t # NULL /\ be32toh(t) = want THEN t
             ELSE NULL]
<1>1. n \in Nat /\ Descends(Pointer, stop, next, rank, n)
  <2>1. n \in Nat
    BY DEF Blob
  <2>2. rank \in [Pointer -> 0..n]
    BY <2>1 DEF Pointer, NULL
  <2>3. ASSUME NEW x \in Pointer, x \notin stop PROVE next[x] \in Pointer /\ rank[next[x]] < rank[x]
    <3>1. x # NULL
      BY <2>3
    <3>2. fdt_next_token(x) \in Pointer /\ (fdt_next_token(x) # NULL => fdt_next_token(x) > x)
      BY <3>1, NextTokenLemma
    <3> QED BY <2>1, <3>1, <3>2 DEF Pointer, NULL
  <2> QED BY <2>1, <2>2, <2>3 DEF Descends
<1>2. \A f : Is(f) <=> Loop(f, Pointer, stop, val, next)
  BY Zenon DEF Loop
<1> DEFINE f == CHOOSE f : Is(f)
<1>3. Loop(f, Pointer, stop, val, next)
  <2> HIDE DEF stop, val, next, rank, n, Is
  <2>1. \E g : Is(g)
    BY <1>1, <1>2, LoopExists, Zenon
  <2>2. Is(f)
    BY <2>1, Zenon
  <2> QED BY <1>2, <2>2, Zenon
<1>4. Seek(token, skip, want) = f[token]
  BY Zenon DEF Seek, Is
<1>5. \A y \in I : y \notin stop => next[y] \in I
  OBVIOUS
<1>6. \E t \in I : t \in stop /\ f[token] = val[t]
  <2> HIDE DEF stop, val, next, rank, n, f
  <2> QED BY <1>1, <1>3, <1>5, LoopRule
<1> HIDE DEF f
<1> QED BY <1>4, <1>6

-----------------------------------------------------------------------------
(***************************************************************************)
(* In a complete block.                                                    *)
(***************************************************************************)
\* A complete block has a root node.
Rooted == complete => tree # <<>>

\* What a producer chooses once.
Given ==
  /\ kind \in Kinds
  /\ reserve \in kind.reserves
  /\ mem_rsvmap = FlattenSeq([k \in DOMAIN reserve.entries |->
                                Cell64(reserve.entries[k].address) \o
                                Cell64(reserve.entries[k].size)]) \o reserve.tail

\* The values of a list of properties are values of their names, and bytes.
ValuesIn(props) ==
  \A p \in 1..Len(props) : props[p].val \in Values(props[p].name) /\ props[p].val \in Seq(0..255)

SideInv == Given /\ Rooted /\ \A n \in 1..Len(tree) : ValuesIn(tree[n].props)

\* A step that leaves the reservation block and the kind alone keeps the choice.
LEMMA GivenKept ==
  ASSUME Given, kind' = kind, reserve' = reserve, mem_rsvmap' = mem_rsvmap
  PROVE  Given'
BY DEF Given

\* A node has no properties when it begins.
LEMMA BeginNodeKeepsValues ==
  ASSUME BlobInv, NEW name, BeginNode(name), \A n \in 1..Len(tree) : ValuesIn(tree[n].props)
  PROVE  \A n \in 1..Len(tree') : ValuesIn(tree'[n].props)
<1> DEFINE node == [at |-> Here, name |-> name, props |-> <<>>, above |-> open]
<1>1. tree \in Seq(NodeRecord) /\ Len(tree) \in Nat /\ tree' = Append(tree, node)
  BY NowLemma DEF BeginNode
<1>2. node.props = <<>>
  OBVIOUS
<1> HIDE DEF node
<1>3. /\ Len(tree') = Len(tree) + 1 /\ tree'[Len(tree) + 1] = node
      /\ \A n \in 1..Len(tree) : tree'[n] = tree[n]
  BY <1>1
<1>4. ValuesIn(node.props)
  BY <1>2 DEF ValuesIn
<1>5. \A n \in 1..Len(tree') : n \in 1..Len(tree) \/ n = Len(tree) + 1
  BY <1>1, <1>3
<1> QED BY <1>3, <1>4, <1>5

\* A new property has one of the values of its name.
LEMMA PropertyKeepsValues ==
  ASSUME BlobInv, NEW k \in DOMAIN Strings, NEW val \in Values(Strings[k]), Property(k, val),
         \A n \in 1..Len(tree) : ValuesIn(tree[n].props)
  PROVE  \A n \in 1..Len(tree') : ValuesIn(tree'[n].props)
<1> DEFINE n == Head(open)
           P == Len(tree[n].props)
           prop == [at |-> Here, name |-> Strings[k], val |-> val]
<1>1. val \in Seq(0..255) /\ val \in Seq(Nat)
  BY BlobAssumption, ByteSeqs
<1>2. prop.val = val /\ prop.name = Strings[k]
  OBVIOUS
<1>3. /\ n \in 1..Len(tree) /\ P \in Nat /\ Len(tree') = Len(tree)
      /\ \A m \in 1..Len(tree) : m # n => tree'[m] = tree[m]
      /\ tree'[n].props = Append(tree[n].props, prop) /\ Len(tree'[n].props) = P + 1
      /\ tree'[n].props[P + 1] = prop
      /\ \A p \in 1..P : tree'[n].props[p] = tree[n].props[p]
  BY <1>1, PropertyTree
<1> HIDE DEF n, prop
<1>4. ValuesIn(tree'[n].props)
  <2> SUFFICES ASSUME NEW p \in 1..(P + 1)
               PROVE  LET q == tree'[n].props[p] IN q.val \in Values(q.name) /\ q.val \in Seq(0..255)
    BY <1>3, Zenon DEF ValuesIn
  <2>1. CASE p = P + 1
    BY <1>1, <1>2, <1>3, <2>1, Zenon
  <2>2. CASE p # P + 1
    <3>1. p \in 1..P
      BY <1>3, <2>2
    <3>2. tree'[n].props[p] = tree[n].props[p] /\ ValuesIn(tree[n].props)
      BY <1>3, <3>1, Zenon
    <3> QED BY <3>1, <3>2, Zenon DEF ValuesIn
  <2> QED BY <2>1, <2>2
<1> QED BY <1>3, <1>4

\* What the producer writes holds only values it was given, in the properties
\* of their names, and what it chose at the beginning it keeps.
THEOREM SideInvariant == Spec => []SideInv
<1> DEFINE V == \A n \in 1..Len(tree) : ValuesIn(tree[n].props)
<1>1. Init => SideInv
  <2> SUFFICES ASSUME Init PROVE SideInv
    OBVIOUS
  <2>1. Given
    BY Zenon DEF Init, Given
  <2>2. Rooted
    BY DEF Init, Rooted
  <2>3. V
    BY DEF Init
  <2> QED BY <2>1, <2>2, <2>3 DEF SideInv
<1>2. BlobInv /\ SideInv /\ [Next]_blobVars => SideInv'
  <2> SUFFICES ASSUME BlobInv, Given, Rooted, V, [Next]_blobVars PROVE Given' /\ Rooted' /\ V'
    BY DEF SideInv
  <2>1. CASE UNCHANGED blobVars
    <3>1. /\ kind' = kind /\ reserve' = reserve /\ mem_rsvmap' = mem_rsvmap /\ tree' = tree
          /\ complete' = complete
      BY <2>1 DEF blobVars, resvVars
    <3> QED BY <3>1, GivenKept, Zenon DEF Rooted
  <2>2. ASSUME NEW name \in kind.unitNames \cup {<<>>}, BeginNode(name) PROVE Given' /\ Rooted' /\ V'
    <3>1. kind' = kind /\ reserve' = reserve /\ mem_rsvmap' = mem_rsvmap
      BY <2>2 DEF BeginNode, resvVars
    <3>2. Rooted'
      BY <2>2, Zenon DEF BeginNode, Rooted
    <3> QED BY <2>2, <3>1, <3>2, GivenKept, BeginNodeKeepsValues
  <2>3. ASSUME NEW k \in DOMAIN Strings, NEW val \in Values(Strings[k]), Property(k, val)
        PROVE  Given' /\ Rooted' /\ V'
    <3>1. kind' = kind /\ reserve' = reserve /\ mem_rsvmap' = mem_rsvmap
      BY <2>3 DEF Property, resvVars
    <3>2. Rooted'
      BY <2>3, Zenon DEF Property, Rooted
    <3> QED BY <2>3, <3>1, <3>2, GivenKept, PropertyKeepsValues
  <2>4. CASE Nop
    <3>1. kind' = kind /\ reserve' = reserve /\ mem_rsvmap' = mem_rsvmap /\ tree' = tree
      BY <2>4 DEF Nop, resvVars
    <3>2. Rooted'
      BY <2>4, Zenon DEF Nop, Rooted
    <3> QED BY <3>1, <3>2, GivenKept
  <2>5. CASE EndNode
    <3>1. kind' = kind /\ reserve' = reserve /\ mem_rsvmap' = mem_rsvmap /\ tree' = tree
      BY <2>5 DEF EndNode, resvVars
    <3>2. Rooted'
      BY <2>5, Zenon DEF EndNode, Rooted
    <3> QED BY <3>1, <3>2, GivenKept
  <2>6. CASE End
    <3>1. kind' = kind /\ reserve' = reserve /\ mem_rsvmap' = mem_rsvmap /\ tree' = tree
      BY <2>6 DEF End, resvVars
    <3>2. Rooted'
      BY <2>6, Zenon DEF End, Rooted
    <3> QED BY <3>1, <3>2, GivenKept
  <2> QED BY <2>1, <2>2, <2>3, <2>4, <2>5, <2>6 DEF Next
<1> QED BY <1>1, <1>2, BlobInvariant, PTL DEF Spec

Done == BlobInv /\ SideInv /\ complete

\* FDT_END is the last token and no other.
LEMMA LastToken ==
  ASSUME Done, NEW k \in DOMAIN tokens
  PROVE  tokens[k].is = FDT_END <=> k = Len(tokens)
BY Zenon DEF Done, BlobInv, Layout

\* What a complete block gives: the invariant, a token and a node.
LEMMA DoneInv ==
  ASSUME Done
  PROVE  BlobInv /\ tokens # <<>> /\ tree # <<>>
BY Zenon DEF Done, SideInv, Rooted, BlobInv, Layout

\* What a complete block gives: the choices and the values.
LEMMA DoneSide ==
  ASSUME Done
  PROVE  Given /\ \A n \in 1..Len(tree) : ValuesIn(tree[n].props)
BY Zenon DEF Done, SideInv

\* The tokens are the records of the history, in order, and FDT_END is the last.
LEMMA Tokens ==
  ASSUME Done, NEW k \in 1..Len(tokens)
  PROVE  /\ Len(tokens) \in Nat /\ tokens[k].is \in Kind
         /\ tokens[k].at \in Pointer /\ tokens[k].at # NULL
         /\ be32toh(tokens[k].at) = tokens[k].is
         /\ tokens[k].is = FDT_END <=> k = Len(tokens)
         /\ tokens[k].is # FDT_END => /\ fdt_next_token(tokens[k].at) = tokens[k + 1].at
                                      /\ k + 1 \in 1..Len(tokens) /\ Before(k + 1) = tokens[k]
         /\ tokens[k].is = FDT_END => fdt_next_token(tokens[k].at) = NULL
         /\ StepOf(tree, Before(k), tokens[k]) /\ BytesOf(tree, tokens[k])
<1>0. BlobInv
  BY DoneInv
<1>1. tokens \in Seq(TokenRecord) /\ Len(tokens) \in Nat /\ DOMAIN tokens = 1..Len(tokens)
  BY <1>0, ElemLemma DEF BlobInv, BlobTypes
<1>2. tokens[k].is \in Kind
  BY <1>1, TokenLemma
<1>3. tokens[k].is = FDT_END <=> k = Len(tokens)
  <2>1. k \in DOMAIN tokens
    BY <1>1
  <2> QED BY <2>1, LastToken
<1>4. StepOf(tree, Before(k), tokens[k]) /\ BytesOf(tree, tokens[k])
  BY <1>0, <1>1 DEF BlobInv, Steps, Contents
<1>5. /\ tokens[k].at \in Pointer /\ tokens[k].at # NULL
      /\ be32toh(tokens[k].at) = tokens[k].is
      /\ k < Len(tokens) => fdt_next_token(tokens[k].at) = tokens[k + 1].at
      /\ tokens[k].is = FDT_END => fdt_next_token(tokens[k].at) = NULL
  BY <1>0, TokenRead
<1>6. k # Len(tokens) => k < Len(tokens) /\ k + 1 \in 1..Len(tokens) /\ k + 1 # 1 /\ k + 1 - 1 = k
  <2>1. Len(tokens) \in Nat
    BY <1>1
  <2> QED BY <2>1
<1>7. k # Len(tokens) => Before(k + 1) = tokens[k]
  BY <1>6 DEF Before
<1>8. tokens[k].is # FDT_END => /\ fdt_next_token(tokens[k].at) = tokens[k + 1].at
                                /\ k + 1 \in 1..Len(tokens) /\ Before(k + 1) = tokens[k]
  BY <1>3, <1>5, <1>6, <1>7, Zenon
<1> QED BY <1>1, <1>2, <1>3, <1>4, <1>5, <1>8, Zenon

\* The place of a property.
PropPlace(n, p) == IF p \in DOMAIN tree[n].props THEN tree[n].props[p].at ELSE NULL

\* From the token of a node or property the loop over NOPs comes to the next
\* property of the node, or to NULL.
LEMMA PropSeek ==
  ASSUME Done, NEW i \in 1..Len(tokens), tokens[i].is \in {FDT_BEGIN_NODE, FDT_PROP}
  PROVE  Seek(fdt_next_token(tokens[i].at), {FDT_NOP}, FDT_PROP)
           = PropPlace(tokens[i].nodes, tokens[i].props + 1)
<1> DEFINE n == tokens[i].nodes
           p == tokens[i].props
           J == { j \in 1..Len(tokens) : Before(j).nodes = n /\ Before(j).props = p }
           I == { tokens[j].at : j \in J }
<1>0. BlobInv
  BY DoneInv
<1>1. Blob
  BY <1>0, TokenRead
<1>2. /\ fdt_next_token(tokens[i].at) = tokens[i + 1].at /\ i + 1 \in 1..Len(tokens)
      /\ Before(i + 1) = tokens[i]
  BY Tokens, KindsDiffer
<1>3. I \in SUBSET Pointer
  BY Tokens
<1>4. tokens[i + 1].at \in I
  BY <1>2
<1>5. ASSUME NEW t \in I, t # NULL, be32toh(t) \in {FDT_NOP} PROVE fdt_next_token(t) \in I
  <2>1. PICK j \in J : t = tokens[j].at
    OBVIOUS
  <2>2. tokens[j].is = FDT_NOP
    BY <1>5, <2>1, Tokens
  <2>3. fdt_next_token(t) = tokens[j + 1].at /\ j + 1 \in 1..Len(tokens) /\ Before(j + 1) = tokens[j]
    BY <2>1, <2>2, Tokens, KindsDiffer
  <2>4. StepOf(tree, Before(j), tokens[j])
    BY Tokens
  <2>5. tokens[j].nodes = n /\ tokens[j].props = p
    BY <2>1, <2>2, <2>4, KindsDiffer DEF StepOf
  <2> QED BY <2>3, <2>5
<1> HIDE DEF I
<1>6. PICK t \in I : /\ t = NULL \/ be32toh(t) \notin {FDT_NOP}
                     /\ Seek(tokens[i + 1].at, {FDT_NOP}, FDT_PROP)
                          = IF t # NULL /\ be32toh(t) = FDT_PROP THEN t ELSE NULL
  <2>1. tokens[i + 1].at \in Pointer
    BY <1>2, Tokens
  <2> QED BY <1>1, <1>3, <1>4, <1>5, <2>1, SeekRule
<1>7. PICK j \in J : t = tokens[j].at
  BY DEF I
<1>8. /\ t # NULL /\ be32toh(t) = tokens[j].is /\ tokens[j].is \in Kind
      /\ StepOf(tree, Before(j), tokens[j]) /\ BytesOf(tree, tokens[j])
  BY <1>7, Tokens
<1>9. n \in 1..Len(tree) /\ DOMAIN tree[n].props = 1..Len(tree[n].props) /\ Len(tree[n].props) \in Nat
  <2>1. BytesOf(tree, tokens[i])
    BY Tokens
  <2>2. n \in DOMAIN tree
    BY <2>1, Zenon DEF BytesOf
  <2>3. tree \in Seq(NodeRecord)
    BY <1>0 DEF BlobInv, BlobTypes
  <2>4. n \in 1..Len(tree)
    BY <2>2, <2>3, ElemLemma
  <2> QED BY <2>3, <2>4, NodeLemma
<1>10. p \in Nat
  BY <1>0, TokenLemma DEF BlobInv, BlobTypes
<1>11. Before(j).nodes = n /\ Before(j).props = p
  BY <1>7
<1> HIDE DEF n, p
<1>12. CASE tokens[j].is = FDT_PROP
  <2>1. tokens[j].nodes = n /\ tokens[j].props = p + 1
    BY <1>8, <1>11, <1>12, KindsDiffer DEF StepOf
  <2>2. p + 1 \in DOMAIN tree[n].props /\ tree[n].props[p + 1].at = t
    BY <1>7, <1>8, <1>12, <2>1 DEF BytesOf
  <2>3. Seek(tokens[i + 1].at, {FDT_NOP}, FDT_PROP) = t
    BY <1>6, <1>8, <1>12
  <2> QED BY <1>2, <2>2, <2>3 DEF PropPlace, n, p
<1>13. CASE tokens[j].is # FDT_PROP
  <2>1. tokens[j].is \in {FDT_BEGIN_NODE, FDT_END_NODE, FDT_END}
    BY <1>6, <1>8, <1>13 DEF Kind
  <2>2. p = NumProps(tree, n)
    BY <1>8, <1>11, <2>1 DEF StepOf
  <2>3. p + 1 \notin DOMAIN tree[n].props
    BY <1>9, <2>2 DEF NumProps
  <2>4. Seek(tokens[i + 1].at, {FDT_NOP}, FDT_PROP) = NULL
    BY <1>6, <1>8, <1>13
  <2> QED BY <1>2, <2>3, <2>4 DEF PropPlace, n, p
<1> QED BY <1>12, <1>13

\* The tree of a complete block.
LEMMA Tree ==
  ASSUME Done
  PROVE  /\ BlobInv /\ Blob
         /\ tree \in Seq(NodeRecord) /\ Len(tree) \in Nat /\ Nodes = 1..Len(tree)
         /\ tokens \in Seq(TokenRecord) /\ Len(tokens) \in Nat
         /\ DOMAIN tokens = 1..Len(tokens) /\ 1 \in 1..Len(tokens) /\ 1 \in Nodes
<1>1. BlobInv /\ tokens # <<>> /\ tree # <<>>
  BY DoneInv
<1>2. Blob /\ tree \in Seq(NodeRecord) /\ tokens \in Seq(TokenRecord)
  BY <1>1 DEF BlobInv, BlobTypes, Blob
<1>3. Len(tree) \in Nat /\ Nodes = 1..Len(tree)
  BY <1>2, ElemLemma DEF Nodes
<1>4. Len(tokens) \in Nat /\ DOMAIN tokens = 1..Len(tokens)
  BY <1>2, ElemLemma
<1>5. 1 \in 1..Len(tokens)
  BY <1>1, <1>2
<1>6. 1 \in 1..Len(tree)
  BY <1>1, <1>2
<1> QED BY <1>1, <1>2, <1>3, <1>4, <1>5, <1>6, Zenon

\* The token of node n.
IsToken(i, n) ==
  /\ i \in 1..Len(tokens)
  /\ tokens[i].is = FDT_BEGIN_NODE /\ tokens[i].nodes = n /\ tokens[i].props = 0
  /\ tokens[i].at = At(n) /\ tokens[i].open = Line(tree, n)
  /\ Before(i).open = Ancestors(n)

\* Every node has its token.
LEMMA NodeToken ==
  ASSUME Done, NEW n \in Nodes
  PROVE  \E i : IsToken(i, n)
<1>1. Begins(tokens, n)
  BY Tree DEF BlobInv, Written, Nodes
<1>2. PICK i \in DOMAIN tokens : tokens[i].is = FDT_BEGIN_NODE /\ tokens[i].nodes = n
  BY <1>1 DEF Begins
<1>3. i \in 1..Len(tokens)
  BY Tree
<1>4. StepOf(tree, Before(i), tokens[i]) /\ BytesOf(tree, tokens[i])
  BY <1>3, Tokens
<1>5. tokens[i].at = At(n)
  BY <1>2, <1>4, Zenon DEF BytesOf, At
<1>6. tokens[i].props = 0 /\ tokens[i].open = Line(tree, n) /\ Before(i).open = Ancestors(n)
  BY <1>2, <1>4 DEF StepOf, Line, Ancestors
<1> QED BY <1>2, <1>3, <1>5, <1>6 DEF IsToken

\* The token of property p of node n.
IsPropToken(i, n, p) ==
  /\ i \in 1..Len(tokens)
  /\ tokens[i].is = FDT_PROP /\ tokens[i].nodes = n /\ tokens[i].props = p
  /\ tokens[i].at = tree[n].props[p].at

\* Every property has its token.
LEMMA PropertyToken ==
  ASSUME Done, NEW n \in Nodes, NEW p \in DOMAIN tree[n].props
  PROVE  \E i : IsPropToken(i, n, p)
<1>1. Gives(tokens, n, p)
  <2>1. Written
    BY Tree DEF BlobInv
  <2> QED BY <2>1, Zenon DEF Written, Nodes
<1>2. PICK i \in DOMAIN tokens : tokens[i].is = FDT_PROP /\ tokens[i].nodes = n /\ tokens[i].props = p
  BY <1>1 DEF Gives
<1>3. i \in 1..Len(tokens)
  BY Tree
<1>4. BytesOf(tree, tokens[i])
  BY <1>3, Tokens
<1>5. tokens[i].at = tree[n].props[p].at
  BY <1>2, <1>4, Zenon DEF BytesOf
<1> QED BY <1>2, <1>3, <1>5, Zenon DEF IsPropToken

\* The iterator over properties, for one node.
LEMMA PropsRead ==
  ASSUME Done, NEW n \in Nodes
  PROVE  /\ fdt_node_prop_begin(At(n)) = PropPlace(n, 1)
         /\ \A p \in DOMAIN tree[n].props : fdt_node_next_prop(tree[n].props[p].at) = PropPlace(n, p + 1)
<1>1. fdt_node_prop_begin(At(n)) = PropPlace(n, 1)
  <2>1. PICK i : IsToken(i, n)
    BY NodeToken
  <2>2. Seek(fdt_next_token(tokens[i].at), {FDT_NOP}, FDT_PROP)
          = PropPlace(tokens[i].nodes, tokens[i].props + 1)
    BY <2>1, PropSeek DEF IsToken
  <2>3. tokens[i].at = At(n) /\ tokens[i].nodes = n /\ tokens[i].props + 1 = 1
    BY <2>1 DEF IsToken
  <2> QED BY <2>2, <2>3 DEF fdt_node_prop_begin
<1>2. ASSUME NEW p \in DOMAIN tree[n].props
      PROVE  fdt_node_next_prop(tree[n].props[p].at) = PropPlace(n, p + 1)
  <2>1. PICK i : IsPropToken(i, n, p)
    BY PropertyToken
  <2>2. Seek(fdt_next_token(tokens[i].at), {FDT_NOP}, FDT_PROP)
          = PropPlace(tokens[i].nodes, tokens[i].props + 1)
    BY <2>1, PropSeek DEF IsPropToken
  <2> QED BY <2>1, <2>2 DEF fdt_node_next_prop, IsPropToken
<1> QED BY <1>1, <1>2

\* The walk over the properties of a node meets all of them in order, and
\* nothing else, whatever the values look like.
THEOREM PropsTheorem == Spec => []PropsExact
<1>1. BlobInv /\ SideInv => PropsExact
  <2> SUFFICES ASSUME Done PROVE PropsExact
    BY DEF Done, PropsExact
  <2>1. \A n \in Nodes :
          /\ fdt_node_prop_begin(At(n)) = PropPlace(n, 1)
          /\ \A p \in DOMAIN tree[n].props : fdt_node_next_prop(tree[n].props[p].at) = PropPlace(n, p + 1)
    BY PropsRead
  <2> QED BY <2>1, Zenon DEF PropsExact, PropPlace
<1> QED BY <1>1, BlobInvariant, SideInvariant, PTL

-----------------------------------------------------------------------------
(***************************************************************************)
(* The walk over the nodes.                                                *)
(***************************************************************************)
\* The states of the loop of fdt_next_node, and where it ends.
Seeks == [token : Pointer, increase : Int]

SeekNext(s) ==
  [token    |-> fdt_next_token(s.token),
   increase |-> IF be32toh(s.token) = FDT_END_NODE THEN s.increase - 1 ELSE s.increase]

SeekEnds(s) == s.token = NULL \/ be32toh(s.token) = FDT_BEGIN_NODE

SeekValue(s, depth) ==
  IF s.token = NULL THEN [node |-> NULL, depth |-> depth]
  ELSE [node |-> s.token, depth |-> depth + s.increase]

\* A turn of the loop of fdt_next_node goes forward.
LEMMA SeekNextLemma ==
  ASSUME Blob, NEW s \in Seeks, ~SeekEnds(s)
  PROVE  /\ SeekNext(s) \in Seeks /\ s.token # NULL /\ s.token \in Pointer
         /\ SeekNext(s).token # NULL => SeekNext(s).token > s.token
<1>1. s.token \in Pointer /\ s.token # NULL /\ s.increase \in Int
  BY DEF Seeks, SeekEnds
<1>2. /\ fdt_next_token(s.token) \in Pointer
      /\ fdt_next_token(s.token) # NULL => fdt_next_token(s.token) > s.token
  BY <1>1, NextTokenLemma
<1> QED BY <1>1, <1>2 DEF Seeks, SeekNext

\* The loop of fdt_next_node: what a turn keeps holds where it ends.
LEMMA NextNodeRule ==
  ASSUME Blob, NEW node \in Pointer, node # NULL, NEW depth,
         NEW I \in SUBSET Seeks, [token |-> fdt_next_token(node), increase |-> 1] \in I,
         \A s \in I : ~SeekEnds(s) => SeekNext(s) \in I
  PROVE  \E s \in I : SeekEnds(s) /\ fdt_next_node(node, depth) = SeekValue(s, depth)
<1> DEFINE stop == { s \in Seeks : SeekEnds(s) }
           val == [s \in Seeks |-> SeekValue(s, depth)]
           next == [s \in Seeks |-> SeekNext(s)]
           rank == [s \in Seeks |-> IF s.token = NULL THEN 0 ELSE Len(dt_struct) + 1 - s.token]
           n == Len(dt_struct)
           first == [token |-> fdt_next_token(node), increase |-> 1]
           Is(seek) == seek = [s \in [token : Pointer, increase : Int] |->
             IF s.token = NULL THEN [node |-> NULL, depth |-> depth]
             ELSE IF be32toh(s.token) = FDT_BEGIN_NODE
             THEN [node |-> s.token, depth |-> depth + s.increase]
             ELSE seek[[token    |-> fdt_next_token(s.token),
                        increase |-> IF be32toh(s.token) = FDT_END_NODE THEN s.increase - 1
                                     ELSE s.increase]]]
<1>1. n \in Nat /\ Descends(Seeks, stop, next, rank, n)
  <2>1. n \in Nat
    BY DEF Blob
  <2>2. \A s \in Seeks : s.token \in 0..n
    BY DEF Seeks, Pointer
  <2>3. rank \in [Seeks -> 0..n]
    BY <2>1, <2>2 DEF NULL
  <2>4. ASSUME NEW x \in Seeks, x \notin stop PROVE next[x] \in Seeks /\ rank[next[x]] < rank[x]
    <3>1. ~SeekEnds(x)
      BY <2>4
    <3>2. /\ SeekNext(x) \in Seeks /\ x.token # NULL /\ x.token \in Pointer
          /\ SeekNext(x).token # NULL => SeekNext(x).token > x.token
      BY <3>1, SeekNextLemma
    <3>3. x.token \in 0..n /\ SeekNext(x).token \in 0..n
      BY <2>2, <3>2
    <3> QED BY <2>1, <3>2, <3>3 DEF NULL
  <2> QED BY <2>1, <2>3, <2>4 DEF Descends
<1>2. \A f : Is(f) <=> Loop(f, Seeks, stop, val, next)
  <2> SUFFICES ASSUME NEW f PROVE Is(f) <=> Loop(f, Seeks, stop, val, next)
    OBVIOUS
  <2>1. ASSUME NEW s \in Seeks
        PROVE  (IF s \in stop THEN val[s] ELSE f[next[s]])
                 = IF s.token = NULL THEN [node |-> NULL, depth |-> depth]
                   ELSE IF be32toh(s.token) = FDT_BEGIN_NODE
                   THEN [node |-> s.token, depth |-> depth + s.increase]
                   ELSE f[[token    |-> fdt_next_token(s.token),
                           increase |-> IF be32toh(s.token) = FDT_END_NODE THEN s.increase - 1
                                        ELSE s.increase]]
    <3>1. val[s] = SeekValue(s, depth) /\ next[s] = SeekNext(s) /\ (s \in stop <=> SeekEnds(s))
      OBVIOUS
    <3> HIDE DEF val, next, stop
    <3> QED BY <3>1, Zenon DEF SeekEnds, SeekNext, SeekValue
  <2> HIDE DEF stop, val, next
  <2> QED BY <2>1, Zenon DEF Loop, Seeks
<1> DEFINE f == CHOOSE f : Is(f)
<1>3. Loop(f, Seeks, stop, val, next)
  <2> HIDE DEF stop, val, next, rank, n, Is
  <2>1. \E g : Is(g)
    BY <1>1, <1>2, LoopExists, Zenon
  <2>2. Is(f)
    BY <2>1, Zenon
  <2> QED BY <1>2, <2>2, Zenon
<1>4. fdt_next_node(node, depth) = f[first]
  BY Zenon DEF fdt_next_node, Is
<1>5. \A y \in I : y \notin stop => next[y] \in I
  OBVIOUS
<1>6. \E s \in I : s \in stop /\ f[first] = val[s]
  <2> HIDE DEF stop, val, next, rank, n, f
  <2> QED BY <1>1, <1>3, <1>5, LoopRule
<1> HIDE DEF f
<1> QED BY <1>4, <1>6

\* The walk over the nodes goes forward, in any block.
LEMMA NextNodeLemma ==
  ASSUME Blob, NEW node \in Pointer, node # NULL, NEW depth \in Int
  PROVE  /\ fdt_next_node(node, depth).node \in Pointer
         /\ fdt_next_node(node, depth).node # NULL => fdt_next_node(node, depth).node > node
         /\ fdt_next_node(node, depth).depth \in Int
<1> DEFINE I == { s \in Seeks : s.token = NULL \/ s.token > node }
           first == [token |-> fdt_next_token(node), increase |-> 1]
<1>1. first \in I
  BY NextTokenLemma DEF Seeks
<1>2. ASSUME NEW s \in I, ~SeekEnds(s) PROVE SeekNext(s) \in I
  <2>1. /\ SeekNext(s) \in Seeks /\ s.token # NULL /\ s.token \in Pointer
        /\ SeekNext(s).token # NULL => SeekNext(s).token > s.token
    BY <1>2, SeekNextLemma
  <2>2. s.token > node /\ SeekNext(s).token \in Pointer
    BY <2>1 DEF Seeks
  <2>3. node \in Nat /\ s.token \in Nat /\ SeekNext(s).token \in Nat
    BY <2>1, <2>2 DEF Pointer
  <2> QED BY <2>1, <2>2, <2>3
<1> HIDE DEF I
<1>3. I \in SUBSET Seeks
  BY DEF I
<1>4. PICK s \in I : SeekEnds(s) /\ fdt_next_node(node, depth) = SeekValue(s, depth)
  BY <1>1, <1>2, <1>3, NextNodeRule
<1>5. s.token \in Pointer /\ s.increase \in Int /\ (s.token = NULL \/ s.token > node)
  BY DEF I, Seeks
<1> QED BY <1>4, <1>5 DEF SeekValue

\* One less on both sides of a sum.
LEMMA OneLess ==
  ASSUME NEW a \in Nat, NEW b \in Int, NEW c \in Nat, a + b = c
  PROVE  a + (b - 1) = c - 1
OBVIOUS

\* A token that begins no node.
LEMMA OtherToken ==
  ASSUME Done, NEW j \in 1..Len(tokens), tokens[j].is # FDT_BEGIN_NODE
  PROVE  /\ tokens[j].nodes = Before(j).nodes
         /\ tokens[j].is = FDT_END => Before(j).nodes = Len(tree)
         /\ tokens[j].is = FDT_END_NODE => Len(tokens[j].open) = Len(Before(j).open) - 1
         /\ tokens[j].is # FDT_END_NODE => tokens[j].open = Before(j).open
<1>1. StepOf(tree, Before(j), tokens[j]) /\ tokens[j].is \in Kind
  BY Tokens
<1>2. tokens[j].nodes = Before(j).nodes
  BY <1>1 DEF StepOf
<1>3. tokens[j].is = FDT_END => Before(j).nodes = Len(tree)
  <2> SUFFICES ASSUME tokens[j].is = FDT_END PROVE Before(j).nodes = Len(tree)
    OBVIOUS
  <2>1. j = Len(tokens) /\ Len(tokens) \in Nat
    BY Tokens
  <2>2. Before(Len(tokens) + 1).nodes = Len(tree)
    BY Tree, NowLemma
  <2>3. Before(Len(tokens) + 1) = tokens[j]
    BY <2>1 DEF Before
  <2> QED BY <1>2, <2>2, <2>3
<1>4. tokens[j].is = FDT_END_NODE => Len(tokens[j].open) = Len(Before(j).open) - 1
  <2> SUFFICES ASSUME tokens[j].is = FDT_END_NODE PROVE Len(tokens[j].open) = Len(Before(j).open) - 1
    OBVIOUS
  <2>1. Before(j).open # <<>> /\ tokens[j].open = Tail(Before(j).open)
    BY <1>1 DEF StepOf
  <2>2. Before(j).open \in Seq(Nat)
    <3>1. j \in 1..(Len(tokens) + 1)
      BY Tree
    <3> QED BY <3>1, Tree, BeforeLemma
  <2> QED BY <2>1, <2>2
<1>5. tokens[j].is # FDT_END_NODE => tokens[j].open = Before(j).open
  <2>1. tokens[j].is \in {FDT_PROP, FDT_NOP, FDT_END} => tokens[j].open = Before(j).open
    BY <1>1, KindsDiffer, Zenon DEF StepOf
  <2> QED BY <1>1, <2>1 DEF Kind
<1> QED BY <1>2, <1>3, <1>4, <1>5

\* What was written in front of a token.
LEMMA Lengths ==
  ASSUME Done, NEW j \in 1..Len(tokens)
  PROVE  /\ Len(Before(j).open) \in Nat /\ Len(tokens[j].open) \in Nat
         /\ Before(j).nodes \in 0..Len(tree) /\ tokens[j].nodes \in 0..Len(tree)
<1>1. j \in 1..(Len(tokens) + 1) /\ j + 1 \in 1..(Len(tokens) + 1)
  BY Tree
<1>2. Before(j).open \in Seq(Nat) /\ Before(j).nodes \in 0..Len(tree)
  BY <1>1, Tree, BeforeLemma
<1>3. Before(j + 1) = tokens[j]
  BY <1>1 DEF Before
<1>4. tokens[j].open \in Seq(Nat) /\ tokens[j].nodes \in 0..Len(tree)
  BY <1>1, <1>3, Tree, BeforeLemma
<1> QED BY <1>2, <1>4, ElemLemma

\* The depth of a node, and that it has a place in the block.
LEMMA DepthLemma ==
  ASSUME Done, NEW n \in Nodes
  PROVE  /\ Depth(n) \in Nat /\ Len(Line(tree, n)) = Depth(n) + 1
         /\ At(n) \in Pointer /\ At(n) # NULL
<1>1. n \in 1..Len(tree)
  BY Tree
<1>2. tree[n].above \in Seq(Nat) /\ n \in Nat
  BY <1>1, Tree, NodeLemma
<1>3. Len(<<n>> \o tree[n].above) = 1 + Len(tree[n].above)
  <2>1. <<n>> \in Seq(Nat) /\ Len(<<n>>) = 1
    BY <1>2
  <2> QED BY <1>2, <2>1, JoinBytes
<1>4. Depth(n) \in Nat /\ Len(Line(tree, n)) = Depth(n) + 1
  BY <1>2, <1>3, ElemLemma DEF Depth, Ancestors, Line
<1>5. PICK i : IsToken(i, n)
  BY NodeToken
<1>6. tokens[i].at \in Pointer /\ tokens[i].at # NULL
  BY <1>5, Tokens DEF IsToken
<1> QED BY <1>4, <1>5, <1>6 DEF IsToken

\* A token behind node n and not behind the next one.
Follows(n, s, j) ==
  /\ j \in 1..Len(tokens)
  /\ s.token = tokens[j].at
  /\ Before(j).nodes = n
  /\ Depth(n) + s.increase = Len(Before(j).open)

\* A turn of the loop of fdt_next_node keeps what it knows of the tokens read.
LEMMA FollowsLemma ==
  ASSUME Done, NEW n \in Nodes, NEW s \in Seeks, NEW j, Follows(n, s, j), ~SeekEnds(s)
  PROVE  \/ SeekNext(s).token = NULL /\ n = Len(tree)
         \/ Follows(n, SeekNext(s), j + 1)
<1>1. j \in 1..Len(tokens) /\ s.token = tokens[j].at /\ Before(j).nodes = n
      /\ Depth(n) + s.increase = Len(Before(j).open)
  BY DEF Follows
<1>2. be32toh(s.token) = tokens[j].is /\ tokens[j].is # FDT_BEGIN_NODE
  BY <1>1, Tokens DEF SeekEnds
<1>3. /\ tokens[j].nodes = Before(j).nodes
      /\ tokens[j].is = FDT_END => Before(j).nodes = Len(tree)
      /\ tokens[j].is = FDT_END_NODE => Len(tokens[j].open) = Len(Before(j).open) - 1
      /\ tokens[j].is # FDT_END_NODE => tokens[j].open = Before(j).open
  BY <1>1, <1>2, OtherToken
<1>4. CASE tokens[j].is = FDT_END
  <2>1. fdt_next_token(s.token) = NULL
    BY <1>1, <1>4, Tokens
  <2> QED BY <1>1, <1>3, <1>4, <2>1 DEF SeekNext
<1>5. CASE tokens[j].is # FDT_END
  <2>1. /\ fdt_next_token(s.token) = tokens[j + 1].at
        /\ j + 1 \in 1..Len(tokens) /\ Before(j + 1) = tokens[j]
    BY <1>1, <1>5, Tokens
  <2>2. SeekNext(s).token = tokens[j + 1].at /\ Before(j + 1).nodes = n
    BY <1>1, <1>3, <2>1 DEF SeekNext
  <2>3. Depth(n) + SeekNext(s).increase = Len(Before(j + 1).open)
    <3>1. Depth(n) \in Nat /\ s.increase \in Int
      BY DepthLemma DEF Seeks
    <3>2. Len(tokens[j].open) \in Nat /\ Len(Before(j).open) \in Nat
      BY <1>1, Lengths
    <3>3. CASE tokens[j].is = FDT_END_NODE
      <4>1. SeekNext(s).increase = s.increase - 1
        BY <1>2, <3>3 DEF SeekNext
      <4>2. Len(Before(j + 1).open) = Len(Before(j).open) - 1
        BY <1>3, <2>1, <3>3
      <4>3. Depth(n) + s.increase = Len(Before(j).open)
        BY <1>1
      <4>4. Depth(n) + (s.increase - 1) = Len(Before(j).open) - 1
        BY <3>1, <3>2, <4>3, OneLess
      <4> QED BY <4>1, <4>2, <4>4
    <3>4. CASE tokens[j].is # FDT_END_NODE
      <4>1. SeekNext(s).increase = s.increase
        BY <1>2, <3>4 DEF SeekNext
      <4> QED BY <1>1, <1>3, <2>1, <3>4, <4>1
    <3> QED BY <3>3, <3>4
  <2> QED BY <2>1, <2>2, <2>3 DEF Follows
<1> QED BY <1>4, <1>5

\* fdt_next_node goes to the next node, and knows how much deeper it is.
LEMMA NextNodeExact ==
  ASSUME Done, NEW n \in Nodes, NEW d \in Int
  PROVE  /\ fdt_next_node(At(n), d).node = At(n + 1)
         /\ n + 1 \in Nodes => fdt_next_node(At(n), d).depth = d + Depth(n + 1) - Depth(n)
         /\ n + 1 \notin Nodes => fdt_next_node(At(n), d).depth = d
<1> DEFINE I == { s \in Seeks : \/ s.token = NULL /\ n = Len(tree)
                                \/ \E j : Follows(n, s, j) }
           first == [token |-> fdt_next_token(At(n)), increase |-> 1]
<1>1. n \in 1..Len(tree) /\ Len(tree) \in Nat /\ Nodes = 1..Len(tree) /\ Blob
  BY Tree
<1>2. Depth(n) \in Nat /\ Len(Line(tree, n)) = Depth(n) + 1 /\ At(n) \in Pointer /\ At(n) # NULL
  BY DepthLemma
<1>3. first \in I
  <2>1. PICK i : IsToken(i, n)
    BY NodeToken
  <2>2. i \in 1..Len(tokens) /\ tokens[i].is # FDT_END
    BY <2>1, KindsDiffer DEF IsToken
  <2>3. /\ fdt_next_token(tokens[i].at) = tokens[i + 1].at
        /\ i + 1 \in 1..Len(tokens) /\ Before(i + 1) = tokens[i]
    BY <2>2, Tokens
  <2>4. tokens[i].at = At(n) /\ tokens[i].nodes = n /\ tokens[i].open = Line(tree, n)
    BY <2>1 DEF IsToken
  <2>5. first.token = tokens[i + 1].at /\ first.increase = 1
    BY <2>3, <2>4
  <2>6. Follows(n, first, i + 1)
    BY <1>2, <2>3, <2>4, <2>5 DEF Follows
  <2>7. fdt_next_token(At(n)) \in Pointer
    BY <1>1, <1>2, NextTokenLemma
  <2>8. first \in Seeks
    BY <2>7 DEF Seeks
  <2> HIDE DEF first
  <2> QED BY <2>6, <2>8
<1>4. ASSUME NEW s \in I, ~SeekEnds(s) PROVE SeekNext(s) \in I
  <2>1. SeekNext(s) \in Seeks /\ s.token # NULL
    BY <1>1, <1>4, SeekNextLemma
  <2>2. PICK j : Follows(n, s, j)
    BY <2>1
  <2>3. \/ SeekNext(s).token = NULL /\ n = Len(tree)
        \/ Follows(n, SeekNext(s), j + 1)
    BY <1>4, <2>2, FollowsLemma
  <2> QED BY <2>1, <2>3
<1> HIDE DEF I
<1>5. I \in SUBSET Seeks
  BY DEF I
<1>6. PICK s \in I : SeekEnds(s) /\ fdt_next_node(At(n), d) = SeekValue(s, d)
  BY <1>1, <1>2, <1>3, <1>4, <1>5, NextNodeRule
<1>7. CASE s.token = NULL
  <2>1. n = Len(tree)
    <3> SUFFICES ASSUME NEW j, Follows(n, s, j) PROVE FALSE
      BY DEF I
    <3>1. tokens[j].at # NULL /\ s.token = tokens[j].at
      BY Tokens DEF Follows
    <3> QED BY <1>7, <3>1
  <2>2. n + 1 \notin Nodes
    BY <1>1, <2>1
  <2>3. At(n + 1) = NULL
    BY <2>2 DEF At
  <2>4. fdt_next_node(At(n), d).node = NULL /\ fdt_next_node(At(n), d).depth = d
    BY <1>6, <1>7 DEF SeekValue
  <2> QED BY <2>2, <2>3, <2>4
<1>8. CASE s.token # NULL
  <2>1. PICK j : Follows(n, s, j)
    BY <1>8 DEF I
  <2>2. j \in 1..Len(tokens) /\ s.token = tokens[j].at /\ Before(j).nodes = n
        /\ Depth(n) + s.increase = Len(Before(j).open)
    BY <2>1 DEF Follows
  <2>3. tokens[j].is = FDT_BEGIN_NODE /\ StepOf(tree, Before(j), tokens[j]) /\ BytesOf(tree, tokens[j])
    BY <1>6, <1>8, <2>2, Tokens DEF SeekEnds
  <2>4. tokens[j].nodes = n + 1 /\ tree[n + 1].above = Before(j).open
    BY <2>2, <2>3 DEF StepOf
  <2>5. n + 1 \in Nodes /\ tree[n + 1].at = s.token
    BY <2>2, <2>3, <2>4, Zenon DEF BytesOf, Nodes
  <2>6. Depth(n + 1) = Depth(n) + s.increase
    BY <2>2, <2>4 DEF Depth, Ancestors
  <2>7. fdt_next_node(At(n), d).node = s.token /\ fdt_next_node(At(n), d).depth = d + s.increase
    BY <1>6, <1>8 DEF SeekValue
  <2>8. s.increase \in Int
    BY <1>5 DEF Seeks
  <2>9. d + s.increase = d + Depth(n + 1) - Depth(n)
    BY <1>2, <2>6, <2>8
  <2> QED BY <2>5, <2>7, <2>9 DEF At
<1> QED BY <1>7, <1>8

\* The first node is the one fdt_node_begin finds.
LEMMA NodeBegin ==
  ASSUME Done
  PROVE  fdt_node_begin = At(1)
<1> DEFINE skip == {FDT_END_NODE, FDT_PROP, FDT_NOP, FDT_END}
           J == { j \in 1..Len(tokens) : Before(j).nodes = 0 }
           I == { tokens[j].at : j \in J }
<1>1. Blob /\ BlobInv /\ Len(tree) \in Nat /\ Len(tree) # 0 /\ Nodes = 1..Len(tree) /\ 1 \in 1..Len(tokens)
  BY Tree
<1>2. I \in SUBSET Pointer
  BY Tokens
<1>3. fdt_token_begin \in I
  <2>1. Before(1).nodes = 0
    BY DEF Before, Start
  <2>2. Place(1) = 1 /\ 1 \in DOMAIN tokens
    BY <1>1, Tree DEF BlobInv, Layout
  <2>3. tokens[1].at = fdt_token_begin
    BY <2>2 DEF Place, fdt_token_begin
  <2> QED BY <1>1, <2>1, <2>3
<1>4. ASSUME NEW t \in I, t # NULL, be32toh(t) \in skip PROVE fdt_next_token(t) \in I
  <2>1. PICK j \in J : t = tokens[j].at
    OBVIOUS
  <2>2. tokens[j].is # FDT_BEGIN_NODE
    BY <1>4, <2>1, Tokens, KindsDiffer
  <2>3. tokens[j].nodes = Before(j).nodes /\ (tokens[j].is = FDT_END => Before(j).nodes = Len(tree))
    BY <2>2, OtherToken
  <2>4. tokens[j].nodes = 0 /\ tokens[j].is # FDT_END
    BY <1>1, <2>1, <2>3
  <2>5. fdt_next_token(t) = tokens[j + 1].at /\ j + 1 \in 1..Len(tokens) /\ Before(j + 1) = tokens[j]
    BY <2>1, <2>4, Tokens
  <2> QED BY <2>4, <2>5
<1> HIDE DEF I
<1>5. PICK t \in I : /\ t = NULL \/ be32toh(t) \notin skip
                     /\ Seek(fdt_token_begin, skip, FDT_BEGIN_NODE)
                          = IF t # NULL /\ be32toh(t) = FDT_BEGIN_NODE THEN t ELSE NULL
  <2>1. fdt_token_begin \in Pointer
    BY <1>2, <1>3
  <2> HIDE DEF skip
  <2> QED BY <1>1, <1>2, <1>3, <1>4, <2>1, SeekRule
<1>6. PICK j \in J : t = tokens[j].at
  BY DEF I
<1>7. t # NULL /\ tokens[j].is = FDT_BEGIN_NODE /\ be32toh(t) = FDT_BEGIN_NODE
      /\ StepOf(tree, Before(j), tokens[j]) /\ BytesOf(tree, tokens[j])
  <2>1. t # NULL /\ be32toh(t) = tokens[j].is /\ tokens[j].is \in Kind
        /\ StepOf(tree, Before(j), tokens[j]) /\ BytesOf(tree, tokens[j])
    BY <1>6, Tokens
  <2> QED BY <1>5, <2>1 DEF Kind
<1>8. tokens[j].nodes = 1
  BY <1>6, <1>7 DEF StepOf
<1>9. At(1) = t
  BY <1>6, <1>7, <1>8, Zenon DEF BytesOf, At, Nodes
<1> QED BY <1>5, <1>7, <1>9 DEF fdt_node_begin

\* The first node is at depth 0.
LEMMA RootDepth ==
  ASSUME Done
  PROVE  Depth(1) = 0 /\ Ancestors(1) = <<>>
<1>1. 1 \in Nodes /\ 1 \in 1..Len(tree) /\ tree \in Seq(NodeRecord)
  BY Tree
<1>2. Stack(tree[1].above, 0)
  <2>1. Stacks
    BY Tree DEF BlobInv
  <2>2. Stack(tree[1].above, 1 - 1)
    BY <1>1, <2>1 DEF Stacks, Nodes
  <2> QED BY <2>2
<1>3. tree[1].above \in Seq(Nat)
  BY <1>1, NodeLemma
<1>4. \A i \in 1..Len(tree[1].above) : tree[1].above[i] \in 1..0
  BY <1>2 DEF Stack
<1>5. Len(tree[1].above) = 0
  <2> SUFFICES ASSUME Len(tree[1].above) # 0 PROVE FALSE
    OBVIOUS
  <2>1. 1 \in 1..Len(tree[1].above)
    BY <1>3
  <2> QED BY <1>4, <2>1
<1> QED BY <1>3, <1>5 DEF Depth, Ancestors

\* The next node when the depth is that of the node.
LEMMA NextNodeDepth ==
  ASSUME Done, NEW n \in Nodes
  PROVE  /\ fdt_next_node(At(n), Depth(n)).node = At(n + 1)
         /\ n + 1 \in Nodes => fdt_next_node(At(n), Depth(n)).depth = Depth(n + 1)
         /\ n + 1 \notin Nodes => fdt_next_node(At(n), Depth(n)).depth = Depth(n)
<1>1. Depth(n) \in Int /\ (n + 1 \in Nodes => Depth(n + 1) \in Int)
  BY DepthLemma
<1>2. n + 1 \in Nodes => Depth(n) + Depth(n + 1) - Depth(n) = Depth(n + 1)
  BY <1>1
<1> QED BY <1>1, <1>2, NextNodeExact

\* The states of the loop of fdt_max_depth.
Depths == [node : Pointer, depth : Int, max : Int]

DepthNext(s) ==
  LET next == fdt_next_node(s.node, s.depth)
  IN [node |-> next.node, depth |-> next.depth,
      max  |-> IF s.depth > s.max THEN s.depth ELSE s.max]

\* A turn of the loop of fdt_max_depth goes forward.
LEMMA DepthNextLemma ==
  ASSUME Blob, NEW s \in Depths, s.node # NULL
  PROVE  /\ DepthNext(s) \in Depths
         /\ DepthNext(s).node # NULL => DepthNext(s).node > s.node
<1>1. s.node \in Pointer /\ s.depth \in Int /\ s.max \in Int
  BY DEF Depths
<1>2. /\ fdt_next_node(s.node, s.depth).node \in Pointer
      /\ fdt_next_node(s.node, s.depth).node # NULL => fdt_next_node(s.node, s.depth).node > s.node
      /\ fdt_next_node(s.node, s.depth).depth \in Int
  BY <1>1, NextNodeLemma
<1> QED BY <1>1, <1>2 DEF Depths, DepthNext

\* The loop of fdt_max_depth: what a turn keeps holds where it ends.
LEMMA MaxDepthRule ==
  ASSUME Blob, NEW I \in SUBSET Depths, [node |-> fdt_node_begin, depth |-> 0, max |-> 0] \in I,
         \A s \in I : s.node # NULL => DepthNext(s) \in I
  PROVE  \E s \in I : s.node = NULL /\ fdt_max_depth = s.max
<1> DEFINE stop == { s \in Depths : s.node = NULL }
           val == [s \in Depths |-> s.max]
           next == [s \in Depths |-> DepthNext(s)]
           rank == [s \in Depths |-> IF s.node = NULL THEN 0 ELSE Len(dt_struct) + 1 - s.node]
           n == Len(dt_struct)
           first == [node |-> fdt_node_begin, depth |-> 0, max |-> 0]
           Is(deepest) == deepest = [s \in [node : Pointer, depth : Int, max : Int] |->
             IF s.node = NULL THEN s.max
             ELSE LET nxt == fdt_next_node(s.node, s.depth)
                  IN deepest[[node |-> nxt.node, depth |-> nxt.depth,
                              max  |-> IF s.depth > s.max THEN s.depth ELSE s.max]]]
<1>1. n \in Nat /\ Descends(Depths, stop, next, rank, n)
  <2>1. n \in Nat
    BY DEF Blob
  <2>2. \A s \in Depths : s.node \in 0..n
    BY DEF Depths, Pointer
  <2>3. rank \in [Depths -> 0..n]
    BY <2>1, <2>2 DEF NULL
  <2>4. ASSUME NEW x \in Depths, x \notin stop PROVE next[x] \in Depths /\ rank[next[x]] < rank[x]
    <3>1. /\ DepthNext(x) \in Depths /\ x.node # NULL
          /\ DepthNext(x).node # NULL => DepthNext(x).node > x.node
      BY <2>4, DepthNextLemma
    <3>2. x.node \in 0..n /\ DepthNext(x).node \in 0..n
      BY <2>2, <3>1
    <3> QED BY <2>1, <3>1, <3>2 DEF NULL
  <2> QED BY <2>1, <2>3, <2>4 DEF Descends
<1>2. \A f : Is(f) <=> Loop(f, Depths, stop, val, next)
  <2> SUFFICES ASSUME NEW f PROVE Is(f) <=> Loop(f, Depths, stop, val, next)
    OBVIOUS
  <2>1. ASSUME NEW s \in Depths
        PROVE  (IF s \in stop THEN val[s] ELSE f[next[s]])
                 = IF s.node = NULL THEN s.max
                   ELSE LET nxt == fdt_next_node(s.node, s.depth)
                        IN f[[node |-> nxt.node, depth |-> nxt.depth,
                              max  |-> IF s.depth > s.max THEN s.depth ELSE s.max]]
    <3>1. val[s] = s.max /\ next[s] = DepthNext(s) /\ (s \in stop <=> s.node = NULL)
      OBVIOUS
    <3> HIDE DEF val, next, stop
    <3> QED BY <3>1, Zenon DEF DepthNext
  <2> HIDE DEF stop, val, next
  <2> QED BY <2>1, Zenon DEF Loop, Depths
<1> DEFINE f == CHOOSE f : Is(f)
<1>3. Loop(f, Depths, stop, val, next)
  <2> HIDE DEF stop, val, next, rank, n, Is
  <2>1. \E g : Is(g)
    BY <1>1, <1>2, LoopExists, Zenon
  <2>2. Is(f)
    BY <2>1, Zenon
  <2> QED BY <1>2, <2>2, Zenon
<1>4. fdt_max_depth = f[first]
  BY Zenon DEF fdt_max_depth, Is
<1>5. \A y \in I : y \notin stop => next[y] \in I
  OBVIOUS
<1>6. \E s \in I : s \in stop /\ f[first] = val[s]
  <2> HIDE DEF stop, val, next, rank, n, f
  <2> QED BY <1>1, <1>3, <1>5, LoopRule
<1> HIDE DEF f
<1> QED BY <1>4, <1>6

\* max is the largest depth of the nodes in front of node n.
Deepest(n, max) ==
  /\ \A m \in Nodes : m < n => Depth(m) <= max
  /\ max = 0 \/ \E m \in Nodes : Depth(m) = max

\* fdt_max_depth is the depth of the deepest node.
LEMMA MaxDepthExact ==
  ASSUME Done
  PROVE  /\ fdt_max_depth \in Nat
         /\ \A n \in Nodes : Depth(n) <= fdt_max_depth
         /\ \E n \in Nodes : Depth(n) = fdt_max_depth
<1> DEFINE At1(n, s) == /\ n \in 1..(Len(tree) + 1)
                        /\ s.node = At(n)
                        /\ n \in Nodes => s.depth = Depth(n)
                        /\ s.max \in Nat
                        /\ Deepest(n, s.max)
           I == { s \in Depths : \E n : At1(n, s) }
           first == [node |-> fdt_node_begin, depth |-> 0, max |-> 0]
<1>1. Blob /\ Len(tree) \in Nat /\ Nodes = 1..Len(tree) /\ 1 \in Nodes
  BY Tree
<1>2. fdt_node_begin = At(1) /\ At(1) \in Pointer
  BY <1>1, NodeBegin, DepthLemma
<1>3. first \in I
  <2>1. Deepest(1, 0)
    BY <1>1 DEF Deepest
  <2>2. first.node = At(1) /\ first.depth = Depth(1) /\ first.max = 0
    BY <1>2, RootDepth
  <2>3. At1(1, first)
    BY <1>1, <2>1, <2>2
  <2>4. first \in Depths
    BY <1>2 DEF Depths
  <2> HIDE DEF first, At1
  <2> QED BY <2>3, <2>4
<1>4. ASSUME NEW s \in I, s.node # NULL PROVE DepthNext(s) \in I
  <2>1. PICK n : At1(n, s)
    OBVIOUS
  <2>2. n \in Nodes
    BY <1>4, <2>1 DEF At
  <2>3. /\ fdt_next_node(At(n), Depth(n)).node = At(n + 1)
        /\ n + 1 \in Nodes => fdt_next_node(At(n), Depth(n)).depth = Depth(n + 1)
    BY <2>2, NextNodeDepth
  <2>4. s.node = At(n) /\ s.depth = Depth(n) /\ s.max \in Nat /\ Deepest(n, s.max)
    BY <2>1, <2>2
  <2>5. /\ DepthNext(s).node = At(n + 1)
        /\ n + 1 \in Nodes => DepthNext(s).depth = Depth(n + 1)
        /\ DepthNext(s).max = IF Depth(n) > s.max THEN Depth(n) ELSE s.max
    BY <2>3, <2>4 DEF DepthNext
  <2>6. Depth(n) \in Nat
    BY <2>2, DepthLemma
  <2>7. DepthNext(s).max \in Nat /\ DepthNext(s).max >= s.max /\ DepthNext(s).max >= Depth(n)
    BY <2>4, <2>5, <2>6
  <2>8. ASSUME NEW m \in Nodes, m < n + 1 PROVE Depth(m) <= DepthNext(s).max
    <3>1. m < n \/ m = n
      BY <1>1, <2>2, <2>8
    <3>2. m < n => Depth(m) <= s.max
      BY <2>4 DEF Deepest
    <3>3. Depth(m) \in Nat
      BY DepthLemma
    <3> QED BY <2>4, <2>7, <3>1, <3>2, <3>3
  <2>9. DepthNext(s).max = 0 \/ \E m \in Nodes : Depth(m) = DepthNext(s).max
    BY <2>2, <2>4, <2>5 DEF Deepest
  <2>10. n + 1 \in 1..(Len(tree) + 1)
    BY <1>1, <2>2
  <2>11. Deepest(n + 1, DepthNext(s).max)
    BY <2>8, <2>9 DEF Deepest
  <2>12. DepthNext(s) \in Depths
    BY <1>1, <1>4, DepthNextLemma
  <2>13. At1(n + 1, DepthNext(s))
    BY <2>5, <2>7, <2>10, <2>11
  <2> HIDE DEF At1
  <2> QED BY <2>12, <2>13
<1>5. I \in SUBSET Depths
  OBVIOUS
<1> HIDE DEF I
<1>6. PICK s \in I : s.node = NULL /\ fdt_max_depth = s.max
  BY <1>1, <1>3, <1>4, <1>5, MaxDepthRule
<1>7. PICK n : At1(n, s)
  BY DEF I
<1>8. n \notin Nodes
  <2> SUFFICES ASSUME n \in Nodes PROVE FALSE
    OBVIOUS
  <2>1. At(n) # NULL
    BY DepthLemma
  <2> QED BY <1>6, <1>7, <2>1
<1>9. \A m \in Nodes : m < n
  BY <1>1, <1>7, <1>8
<1>10. s.max \in Nat /\ \A m \in Nodes : Depth(m) <= s.max
  BY <1>7, <1>9 DEF Deepest
<1>11. \E m \in Nodes : Depth(m) = s.max
  BY <1>1, <1>7, RootDepth DEF Deepest
<1> QED BY <1>6, <1>10, <1>11

\* The walk over the nodes meets all of them in order, with their depths, and
\* fdt_max_depth is the depth of the deepest.
THEOREM WalkTheorem == Spec => []WalkExact
<1>1. BlobInv /\ SideInv => WalkExact
  <2> SUFFICES ASSUME Done PROVE WalkExact
    BY DEF Done, WalkExact
  <2>1. fdt_node_begin = At(1)
    BY NodeBegin
  <2>2. /\ \A n \in Nodes : Depth(n) <= fdt_max_depth
        /\ \E n \in Nodes : Depth(n) = fdt_max_depth
    BY MaxDepthExact
  <2>3. \A n \in Nodes : /\ fdt_next_node(At(n), Depth(n)).node = At(n + 1)
                         /\ n + 1 \in Nodes => fdt_next_node(At(n), Depth(n)).depth = Depth(n + 1)
                         /\ n + 1 \notin Nodes => fdt_next_node(At(n), Depth(n)).depth = Depth(n)
    BY NextNodeDepth
  <2> QED BY <2>1, <2>2, <2>3, Zenon DEF WalkExact
<1> QED BY <1>1, BlobInvariant, SideInvariant, PTL

-----------------------------------------------------------------------------
(***************************************************************************)
(* The walk over the children.                                             *)
(***************************************************************************)
LEMMA FirstLemma ==
  ASSUME NEW S, NEW x \in S, S \subseteq Nat, \A y \in S : x <= y
  PROVE  First(S) = At(x)
<1>1. (CHOOSE n \in S : \A m \in S : n <= m) \in S
  OBVIOUS
<1>2. \A m \in S : (CHOOSE n \in S : \A m1 \in S : n <= m1) <= m
  OBVIOUS
<1> DEFINE z == CHOOSE n \in S : \A m \in S : n <= m
<1>3. z = x
  <2>1. z \in Nat /\ x \in Nat /\ x <= z /\ z <= x
    BY <1>1, <1>2
  <2> HIDE DEF z
  <2> QED BY <2>1
<1>4. S # {}
  OBVIOUS
<1>5. First(S) = At(z)
  BY <1>4, Zenon DEF First
<1> QED BY <1>3, <1>5

\* Nodes are above those that begin later.
LEMMA AboveLemma ==
  ASSUME Done, NEW n \in Nodes
  PROVE  /\ n \in 1..Len(tree) /\ n \in Nat
         /\ tree[n].above \in Seq(Nat) /\ Len(tree[n].above) \in Nat
         /\ \A i \in 1..Len(tree[n].above) : tree[n].above[i] \in 1..(n - 1)
         /\ \A i, j \in 1..Len(tree[n].above) : i < j => tree[n].above[i] > tree[n].above[j]
<1>1. n \in 1..Len(tree) /\ Len(tree) \in Nat
  BY Tree
<1>2. tree[n].above \in Seq(Nat) /\ Len(tree[n].above) \in Nat
  BY <1>1, Tree, NodeLemma
<1>3. Stack(tree[n].above, n - 1)
  <2>1. Stacks
    BY Tree DEF BlobInv
  <2> QED BY <2>1 DEF Stacks, Nodes
<1> QED BY <1>1, <1>2, <1>3 DEF Stack

\* A child is a later node whose nearest ancestor is the node.
LEMMA ChildLemma ==
  ASSUME Done, NEW n \in Nodes, NEW m
  PROVE  /\ m \in Children(n) <=> m \in Nodes /\ Len(tree[m].above) >= 1 /\ tree[m].above[1] = n
         /\ m \in Children(n) => m \in Nat /\ n \in Nat /\ n < m
         /\ Children(n) \subseteq Nat
<1>1. ASSUME NEW k \in Nodes
      PROVE  k \in Children(n) <=> Len(tree[k].above) >= 1 /\ tree[k].above[1] = n
  <2>1. tree[k].above \in Seq(Nat)
    BY AboveLemma
  <2>2. tree[k].above # <<>> <=> Len(tree[k].above) >= 1
    BY <2>1
  <2>3. Len(tree[k].above) >= 1 => Head(tree[k].above) = tree[k].above[1]
    BY <2>1
  <2> QED BY <2>2, <2>3 DEF Children, Ancestors
<1>2. m \in Children(n) => m \in Nodes
  BY DEF Children
<1>3. ASSUME m \in Children(n) PROVE m \in Nat /\ n \in Nat /\ n < m
  <2>1. m \in Nodes /\ Len(tree[m].above) >= 1 /\ tree[m].above[1] = n
    BY <1>1, <1>2, <1>3
  <2>2. Len(tree[m].above) \in Nat /\ m \in Nat
    BY <2>1, AboveLemma
  <2>3. 1 \in 1..Len(tree[m].above)
    BY <2>1, <2>2
  <2>4. tree[m].above[1] \in 1..(m - 1)
    BY <2>1, <2>3, AboveLemma
  <2> QED BY <2>1, <2>2, <2>4
<1>4. Children(n) \subseteq Nat
  BY Tree DEF Children
<1> QED BY <1>1, <1>2, <1>3, <1>4

\* A node begins below nodes that were not closed.
LEMMA NotClosed ==
  ASSUME Done, NEW j \in 1..Len(tokens), NEW m \in Nodes, m > tokens[j].nodes,
         NEW i \in 1..Len(tree[m].above)
  PROVE  tree[m].above[i] > tokens[j].nodes
         \/ \E k \in 1..Len(tokens[j].open) : tree[m].above[i] = tokens[j].open[k]
<1>1. Closed /\ j \in DOMAIN tokens
  BY Tree DEF BlobInv
<1>2. OpenSince(tokens[j], tree[m].above)
  BY <1>1, Zenon DEF Closed, Nodes
<1> QED BY <1>2, Zenon DEF OpenSince

\* Sequences with the same elements are the same.
LEMMA SameSeq ==
  ASSUME NEW s \in Seq(Nat), NEW t \in Seq(Nat), Len(s) = Len(t), \A i \in 1..Len(t) : s[i] = t[i]
  PROVE  s = t
<1>1. DOMAIN s = 1..Len(t) /\ DOMAIN t = 1..Len(t)
  BY ElemLemma
<1>2. s = [i \in DOMAIN s |-> s[i]] /\ t = [i \in DOMAIN t |-> t[i]]
  OBVIOUS
<1>3. [i \in 1..Len(t) |-> s[i]] = [i \in 1..Len(t) |-> t[i]]
  OBVIOUS
<1> QED BY <1>1, <1>2, <1>3, Zenon

\* The line of a node begins with it.
LEMMA LineLemma ==
  ASSUME Done, NEW n \in Nodes
  PROVE  /\ Line(tree, n) \in Seq(Nat) /\ Line(tree, n) # <<>>
         /\ Line(tree, n)[1] = n /\ Tail(Line(tree, n)) = tree[n].above
         /\ Len(Line(tree, n)) = Len(tree[n].above) + 1
         /\ \A i \in 1..Len(tree[n].above) : Line(tree, n)[i + 1] = tree[n].above[i]
<1>1. tree[n].above \in Seq(Nat) /\ n \in Nat
  BY AboveLemma
<1>2. <<n>> \in Seq(Nat) /\ Len(<<n>>) = 1 /\ <<n>>[1] = n
  BY <1>1
<1>3. /\ Line(tree, n) \in Seq(Nat) /\ Len(Line(tree, n)) = 1 + Len(tree[n].above)
      /\ \A k \in 1..1 : Line(tree, n)[k] = <<n>>[k]
      /\ \A k \in 1..Len(tree[n].above) : Line(tree, n)[1 + k] = tree[n].above[k]
  BY <1>1, <1>2, JoinLemma DEF Line
<1>4. Len(tree[n].above) \in Nat
  BY <1>1
<1>5. Line(tree, n) # <<>> /\ Line(tree, n)[1] = n /\ Len(Line(tree, n)) = Len(tree[n].above) + 1
  BY <1>2, <1>3, <1>4
<1>6. \A i \in 1..Len(tree[n].above) : Line(tree, n)[i + 1] = tree[n].above[i]
  <2> SUFFICES ASSUME NEW i \in 1..Len(tree[n].above) PROVE Line(tree, n)[i + 1] = tree[n].above[i]
    OBVIOUS
  <2>1. i + 1 = 1 + i
    BY <1>4
  <2> QED BY <1>3, <2>1
<1>7. Tail(Line(tree, n)) = tree[n].above
  <2>1. /\ Tail(Line(tree, n)) \in Seq(Nat) /\ Len(Tail(Line(tree, n))) = Len(tree[n].above)
        /\ \A i \in 1..Len(tree[n].above) : Tail(Line(tree, n))[i] = Line(tree, n)[i + 1]
    BY <1>3, <1>4, <1>5
  <2> QED BY <1>1, <1>6, <2>1, SameSeq
<1> QED BY <1>3, <1>5, <1>6, <1>7

\* fdt_node_subnode_begin finds the first child.
LEMMA FirstChild ==
  ASSUME Done, NEW n \in Nodes
  PROVE  fdt_node_subnode_begin(At(n)) = First(Children(n))
<1> DEFINE skip == {FDT_NOP, FDT_PROP}
           J == { j \in 1..Len(tokens) : Before(j).nodes = n /\ Before(j).open = Line(tree, n) }
           I == { tokens[j].at : j \in J }
<1>1. Blob /\ Len(tree) \in Nat /\ Nodes = 1..Len(tree) /\ n \in Nat
  BY Tree
<1>2. PICK i : IsToken(i, n)
  BY NodeToken
<1>3. tokens[i].at = At(n) /\ fdt_next_token(At(n)) = tokens[i + 1].at /\ i + 1 \in J
  <2>1. i \in 1..Len(tokens) /\ tokens[i].is # FDT_END /\ tokens[i].at = At(n)
        /\ tokens[i].nodes = n /\ tokens[i].open = Line(tree, n)
    BY <1>2, KindsDiffer DEF IsToken
  <2>2. /\ fdt_next_token(tokens[i].at) = tokens[i + 1].at
        /\ i + 1 \in 1..Len(tokens) /\ Before(i + 1) = tokens[i]
    BY <2>1, Tokens
  <2> QED BY <2>1, <2>2
<1>4. I \in SUBSET Pointer
  BY Tokens
<1>5. ASSUME NEW t \in I, t # NULL, be32toh(t) \in skip PROVE fdt_next_token(t) \in I
  <2>1. PICK j \in J : t = tokens[j].at
    OBVIOUS
  <2>2. tokens[j].is \in skip
    BY <1>5, <2>1, Tokens
  <2>3. tokens[j].is # FDT_BEGIN_NODE /\ tokens[j].is # FDT_END_NODE /\ tokens[j].is # FDT_END
    BY <2>2, KindsDiffer
  <2>4. tokens[j].nodes = Before(j).nodes /\ tokens[j].open = Before(j).open
    BY <2>3, OtherToken
  <2>5. fdt_next_token(t) = tokens[j + 1].at /\ j + 1 \in 1..Len(tokens) /\ Before(j + 1) = tokens[j]
    BY <2>1, <2>3, Tokens
  <2>6. j + 1 \in J
    BY <2>1, <2>4, <2>5
  <2> QED BY <2>5, <2>6
<1> HIDE DEF I
<1>6. PICK t \in I : /\ t = NULL \/ be32toh(t) \notin skip
                     /\ Seek(fdt_next_token(At(n)), skip, FDT_BEGIN_NODE)
                          = IF t # NULL /\ be32toh(t) = FDT_BEGIN_NODE THEN t ELSE NULL
  <2>1. fdt_next_token(At(n)) \in I
    BY <1>3 DEF I
  <2>2. fdt_next_token(At(n)) \in Pointer
    BY <1>4, <2>1
  <2> HIDE DEF skip, J
  <2> QED BY <1>1, <1>4, <1>5, <2>1, <2>2, SeekRule
<1>7. PICK j \in J : t = tokens[j].at
  BY DEF I
<1>8. /\ t # NULL /\ be32toh(t) = tokens[j].is /\ tokens[j].is \in Kind /\ j \in 1..Len(tokens)
      /\ StepOf(tree, Before(j), tokens[j]) /\ BytesOf(tree, tokens[j])
  BY <1>7, Tokens
<1>9. Before(j).nodes = n /\ Before(j).open = Line(tree, n)
  BY <1>7
<1>10. /\ Line(tree, n) # <<>> /\ Line(tree, n)[1] = n /\ Tail(Line(tree, n)) = tree[n].above
       /\ Len(Line(tree, n)) = Len(tree[n].above) + 1 /\ Len(tree[n].above) \in Nat
       /\ \A i1 \in 1..Len(tree[n].above) : tree[n].above[i1] \in 1..(n - 1)
  BY LineLemma, AboveLemma
<1>11. fdt_node_subnode_begin(At(n)) = IF t # NULL /\ be32toh(t) = FDT_BEGIN_NODE THEN t ELSE NULL
  BY <1>6 DEF fdt_node_subnode_begin
<1> HIDE DEF J, skip
<1>12. CASE tokens[j].is = FDT_BEGIN_NODE
  <2>1. tokens[j].nodes = n + 1 /\ tree[n + 1].above = Line(tree, n)
    BY <1>8, <1>9, <1>12 DEF StepOf
  <2>2. n + 1 \in Nodes /\ At(n + 1) = t
    BY <1>7, <1>8, <1>12, <2>1, Zenon DEF BytesOf, Nodes, At
  <2>3. Len(tree[n + 1].above) >= 1 /\ tree[n + 1].above[1] = n
    BY <1>10, <2>1
  <2>4. n + 1 \in Children(n)
    BY <2>2, <2>3, ChildLemma
  <2>5. Children(n) \subseteq Nat /\ \A m \in Children(n) : n < m /\ m \in Nat
    BY ChildLemma
  <2>6. \A m \in Children(n) : n + 1 <= m
    BY <1>1, <2>5
  <2>7. First(Children(n)) = At(n + 1)
    BY <2>4, <2>5, <2>6, FirstLemma
  <2> QED BY <1>8, <1>11, <1>12, <2>2, <2>7
<1>13. CASE tokens[j].is = FDT_END_NODE
  <2>1. tokens[j].nodes = n /\ tokens[j].open = tree[n].above
    BY <1>8, <1>9, <1>10, <1>13, KindsDiffer DEF StepOf
  <2>2. ASSUME NEW m \in Children(n) PROVE FALSE
    <3>1. m \in Nodes /\ Len(tree[m].above) >= 1 /\ tree[m].above[1] = n /\ n < m /\ m \in Nat
      BY ChildLemma
    <3>2. m > tokens[j].nodes /\ 1 \in 1..Len(tree[m].above)
      <4>1. Len(tree[m].above) \in Nat
        BY <3>1, AboveLemma
      <4> QED BY <1>1, <2>1, <3>1, <4>1
    <3>3. tree[m].above[1] > tokens[j].nodes
          \/ \E k \in 1..Len(tokens[j].open) : tree[m].above[1] = tokens[j].open[k]
      BY <1>8, <3>1, <3>2, NotClosed
    <3>4. n > n \/ \E k \in 1..Len(tree[n].above) : n = tree[n].above[k]
      BY <2>1, <3>1, <3>3
    <3>5. ~(n > n) /\ n \notin 1..(n - 1)
      BY <1>1
    <3>6. PICK k \in 1..Len(tree[n].above) : n = tree[n].above[k]
      BY <3>4, <3>5
    <3>7. tree[n].above[k] \in 1..(n - 1)
      BY <1>10
    <3> QED BY <3>5, <3>6, <3>7
  <2>3. Children(n) = {}
    BY <2>2
  <2>4. First(Children(n)) = NULL
    BY <2>3 DEF First
  <2> QED BY <1>8, <1>11, <1>13, <2>4, KindsDiffer
<1>14. tokens[j].is # FDT_END
  BY <1>8, <1>9, <1>10 DEF StepOf
<1>15. tokens[j].is # FDT_NOP /\ tokens[j].is # FDT_PROP
  BY <1>6, <1>8 DEF skip
<1> QED BY <1>8, <1>12, <1>13, <1>14, <1>15 DEF Kind

\* The states of the loop of fdt_next_token_after_node, and where it ends.
Inner == [token : Pointer \ {NULL}, depth : Int]

DepthNow(s) ==
  CASE be32toh(s.token) = FDT_BEGIN_NODE -> s.depth + 1
    [] be32toh(s.token) = FDT_END_NODE -> s.depth - 1
    [] OTHER -> s.depth

InnerEnds(s) == fdt_next_token(s.token) = NULL \/ DepthNow(s) <= 0

InnerNext(s) == [token |-> fdt_next_token(s.token), depth |-> DepthNow(s)]

\* The switch of fdt_next_token_after_node.
LEMMA DepthNowLemma ==
  ASSUME NEW s
  PROVE  /\ be32toh(s.token) = FDT_BEGIN_NODE => DepthNow(s) = s.depth + 1
         /\ be32toh(s.token) = FDT_END_NODE => DepthNow(s) = s.depth - 1
         /\ be32toh(s.token) \notin {FDT_BEGIN_NODE, FDT_END_NODE} => DepthNow(s) = s.depth
BY KindsDiffer, Zenon DEF DepthNow

\* A turn of the loop of fdt_next_token_after_node goes forward.
LEMMA InnerNextLemma ==
  ASSUME Blob, NEW s \in Inner, ~InnerEnds(s)
  PROVE  InnerNext(s) \in Inner /\ InnerNext(s).token > s.token
<1>1. s.token \in Pointer /\ s.token # NULL /\ s.depth \in Int
  BY DEF Inner
<1>2. fdt_next_token(s.token) \in Pointer /\ fdt_next_token(s.token) # NULL
      /\ fdt_next_token(s.token) > s.token
  BY <1>1, NextTokenLemma DEF InnerEnds
<1>3. DepthNow(s) \in Int
  BY <1>1, DepthNowLemma
<1> QED BY <1>2, <1>3 DEF Inner, InnerNext

\* The loop of fdt_next_token_after_node: what a turn keeps holds where it ends.
LEMMA AfterNodeRule ==
  ASSUME Blob, NEW node, NEW I \in SUBSET Inner, [token |-> node, depth |-> 0] \in I,
         \A s \in I : ~InnerEnds(s) => InnerNext(s) \in I
  PROVE  \E s \in I : InnerEnds(s) /\ fdt_next_token_after_node(node) = fdt_next_token(s.token)
<1> DEFINE stop == { s \in Inner : InnerEnds(s) }
           val == [s \in Inner |-> fdt_next_token(s.token)]
           next == [s \in Inner |-> InnerNext(s)]
           rank == [s \in Inner |-> Len(dt_struct) - s.token]
           n == Len(dt_struct)
           first == [token |-> node, depth |-> 0]
           Is(after) == after = [s \in [token : Pointer \ {NULL}, depth : Int] |->
             IF fdt_next_token(s.token) = NULL \/ DepthNow(s) <= 0 THEN fdt_next_token(s.token)
             ELSE after[[token |-> fdt_next_token(s.token), depth |-> DepthNow(s)]]]
<1>1. n \in Nat /\ Descends(Inner, stop, next, rank, n)
  <2>1. n \in Nat
    BY DEF Blob
  <2>2. \A s \in Inner : s.token \in 0..n
    BY DEF Inner, Pointer
  <2>3. rank \in [Inner -> 0..n]
    BY <2>1, <2>2
  <2>4. ASSUME NEW x \in Inner, x \notin stop PROVE next[x] \in Inner /\ rank[next[x]] < rank[x]
    <3>1. InnerNext(x) \in Inner /\ InnerNext(x).token > x.token
      BY <2>4, InnerNextLemma
    <3>2. x.token \in 0..n /\ InnerNext(x).token \in 0..n
      BY <2>2, <3>1
    <3> QED BY <2>1, <3>1, <3>2
  <2> QED BY <2>1, <2>3, <2>4 DEF Descends
<1>2. \A f : Is(f) <=> Loop(f, Inner, stop, val, next)
  <2> SUFFICES ASSUME NEW f PROVE Is(f) <=> Loop(f, Inner, stop, val, next)
    OBVIOUS
  <2>1. ASSUME NEW s \in Inner
        PROVE  (IF s \in stop THEN val[s] ELSE f[next[s]])
                 = IF fdt_next_token(s.token) = NULL \/ DepthNow(s) <= 0 THEN fdt_next_token(s.token)
                   ELSE f[[token |-> fdt_next_token(s.token), depth |-> DepthNow(s)]]
    <3>1. val[s] = fdt_next_token(s.token) /\ next[s] = InnerNext(s) /\ (s \in stop <=> InnerEnds(s))
      OBVIOUS
    <3> HIDE DEF val, next, stop
    <3> QED BY <3>1, Zenon DEF InnerEnds, InnerNext
  <2> HIDE DEF stop, val, next
  <2> QED BY <2>1, Zenon DEF Loop, Inner
<1> DEFINE f == CHOOSE f : Is(f)
<1>3. Loop(f, Inner, stop, val, next)
  <2> HIDE DEF stop, val, next, rank, n, Is
  <2>1. \E g : Is(g)
    BY <1>1, <1>2, LoopExists, Zenon
  <2>2. Is(f)
    BY <2>1, Zenon
  <2> QED BY <1>2, <2>2, Zenon
<1>4. fdt_next_token_after_node(node) = f[first]
  BY Zenon DEF fdt_next_token_after_node, Is, DepthNow
<1>5. \A y \in I : y \notin stop => next[y] \in I
  OBVIOUS
<1>6. \E s \in I : s \in stop /\ f[first] = val[s]
  <2> HIDE DEF stop, val, next, rank, n, f
  <2> QED BY <1>1, <1>3, <1>5, LoopRule
<1> HIDE DEF f
<1> QED BY <1>4, <1>6

\* Token j is node c's, or stands inside the node; no child of node n has begun
\* since.
Inside(n, c, s, j) ==
  /\ j \in 1..Len(tokens)
  /\ s.token = tokens[j].at
  /\ Len(Before(j).open) = Depth(c) + s.depth
  /\ \/ s.depth = 0 /\ IsToken(j, c)
     \/ /\ s.depth >= 1
        /\ Before(j).nodes >= c
        /\ EndOf(Line(tree, c), Before(j).open)
        /\ \A m \in Children(n) : m > c => m > Before(j).nodes

\* An end of a stack is an end of it with one more on top.
LEMMA EndOfPush ==
  ASSUME NEW s \in Seq(Nat), NEW t \in Seq(Nat), NEW x \in Nat, EndOf(s, t)
  PROVE  EndOf(s, <<x>> \o t) /\ Len(<<x>> \o t) = Len(t) + 1
<1>1. <<x>> \in Seq(Nat) /\ Len(<<x>>) = 1 /\ Len(s) \in Nat /\ Len(t) \in Nat
  OBVIOUS
<1>2. /\ Len(<<x>> \o t) = 1 + Len(t)
      /\ \A k \in 1..Len(t) : (<<x>> \o t)[1 + k] = t[k]
  BY <1>1, JoinLemma
<1>3. Len(s) <= Len(t) /\ \A d \in 0..(Len(s) - 1) : s[Len(s) - d] = t[Len(t) - d]
  BY DEF EndOf
<1> DEFINE u == <<x>> \o t
<1> HIDE DEF u
<1>4. Len(u) = 1 + Len(t) /\ \A k \in 1..Len(t) : u[1 + k] = t[k]
  BY <1>2 DEF u
<1>5. ASSUME NEW d \in 0..(Len(s) - 1) PROVE s[Len(s) - d] = u[Len(u) - d]
  <2>1. Len(t) - d \in 1..Len(t) /\ 1 + (Len(t) - d) = Len(u) - d
    BY <1>1, <1>3, <1>4
  <2>2. u[1 + (Len(t) - d)] = t[Len(t) - d]
    BY <1>4, <2>1
  <2> QED BY <1>3, <2>1, <2>2
<1>6. Len(s) <= Len(u) /\ Len(u) = Len(t) + 1
  BY <1>1, <1>3, <1>4
<1> QED BY <1>5, <1>6 DEF EndOf, u

\* An end that is not the whole stack is an end of the rest.
LEMMA EndOfPop ==
  ASSUME NEW s \in Seq(Nat), NEW t \in Seq(Nat), EndOf(s, t), Len(s) < Len(t)
  PROVE  EndOf(s, Tail(t)) /\ Len(Tail(t)) = Len(t) - 1
<1>1. Len(s) \in Nat /\ Len(t) \in Nat /\ t # <<>>
  OBVIOUS
<1>2. Tail(t) \in Seq(Nat) /\ Len(Tail(t)) = Len(t) - 1 /\ \A i \in 1..(Len(t) - 1) : Tail(t)[i] = t[i + 1]
  BY <1>1
<1>3. Len(s) <= Len(t) /\ \A d \in 0..(Len(s) - 1) : s[Len(s) - d] = t[Len(t) - d]
  BY DEF EndOf
<1> DEFINE u == Tail(t)
<1> HIDE DEF u
<1>4. Len(u) = Len(t) - 1 /\ \A k \in 1..(Len(t) - 1) : u[k] = t[k + 1]
  BY <1>2 DEF u
<1>5. ASSUME NEW d \in 0..(Len(s) - 1) PROVE s[Len(s) - d] = u[Len(u) - d]
  <2>1. Len(u) - d \in 1..(Len(t) - 1) /\ (Len(u) - d) + 1 = Len(t) - d
    BY <1>1, <1>3, <1>4
  <2>2. u[Len(u) - d] = t[(Len(u) - d) + 1]
    BY <1>4, <2>1
  <2> QED BY <1>3, <2>1, <2>2
<1>6. Len(s) <= Len(u) /\ Len(u) = Len(t) - 1
  BY <1>1, <1>4
<1> QED BY <1>5, <1>6 DEF EndOf, u

\* An end of full length is the whole stack.
LEMMA EndOfAll ==
  ASSUME NEW s \in Seq(Nat), NEW t \in Seq(Nat), EndOf(s, t), Len(s) = Len(t)
  PROVE  s = t
<1>1. Len(s) \in Nat /\ \A d \in 0..(Len(s) - 1) : s[Len(s) - d] = t[Len(s) - d]
  <2>1. \A d \in 0..(Len(s) - 1) : s[Len(s) - d] = t[Len(t) - d]
    BY DEF EndOf
  <2>2. Len(s) \in Nat
    OBVIOUS
  <2> QED BY <2>1, <2>2
<1>2. ASSUME NEW i \in 1..Len(t) PROVE s[i] = t[i]
  <2>1. Len(s) - i \in 0..(Len(s) - 1) /\ Len(s) - (Len(s) - i) = i
    BY <1>1
  <2>2. s[Len(s) - (Len(s) - i)] = t[Len(s) - (Len(s) - i)]
    BY <1>1, <2>1
  <2> QED BY <2>1, <2>2
<1> QED BY <1>2, SameSeq

\* A stack is an end of itself.
LEMMA EndOfSelf ==
  ASSUME NEW s
  PROVE  Len(s) \in Nat => EndOf(s, s)
BY DEF EndOf

\* What is open inside node c has not node n, above it, as its innermost node.
LEMMA InnermostInside ==
  ASSUME Done, NEW c \in Nodes, NEW o \in Seq(Nat), NEW k \in Nat, Stack(o, k),
         EndOf(Line(tree, c), o)
  PROVE  Len(o) >= 1 /\ o[1] \in Nat /\ o[1] >= c
<1>1. /\ Len(Line(tree, c)) \in Nat /\ Len(Line(tree, c)) >= 1 /\ Line(tree, c)[1] = c
      /\ Line(tree, c) \in Seq(Nat) /\ Len(o) \in Nat /\ c \in Nat
  <2>1. Line(tree, c) \in Seq(Nat) /\ Line(tree, c) # <<>> /\ Line(tree, c)[1] = c /\ c \in Nat
    BY LineLemma, AboveLemma
  <2> QED BY <2>1
<1> DEFINE l == Line(tree, c)
<1> HIDE DEF l
<1>2. Len(l) \in Nat /\ Len(l) >= 1 /\ l[1] = c /\ EndOf(l, o)
  BY <1>1 DEF l
<1>3. Len(l) <= Len(o) /\ \A d \in 0..(Len(l) - 1) : l[Len(l) - d] = o[Len(o) - d]
  BY <1>2 DEF EndOf
<1>4. Len(l) - 1 \in 0..(Len(l) - 1) /\ Len(l) - (Len(l) - 1) = 1
  BY <1>2
<1>5. o[Len(o) - (Len(l) - 1)] = c
  BY <1>2, <1>3, <1>4
<1> DEFINE p == Len(o) - (Len(l) - 1)
<1>6. p \in 1..Len(o) /\ 1 \in 1..Len(o) /\ o[p] = c /\ Len(o) >= 1
  BY <1>1, <1>2, <1>3, <1>5
<1> HIDE DEF p
<1>7. o[1] \in 1..k /\ (1 < p => o[1] > o[p])
  BY <1>6 DEF Stack
<1>8. p = 1 \/ 1 < p
  BY <1>6
<1>9. p = 1 => o[1] = c
  BY <1>6
<1>10. 1 < p => o[1] > c
  BY <1>6, <1>7
<1>11. o[1] \in Nat
  BY <1>7
<1>12. o[1] >= c
  <2>1. c \in Nat
    BY <1>1
  <2>2. CASE p = 1
    BY <1>9, <2>1, <2>2
  <2>3. CASE 1 < p
    BY <1>10, <1>11, <2>1, <2>3
  <2> QED BY <1>8, <2>2, <2>3
<1> QED BY <1>6, <1>11, <1>12

\* A BEGIN_NODE token in the complete block is that of a node.
LEMMA BeginsNode ==
  ASSUME Done, NEW j \in 1..Len(tokens), tokens[j].is = FDT_BEGIN_NODE
  PROVE  /\ tokens[j].nodes = Before(j).nodes + 1 /\ tokens[j].nodes \in Nodes
         /\ tokens[j].open = <<tokens[j].nodes>> \o Before(j).open
         /\ tree[tokens[j].nodes].above = Before(j).open
         /\ At(tokens[j].nodes) = tokens[j].at
<1>1. StepOf(tree, Before(j), tokens[j]) /\ BytesOf(tree, tokens[j])
  BY Tokens
<1>2. /\ tokens[j].nodes = Before(j).nodes + 1
      /\ tokens[j].open = <<tokens[j].nodes>> \o Before(j).open
      /\ tree[tokens[j].nodes].above = Before(j).open
  BY <1>1 DEF StepOf
<1>3. tokens[j].nodes \in Nodes /\ At(tokens[j].nodes) = tokens[j].at
  BY <1>1, Zenon DEF BytesOf, Nodes, At
<1> QED BY <1>2, <1>3

\* One more and one less on both sides of a sum.
LEMMA OneMore ==
  ASSUME NEW a \in Nat, NEW b \in Int, NEW c, c = a + b
  PROVE  c + 1 = a + (b + 1) /\ c - 1 = a + (b - 1) /\ (b >= 2 => a + 1 < c)
OBVIOUS

\* One turn inside node c.
LEMMA InsideStep ==
  ASSUME Done, NEW n \in Nodes, NEW c \in Children(n), NEW s \in Inner, NEW j, Inside(n, c, s, j)
  PROVE  /\ tokens[j].is # FDT_END
         /\ ~InnerEnds(s) => Inside(n, c, InnerNext(s), j + 1)
         /\ InnerEnds(s) => /\ fdt_next_token(s.token) = tokens[j + 1].at
                            /\ j + 1 \in 1..Len(tokens)
                            /\ Before(j + 1).open = tree[c].above
                            /\ Before(j + 1).nodes >= c
                            /\ \A m \in Children(n) : m > c => m > Before(j + 1).nodes
<1>1. /\ j \in 1..Len(tokens) /\ s.token = tokens[j].at
      /\ Len(Before(j).open) = Depth(c) + s.depth
  BY DEF Inside
<1>2. be32toh(s.token) = tokens[j].is /\ tokens[j].is \in Kind
  BY <1>1, Tokens
<1>3. /\ c \in Nodes /\ c \in Nat /\ n \in Nat /\ n < c /\ Len(tree[c].above) >= 1 /\ tree[c].above[1] = n
      /\ Children(n) \subseteq Nat
  BY ChildLemma
<1>4. Depth(c) \in Nat /\ s.depth \in Int /\ Depth(c) = Len(tree[c].above)
  BY <1>3, DepthLemma DEF Inner, Depth, Ancestors
<1>5. /\ Line(tree, c) \in Seq(Nat) /\ Tail(Line(tree, c)) = tree[c].above
      /\ Len(Line(tree, c)) = Depth(c) + 1
  BY <1>3, <1>4, LineLemma
<1>6. /\ Before(j).open \in Seq(Nat) /\ Before(j).nodes \in Nat
      /\ Stack(Before(j).open, Before(j).nodes) /\ Len(Before(j).open) \in Nat
  <2>1. j \in 1..(Len(tokens) + 1) /\ Len(tree) \in Nat
    BY <1>1, Tree
  <2>2. Before(j).open \in Seq(Nat) /\ Before(j).nodes \in 0..Len(tree) /\ Stack(Before(j).open, Before(j).nodes)
    BY <2>1, Tree, BeforeLemma
  <2> QED BY <2>1, <2>2, ElemLemma
<1>7. tokens[j].is # FDT_END =>
        /\ fdt_next_token(s.token) = tokens[j + 1].at /\ fdt_next_token(s.token) # NULL
        /\ j + 1 \in 1..Len(tokens) /\ Before(j + 1) = tokens[j]
  BY <1>1, Tokens
<1>8. StepOf(tree, Before(j), tokens[j])
  BY <1>1, Tokens
<1>9. CASE s.depth = 0 /\ IsToken(j, c)
  <2>1. tokens[j].is = FDT_BEGIN_NODE /\ tokens[j].nodes = c /\ tokens[j].open = Line(tree, c)
    BY <1>9 DEF IsToken
  <2>2. tokens[j].is # FDT_END
    BY <2>1, KindsDiffer
  <2>3. DepthNow(s) = 1
    BY <1>2, <1>9, <2>1, DepthNowLemma
  <2>4. ~InnerEnds(s)
    BY <1>7, <2>2, <2>3 DEF InnerEnds
  <2>5. InnerNext(s).token = tokens[j + 1].at /\ InnerNext(s).depth = 1
    BY <1>7, <2>2, <2>3 DEF InnerNext
  <2>6. Before(j + 1).open = Line(tree, c) /\ Before(j + 1).nodes = c
    BY <1>7, <2>1, <2>2
  <2>7. Len(Before(j + 1).open) = Depth(c) + 1
    BY <1>5, <2>6
  <2>8. EndOf(Line(tree, c), Before(j + 1).open)
    BY <1>4, <1>5, <2>6, EndOfSelf
  <2>9. Inside(n, c, InnerNext(s), j + 1)
    BY <1>3, <1>7, <2>2, <2>5, <2>6, <2>7, <2>8 DEF Inside
  <2> QED BY <2>2, <2>4, <2>9
<1>10. CASE /\ s.depth >= 1
            /\ Before(j).nodes >= c
            /\ EndOf(Line(tree, c), Before(j).open)
            /\ \A m \in Children(n) : m > c => m > Before(j).nodes
  <2>0. Before(j).nodes >= c /\ s.depth >= 1
    BY <1>10
  <2>1. Len(Before(j).open) >= 1 /\ Before(j).open[1] \in Nat /\ Before(j).open[1] >= c
    BY <1>3, <1>6, <1>10, InnermostInside
  <2>2. tokens[j].is # FDT_END
    <3>1. Before(j).open # <<>>
      BY <2>1
    <3> QED BY <1>8, <3>1 DEF StepOf
  <2>3. /\ fdt_next_token(s.token) = tokens[j + 1].at /\ fdt_next_token(s.token) # NULL
        /\ j + 1 \in 1..Len(tokens) /\ Before(j + 1) = tokens[j]
    BY <1>7, <2>2
  <2>4. CASE tokens[j].is = FDT_BEGIN_NODE
    <3>1. DepthNow(s) = s.depth + 1
      BY <1>2, <2>4, DepthNowLemma
    <3>2. ~InnerEnds(s)
      BY <1>4, <1>10, <2>3, <3>1 DEF InnerEnds
    <3>3. /\ tokens[j].nodes = Before(j).nodes + 1
          /\ tokens[j].open = <<tokens[j].nodes>> \o Before(j).open
          /\ tree[tokens[j].nodes].above = Before(j).open
      BY <1>1, <2>4, BeginsNode
    <3>4. tokens[j].nodes \in Nat /\ tokens[j].nodes >= c
      <4>1. c \in Nat /\ Before(j).nodes \in Nat /\ tokens[j].nodes = Before(j).nodes + 1
        BY <1>3, <1>6, <3>3
      <4> QED BY <2>0, <4>1
    <3>5. EndOf(Line(tree, c), tokens[j].open) /\ Len(tokens[j].open) = Len(Before(j).open) + 1
      BY <1>5, <1>6, <1>10, <3>3, <3>4, EndOfPush
    <3>6. ASSUME NEW m \in Children(n), m > c PROVE m > tokens[j].nodes
      <4>1. m > Before(j).nodes /\ m \in Nat
        BY <1>3, <1>10, <3>6
      <4>2. m # tokens[j].nodes
        <5> SUFFICES ASSUME m = tokens[j].nodes PROVE FALSE
          OBVIOUS
        <5>1. tree[m].above[1] = n
          BY ChildLemma
        <5>2. Before(j).open[1] = n
          BY <3>3, <5>1
        <5> QED BY <1>3, <2>1, <5>2
      <4> QED BY <1>6, <3>3, <4>1, <4>2
    <3>7. Len(tokens[j].open) = Depth(c) + (s.depth + 1)
      <4>1. Len(Before(j).open) + 1 = Depth(c) + (s.depth + 1)
        BY <1>1, <1>4, OneMore
      <4> QED BY <3>5, <4>1
    <3>8. InnerNext(s).token = tokens[j + 1].at /\ InnerNext(s).depth = s.depth + 1 /\ s.depth + 1 >= 1
      BY <1>4, <1>10, <2>3, <3>1 DEF InnerNext
    <3>9. Inside(n, c, InnerNext(s), j + 1)
      BY <2>3, <3>4, <3>5, <3>6, <3>7, <3>8 DEF Inside
    <3> QED BY <2>2, <3>2, <3>9
  <2>5. CASE tokens[j].is = FDT_END_NODE
    <3>1. DepthNow(s) = s.depth - 1
      BY <1>2, <2>5, DepthNowLemma
    <3>2. tokens[j].nodes = Before(j).nodes /\ tokens[j].open = Tail(Before(j).open)
      BY <1>8, <2>5, KindsDiffer DEF StepOf
    <3>3. CASE s.depth = 1
      <4>1. InnerEnds(s)
        BY <3>1, <3>3 DEF InnerEnds
      <4>2. Len(Line(tree, c)) = Len(Before(j).open)
        BY <1>1, <1>5, <3>3
      <4>3. Line(tree, c) = Before(j).open
        BY <1>5, <1>6, <1>10, <4>2, EndOfAll
      <4>4. Before(j + 1).open = tree[c].above
        BY <1>5, <2>3, <3>2, <4>3
      <4> QED BY <1>10, <2>2, <2>3, <3>2, <4>1, <4>4
    <3>4. CASE s.depth # 1
      <4>1. s.depth >= 2 /\ s.depth - 1 >= 1 /\ ~(s.depth - 1 <= 0)
        BY <1>4, <1>10, <3>4
      <4>2. ~InnerEnds(s)
        BY <2>3, <3>1, <4>1 DEF InnerEnds
      <4>3. Len(Line(tree, c)) < Len(Before(j).open)
        <5>1. Depth(c) + 1 < Len(Before(j).open)
          BY <1>1, <1>4, <4>1, OneMore
        <5> QED BY <1>5, <5>1
      <4>4. EndOf(Line(tree, c), tokens[j].open) /\ Len(tokens[j].open) = Len(Before(j).open) - 1
        BY <1>5, <1>6, <1>10, <3>2, <4>3, EndOfPop
      <4>5. Len(tokens[j].open) = Depth(c) + (s.depth - 1)
        <5>1. Len(Before(j).open) - 1 = Depth(c) + (s.depth - 1)
          BY <1>1, <1>4, OneMore
        <5> QED BY <4>4, <5>1
      <4>6. InnerNext(s).token = tokens[j + 1].at /\ InnerNext(s).depth = s.depth - 1
        BY <2>3, <3>1 DEF InnerNext
      <4>7. Inside(n, c, InnerNext(s), j + 1)
        BY <1>10, <2>3, <3>2, <4>1, <4>4, <4>5, <4>6 DEF Inside
      <4> QED BY <2>2, <4>2, <4>7
    <3> QED BY <3>3, <3>4
  <2>6. CASE tokens[j].is \notin {FDT_BEGIN_NODE, FDT_END_NODE}
    <3>1. DepthNow(s) = s.depth
      BY <1>2, <2>6, DepthNowLemma
    <3>2. ~InnerEnds(s)
      BY <1>4, <1>10, <2>3, <3>1 DEF InnerEnds
    <3>3. tokens[j].nodes = Before(j).nodes /\ tokens[j].open = Before(j).open
      BY <1>1, <2>6, OtherToken
    <3>4. InnerNext(s).token = tokens[j + 1].at /\ InnerNext(s).depth = s.depth
      BY <2>3, <3>1 DEF InnerNext
    <3>5. Inside(n, c, InnerNext(s), j + 1)
      BY <1>1, <1>10, <2>3, <3>3, <3>4 DEF Inside
    <3> QED BY <2>2, <3>2, <3>5
  <2> QED BY <2>4, <2>5, <2>6
<1> QED BY <1>9, <1>10 DEF Inside

\* Behind node c, fdt_node_next_subnode finds the next child of its parent.
LEMMA NextChild ==
  ASSUME Done, NEW n \in Nodes, NEW c \in Children(n)
  PROVE  fdt_node_next_subnode(At(c)) = First({ d \in Children(n) : d > c })
<1> DEFINE Later == { d \in Children(n) : d > c }
           I == { s \in Inner : \E j : Inside(n, c, s, j) }
           first == [token |-> At(c), depth |-> 0]
<1>1. /\ c \in Nodes /\ c \in Nat /\ n \in Nat /\ n < c /\ Len(tree[c].above) >= 1 /\ tree[c].above[1] = n
      /\ Children(n) \subseteq Nat /\ Blob
  BY ChildLemma, Tree
<1>2. first \in I
  <2>1. PICK i : IsToken(i, c)
    BY <1>1, NodeToken
  <2>2. Depth(c) \in Nat /\ At(c) \in Pointer /\ At(c) # NULL
    BY <1>1, DepthLemma
  <2>3. first \in Inner
    BY <2>2 DEF Inner
  <2>4. Len(Before(i).open) = Depth(c) + 0
    BY <2>1, <2>2 DEF IsToken, Depth
  <2>5. Inside(n, c, first, i)
    <3>1. first.token = At(c) /\ first.depth = 0
      OBVIOUS
    <3> HIDE DEF first
    <3> QED BY <2>1, <2>4, <3>1 DEF IsToken, Inside
  <2> HIDE DEF first
  <2> QED BY <2>3, <2>5
<1>3. ASSUME NEW s \in I, ~InnerEnds(s) PROVE InnerNext(s) \in I
  <2>1. PICK j : Inside(n, c, s, j)
    OBVIOUS
  <2>2. Inside(n, c, InnerNext(s), j + 1)
    BY <1>3, <2>1, InsideStep
  <2>3. InnerNext(s) \in Inner
    BY <1>1, <1>3, InnerNextLemma
  <2> QED BY <2>2, <2>3
<1> HIDE DEF I
<1>4. I \in SUBSET Inner
  BY DEF I
<1>5. PICK s \in I : InnerEnds(s) /\ fdt_next_token_after_node(At(c)) = fdt_next_token(s.token)
  BY <1>1, <1>2, <1>3, <1>4, AfterNodeRule
<1>6. PICK j : Inside(n, c, s, j)
  BY DEF I
<1> DEFINE q == j + 1
           N == Before(q).nodes
<1>7. /\ fdt_next_token_after_node(At(c)) = tokens[q].at
      /\ q \in 1..Len(tokens)
      /\ Before(q).open = tree[c].above
      /\ N >= c
      /\ \A m \in Children(n) : m > c => m > N
  BY <1>4, <1>5, <1>6, InsideStep
<1> HIDE DEF q
<1>8. N \in Nat
  BY <1>7, Lengths
<1> DEFINE skip == {FDT_NOP, FDT_PROP}
           Q == { k \in 1..Len(tokens) : Before(k).nodes = N /\ Before(k).open = tree[c].above }
           P == { tokens[k].at : k \in Q }
<1>9. q \in Q
  BY <1>7
<1> HIDE DEF N
<1>10. P \in SUBSET Pointer
  BY Tokens
<1>11. ASSUME NEW t \in P, t # NULL, be32toh(t) \in skip PROVE fdt_next_token(t) \in P
  <2>1. PICK k \in Q : t = tokens[k].at
    OBVIOUS
  <2>2. tokens[k].is \in skip
    BY <1>11, <2>1, Tokens
  <2>3. tokens[k].is # FDT_BEGIN_NODE /\ tokens[k].is # FDT_END_NODE /\ tokens[k].is # FDT_END
    BY <2>2, KindsDiffer
  <2>4. tokens[k].nodes = Before(k).nodes /\ tokens[k].open = Before(k).open
    BY <2>3, OtherToken
  <2>5. fdt_next_token(t) = tokens[k + 1].at /\ k + 1 \in 1..Len(tokens) /\ Before(k + 1) = tokens[k]
    BY <2>1, <2>3, Tokens
  <2>6. k + 1 \in Q
    BY <2>1, <2>4, <2>5
  <2> QED BY <2>5, <2>6
<1> HIDE DEF P
<1>12. PICK t \in P : /\ t = NULL \/ be32toh(t) \notin skip
                      /\ Seek(tokens[q].at, skip, FDT_BEGIN_NODE)
                           = IF t # NULL /\ be32toh(t) = FDT_BEGIN_NODE THEN t ELSE NULL
  <2>1. tokens[q].at \in P
    BY <1>9 DEF P
  <2>2. tokens[q].at \in Pointer
    BY <1>10, <2>1
  <2> HIDE DEF skip, Q
  <2> QED BY <1>1, <1>10, <1>11, <2>1, <2>2, SeekRule
<1>13. PICK k \in Q : t = tokens[k].at
  BY DEF P
<1>14. /\ t # NULL /\ be32toh(t) = tokens[k].is /\ tokens[k].is \in Kind /\ k \in 1..Len(tokens)
       /\ StepOf(tree, Before(k), tokens[k])
  BY <1>13, Tokens
<1>15. Before(k).nodes = N /\ Before(k).open = tree[c].above
  BY <1>13
<1>16. fdt_node_next_subnode(At(c)) = IF t # NULL /\ be32toh(t) = FDT_BEGIN_NODE THEN t ELSE NULL
  BY <1>7, <1>12 DEF fdt_node_next_subnode
<1>17. tree[c].above \in Seq(Nat) /\ Len(tree[c].above) \in Nat /\ tree[c].above # <<>>
       /\ \A i, l \in 1..Len(tree[c].above) : i < l => tree[c].above[i] > tree[c].above[l]
  <2>1. tree[c].above \in Seq(Nat) /\ Len(tree[c].above) \in Nat
        /\ \A i, l \in 1..Len(tree[c].above) : i < l => tree[c].above[i] > tree[c].above[l]
    BY <1>1, AboveLemma
  <2>2. tree[c].above # <<>>
    BY <1>1
  <2> QED BY <2>1, <2>2
<1>18. \A m \in Later : m > N /\ m \in Nat /\ m \in Children(n)
  BY <1>1, <1>7 DEF N
<1>19. N >= c
  BY <1>7 DEF N
<1> HIDE DEF Q, skip, Later
<1>20. CASE tokens[k].is = FDT_BEGIN_NODE
  <2>1. /\ tokens[k].nodes = N + 1 /\ tokens[k].nodes \in Nodes
        /\ tree[tokens[k].nodes].above = tree[c].above
        /\ At(tokens[k].nodes) = t
    BY <1>13, <1>14, <1>15, <1>20, BeginsNode
  <2>2. N + 1 \in Children(n)
    BY <1>1, <2>1, ChildLemma
  <2>3. N + 1 \in Later
    BY <1>1, <1>8, <1>19, <2>2 DEF Later
  <2>4. Later \subseteq Nat /\ \A m \in Later : N + 1 <= m
    BY <1>8, <1>18
  <2>5. First(Later) = At(N + 1)
    BY <2>3, <2>4, FirstLemma
  <2> QED BY <1>14, <1>16, <1>20, <2>1, <2>5 DEF Later
<1>21. CASE tokens[k].is = FDT_END_NODE
  <2>1. tokens[k].nodes = N /\ tokens[k].open = Tail(tree[c].above)
    BY <1>14, <1>15, <1>21, KindsDiffer DEF StepOf
  <2>2. ASSUME NEW m \in Later PROVE FALSE
    <3>1. m > N /\ m \in Nat /\ m \in Nodes /\ Len(tree[m].above) >= 1 /\ tree[m].above[1] = n
      BY <1>18, ChildLemma
    <3>2. m > tokens[k].nodes /\ 1 \in 1..Len(tree[m].above)
      <4>1. Len(tree[m].above) \in Nat
        BY <3>1, AboveLemma
      <4> QED BY <2>1, <3>1, <4>1
    <3>3. tree[m].above[1] > tokens[k].nodes
          \/ \E l \in 1..Len(tokens[k].open) : tree[m].above[1] = tokens[k].open[l]
      BY <1>14, <3>1, <3>2, NotClosed
    <3>4. ~(n > N)
      BY <1>1, <1>8, <1>19
    <3>5. PICK l \in 1..Len(tokens[k].open) : n = tokens[k].open[l]
      BY <2>1, <3>1, <3>3, <3>4
    <3>6. Len(Tail(tree[c].above)) = Len(tree[c].above) - 1
      BY <1>17
    <3>7. l \in 1..(Len(tree[c].above) - 1)
      BY <2>1, <3>6
    <3>8. Tail(tree[c].above)[l] = tree[c].above[l + 1]
      BY <1>17, <3>6, <3>7
    <3>9. 1 \in 1..Len(tree[c].above) /\ l + 1 \in 1..Len(tree[c].above) /\ 1 < l + 1
      BY <1>17, <3>7
    <3>10. tree[c].above[1] > tree[c].above[l + 1]
      BY <1>17, <3>9
    <3>11. n > n
      BY <1>1, <2>1, <3>5, <3>8, <3>10
    <3> QED BY <1>1, <3>11
  <2>3. Later = {}
    BY <2>2
  <2>4. First(Later) = NULL
    BY <2>3 DEF First
  <2> QED BY <1>14, <1>16, <1>21, <2>4, KindsDiffer DEF Later
<1>22. tokens[k].is # FDT_END
  BY <1>14, <1>15, <1>17 DEF StepOf
<1>23. tokens[k].is # FDT_NOP /\ tokens[k].is # FDT_PROP
  BY <1>12, <1>14 DEF skip
<1> QED BY <1>14, <1>20, <1>21, <1>22, <1>23 DEF Kind, Later

\* The walk over the children of a node meets all of them in order, and none
\* of the nodes below them.
THEOREM ChildrenTheorem == Spec => []ChildrenExact
<1>1. BlobInv /\ SideInv => ChildrenExact
  <2> SUFFICES ASSUME Done PROVE ChildrenExact
    BY DEF Done, ChildrenExact
  <2>1. \A n \in Nodes : fdt_node_subnode_begin(At(n)) = First(Children(n))
    BY FirstChild
  <2>2. \A n \in Nodes : \A c \in Children(n) :
          fdt_node_next_subnode(At(c)) = First({ d \in Children(n) : d > c })
    BY NextChild
  <2> QED BY <2>1, <2>2, Zenon DEF ChildrenExact
<1> QED BY <1>1, BlobInvariant, SideInvariant, PTL

-----------------------------------------------------------------------------
(***************************************************************************)
(* Properties by name.                                                     *)
(***************************************************************************)
\* What is read of a property is what was written.
LEMMA PropRead ==
  ASSUME Done, NEW n \in Nodes, NEW p \in DOMAIN tree[n].props
  PROVE  /\ tree[n].props[p].at \in Pointer /\ tree[n].props[p].at # NULL
         /\ tree[n].props[p].val \in Seq(Nat)
         /\ fdt_prop_name(tree[n].props[p].at) = tree[n].props[p].name
         /\ fdt_prop_val_len(tree[n].props[p].at) = Len(tree[n].props[p].val)
         /\ Holds(dt_struct, fdt_prop_val(tree[n].props[p].at), tree[n].props[p].val)
<1> DEFINE q == tree[n].props[p]
           val == q.val
<1>1. PICK i : IsPropToken(i, n, p)
  BY PropertyToken
<1>2. i \in 1..Len(tokens) /\ tokens[i].is = FDT_PROP /\ tokens[i].at = q.at
      /\ tokens[i].nodes = n /\ tokens[i].props = p
  BY <1>1 DEF IsPropToken
<1>3. q.at \in Pointer /\ q.at # NULL /\ BytesOf(tree, tokens[i])
  BY <1>2, Tokens
<1>4. \E j \in DOMAIN Strings : /\ q.name = Strings[j]
                                /\ tokens[i].bytes = Cell(Len(val)) \o (Cell(j - 1) \o Padded(val))
  BY <1>2, <1>3, Zenon DEF BytesOf
<1>5. PICK j \in DOMAIN Strings : /\ q.name = Strings[j]
                                  /\ tokens[i].bytes = Cell(Len(val)) \o (Cell(j - 1) \o Padded(val))
  BY <1>4
<1>6. dt_struct \in Seq(Nat) /\ q.at \in Nat /\ q.at >= 1
  BY <1>3, Tree DEF Blob, Pointer, NULL
<1>7. Holds(dt_struct, q.at + 4, tokens[i].bytes)
  <2>1. Layout /\ i \in DOMAIN tokens
    BY <1>2, Tree DEF BlobInv
  <2>2. Holds(dt_struct, tokens[i].at + 4, tokens[i].bytes)
    BY <2>1 DEF Layout
  <2> QED BY <1>2, <2>2
<1>8. val \in Seq(Nat) /\ Len(val) \in Nat
  <2>1. n \in 1..Len(tree) /\ tree \in Seq(NodeRecord)
    BY Tree
  <2>2. p \in 1..Len(tree[n].props)
    BY <2>1, NodeLemma
  <2>3. q \in PropRecord
    BY <2>1, <2>2, NodeLemma
  <2>4. val \in Seq(Nat)
    BY <2>3 DEF PropRecord
  <2> QED BY <2>4, ElemLemma
<1>9. Strings \in Seq(STRING) /\ j \in 1..Len(Strings) /\ Len(Strings) \in Nat
  BY BlobAssumption, ElemLemma
<1>10. j - 1 \in Nat /\ j - 1 < Len(Strings) /\ (j - 1) + 1 = j
  BY <1>9
<1> HIDE DEF q, val
<1>11. /\ Cell(Len(val)) \in Seq(Nat) /\ Len(Cell(Len(val))) = 4
       /\ Cell(j - 1) \in Seq(Nat) /\ Len(Cell(j - 1)) = 4
       /\ Padded(val) \in Seq(Nat) /\ Len(Padded(val)) >= Len(val)
       /\ \A k \in 1..Len(val) : Padded(val)[k] = val[k]
  <2>1. Cell(Len(val)) \in Seq(Nat) /\ Len(Cell(Len(val))) = 4
    BY <1>8, CellLemma
  <2>2. Cell(j - 1) \in Seq(Nat) /\ Len(Cell(j - 1)) = 4
    BY <1>10, CellLemma
  <2>3. /\ Padded(val) \in Seq(Nat) /\ Len(Padded(val)) >= Len(val)
        /\ \A k \in 1..Len(val) : Padded(val)[k] = val[k]
    BY <1>8, PaddedLemma
  <2> QED BY <2>1, <2>2, <2>3
<1>12. Cell(j - 1) \o Padded(val) \in Seq(Nat)
  BY <1>11, JoinBytes
<1>13. /\ Holds(dt_struct, q.at + 4, Cell(Len(val)))
       /\ Holds(dt_struct, q.at + 4 + 4, Cell(j - 1) \o Padded(val))
  <2>1. Holds(dt_struct, q.at + 4, Cell(Len(val)) \o (Cell(j - 1) \o Padded(val)))
    BY <1>5, <1>7
  <2>2. q.at + 4 \in Nat
    BY <1>6
  <2>3. /\ Holds(dt_struct, q.at + 4, Cell(Len(val)))
        /\ Holds(dt_struct, q.at + 4 + Len(Cell(Len(val))), Cell(j - 1) \o Padded(val))
    BY <1>6, <1>11, <1>12, <2>1, <2>2, HoldsFront
  <2> QED BY <1>11, <2>3
<1>14. q.at + 4 \in Nat /\ q.at + 8 \in Nat /\ q.at + 12 \in Nat /\ q.at + 4 >= 1 /\ q.at + 8 >= 1
       /\ q.at + 4 + 4 = q.at + 8 /\ q.at + 8 + 4 = q.at + 12
  <2>1. q.at \in Nat
    BY <1>6
  <2> QED BY <2>1
<1>15. Holds(dt_struct, q.at + 8, Cell(j - 1)) /\ Holds(dt_struct, q.at + 12, Padded(val))
  <2>1. Holds(dt_struct, q.at + 8, Cell(j - 1) \o Padded(val))
    BY <1>13, <1>14
  <2>2. Holds(dt_struct, q.at + 8, Cell(j - 1))
        /\ Holds(dt_struct, q.at + 8 + Len(Cell(j - 1)), Padded(val))
    BY <1>6, <1>11, <1>14, <2>1, HoldsFront
  <2> QED BY <1>11, <1>14, <2>2
<1>16. be32toh(q.at + 4) = Len(val)
  BY <1>6, <1>8, <1>13, <1>14, ReadCell DEF Blob
<1>17. be32toh(q.at + 8) = j - 1
  BY <1>6, <1>10, <1>14, <1>15, ReadCell DEF Blob
<1>18. Holds(dt_struct, q.at + 12, val)
  <2>1. Len(Padded(val)) \in Nat
    BY <1>11, ElemLemma
  <2> QED BY <1>8, <1>11, <1>15, <2>1, HoldsPrefix
<1>19. fdt_prop_name(q.at) = q.name
  <2>1. fdt_string_from_offset(j - 1) = Strings[j]
    BY <1>10 DEF fdt_string_from_offset
  <2> QED BY <1>5, <1>17, <2>1 DEF fdt_prop_name, fdt_prop_name_offset
<1> QED BY <1>3, <1>8, <1>16, <1>18, <1>19 DEF fdt_prop_val_len, fdt_prop_val, q, val

\* The walk over the properties goes forward, in any block.
LEMMA NextPropLemma ==
  ASSUME Blob, NEW p \in Pointer, p # NULL
  PROVE  /\ fdt_node_next_prop(p) \in Pointer
         /\ fdt_node_next_prop(p) # NULL => fdt_node_next_prop(p) > p
<1> DEFINE I == { t \in Pointer : t = NULL \/ t > p }
<1>1. fdt_next_token(p) \in I
  BY NextTokenLemma
<1>2. ASSUME NEW t \in I, t # NULL, be32toh(t) \in {FDT_NOP} PROVE fdt_next_token(t) \in I
  <2>1. fdt_next_token(t) \in Pointer /\ (fdt_next_token(t) # NULL => fdt_next_token(t) > t)
    BY <1>2, NextTokenLemma
  <2>2. t > p /\ t \in Nat /\ p \in Nat /\ fdt_next_token(t) \in Nat
    BY <1>2, <2>1 DEF Pointer
  <2> QED BY <2>1, <2>2
<1>3. I \in SUBSET Pointer /\ fdt_next_token(p) \in Pointer
  BY <1>1
<1> HIDE DEF I
<1>4. PICK t \in I : /\ t = NULL \/ be32toh(t) \notin {FDT_NOP}
                     /\ Seek(fdt_next_token(p), {FDT_NOP}, FDT_PROP)
                          = IF t # NULL /\ be32toh(t) = FDT_PROP THEN t ELSE NULL
  BY <1>1, <1>2, <1>3, SeekRule
<1>5. NULL \in Pointer
  BY DEF NULL, Pointer, Blob
<1>6. t \in Pointer /\ (t = NULL \/ t > p)
  BY DEF I
<1> QED BY <1>4, <1>5, <1>6 DEF fdt_node_next_prop

\* The loop of fdt_get_prop_by_name: what a turn keeps holds where it ends.
LEMMA PropFromRule ==
  ASSUME Blob, NEW prop \in Pointer, NEW name,
         NEW I \in SUBSET Pointer, prop \in I,
         \A p \in I : p # NULL /\ fdt_prop_name(p) # name => fdt_node_next_prop(p) \in I
  PROVE  \E p \in I : (p = NULL \/ fdt_prop_name(p) = name) /\ PropFrom(prop, name) = p
<1> DEFINE stop == { p \in Pointer : p = NULL \/ fdt_prop_name(p) = name }
           val == [p \in Pointer |-> p]
           next == [p \in Pointer |-> fdt_node_next_prop(p)]
           rank == [p \in Pointer |-> IF p = NULL THEN 0 ELSE Len(dt_struct) + 1 - p]
           n == Len(dt_struct)
           Is(from) == from = [p \in Pointer |->
             IF p = NULL \/ fdt_prop_name(p) = name THEN p ELSE from[fdt_node_next_prop(p)]]
<1>1. n \in Nat /\ Descends(Pointer, stop, next, rank, n)
  <2>1. n \in Nat
    BY DEF Blob
  <2>2. rank \in [Pointer -> 0..n]
    BY <2>1 DEF Pointer, NULL
  <2>3. ASSUME NEW x \in Pointer, x \notin stop PROVE next[x] \in Pointer /\ rank[next[x]] < rank[x]
    <3>1. x # NULL
      BY <2>3
    <3>2. fdt_node_next_prop(x) \in Pointer /\ (fdt_node_next_prop(x) # NULL => fdt_node_next_prop(x) > x)
      BY <3>1, NextPropLemma
    <3> QED BY <2>1, <3>1, <3>2 DEF Pointer, NULL
  <2> QED BY <2>1, <2>2, <2>3 DEF Descends
<1>2. \A f : Is(f) <=> Loop(f, Pointer, stop, val, next)
  BY Zenon DEF Loop
<1> DEFINE f == CHOOSE f : Is(f)
<1>3. Loop(f, Pointer, stop, val, next)
  <2> HIDE DEF stop, val, next, rank, n, Is
  <2>1. \E g : Is(g)
    BY <1>1, <1>2, LoopExists, Zenon
  <2>2. Is(f)
    BY <2>1, Zenon
  <2> QED BY <1>2, <2>2, Zenon
<1>4. PropFrom(prop, name) = f[prop]
  BY Zenon DEF PropFrom, Is
<1>5. \A y \in I : y \notin stop => next[y] \in I
  OBVIOUS
<1>6. \E p \in I : p \in stop /\ f[prop] = val[p]
  <2> HIDE DEF stop, val, next, rank, n, f
  <2> QED BY <1>1, <1>3, <1>5, LoopRule
<1> HIDE DEF f
<1> QED BY <1>4, <1>6

\* Property k of node n is the first with that name.
Named(n, k, name) ==
  /\ k \in DOMAIN tree[n].props
  /\ tree[n].props[k].name = name
  /\ \A l \in DOMAIN tree[n].props : tree[n].props[l].name = name => k <= l

Unnamed(n, name) == \A k \in DOMAIN tree[n].props : tree[n].props[k].name # name

\* Prop is the first property of the name, or none.
LEMMA PropCases ==
  ASSUME Done, NEW n \in Nodes, NEW name
  PROVE  /\ Unnamed(n, name) => Prop(n, name) = [at |-> NULL, name |-> name, val |-> <<>>]
         /\ \A k : Named(n, k, name) => Prop(n, name) = tree[n].props[k]
         /\ Unnamed(n, name) \/ \E k : Named(n, k, name)
<1> DEFINE is == { k \in DOMAIN tree[n].props : tree[n].props[k].name = name }
           least == CHOOSE k \in is : \A l \in is : k <= l
<1>1. DOMAIN tree[n].props = 1..Len(tree[n].props) /\ Len(tree[n].props) \in Nat
  <2>1. n \in 1..Len(tree) /\ tree \in Seq(NodeRecord)
    BY Tree
  <2> QED BY <2>1, NodeLemma
<1>2. is \subseteq Nat /\ 0 \notin is
  BY <1>1
<1>3. FirstIndex(tree[n].props, LAMBDA p : p.name = name) = IF is = {} THEN 0 ELSE least
  BY Zenon DEF FirstIndex
<1>4. Unnamed(n, name) <=> is = {}
  BY DEF Unnamed
<1>5. is = {} => Prop(n, name) = [at |-> NULL, name |-> name, val |-> <<>>]
  BY <1>3, Zenon DEF Prop
<1>6. ASSUME NEW k, Named(n, k, name) PROVE Prop(n, name) = tree[n].props[k]
  <2>1. k \in is /\ \A l \in is : k <= l
    BY <1>6 DEF Named
  <2>2. least \in is /\ \A l \in is : least <= l
    BY <2>1
  <2>3. least = k
    BY <1>2, <2>1, <2>2
  <2>4. FirstIndex(tree[n].props, LAMBDA p : p.name = name) = k /\ k # 0
    BY <1>2, <1>3, <2>1, <2>3
  <2> HIDE DEF least, is
  <2> QED BY <2>4, Zenon DEF Prop
<1>7. ASSUME is # {} PROVE \E k : Named(n, k, name)
  <2>1. PICK k \in is : \A l \in is : k <= l
    BY <1>2, <1>7, LeastElement
  <2>2. Named(n, k, name)
    BY <2>1 DEF Named
  <2> QED BY <2>2
<1> QED BY <1>4, <1>5, <1>6, <1>7

\* fdt_get_prop_by_name finds the property that has the name.
LEMMA ByName ==
  ASSUME Done, NEW n \in Nodes, NEW name
  PROVE  fdt_get_prop_by_name(At(n), NULL, name) = Prop(n, name).at
<1> DEFINE N == Len(tree[n].props)
           K == { k \in 1..(N + 1) : \A l \in 1..N : l < k => tree[n].props[l].name # name }
           I == { PropPlace(n, k) : k \in K }
<1>1. DOMAIN tree[n].props = 1..N /\ N \in Nat /\ Blob
  <2>1. n \in 1..Len(tree) /\ tree \in Seq(NodeRecord) /\ Blob
    BY Tree
  <2> QED BY <2>1, NodeLemma
<1>2. ASSUME NEW k \in 1..(N + 1)
      PROVE  /\ PropPlace(n, k) \in Pointer /\ (PropPlace(n, k) = NULL => k = N + 1)
             /\ PropPlace(n, k) # NULL => k \in 1..N /\ PropPlace(n, k) = tree[n].props[k].at
  <2>1. CASE k \in 1..N
    <3>1. tree[n].props[k].at \in Pointer /\ tree[n].props[k].at # NULL
      BY <1>1, <2>1, PropRead
    <3> QED BY <1>1, <2>1, <3>1 DEF PropPlace
  <2>2. CASE k \notin 1..N
    <3>1. PropPlace(n, k) = NULL /\ k = N + 1
      BY <1>1, <2>2 DEF PropPlace
    <3>2. NULL \in Pointer
      BY <1>1 DEF NULL, Pointer, Blob
    <3> QED BY <3>1, <3>2
  <2> QED BY <2>1, <2>2
<1>3. fdt_get_prop_by_name(At(n), NULL, name) = PropFrom(PropPlace(n, 1), name)
  BY PropsRead DEF fdt_get_prop_by_name
<1>4. PropPlace(n, 1) \in I
  <2>1. 1 \in K
    BY <1>1
  <2> QED BY <2>1
<1>5. I \in SUBSET Pointer
  BY <1>2
<1>6. ASSUME NEW p \in I, p # NULL, fdt_prop_name(p) # name PROVE fdt_node_next_prop(p) \in I
  <2>1. PICK k \in K : p = PropPlace(n, k)
    OBVIOUS
  <2>2. k \in 1..N /\ p = tree[n].props[k].at
    BY <1>2, <1>6, <2>1
  <2>3. fdt_prop_name(p) = tree[n].props[k].name
    BY <1>1, <2>2, PropRead
  <2>4. fdt_node_next_prop(p) = PropPlace(n, k + 1)
    BY <1>1, <2>2, PropsRead
  <2>5. k + 1 \in K
    BY <1>1, <1>6, <2>1, <2>2, <2>3
  <2> QED BY <2>4, <2>5
<1> HIDE DEF I
<1>7. PICK p \in I : (p = NULL \/ fdt_prop_name(p) = name) /\ PropFrom(PropPlace(n, 1), name) = p
  <2>1. PropPlace(n, 1) \in Pointer
    BY <1>4, <1>5
  <2> QED BY <1>1, <1>4, <1>5, <1>6, <2>1, PropFromRule
<1>8. PICK k \in K : p = PropPlace(n, k)
  BY DEF I
<1>9. CASE p = NULL
  <2>1. k = N + 1
    BY <1>2, <1>8, <1>9
  <2>2. Unnamed(n, name)
    BY <1>1, <1>8, <2>1 DEF Unnamed
  <2> QED BY <1>3, <1>7, <1>9, <2>2, PropCases
<1>10. CASE p # NULL
  <2>1. k \in 1..N /\ p = tree[n].props[k].at
    BY <1>2, <1>8, <1>10
  <2>2. tree[n].props[k].name = name
    BY <1>1, <1>7, <1>10, <2>1, PropRead
  <2>3. Named(n, k, name)
    <3>1. ASSUME NEW l \in 1..N, tree[n].props[l].name = name PROVE k <= l
      <4>1. ~(l < k)
        BY <1>8, <3>1
      <4> QED BY <1>1, <2>1, <4>1
    <3> QED BY <1>1, <2>1, <2>2, <3>1 DEF Named
  <2>4. Prop(n, name) = tree[n].props[k]
    BY <2>3, PropCases
  <2> QED BY <1>3, <1>7, <2>1, <2>4
<1> QED BY <1>9, <1>10

-----------------------------------------------------------------------------
(***************************************************************************)
(* The nodes above.                                                        *)
(***************************************************************************)
LEMMA StoreLemma ==
  ASSUME NEW S, NEW b \in Seq(S), NEW i \in DOMAIN b, NEW x \in S
  PROVE  /\ [b EXCEPT ![i] = x] \in Seq(S)
         /\ Len([b EXCEPT ![i] = x]) = Len(b)
         /\ \A k \in 1..Len(b) : [b EXCEPT ![i] = x][k] = IF k = i THEN x ELSE b[k]
OBVIOUS

\* The states of the loop of fdt_node_get_parents, and where it ends.
Walks == [curr : Pointer, depth : Int, branch : Seq(Pointer)]

WalkEnds(s, node) == s.curr = NULL \/ s.curr = node \/ s.depth + 1 \notin DOMAIN s.branch

WalkValue(s, node) ==
  IF s.curr = NULL \/ s.curr = node THEN [branch |-> s.branch, depth |-> s.depth]
  ELSE [branch |-> s.branch, depth |-> -1]

WalkNext(s) ==
  [curr   |-> fdt_next_node(s.curr, s.depth).node,
   depth  |-> fdt_next_node(s.curr, s.depth).depth,
   branch |-> [s.branch EXCEPT ![s.depth + 1] = s.curr]]

\* A turn of the loop of fdt_node_get_parents goes forward.
LEMMA WalkNextLemma ==
  ASSUME Blob, NEW node, NEW s \in Walks, ~WalkEnds(s, node)
  PROVE  /\ WalkNext(s) \in Walks /\ s.curr # NULL
         /\ WalkNext(s).curr # NULL => WalkNext(s).curr > s.curr
<1>1. s.curr \in Pointer /\ s.depth \in Int /\ s.branch \in Seq(Pointer)
  BY DEF Walks
<1>2. s.curr # NULL /\ s.depth + 1 \in DOMAIN s.branch
  BY DEF WalkEnds
<1>3. /\ fdt_next_node(s.curr, s.depth).node \in Pointer
      /\ fdt_next_node(s.curr, s.depth).node # NULL => fdt_next_node(s.curr, s.depth).node > s.curr
      /\ fdt_next_node(s.curr, s.depth).depth \in Int
  BY <1>1, <1>2, NextNodeLemma
<1>4. [s.branch EXCEPT ![s.depth + 1] = s.curr] \in Seq(Pointer)
  BY <1>1, <1>2, StoreLemma
<1>5. WalkNext(s) \in Walks
  BY <1>3, <1>4 DEF Walks, WalkNext
<1>6. WalkNext(s).curr = fdt_next_node(s.curr, s.depth).node
  BY DEF WalkNext
<1> QED BY <1>2, <1>3, <1>5, <1>6

\* The loop of fdt_node_get_parents: what a turn keeps holds where it ends.
LEMMA BranchRule ==
  ASSUME Blob, NEW node, NEW I \in SUBSET Walks,
         [curr |-> fdt_node_begin, depth |-> 0,
          branch |-> [k \in 1..(fdt_max_depth + 1) |-> NULL]] \in I,
         \A s \in I : ~WalkEnds(s, node) => WalkNext(s) \in I
  PROVE  \E s \in I : WalkEnds(s, node) /\ BranchTo(node) = WalkValue(s, node)
<1> DEFINE stop == { s \in Walks : WalkEnds(s, node) }
           val == [s \in Walks |-> WalkValue(s, node)]
           next == [s \in Walks |-> WalkNext(s)]
           rank == [s \in Walks |-> IF s.curr = NULL THEN 0 ELSE Len(dt_struct) + 1 - s.curr]
           n == Len(dt_struct)
           first == [curr |-> fdt_node_begin, depth |-> 0,
                     branch |-> [k \in 1..(fdt_max_depth + 1) |-> NULL]]
           Go(walk, s) ==
             IF s.curr = NULL \/ s.curr = node THEN [branch |-> s.branch, depth |-> s.depth]
             ELSE IF s.depth + 1 \notin DOMAIN s.branch THEN [branch |-> s.branch, depth |-> -1]
             ELSE LET nxt == fdt_next_node(s.curr, s.depth)
                  IN walk[[curr   |-> nxt.node, depth |-> nxt.depth,
                           branch |-> [s.branch EXCEPT ![s.depth + 1] = s.curr]]]
           Is(walk) == walk = [s \in Walks |-> Go(walk, s)]
<1>1. n \in Nat /\ Descends(Walks, stop, next, rank, n)
  <2>1. n \in Nat
    BY DEF Blob
  <2>2. \A s \in Walks : s.curr \in 0..n
    BY DEF Walks, Pointer
  <2>3. rank \in [Walks -> 0..n]
    BY <2>1, <2>2 DEF NULL
  <2>4. ASSUME NEW x \in Walks, x \notin stop PROVE next[x] \in Walks /\ rank[next[x]] < rank[x]
    <3>1. ~WalkEnds(x, node)
      BY <2>4
    <3>2. /\ WalkNext(x) \in Walks /\ x.curr # NULL
          /\ WalkNext(x).curr # NULL => WalkNext(x).curr > x.curr
      BY <3>1, WalkNextLemma
    <3>3. x.curr \in 0..n /\ WalkNext(x).curr \in 0..n
      BY <2>2, <3>2
    <3> QED BY <2>1, <3>2, <3>3 DEF NULL
  <2> QED BY <2>1, <2>3, <2>4 DEF Descends
<1>2. \A f : Is(f) <=> Loop(f, Walks, stop, val, next)
  <2> SUFFICES ASSUME NEW f PROVE Is(f) <=> Loop(f, Walks, stop, val, next)
    OBVIOUS
  <2>1. ASSUME NEW s \in Walks
        PROVE  (IF s \in stop THEN val[s] ELSE f[next[s]]) = Go(f, s)
    <3>1. val[s] = WalkValue(s, node) /\ next[s] = WalkNext(s) /\ (s \in stop <=> WalkEnds(s, node))
      OBVIOUS
    <3> HIDE DEF val, next, stop
    <3> QED BY <3>1, Zenon DEF WalkEnds, WalkNext, WalkValue
  <2> HIDE DEF stop, val, next, Go
  <2> QED BY <2>1, Zenon DEF Loop
<1> DEFINE f == CHOOSE f : Is(f)
<1>3. Loop(f, Walks, stop, val, next)
  <2> HIDE DEF stop, val, next, rank, n, Is
  <2>1. \E g : Is(g)
    BY <1>1, <1>2, LoopExists, Zenon
  <2>2. Is(f)
    BY <2>1, Zenon
  <2> QED BY <1>2, <2>2, Zenon
<1>4. BranchTo(node) = f[first]
  BY Zenon DEF BranchTo, Walks
<1>5. \A y \in I : y \notin stop => next[y] \in I
  OBVIOUS
<1>6. \E s \in I : s \in stop /\ f[first] = val[s]
  <2>1. first \in I
    BY Zenon
  <2> HIDE DEF stop, val, next, rank, n, f, first
  <2> QED BY <1>1, <1>3, <1>5, <2>1, LoopRule
<1> HIDE DEF f
<1> QED BY <1>4, <1>6

\* The nodes above a node are at the end of the line of the node in front of it.
LEMMA NextAbove ==
  ASSUME Done, NEW m \in Nodes, m + 1 \in Nodes
  PROVE  EndOf(tree[m + 1].above, Line(tree, m))
<1>1. PICK j : IsToken(j, m + 1)
  BY NodeToken
<1>2. j \in 1..Len(tokens) /\ tokens[j].is = FDT_BEGIN_NODE /\ tokens[j].nodes = m + 1
      /\ Before(j).open = tree[m + 1].above
  BY <1>1 DEF IsToken, Ancestors
<1>3. m \in Nat /\ m # 0 /\ Before(j).nodes \in Nat /\ tokens[j].nodes = Before(j).nodes + 1
  <2>1. m \in 1..Len(tree) /\ Len(tree) \in Nat
    BY Tree
  <2>2. Before(j).nodes \in 0..Len(tree)
    BY <1>2, Lengths
  <2>3. tokens[j].nodes = Before(j).nodes + 1
    BY <1>2, BeginsNode
  <2> QED BY <2>1, <2>2, <2>3
<1>4. Before(j).nodes = m
  BY <1>2, <1>3
<1>5. j # 1
  BY <1>3, <1>4 DEF Before, Start
<1>6. j - 1 \in DOMAIN tokens /\ Before(j) = tokens[j - 1]
  BY <1>2, <1>5, Tree DEF Before
<1>7. Stacks
  BY Tree DEF BlobInv
<1>8. tokens[j - 1].nodes # 0 => EndOf(tokens[j - 1].open, Line(tree, tokens[j - 1].nodes))
  BY <1>6, <1>7 DEF Stacks
<1> QED BY <1>2, <1>3, <1>4, <1>6, <1>8

\* The branch holds the nodes above node m, each at its depth.
OnBranch(m, branch) ==
  \A d \in 0..(Depth(m) - 1) : branch[d + 1] = At(Ancestors(m)[Depth(m) - d])

\* Counting a stack from its other end.
LEMMA BelowLemma ==
  ASSUME NEW k \in Nat, NEW d \in Nat, d <= k, d # k
  PROVE  d \in 0..(k - 1) /\ k - d \in 1..k /\ (k - d) + 1 = k + 1 - d /\ d + 1 # k + 1
OBVIOUS

\* With the current node stored at its depth, the branch leads to the next node.
LEMMA BranchStep ==
  ASSUME Done, NEW m \in Nodes, m + 1 \in Nodes, NEW b \in Seq(Pointer), OnBranch(m, b),
         Depth(m) + 1 \in DOMAIN b
  PROVE  OnBranch(m + 1, [b EXCEPT ![Depth(m) + 1] = At(m)])
<1> DEFINE l == Line(tree, m)
           a == Ancestors(m + 1)
           c == [b EXCEPT ![Depth(m) + 1] = At(m)]
<1>1. Depth(m) \in Nat /\ Depth(m + 1) \in Nat /\ At(m) \in Pointer
  BY DepthLemma
<1>2. /\ l[1] = m /\ Len(l) = Depth(m) + 1
      /\ \A i \in 1..Depth(m) : l[i + 1] = Ancestors(m)[i]
  BY LineLemma, DepthLemma DEF Depth, Ancestors
<1>3. Len(a) = Depth(m + 1) /\ Len(a) <= Len(l) /\ \A d \in 0..(Len(a) - 1) : a[Len(a) - d] = l[Len(l) - d]
  BY NextAbove DEF EndOf, Depth, Ancestors
<1>4. DOMAIN b = 1..Len(b) /\ Len(b) \in Nat
  BY ElemLemma
<1>5. \A k \in 1..Len(b) : c[k] = IF k = Depth(m) + 1 THEN At(m) ELSE b[k]
  BY <1>1, StoreLemma
<1> HIDE DEF l, a, c
<1>6. ASSUME NEW d \in 0..(Depth(m + 1) - 1) PROVE c[d + 1] = At(a[Depth(m + 1) - d])
  <2>1. d \in Nat /\ d <= Depth(m)
    BY <1>1, <1>2, <1>3
  <2>2. a[Depth(m + 1) - d] = l[Depth(m) + 1 - d]
    <3>1. d \in 0..(Len(a) - 1)
      BY <1>3
    <3>2. a[Len(a) - d] = l[Len(l) - d]
      BY <1>3, <3>1
    <3>3. Len(a) = Depth(m + 1) /\ Len(l) = Depth(m) + 1
      BY <1>2, <1>3
    <3>4. Len(a) - d = Depth(m + 1) - d /\ Len(l) - d = Depth(m) + 1 - d
      BY <1>1, <3>3
    <3> QED BY <3>2, <3>4, Zenon
  <2>3. d + 1 \in 1..Len(b)
    BY <1>1, <1>4, <2>1
  <2>4. CASE d = Depth(m)
    <3>1. Depth(m) + 1 - d = 1
      BY <1>1, <2>4
    <3>2. c[d + 1] = At(m)
      BY <1>5, <2>3, <2>4
    <3> QED BY <1>2, <2>2, <3>1, <3>2
  <2>5. CASE d # Depth(m)
    <3>1. d \in 0..(Depth(m) - 1) /\ Depth(m) - d \in 1..Depth(m) /\ (Depth(m) - d) + 1 = Depth(m) + 1 - d
          /\ d + 1 # Depth(m) + 1
      BY <1>1, <2>1, <2>5, BelowLemma
    <3>2. c[d + 1] = b[d + 1]
      BY <1>5, <2>3, <3>1
    <3>3. b[d + 1] = At(Ancestors(m)[Depth(m) - d])
      BY <3>1 DEF OnBranch
    <3>4. l[Depth(m) + 1 - d] = Ancestors(m)[Depth(m) - d]
      BY <1>2, <3>1
    <3> QED BY <2>2, <3>2, <3>3, <3>4
  <2> QED BY <2>4, <2>5
<1> QED BY <1>6 DEF OnBranch, a, c

\* Different nodes are at different places.
LEMMA AtDiffer ==
  ASSUME Done, NEW m \in Nodes, NEW n \in Nodes, At(m) = At(n)
  PROVE  m = n
<1>1. \A i, j \in DOMAIN tree : i < j => tree[i].at < tree[j].at
  BY Tree DEF BlobInv, Written
<1>2. m \in Nat /\ n \in Nat /\ tree[m].at = tree[n].at
  BY Tree DEF At
<1>3. tree[m].at \in Nat
  BY Tree, NodeLemma
<1>4. ~(m < n) /\ ~(n < m)
  <2>1. m < n => tree[m].at < tree[n].at
    BY <1>1 DEF Nodes
  <2>2. n < m => tree[n].at < tree[m].at
    BY <1>1 DEF Nodes
  <2> QED BY <1>2, <1>3, <2>1, <2>2
<1> QED BY <1>2, <1>4

\* The walk of fdt_node_get_parents ends at the node, with what is above it.
LEMMA BranchExact ==
  ASSUME Done, NEW n \in Nodes
  PROVE  BranchTo(At(n)).depth = Depth(n) /\ OnBranch(n, BranchTo(At(n)).branch)
<1> DEFINE Reached(m, s) == /\ m \in 1..n
                            /\ s.curr = At(m) /\ s.depth = Depth(m)
                            /\ Len(s.branch) = fdt_max_depth + 1
                            /\ OnBranch(m, s.branch)
           I == { s \in Walks : \E m : Reached(m, s) }
           none == [k \in 1..(fdt_max_depth + 1) |-> NULL]
           first == [curr |-> fdt_node_begin, depth |-> 0, branch |-> none]
<1>1. Blob /\ Len(tree) \in Nat /\ Nodes = 1..Len(tree) /\ 1 \in Nodes /\ n \in 1..Len(tree)
  BY Tree
<1>2. fdt_max_depth \in Nat /\ \A m \in Nodes : Depth(m) <= fdt_max_depth /\ Depth(m) \in Nat
  BY MaxDepthExact, DepthLemma
<1>3. first \in I
  <2>1. none \in Seq(Pointer) /\ Len(none) = fdt_max_depth + 1
    <3>1. NULL \in Pointer
      BY <1>1 DEF NULL, Pointer, Blob
    <3> QED BY <1>2, <3>1
  <2>2. fdt_node_begin = At(1) /\ At(1) \in Pointer /\ Depth(1) = 0
    BY <1>1, NodeBegin, DepthLemma, RootDepth
  <2> HIDE DEF none
  <2>3. first \in Walks
    BY <2>1, <2>2 DEF Walks
  <2>4. first.curr = At(1) /\ first.depth = Depth(1) /\ first.branch = none
    BY <2>2
  <2>5. OnBranch(1, none)
    BY <2>2 DEF OnBranch
  <2> HIDE DEF first
  <2>6. Reached(1, first)
    BY <1>1, <2>1, <2>4, <2>5
  <2> QED BY <2>3, <2>6
<1>4. ASSUME NEW s \in I, ~WalkEnds(s, At(n)) PROVE WalkNext(s) \in I
  <2>1. PICK m : Reached(m, s)
    OBVIOUS
  <2>2. s.curr # At(n) /\ s.depth + 1 \in DOMAIN s.branch
    BY <1>4 DEF WalkEnds
  <2>3. m \in 1..n /\ m # n /\ m \in Nodes /\ m + 1 \in Nodes /\ m + 1 \in 1..n
    BY <1>1, <2>1, <2>2
  <2>4. /\ fdt_next_node(At(m), Depth(m)).node = At(m + 1)
        /\ fdt_next_node(At(m), Depth(m)).depth = Depth(m + 1)
    BY <2>3, NextNodeDepth
  <2>5. s.branch \in Seq(Pointer) /\ s.curr = At(m) /\ s.depth = Depth(m) /\ At(m) \in Pointer
    BY <2>1, <2>3, DepthLemma DEF Walks
  <2>6. /\ WalkNext(s).curr = At(m + 1) /\ WalkNext(s).depth = Depth(m + 1)
        /\ WalkNext(s).branch = [s.branch EXCEPT ![Depth(m) + 1] = At(m)]
    BY <2>4, <2>5 DEF WalkNext
  <2>7. OnBranch(m + 1, WalkNext(s).branch)
    BY <2>1, <2>2, <2>3, <2>5, <2>6, BranchStep
  <2>8. Len(WalkNext(s).branch) = fdt_max_depth + 1
    BY <2>1, <2>2, <2>5, <2>6, StoreLemma
  <2>9. WalkNext(s) \in Walks
    BY <1>1, <1>4, WalkNextLemma
  <2>10. Reached(m + 1, WalkNext(s))
    BY <2>3, <2>6, <2>7, <2>8
  <2> HIDE DEF Reached
  <2> QED BY <2>9, <2>10
<1>5. I \in SUBSET Walks
  OBVIOUS
<1> HIDE DEF I
<1>6. PICK s \in I : WalkEnds(s, At(n)) /\ BranchTo(At(n)) = WalkValue(s, At(n))
  BY <1>1, <1>3, <1>4, <1>5, BranchRule
<1>7. PICK m : Reached(m, s)
  BY DEF I
<1>8. m \in Nodes
  BY <1>1, <1>7
<1>9. s.curr # NULL
  BY <1>7, <1>8, DepthLemma
<1>10. s.depth + 1 \in DOMAIN s.branch
  <2>1. s.branch \in Seq(Pointer)
    BY <1>5 DEF Walks
  <2>2. DOMAIN s.branch = 1..(fdt_max_depth + 1)
    BY <1>7, <2>1, ElemLemma
  <2> QED BY <1>2, <1>7, <1>8, <2>2
<1>11. s.curr = At(n)
  BY <1>6, <1>9, <1>10 DEF WalkEnds
<1>12. m = n
  BY <1>7, <1>8, <1>11, AtDiffer
<1>13. BranchTo(At(n)) = [branch |-> s.branch, depth |-> s.depth]
  BY <1>6, <1>11 DEF WalkValue
<1> QED BY <1>7, <1>12, <1>13

\* As many of the nodes above as there is room for, nearest first.
LEMMA ParentsRead ==
  ASSUME Done, NEW n \in Nodes, NEW room \in Nat
  PROVE  fdt_node_get_parents(At(n), room)
           = [k \in 1..(IF room < Depth(n) THEN room ELSE Depth(n)) |-> At(Ancestors(n)[k])]
<1> DEFINE found == BranchTo(At(n))
           K == 1..(IF room < Depth(n) THEN room ELSE Depth(n))
<1>1. found.depth = Depth(n) /\ OnBranch(n, found.branch) /\ Depth(n) \in Nat
  BY BranchExact, DepthLemma
<1> HIDE DEF found
<1>2. ASSUME NEW k \in K PROVE found.branch[found.depth - k + 1] = At(Ancestors(n)[k])
  <2>1. k \in 1..Depth(n)
    BY <1>1
  <2>2. Depth(n) - k \in 0..(Depth(n) - 1) /\ Depth(n) - (Depth(n) - k) = k
    BY <1>1, <2>1
  <2>3. found.branch[(Depth(n) - k) + 1] = At(Ancestors(n)[Depth(n) - (Depth(n) - k)])
    BY <1>1, <2>2 DEF OnBranch
  <2> QED BY <1>1, <2>2, <2>3
<1>3. Parents(found, room) = [k \in K |-> found.branch[found.depth - k + 1]]
  BY <1>1 DEF Parents
<1> QED BY <1>2, <1>3 DEF fdt_node_get_parents, found

\* The loop of fdt_node_get_inherited_prop.
LEMMA FirstWithRule ==
  ASSUME NEW nodes, Len(nodes) \in Nat, NEW name
  PROVE  \E i \in 1..(Len(nodes) + 1) :
           /\ \A k \in 1..(i - 1) : fdt_get_prop_by_name(nodes[k], NULL, name) = NULL
           /\ i <= Len(nodes) => /\ fdt_get_prop_by_name(nodes[i], NULL, name) # NULL
                                 /\ FirstWith(nodes, name) = fdt_get_prop_by_name(nodes[i], NULL, name)
           /\ i = Len(nodes) + 1 => FirstWith(nodes, name) = NULL
<1> DEFINE n == Len(nodes)
           S == 1..(n + 1)
           Has1(i) == fdt_get_prop_by_name(nodes[i], NULL, name)
           stop == { i \in S : i > n \/ Has1(i) # NULL }
           val == [i \in S |-> IF i > n THEN NULL ELSE Has1(i)]
           next == [i \in S |-> i + 1]
           rank == [i \in S |-> n + 1 - i]
           I == { i \in S : \A k \in 1..(i - 1) : Has1(k) = NULL }
           Go(from, i) == IF i > Len(nodes) THEN NULL
                          ELSE LET prop == fdt_get_prop_by_name(nodes[i], NULL, name)
                               IN IF prop # NULL THEN prop ELSE from[i + 1]
           Is(from) == from = [i \in 1..(Len(nodes) + 1) |-> Go(from, i)]
<1>1. n \in Nat /\ Descends(S, stop, next, rank, n)
  BY DEF Descends
<1>2. \A f : Is(f) <=> Loop(f, S, stop, val, next)
  <2> SUFFICES ASSUME NEW f PROVE Is(f) <=> Loop(f, S, stop, val, next)
    OBVIOUS
  <2>1. ASSUME NEW i \in S PROVE (IF i \in stop THEN val[i] ELSE f[next[i]]) = Go(f, i)
    <3>1. val[i] = (IF i > n THEN NULL ELSE Has1(i)) /\ next[i] = i + 1
          /\ (i \in stop <=> i > n \/ Has1(i) # NULL)
      OBVIOUS
    <3> HIDE DEF val, next, stop
    <3> QED BY <3>1, Zenon
  <2> HIDE DEF stop, val, next, Go
  <2> QED BY <2>1, Zenon DEF Loop
<1> DEFINE f == CHOOSE f : Is(f)
<1>3. Loop(f, S, stop, val, next)
  <2> HIDE DEF stop, val, next, rank, n, Is, S
  <2>1. \E g : Is(g)
    BY <1>1, <1>2, LoopExists, Zenon
  <2>2. Is(f)
    BY <2>1, Zenon
  <2> QED BY <1>2, <2>2, Zenon
<1>4. FirstWith(nodes, name) = f[1]
  BY Zenon DEF FirstWith
<1>5. \A y \in I : y \notin stop => next[y] \in I
  <2> SUFFICES ASSUME NEW y \in I, y \notin stop PROVE y + 1 \in I
    OBVIOUS
  <2>1. y \in S /\ ~(y > n) /\ Has1(y) = NULL
    OBVIOUS
  <2> HIDE DEF Has1
  <2>2. y + 1 \in S
    BY <1>1, <2>1
  <2>3. \A k \in 1..y : k = y \/ k \in 1..(y - 1)
    BY <2>1
  <2>4. y + 1 - 1 = y
    BY <2>1
  <2> QED BY <2>1, <2>2, <2>3, <2>4
<1>6. 1 \in I /\ I \in SUBSET S
  BY <1>1
<1>7. \E i \in I : i \in stop /\ f[1] = val[i]
  <2> HIDE DEF stop, val, next, rank, n, f, S, I
  <2> QED BY <1>1, <1>3, <1>5, <1>6, LoopRule
<1> HIDE DEF f
<1>8. PICK i \in I : i \in stop /\ f[1] = val[i]
  BY <1>7
<1>9. /\ i \in S /\ \A k \in 1..(i - 1) : Has1(k) = NULL
      /\ i > n \/ Has1(i) # NULL
      /\ f[1] = IF i > n THEN NULL ELSE Has1(i)
  BY <1>8
<1> HIDE DEF Has1, I, stop, val
<1>10. /\ i <= n => Has1(i) # NULL /\ f[1] = Has1(i)
       /\ i = n + 1 => f[1] = NULL
  BY <1>1, <1>9
<1> QED BY <1>4, <1>9, <1>10 DEF Has1

\* The node of n's line that is the nearest with the property; 0 for none.
Nearest(n, name) == FirstIndex(<<n>> \o Ancestors(n), LAMBDA m : Has(m, name))

\* Nearest is the first in the line of a node that has the property, or 0.
LEMMA NearestLemma ==
  ASSUME Done, NEW n \in Nodes, NEW name
  PROVE  /\ Len(Line(tree, n)) = Depth(n) + 1 /\ Depth(n) \in Nat
         /\ \A k \in 1..(Depth(n) + 1) : Line(tree, n)[k] \in Nodes
         /\ Nearest(n, name) = 0 => \A k \in 1..(Depth(n) + 1) : ~Has(Line(tree, n)[k], name)
         /\ \A i \in 1..(Depth(n) + 1) :
              Has(Line(tree, n)[i], name) /\ (\A k \in 1..(i - 1) : ~Has(Line(tree, n)[k], name))
                => Nearest(n, name) = i
         /\ Nearest(n, name) \in 0..(Depth(n) + 1)
         /\ Nearest(n, name) # 0 => Has(Line(tree, n)[Nearest(n, name)], name)
<1> DEFINE l == Line(tree, n)
           N == Depth(n) + 1
           is == { k \in DOMAIN l : Has(l[k], name) }
           least == CHOOSE k \in is : \A j \in is : k <= j
<1>1. /\ l \in Seq(Nat) /\ Len(l) = N /\ Depth(n) \in Nat /\ N \in Nat /\ l[1] = n
      /\ \A i \in 1..Depth(n) : l[i + 1] = tree[n].above[i]
  BY LineLemma, DepthLemma DEF Depth, Ancestors
<1>2. DOMAIN l = 1..N
  BY <1>1, ElemLemma
<1>3. ASSUME NEW k \in 1..N PROVE l[k] \in Nodes
  <2>1. CASE k = 1
    BY <1>1, <2>1
  <2>2. CASE k # 1
    <3>1. k - 1 \in 1..Depth(n) /\ (k - 1) + 1 = k
      BY <1>1, <2>2
    <3>2. l[k] = tree[n].above[k - 1]
      BY <1>1, <3>1
    <3>3. k - 1 \in 1..Len(tree[n].above)
      BY <3>1 DEF Depth, Ancestors
    <3>4. tree[n].above[k - 1] \in 1..(n - 1) /\ n \in 1..Len(tree)
      BY <3>3, AboveLemma
    <3>5. Nodes = 1..Len(tree) /\ Len(tree) \in Nat
      BY Tree
    <3> QED BY <3>2, <3>4, <3>5
  <2> QED BY <2>1, <2>2
<1>4. Nearest(n, name) = IF is = {} THEN 0 ELSE least
  BY Zenon DEF Nearest, FirstIndex, Line, Ancestors
<1> HIDE DEF l
<1>5. is \subseteq 1..N /\ is \subseteq Nat /\ 0 \notin is
  BY <1>1, <1>2
<1>6. is # {} => least \in is /\ \A j \in is : least <= j
  <2> SUFFICES ASSUME is # {} PROVE least \in is /\ \A j \in is : least <= j
    OBVIOUS
  <2>1. \E k \in is : \A j \in is : k <= j
    BY <1>5, LeastElement
  <2> HIDE DEF is
  <2> QED BY <2>1
<1>7. Nearest(n, name) = 0 => \A k \in 1..N : ~Has(l[k], name)
  BY <1>2, <1>4, <1>5, <1>6
<1>8. ASSUME NEW i \in 1..N, Has(l[i], name), \A k \in 1..(i - 1) : ~Has(l[k], name)
      PROVE  Nearest(n, name) = i
  <2>1. i \in is
    BY <1>2, <1>8
  <2>2. least \in is /\ least <= i
    BY <1>6, <2>1
  <2>3. least \in 1..N /\ Has(l[least], name)
    BY <1>2, <2>2
  <2> HIDE DEF is, least
  <2>4. ~(least \in 1..(i - 1))
    BY <1>8, <2>3
  <2>5. least = i
    BY <1>1, <2>2, <2>3, <2>4
  <2> QED BY <1>4, <2>1, <2>5
<1>9. Nearest(n, name) \in 0..N /\ (Nearest(n, name) # 0 => Has(l[Nearest(n, name)], name))
  <2>1. CASE is = {}
    BY <1>1, <1>4, <2>1
  <2>2. CASE is # {}
    <3>1. Nearest(n, name) \in is
      BY <1>4, <1>6, <2>2
    <3> QED BY <1>1, <1>5, <3>1
  <2> QED BY <2>1, <2>2
<1> QED BY <1>1, <1>3, <1>7, <1>8, <1>9 DEF l

\* What fdt_node_get_inherited_prop finds is the nearest definition.
LEMMA InheritedRead ==
  ASSUME Done, NEW n \in Nodes, NEW name
  PROVE  /\ Nearest(n, name) = 0 => fdt_node_get_inherited_prop(At(n), name) = NULL
         /\ Nearest(n, name) # 0 => fdt_node_get_inherited_prop(At(n), name)
                                      = Prop(Line(tree, n)[Nearest(n, name)], name).at
<1> DEFINE l == Line(tree, n)
           N == Depth(n) + 1
           par == fdt_node_get_parents(At(n), fdt_max_depth)
           nodes == <<At(n)>> \o par
<1>1. /\ Len(l) = N /\ Depth(n) \in Nat /\ N \in Nat /\ \A k \in 1..N : l[k] \in Nodes
      /\ l[1] = n /\ \A i \in 1..Depth(n) : l[i + 1] = Ancestors(n)[i]
  <2>1. l[1] = n /\ \A i \in 1..Depth(n) : l[i + 1] = Ancestors(n)[i]
    BY LineLemma DEF Depth, Ancestors
  <2>2. /\ Len(l) = N /\ Depth(n) \in Nat /\ \A k \in 1..N : l[k] \in Nodes
    BY NearestLemma
  <2>3. N \in Nat
    BY <2>2
  <2> HIDE DEF l, N
  <2> QED BY <2>1, <2>2, <2>3
<1>2. fdt_max_depth \in Nat /\ Depth(n) <= fdt_max_depth
  BY MaxDepthExact
<1>3. par = [k \in 1..Depth(n) |-> At(Ancestors(n)[k])]
  <2>1. (IF fdt_max_depth < Depth(n) THEN fdt_max_depth ELSE Depth(n)) = Depth(n)
    BY <1>1, <1>2
  <2> QED BY <1>2, <2>1, ParentsRead
<1> HIDE DEF par, l
<1>4. ASSUME NEW k \in 1..Depth(n) PROVE At(Ancestors(n)[k]) \in Nat
  <2>1. k + 1 \in 1..N /\ l[k + 1] = Ancestors(n)[k]
    BY <1>1
  <2>2. At(l[k + 1]) \in Pointer
    BY <1>1, <2>1, DepthLemma
  <2> QED BY <2>1, <2>2 DEF Pointer
<1>5. par \in Seq(Nat) /\ Len(par) = Depth(n) /\ \A k \in 1..Depth(n) : par[k] = At(Ancestors(n)[k])
  BY <1>1, <1>3, <1>4
<1>6. <<At(n)>> \in Seq(Nat) /\ Len(<<At(n)>>) = 1 /\ <<At(n)>>[1] = At(n)
  <2>1. At(n) \in Nat
    BY DepthLemma DEF Pointer
  <2> QED BY <2>1
<1>7. /\ Len(nodes) = 1 + Depth(n)
      /\ nodes[1] = At(n)
      /\ \A k \in 1..Depth(n) : nodes[1 + k] = At(Ancestors(n)[k])
  <2>1. /\ nodes \in Seq(Nat) /\ Len(nodes) = 1 + Len(par)
        /\ \A k \in 1..1 : nodes[k] = <<At(n)>>[k]
        /\ \A k \in 1..Len(par) : nodes[1 + k] = par[k]
    BY <1>5, <1>6, JoinLemma
  <2> HIDE DEF nodes
  <2> QED BY <1>5, <1>6, <2>1
<1> HIDE DEF nodes
<1>8. Len(nodes) = N /\ Len(nodes) \in Nat
  BY <1>1, <1>7
<1>9. ASSUME NEW k \in 1..N PROVE nodes[k] = At(l[k])
  <2>1. CASE k = 1
    BY <1>1, <1>7, <2>1
  <2>2. CASE k # 1
    <3>1. k - 1 \in 1..Depth(n) /\ (k - 1) + 1 = k /\ 1 + (k - 1) = k
      BY <1>1, <2>2
    <3>2. nodes[1 + (k - 1)] = At(Ancestors(n)[k - 1]) /\ l[(k - 1) + 1] = Ancestors(n)[k - 1]
      BY <1>1, <1>7, <3>1
    <3> QED BY <3>1, <3>2
  <2> QED BY <2>1, <2>2
<1>10. ASSUME NEW k \in 1..N
       PROVE  /\ fdt_get_prop_by_name(nodes[k], NULL, name) = Prop(l[k], name).at
              /\ Has(l[k], name) <=> fdt_get_prop_by_name(nodes[k], NULL, name) # NULL
  <2>1. nodes[k] = At(l[k]) /\ l[k] \in Nodes
    BY <1>1, <1>9
  <2>2. fdt_get_prop_by_name(At(l[k]), NULL, name) = Prop(l[k], name).at
    BY <2>1, ByName
  <2> QED BY <2>1, <2>2 DEF Has
<1>11. PICK i \in 1..(Len(nodes) + 1) :
         /\ \A k \in 1..(i - 1) : fdt_get_prop_by_name(nodes[k], NULL, name) = NULL
         /\ i <= Len(nodes) => /\ fdt_get_prop_by_name(nodes[i], NULL, name) # NULL
                               /\ FirstWith(nodes, name) = fdt_get_prop_by_name(nodes[i], NULL, name)
         /\ i = Len(nodes) + 1 => FirstWith(nodes, name) = NULL
  BY <1>8, FirstWithRule
<1>12. fdt_node_get_inherited_prop(At(n), name) = FirstWith(nodes, name)
  BY Zenon DEF fdt_node_get_inherited_prop, nodes, par
<1>13. \A k \in 1..(i - 1) : ~Has(l[k], name)
  <2> SUFFICES ASSUME NEW k \in 1..(i - 1) PROVE ~Has(l[k], name)
    OBVIOUS
  <2>1. k \in 1..N
    BY <1>8
  <2> QED BY <1>10, <1>11, <2>1
<1>14. CASE i <= N
  <2>1. i \in 1..N
    BY <1>8, <1>14
  <2>2. Has(l[i], name) /\ FirstWith(nodes, name) = Prop(l[i], name).at
    BY <1>8, <1>10, <1>11, <1>14, <2>1
  <2>3. Nearest(n, name) = i
    BY <1>13, <2>1, <2>2, NearestLemma DEF l
  <2>4. i # 0
    BY <2>1
  <2> QED BY <1>12, <2>2, <2>3, <2>4 DEF l
<1>15. CASE ~(i <= N)
  <2>1. i = N + 1 /\ i - 1 = N
    BY <1>8, <1>15
  <2>2. FirstWith(nodes, name) = NULL
    BY <1>8, <1>11, <2>1
  <2>3. Nearest(n, name) = 0
    <3> SUFFICES ASSUME Nearest(n, name) # 0 PROVE FALSE
      OBVIOUS
    <3>1. Nearest(n, name) \in 0..N /\ Has(l[Nearest(n, name)], name)
      BY NearestLemma DEF l
    <3>2. Nearest(n, name) \in 1..(i - 1)
      BY <1>1, <2>1, <3>1
    <3> QED BY <1>13, <3>1, <3>2
  <2> QED BY <1>12, <2>2, <2>3
<1> QED BY <1>14, <1>15

\* fdt_node_get_parents never stores outside its array and gives the
\* ancestors, nearest first, and an inherited property is the nearest one.
THEOREM ParentsTheorem == Spec => []ParentsExact
<1>1. BlobInv /\ SideInv => ParentsExact
  <2> SUFFICES ASSUME Done PROVE ParentsExact
    BY DEF Done, ParentsExact
  <2> SUFFICES ASSUME NEW n \in Nodes
               PROVE  /\ \A room \in {1, kind.nodes} :
                           fdt_node_get_parents(At(n), room)
                             = [k \in 1..(IF room < Len(Ancestors(n)) THEN room ELSE Len(Ancestors(n)))
                                  |-> At(Ancestors(n)[k])]
                      /\ \A name \in kind.strings :
                           fdt_node_get_inherited_prop(At(n), name)
                             = IF Nearest(n, name) = 0 THEN NULL
                               ELSE Prop((<<n>> \o Ancestors(n))[Nearest(n, name)], name).at
    BY Zenon DEF ParentsExact, Nearest
  <2>1. ASSUME NEW room \in {1, kind.nodes}
        PROVE  fdt_node_get_parents(At(n), room)
                 = [k \in 1..(IF room < Len(Ancestors(n)) THEN room ELSE Len(Ancestors(n)))
                      |-> At(Ancestors(n)[k])]
    <3>1. kind \in Kinds
      BY DoneSide DEF Given
    <3>2. room \in Nat
      BY <3>1, BlobAssumption
    <3> QED BY <3>2, ParentsRead DEF Depth
  <2>2. ASSUME NEW name \in kind.strings
        PROVE  fdt_node_get_inherited_prop(At(n), name)
                 = IF Nearest(n, name) = 0 THEN NULL
                   ELSE Prop((<<n>> \o Ancestors(n))[Nearest(n, name)], name).at
    BY InheritedRead DEF Line, Ancestors
  <2> QED BY <2>1, <2>2
<1> QED BY <1>1, BlobInvariant, SideInvariant, PTL

-----------------------------------------------------------------------------
(***************************************************************************)
(* Register blocks.                                                        *)
(***************************************************************************)
\* The bytes in memory are those the producer wrote, and so is every part.
LEMMA MemoryRead ==
  ASSUME Blob, NEW p \in Nat, p >= 1, NEW b \in Seq(Nat), Holds(dt_struct, p, b)
  PROVE  /\ Memory(p, Len(b)) = b
         /\ \A o, n \in Nat : o + n <= Len(b) => Memory(p + o, n) = SubSeq(b, o + 1, o + n)
<1>1. Len(b) \in Nat /\ \A i \in 0..(Len(b) - 1) : Byte(p + i) = b[i + 1]
  BY HoldsByte, ElemLemma
<1>2. \A k \in 1..Len(b) : Byte(p + k - 1) = b[k]
  <2> SUFFICES ASSUME NEW k \in 1..Len(b) PROVE Byte(p + k - 1) = b[k]
    OBVIOUS
  <2>1. k - 1 \in 0..(Len(b) - 1) /\ (k - 1) + 1 = k /\ p + (k - 1) = p + k - 1
    BY <1>1
  <2> QED BY <1>1, <2>1
<1>3. Memory(p, Len(b)) = b
  BY <1>2 DEF Memory
<1>4. ASSUME NEW o \in Nat, NEW n \in Nat, o + n <= Len(b)
      PROVE  Memory(p + o, n) = SubSeq(b, o + 1, o + n)
  <2>1. SubSeq(b, o + 1, o + n) = [k \in 1..n |-> b[o + k]]
    BY <1>1, <1>4
  <2>2. \A k \in 1..n : Byte(p + o + k - 1) = b[o + k]
    <3> SUFFICES ASSUME NEW k \in 1..n PROVE Byte(p + o + k - 1) = b[o + k]
      OBVIOUS
    <3>1. o + k \in 1..Len(b) /\ p + (o + k) - 1 = p + o + k - 1
      BY <1>1, <1>4
    <3> QED BY <1>2, <3>1
  <2> QED BY <2>1, <2>2 DEF Memory
<1> QED BY <1>3, <1>4

\* A property a node has is read as it was written, and its value is one of
\* those of its name.
LEMMA PropGiven ==
  ASSUME Done, NEW n \in Nodes, NEW name, Has(n, name)
  PROVE  /\ Prop(n, name).at \in Pointer /\ Prop(n, name).at # NULL
         /\ Prop(n, name).val \in Seq(Nat) /\ Prop(n, name).val \in Seq(0..255)
         /\ Prop(n, name).val \in Values(name)
         /\ fdt_prop_val_len(Prop(n, name).at) = Len(Prop(n, name).val)
         /\ fdt_prop_val(Prop(n, name).at) \in Nat /\ fdt_prop_val(Prop(n, name).at) >= 1
         /\ Holds(dt_struct, fdt_prop_val(Prop(n, name).at), Prop(n, name).val)
<1>1. PICK k : Named(n, k, name)
  <2>1. ~Unnamed(n, name)
    <3> SUFFICES ASSUME Unnamed(n, name) PROVE FALSE
      OBVIOUS
    <3>1. Prop(n, name) = [at |-> NULL, name |-> name, val |-> <<>>]
      BY PropCases
    <3> QED BY <3>1 DEF Has
  <2> QED BY <2>1, PropCases
<1>2. /\ k \in DOMAIN tree[n].props /\ tree[n].props[k].name = name
      /\ Prop(n, name) = tree[n].props[k]
  BY <1>1, PropCases DEF Named
<1>3. n \in 1..Len(tree) /\ k \in 1..Len(tree[n].props)
  <2>1. n \in 1..Len(tree) /\ tree \in Seq(NodeRecord)
    BY Tree
  <2>2. DOMAIN tree[n].props = 1..Len(tree[n].props)
    BY <2>1, NodeLemma
  <2> QED BY <1>2, <2>1, <2>2, Zenon
<1>4. tree[n].props[k].val \in Values(name) /\ tree[n].props[k].val \in Seq(0..255)
  BY <1>2, <1>3, DoneSide, Zenon DEF ValuesIn
<1>5. /\ Prop(n, name).at \in Pointer /\ Prop(n, name).at # NULL /\ Prop(n, name).val \in Seq(Nat)
      /\ fdt_prop_val_len(Prop(n, name).at) = Len(Prop(n, name).val)
      /\ Holds(dt_struct, fdt_prop_val(Prop(n, name).at), Prop(n, name).val)
  BY <1>2, PropRead
<1>6. Prop(n, name).at \in Nat
  BY <1>5 DEF Pointer
<1>7. fdt_prop_val(Prop(n, name).at) \in Nat /\ fdt_prop_val(Prop(n, name).at) >= 1
  BY <1>6 DEF fdt_prop_val
<1> QED BY <1>2, <1>4, <1>5, <1>7, Zenon

\* A property a node does not have.
LEMMA NotGiven ==
  ASSUME Done, NEW n \in Nodes, NEW name, ~Has(n, name)
  PROVE  Prop(n, name) = [at |-> NULL, name |-> name, val |-> <<>>]
<1>1. ASSUME NEW k, Named(n, k, name) PROVE FALSE
  <2>1. Prop(n, name) = tree[n].props[k] /\ k \in DOMAIN tree[n].props
    BY <1>1, PropCases DEF Named
  <2>2. tree[n].props[k].at # NULL
    BY <2>1, PropRead
  <2> QED BY <2>1, <2>2 DEF Has
<1>2. Unnamed(n, name)
  BY <1>1, PropCases, Zenon
<1> QED BY <1>2, PropCases, Zenon

\* The number in the first cell.
LEMMA NumberRead ==
  ASSUME Blob, NEW p \in Nat, p >= 1, NEW b \in Seq(Nat), Holds(dt_struct, p, b), Len(b) >= 4
  PROVE  be32toh(p) = Number(b)
<1>1. \A i \in 0..3 : Byte(p + i) = b[i + 1]
  <2>1. \A i \in 0..3 : i \in 0..(Len(b) - 1)
    OBVIOUS
  <2> QED BY <2>1, HoldsByte
<1>2. Byte(p) = b[1] /\ Byte(p + 1) = b[2] /\ Byte(p + 2) = b[3] /\ Byte(p + 3) = b[4]
  <2>1. Byte(p + 0) = b[0 + 1] /\ Byte(p + 1) = b[1 + 1] /\ Byte(p + 2) = b[2 + 1] /\ Byte(p + 3) = b[3 + 1]
    BY <1>1
  <2> QED BY <2>1
<1> QED BY <1>2, Zenon DEF be32toh, Number

\* How many whole cells a length has.
LEMMA QuarterLemma ==
  ASSUME NEW len \in Nat
  PROVE  /\ len \div 4 \in Nat /\ 4 * (len \div 4) <= len /\ len < 4 * (len \div 4) + 4
         /\ (0 >= len \div 4) <=> len < 4
<1>1. PICK q \in Nat : q = len \div 4 /\ 4 * q <= len /\ len < 4 * q + 4
  <2>1. len \div 4 \in Nat /\ 4 * (len \div 4) <= len /\ len < 4 * (len \div 4) + 4
    BY Z3
  <2> QED BY <2>1
<1>2. (0 >= q) <=> len < 4
  BY <1>1
<1> QED BY <1>1, <1>2, Zenon

\* The first cell of a property is the number its value begins with.
LEMMA FirstCell ==
  ASSUME Done, NEW n \in Nodes, NEW name, Has(n, name)
  PROVE  fdt_prop_get_cell(Prop(n, name).at, 0)
           = IF Len(Prop(n, name).val) < 4 THEN 0 ELSE Number(Prop(n, name).val)
<1> DEFINE q == Prop(n, name)
<1>1. /\ q.val \in Seq(Nat) /\ Len(q.val) \in Nat /\ fdt_prop_val_len(q.at) = Len(q.val)
      /\ fdt_prop_val(q.at) \in Nat /\ fdt_prop_val(q.at) >= 1
      /\ Holds(dt_struct, fdt_prop_val(q.at), q.val)
  BY PropGiven, ElemLemma
<1>2. Blob
  BY Tree
<1> HIDE DEF q
<1>3. (0 >= Len(q.val) \div 4) <=> Len(q.val) < 4
  BY <1>1, QuarterLemma
<1>4. fdt_prop_val(q.at) + 4 * 0 = fdt_prop_val(q.at)
  BY <1>1
<1>5. fdt_prop_get_cell(q.at, 0) = IF Len(q.val) < 4 THEN 0 ELSE be32toh(fdt_prop_val(q.at))
  BY <1>1, <1>3, <1>4, Zenon DEF fdt_prop_get_cell, fdt_prop_num_cells
<1>6. ~(Len(q.val) < 4) => be32toh(fdt_prop_val(q.at)) = Number(q.val)
  <2> SUFFICES ASSUME ~(Len(q.val) < 4) PROVE be32toh(fdt_prop_val(q.at)) = Number(q.val)
    OBVIOUS
  <2>1. Len(q.val) >= 4
    BY <1>1
  <2> QED BY <1>1, <1>2, <2>1, NumberRead
<1> QED BY <1>5, <1>6 DEF q

\* The second node of the line of n, if there is one, is its parent.
LEMMA ParentLemma ==
  ASSUME Done, NEW n \in Nodes
  PROVE  /\ Ancestors(n) = <<>> <=> Depth(n) = 0
         /\ Depth(n) # 0 => Line(tree, n)[2] = Head(Ancestors(n))
<1> DEFINE a == tree[n].above
<1>1. a \in Seq(Nat) /\ Len(a) \in Nat
  BY AboveLemma
<1>2. \A i \in 1..Len(a) : Line(tree, n)[i + 1] = a[i]
  BY LineLemma
<1> HIDE DEF a
<1>3. (a = <<>> <=> Len(a) = 0) /\ (Len(a) # 0 => Head(a) = a[1] /\ 1 \in 1..Len(a))
  BY <1>1
<1>4. Len(a) # 0 => Line(tree, n)[2] = Head(a)
  <2>1. 1 + 1 = 2
    OBVIOUS
  <2> QED BY <1>2, <1>3, <2>1
<1> QED BY <1>3, <1>4 DEF a, Depth, Ancestors

\* Where the nearest count is the parent's, or there is none, it is the one the
\* producer goes by.
LEMMA CellsRead ==
  ASSUME Done, NEW n \in Nodes, NEW name, NEW default, Nearest(n, name) \in {0, 2}
  PROVE  CellCount(fdt_node_get_inherited_prop(At(n), name), default) = CellsGiven(n, name, default)
<1> DEFINE m == Head(Ancestors(n))
<1>1. CellsGiven(n, name, default)
        = IF Ancestors(n) = <<>> \/ ~Has(m, name) THEN default
          ELSE IF Len(Prop(m, name).val) < 4 THEN 0 ELSE Number(Prop(m, name).val)
  BY Zenon DEF CellsGiven
<1>2. CASE Nearest(n, name) = 0
  <2>1. fdt_node_get_inherited_prop(At(n), name) = NULL
    BY <1>2, InheritedRead
  <2>2. Ancestors(n) = <<>> \/ ~Has(m, name)
    <3> SUFFICES ASSUME Depth(n) # 0 PROVE ~Has(m, name)
      BY ParentLemma
    <3>1. Line(tree, n)[2] = m
      BY ParentLemma
    <3>2. 2 \in 1..(Depth(n) + 1)
      BY DepthLemma
    <3>3. ~Has(Line(tree, n)[2], name)
      BY <1>2, <3>2, NearestLemma
    <3> QED BY <3>1, <3>3
  <2> QED BY <1>1, <2>1, <2>2 DEF CellCount
<1>3. CASE Nearest(n, name) = 2
  <2>1. Has(Line(tree, n)[2], name) /\ 2 \in 0..(Depth(n) + 1) /\ Depth(n) \in Nat
    BY <1>3, NearestLemma
  <2>2. 2 \in 1..(Depth(n) + 1) /\ Depth(n) # 0
    BY <2>1
  <2>3. Line(tree, n)[2] = m /\ Ancestors(n) # <<>>
    BY <2>2, ParentLemma
  <2>4. m \in Nodes /\ Has(m, name)
    BY <2>1, <2>2, <2>3, NearestLemma
  <2>5. fdt_node_get_inherited_prop(At(n), name) = Prop(m, name).at
    <3>1. Nearest(n, name) # 0
      BY <1>3
    <3>2. fdt_node_get_inherited_prop(At(n), name) = Prop(Line(tree, n)[Nearest(n, name)], name).at
      BY <3>1, InheritedRead
    <3> QED BY <1>3, <2>3, <3>2
  <2> HIDE DEF m
  <2>6. Prop(m, name).at # NULL
    BY <2>4 DEF Has
  <2>7. CellCount(Prop(m, name).at, default)
          = IF Len(Prop(m, name).val) < 4 THEN 0 ELSE Number(Prop(m, name).val)
    BY <2>4, <2>6, FirstCell DEF CellCount
  <2> QED BY <1>1, <2>3, <2>4, <2>5, <2>7
<1> QED BY <1>2, <1>3

\* A sequence with a length is not empty.
LEMMA NotEmpty ==
  ASSUME NEW s, Len(s) # 0
  PROVE  s # <<>>
OBVIOUS

\* A block with an address is one.
LEMMA BlockLemma ==
  ASSUME NEW b, b.address # <<>>
  PROVE  b # NoBlock
BY DEF NoBlock

\* How many blocks of r cells fit in len bytes.
LEMMA BlocksLemma ==
  ASSUME NEW len \in Nat, NEW r \in {2, 3, 4}, 4 * r <= len,
         NEW c, c = (len \div 4) \div r
  PROVE  /\ c \in Nat /\ c >= 1
         /\ (c - 1) * 4 * r + 4 * r <= len
         /\ c * 4 * r + 4 * r > len
<1>1. PICK q \in Nat : q = len \div 4 /\ 4 * q <= len /\ len < 4 * q + 4
  <2>1. len \div 4 \in Nat /\ 4 * (len \div 4) <= len /\ len < 4 * (len \div 4) + 4
    BY Z3
  <2> QED BY <2>1
<1>2. CASE r = 2
  <2>1. c = q \div 2
    BY <1>1, <1>2
  <2>2. c \in Nat /\ 2 * c <= q /\ q < 2 * c + 2
    BY <2>1, Z3
  <2> QED BY <1>1, <1>2, <2>2
<1>3. CASE r = 3
  <2>1. c = q \div 3
    BY <1>1, <1>3
  <2>2. c \in Nat /\ 3 * c <= q /\ q < 3 * c + 3
    BY <2>1, Z3
  <2> QED BY <1>1, <1>3, <2>2
<1>4. CASE r = 4
  <2>1. c = q \div 4
    BY <1>1, <1>4
  <2>2. c \in Nat /\ 4 * c <= q /\ q < 4 * c + 4
    BY <2>1, Z3
  <2> QED BY <1>1, <1>4, <2>2
<1> QED BY <1>2, <1>3, <1>4

\* The first register block of a node whose cell counts are its parent's, or
\* the defaults, is read right, and the number of blocks is the number that
\* fit in reg.
THEOREM FirstBlockTheorem == Spec => []FirstBlockExact
<1>1. BlobInv /\ SideInv => FirstBlockExact
  <2> SUFFICES ASSUME Done PROVE FirstBlockExact
    BY DEF Done, FirstBlockExact
  <2> SUFFICES ASSUME NEW n \in Nodes, Has(n, "reg"), CellsFromParent(n), RegBlock(n, 0) # NoBlock
               PROVE  LET count == fdt_node_num_register_blocks(At(n))
                      IN /\ fdt_node_get_register_block(At(n), 0) = RegBlock(n, 0)
                         /\ RegBlock(n, count - 1) # NoBlock
                         /\ RegBlock(n, count) = NoBlock
    BY Zenon DEF FirstBlockExact
  <2> DEFINE ac == CellsGiven(n, "#address-cells", 2)
             sc == CellsGiven(n, "#size-cells", 1)
             q == Prop(n, "reg")
             r == ac + sc
             Block(i) == [address |-> SubSeq(q.val, i * 4 * r + 1, i * 4 * r + 4 * ac),
                          size    |-> SubSeq(q.val, i * 4 * r + 4 * ac + 1, i * 4 * r + 4 * r)]
             count == fdt_node_num_register_blocks(At(n))
  <2>1. \A i : RegBlock(n, i) = IF ac \notin {1, 2} \/ sc \notin {1, 2} \/ i * 4 * r + 4 * r > Len(q.val)
                                THEN NoBlock ELSE Block(i)
    BY Zenon DEF RegBlock
  <2>2. /\ q.at # NULL /\ q.val \in Seq(Nat) /\ Len(q.val) \in Nat
        /\ fdt_prop_val_len(q.at) = Len(q.val)
        /\ fdt_prop_val(q.at) \in Nat /\ fdt_prop_val(q.at) >= 1
        /\ Holds(dt_struct, fdt_prop_val(q.at), q.val)
        /\ fdt_get_prop_by_name(At(n), NULL, "reg") = q.at
    BY PropGiven, ByName, ElemLemma
  <2>3. /\ fdt_node_get_address_cells(At(n)) = ac
        /\ fdt_node_get_size_cells(At(n)) = sc
    <3>1. Nearest(n, "#address-cells") \in {0, 2} /\ Nearest(n, "#size-cells") \in {0, 2}
      BY Zenon DEF CellsFromParent, Nearest
    <3> QED BY <3>1, CellsRead DEF fdt_node_get_address_cells, fdt_node_get_size_cells
  <2>4. Blob
    BY Tree
  <2> HIDE DEF q, ac, sc
  <2>5. ac \in {1, 2} /\ sc \in {1, 2} /\ ~(0 * 4 * r + 4 * r > Len(q.val))
    BY <2>1, Zenon
  <2>6. r \in {2, 3, 4} /\ 0 * 4 * r = 0 /\ 4 * r <= Len(q.val) /\ ac \in Nat /\ sc \in Nat
    BY <2>2, <2>5
  <2>7. /\ count \in Nat /\ count >= 1
        /\ (count - 1) * 4 * r + 4 * r <= Len(q.val)
        /\ count * 4 * r + 4 * r > Len(q.val)
    <3>1. r # 0
      BY <2>6
    <3>2. count = (Len(q.val) \div 4) \div r
      BY <2>2, <2>3, <3>1, Zenon DEF fdt_node_num_register_blocks, NumBlocks, fdt_prop_num_cells
    <3> HIDE DEF count, r
    <3> QED BY <2>2, <2>6, <3>2, BlocksLemma
  <2>8. RegBlock(n, count) = NoBlock
    BY <2>1, <2>7, Zenon
  <2>9. RegBlock(n, count - 1) # NoBlock
    <3> DEFINE o == (count - 1) * 4 * r
    <3>1. o \in Nat /\ o + 4 * r <= Len(q.val)
      <4> HIDE DEF count, r
      <4>1. count - 1 \in Nat /\ r \in Nat
        BY <2>6, <2>7
      <4> QED BY <2>7, <4>1
    <3>2. ~((count - 1) * 4 * r + 4 * r > Len(q.val))
      BY <2>2, <2>6, <3>1
    <3>3. RegBlock(n, count - 1) = Block(count - 1)
      BY <2>1, <2>5, <3>2, Zenon
    <3> HIDE DEF o, count
    <3>4. SubSeq(q.val, o + 1, o + 4 * ac) # <<>>
      <4>1. Len(SubSeq(q.val, o + 1, o + 4 * ac)) = 4 * ac
        BY <2>2, <2>5, <2>6, <3>1
      <4>2. 4 * ac # 0
        BY <2>5
      <4> QED BY <4>1, <4>2, NotEmpty
    <3>5. Block(count - 1).address = SubSeq(q.val, o + 1, o + 4 * ac)
      BY DEF o
    <3> HIDE DEF Block
    <3> QED BY <3>3, <3>4, <3>5, BlockLemma
  <2>10. fdt_node_get_register_block(At(n), 0) = RegBlock(n, 0)
    <3> DEFINE p == fdt_prop_val(q.at)
    <3>1. RegBlock(n, 0) = Block(0)
      BY <2>1, <2>5, Zenon
    <3>2. /\ Memory(p + 0, 4 * ac) = SubSeq(q.val, 0 + 1, 0 + 4 * ac)
          /\ Memory(p + 4 * ac, 4 * sc) = SubSeq(q.val, 4 * ac + 1, 4 * ac + 4 * sc)
      <4>1. 4 * ac \in Nat /\ 4 * sc \in Nat /\ 0 + 4 * ac <= Len(q.val) /\ 4 * ac + 4 * sc <= Len(q.val)
        BY <2>2, <2>5, <2>6
      <4> HIDE DEF p
      <4>2. \A o, k \in Nat : o + k <= Len(q.val) => Memory(p + o, k) = SubSeq(q.val, o + 1, o + k)
        BY <2>2, <2>4, MemoryRead DEF p
      <4>3. Memory(p + 0, 4 * ac) = SubSeq(q.val, 0 + 1, 0 + 4 * ac)
        BY <4>1, <4>2
      <4>4. Memory(p + 4 * ac, 4 * sc) = SubSeq(q.val, 4 * ac + 1, 4 * ac + 4 * sc)
        BY <4>1, <4>2
      <4> QED BY <4>3, <4>4
    <3>3. 4 * ac + 4 * sc = 4 * r /\ p + 0 * r = p + 0 /\ p + 0 \in Nat
      BY <2>2, <2>6
    <3>4. ~(fdt_prop_val_len(q.at) < 0 * r * 4)
      BY <2>2, <2>6
    <3>5. fdt_node_get_register_block(At(n), 0) = BlockAt(q.at, ac, sc, 0)
      BY <2>2, <2>3, Zenon DEF fdt_node_get_register_block
    <3>6. BlockAt(q.at, ac, sc, 0) = [address |-> Memory(p + 0 * r, 4 * ac),
                                      size    |-> Memory(p + 0 * r + 4 * ac, 4 * sc)]
      BY <2>2, <2>5, <3>4, Zenon DEF BlockAt
    <3>7. p + 0 * r + 4 * ac = p + 4 * ac
      BY <2>2, <2>6
    <3>8. Block(0) = [address |-> SubSeq(q.val, 0 + 1, 0 + 4 * ac),
                      size    |-> SubSeq(q.val, 4 * ac + 1, 4 * ac + 4 * sc)]
      <4>1. 0 * 4 * r + 1 = 0 + 1 /\ 0 * 4 * r + 4 * ac = 0 + 4 * ac
            /\ 0 * 4 * r + 4 * ac + 1 = 4 * ac + 1 /\ 0 * 4 * r + 4 * r = 4 * ac + 4 * sc
        BY <2>5, <2>6
      <4> HIDE DEF r
      <4> QED BY <4>1, Zenon
    <3> HIDE DEF p, r, Block
    <3> QED BY <3>1, <3>2, <3>3, <3>5, <3>6, <3>7, <3>8, Zenon
  <2> QED BY <2>8, <2>9, <2>10
<1> QED BY <1>1, BlobInvariant, SideInvariant, PTL

-----------------------------------------------------------------------------
(***************************************************************************)
(* The memory reservation block.                                           *)
(***************************************************************************)
Entry(e) == Cell64(e.address) \o Cell64(e.size)

\* k entries joined are 16 * k bytes, and each stands at its place.
InPlace(d, q, k) == Len(d) = 16 * k /\ \A j \in 1..k : Holds(d, 16 * j - 15, q[j])

\* A number of two cells takes eight bytes.
LEMMA PairLemma ==
  ASSUME NEW a \in Nat
  PROVE  Cell(0) \o Cell(a) \in Seq(Nat) /\ Len(Cell(0) \o Cell(a)) = 8
<1>1. Cell(0) \in Seq(Nat) /\ Len(Cell(0)) = 4 /\ Cell(a) \in Seq(Nat) /\ Len(Cell(a)) = 4
  BY CellLemma
<1>2. Cell(0) \o Cell(a) \in Seq(Nat) /\ Len(Cell(0) \o Cell(a)) = Len(Cell(0)) + Len(Cell(a))
  BY <1>1, JoinBytes, Zenon
<1> QED BY <1>1, <1>2

\* A reserve entry takes sixteen bytes, eight for each of its numbers.
LEMMA EntryLemma ==
  ASSUME NEW e \in [address : Nat, size : Nat]
  PROVE  /\ Entry(e) \in Seq(Nat) /\ Len(Entry(e)) = 16
         /\ Entry(e) = (Cell(0) \o Cell(e.address)) \o (Cell(0) \o Cell(e.size))
         /\ Cell(0) \o Cell(e.address) \in Seq(Nat) /\ Len(Cell(0) \o Cell(e.address)) = 8
         /\ Cell(0) \o Cell(e.size) \in Seq(Nat) /\ Len(Cell(0) \o Cell(e.size)) = 8
<1>1. e.address \in Nat /\ e.size \in Nat
  OBVIOUS
<1>3. /\ Cell(0) \o Cell(e.address) \in Seq(Nat) /\ Len(Cell(0) \o Cell(e.address)) = 8
      /\ Cell(0) \o Cell(e.size) \in Seq(Nat) /\ Len(Cell(0) \o Cell(e.size)) = 8
  BY <1>1, PairLemma
<1>4. Entry(e) = (Cell(0) \o Cell(e.address)) \o (Cell(0) \o Cell(e.size))
  BY Zenon DEF Entry, Cell64
<1> QED BY <1>3, <1>4, JoinBytes

\* One more entry.
LEMMA InPlaceStep ==
  ASSUME NEW d \in Seq(Nat), NEW q, NEW k \in Nat, InPlace(d, q, k),
         \A j \in 1..(k + 1) : q[j] \in Seq(Nat), Len(q[k + 1]) = 16
  PROVE  InPlace(d \o q[k + 1], q, k + 1)
<1>0. q[k + 1] \in Seq(Nat)
  OBVIOUS
<1>1. Len(d \o q[k + 1]) = 16 * (k + 1)
  <2>1. Len(d \o q[k + 1]) = Len(d) + Len(q[k + 1])
    BY <1>0, JoinBytes
  <2> QED BY <2>1 DEF InPlace
<1>2. ASSUME NEW j \in 1..(k + 1) PROVE Holds(d \o q[k + 1], 16 * j - 15, q[j])
  <2>1. CASE j = k + 1
    <3>1. 16 * j - 15 = Len(d) + 1
      BY <2>1 DEF InPlace
    <3>2. Holds(d \o q[k + 1], Len(d) + 1, q[k + 1])
      BY <1>0, HoldsEnd
    <3> QED BY <2>1, <3>1, <3>2
  <2>2. CASE j # k + 1
    <3>1. j \in 1..k /\ 16 * j - 15 \in Nat
      BY <2>2
    <3>2. Holds(d, 16 * j - 15, q[j])
      BY <3>1 DEF InPlace
    <3>3. q[j] \in Seq(Nat)
      OBVIOUS
    <3> QED BY <1>0, <3>1, <3>2, <3>3, HoldsLonger
  <2> QED BY <2>1, <2>2
<1> QED BY <1>1, <1>2 DEF InPlace

\* The entries stand in the reservation block, and the tail behind them.
LEMMA RsvLayout ==
  ASSUME Given
  PROVE  LET e == reserve.entries
             n == Len(reserve.entries)
             t == reserve.tail
         IN /\ e \in Seq([address : Nat, size : Nat]) /\ n \in Nat /\ DOMAIN e = 1..n
            /\ t \in Seq(Nat) /\ Len(t) \in Nat
            /\ mem_rsvmap \in Seq(Nat) /\ Len(mem_rsvmap) = 16 * n + Len(t)
            /\ \A k \in 1..n : Holds(mem_rsvmap, 16 * k - 15, Entry(e[k]))
            /\ Holds(mem_rsvmap, 16 * n + 1, t)
            /\ \A k \in 1..n : e[k].address # 0 \/ e[k].size # 0
            /\ Len(t) >= 16 => \A j \in 1..16 : t[j] = 0
            /\ n # 0 \/ Len(t) >= 16
<1> DEFINE e == reserve.entries
           n == Len(e)
           t == reserve.tail
           q == [k \in DOMAIN e |-> Entry(e[k])]
<1>1. kind \in Kinds /\ reserve \in kind.reserves
  BY DEF Given
<1>2. /\ e \in Seq([address : Nat, size : Nat])
      /\ \A j \in DOMAIN e : e[j].address # 0 \/ e[j].size # 0
      /\ t \in Seq(0..255)
      /\ Len(t) >= 16 => \A j \in 1..16 : t[j] = 0
      /\ e # <<>> \/ Len(t) >= 16
  BY <1>1, BlobAssumption, Zenon
<1>3. mem_rsvmap = FlattenSeq(q) \o t
  BY Zenon DEF Given, Entry
<1> HIDE DEF e, t
<1>4. n \in Nat /\ DOMAIN e = 1..n /\ \A k \in 1..n : e[k] \in [address : Nat, size : Nat]
  BY <1>2, ElemLemma
<1>5. t \in Seq(Nat) /\ Len(t) \in Nat
  BY <1>2, ByteSeqs, ElemLemma
<1>6. \A k \in 1..n : q[k] = Entry(e[k]) /\ q[k] \in Seq(Nat) /\ Len(q[k]) = 16
  BY <1>4, EntryLemma
<1>7. q \in Seq(Seq(Nat)) /\ Len(q) = n
  BY <1>4, <1>6
<1> HIDE DEF q, n
<1>8. FlattenSeq(q) \in Seq(Nat) /\ InPlace(FlattenSeq(q), q, n)
  <2>1. CASE n = 0
    <3>1. FlattenSeq(q) = <<>>
      BY <1>7, <2>1 DEF FlattenSeq
    <3> QED BY <2>1, <3>1 DEF InPlace
  <2>2. CASE n # 0
    <3>1. q # <<>>
      BY <1>7, <2>2
    <3>2. PICK f : Joins(f, q) /\ FlattenSeq(q) = f[n]
      BY <1>7, <3>1, FlattenLemma
    <3>3. /\ \A k \in 0..n : f[k] \in Seq(Nat)
          /\ f[0] = <<>>
          /\ \A k \in 1..n : f[k] = f[k - 1] \o q[k]
      BY <1>7, <3>2 DEF Joins
    <3>0. n \in Nat
      BY <1>4
    <3> DEFINE P == { m \in 1..(n + 1) : InPlace(f[m - 1], q, m - 1) }
    <3>4. 1 \in P
      BY <1>4, <3>3 DEF InPlace
    <3>5. ASSUME NEW m \in 1..((n + 1) - 1), m \in P PROVE m + 1 \in P
      <4>1. /\ m \in 1..n /\ m - 1 \in 0..n /\ (m - 1) + 1 = m /\ m + 1 - 1 = m
            /\ m - 1 \in Nat /\ m + 1 \in 1..(n + 1)
        <5> HIDE DEF P
        <5> QED BY <3>0
      <4>2. InPlace(f[m - 1], q, m - 1) /\ f[m - 1] \in Seq(Nat)
        BY <3>3, <3>5, <4>1
      <4>3. InPlace(f[m - 1] \o q[m], q, m)
        <5>0. ASSUME NEW j \in 1..(m - 1 + 1) PROVE q[j] \in Seq(Nat)
          <6>1. j \in 1..n
            BY <3>0, <4>1
          <6> QED BY <1>6, <6>1
        <5>1. q[m - 1 + 1] = q[m] /\ q[m] \in Seq(Nat) /\ Len(q[m - 1 + 1]) = 16
          BY <1>6, <4>1
        <5>2. InPlace(f[m - 1] \o q[m - 1 + 1], q, m - 1 + 1)
          BY <4>1, <4>2, <5>0, <5>1, InPlaceStep
        <5> QED BY <4>1, <5>1, <5>2
      <4>4. f[m] = f[m - 1] \o q[m]
        BY <3>3, <4>1
      <4>5. InPlace(f[m + 1 - 1], q, m + 1 - 1)
        BY <4>1, <4>3, <4>4
      <4> QED BY <4>1, <4>5
    <3> HIDE DEF P
    <3>6. 1..(n + 1) \subseteq P
      <4> DEFINE K == n + 1
      <4>1. K \in Nat
        BY <3>0
      <4>2. \A k \in 1..(K - 1) : k \in P => k + 1 \in P
        BY <3>5
      <4> HIDE DEF K
      <4>3. 1..K \subseteq P
        BY <3>4, <4>1, <4>2, NatUpTo
      <4> QED BY <4>3 DEF K
    <3>7. n + 1 \in 1..(n + 1) /\ n + 1 - 1 = n /\ n \in 0..n
      BY <1>4
    <3>8. InPlace(f[n], q, n)
      BY <3>6, <3>7 DEF P
    <3> QED BY <3>2, <3>3, <3>7, <3>8
  <2> QED BY <2>1, <2>2
<1>9. mem_rsvmap \in Seq(Nat) /\ Len(mem_rsvmap) = 16 * n + Len(t)
  BY <1>3, <1>5, <1>8, JoinBytes DEF InPlace
<1>10. ASSUME NEW k \in 1..n PROVE Holds(mem_rsvmap, 16 * k - 15, Entry(e[k]))
  <2>1. Holds(FlattenSeq(q), 16 * k - 15, Entry(e[k])) /\ Entry(e[k]) \in Seq(Nat)
    BY <1>6, <1>8 DEF InPlace
  <2>2. 16 * k - 15 \in Nat
    BY <1>4
  <2> QED BY <1>3, <1>5, <1>8, <2>1, <2>2, HoldsLonger
<1>11. Holds(mem_rsvmap, 16 * n + 1, t)
  <2>1. Holds(mem_rsvmap, Len(FlattenSeq(q)) + 1, t)
    BY <1>3, <1>5, <1>8, HoldsEnd
  <2> QED BY <1>8, <2>1 DEF InPlace
<1>12. n # 0 \/ Len(t) >= 16
  BY <1>2 DEF n
<1>13. \A k \in 1..n : e[k].address # 0 \/ e[k].size # 0
  BY <1>2, <1>4
<1> QED BY <1>2, <1>4, <1>5, <1>9, <1>10, <1>11, <1>12, <1>13, Zenon DEF e, t, n

RsvBlock == mem_rsvmap \in Seq(Nat)

\* RsvByte reads what stands in the reservation block.
LEMMA HoldsRsv ==
  ASSUME RsvBlock, NEW p \in Nat, p >= 1, NEW b \in Seq(Nat), Holds(mem_rsvmap, p, b)
  PROVE  \A i \in 0..(Len(b) - 1) : RsvByte(p + i) = b[i + 1] /\ p + i <= Len(mem_rsvmap)
<1> SUFFICES ASSUME NEW i \in 0..(Len(b) - 1)
             PROVE  RsvByte(p + i) = b[i + 1] /\ p + i <= Len(mem_rsvmap)
  OBVIOUS
<1>1. i + 1 \in 1..Len(b) /\ p + (i + 1) - 1 = p + i /\ p + i \in Nat /\ p + i >= 1
  OBVIOUS
<1>2. p + i \in 1..Len(mem_rsvmap) /\ mem_rsvmap[p + i] = b[i + 1]
  BY <1>1 DEF Holds
<1>3. p + i <= Len(mem_rsvmap)
  BY <1>2
<1> QED BY <1>2, <1>3, Zenon DEF RsvByte

\* RsvCell reads back the number that was written as a cell.
LEMMA ReadRsvCell ==
  ASSUME RsvBlock, NEW p \in Nat, p >= 1, NEW n \in Nat, Holds(mem_rsvmap, p, Cell(n))
  PROVE  /\ RsvCell(p) = n
         /\ (\A i \in 0..3 : RsvByte(p + i) = 0) => n = 0
<1>1. /\ Cell(n) \in Seq(Nat) /\ Len(Cell(n)) = 4
      /\ ((Cell(n)[1] * 256 + Cell(n)[2]) * 256 + Cell(n)[3]) * 256 + Cell(n)[4] = n
  BY CellLemma
<1>2. \A i \in 0..3 : RsvByte(p + i) = Cell(n)[i + 1]
  <2>1. \A i \in 0..(Len(Cell(n)) - 1) : RsvByte(p + i) = Cell(n)[i + 1]
    BY <1>1, HoldsRsv
  <2>2. Len(Cell(n)) - 1 = 3
    BY <1>1
  <2> QED BY <2>1, <2>2
<1>3. /\ RsvByte(p) = Cell(n)[1] /\ RsvByte(p + 1) = Cell(n)[2]
      /\ RsvByte(p + 2) = Cell(n)[3] /\ RsvByte(p + 3) = Cell(n)[4]
  <2>1. /\ RsvByte(p + 0) = Cell(n)[0 + 1] /\ RsvByte(p + 1) = Cell(n)[1 + 1]
        /\ RsvByte(p + 2) = Cell(n)[2 + 1] /\ RsvByte(p + 3) = Cell(n)[3 + 1]
    BY <1>2
  <2> QED BY <2>1
<1>4. RsvCell(p) = n
  BY <1>1, <1>3, Zenon DEF RsvCell
<1>5. ASSUME \A i \in 0..3 : RsvByte(p + i) = 0 PROVE n = 0
  <2>1. RsvByte(p + 0) = 0 /\ RsvByte(p + 1) = 0 /\ RsvByte(p + 2) = 0 /\ RsvByte(p + 3) = 0
    BY <1>5
  <2>2. Cell(n)[1] = 0 /\ Cell(n)[2] = 0 /\ Cell(n)[3] = 0 /\ Cell(n)[4] = 0
    BY <1>3, <2>1
  <2> QED BY <1>1, <2>2
<1> QED BY <1>4, <1>5

\* An entry is read as it was written.
LEMMA EntryRead ==
  ASSUME RsvBlock, NEW p \in Nat, p >= 1, NEW e \in [address : Nat, size : Nat],
         Holds(mem_rsvmap, p, Entry(e))
  PROVE  /\ fdt_reserve_entry_address(p) = e.address
         /\ fdt_reserve_entry_size(p) = e.size
         /\ EndsReserves(p) => e.address = 0 /\ e.size = 0
<1>1. e.address \in Nat /\ e.size \in Nat /\ mem_rsvmap \in Seq(Nat)
  BY DEF RsvBlock
<1>2. p + 4 \in Nat /\ p + 8 \in Nat /\ p + 12 \in Nat /\ p + 4 >= 1 /\ p + 8 >= 1 /\ p + 12 >= 1
      /\ p + 8 + 4 = p + 12
  OBVIOUS
<1>3. /\ Cell(0) \in Seq(Nat) /\ Len(Cell(0)) = 4 /\ Cell(e.address) \in Seq(Nat)
      /\ Cell(e.size) \in Seq(Nat)
  BY <1>1, CellLemma
<1>4. Holds(mem_rsvmap, p, Cell(0) \o Cell(e.address)) /\ Holds(mem_rsvmap, p + 8, Cell(0) \o Cell(e.size))
  <2>1. /\ Cell(0) \o Cell(e.address) \in Seq(Nat) /\ Len(Cell(0) \o Cell(e.address)) = 8
        /\ Cell(0) \o Cell(e.size) \in Seq(Nat)
        /\ Holds(mem_rsvmap, p, (Cell(0) \o Cell(e.address)) \o (Cell(0) \o Cell(e.size)))
    BY EntryLemma
  <2>2. /\ Holds(mem_rsvmap, p, Cell(0) \o Cell(e.address))
        /\ Holds(mem_rsvmap, p + Len(Cell(0) \o Cell(e.address)), Cell(0) \o Cell(e.size))
    BY <1>1, <2>1, HoldsFront
  <2> QED BY <2>1, <2>2
<1>5. Holds(mem_rsvmap, p, Cell(0)) /\ Holds(mem_rsvmap, p + 4, Cell(e.address))
  <2>1. Holds(mem_rsvmap, p, Cell(0)) /\ Holds(mem_rsvmap, p + Len(Cell(0)), Cell(e.address))
    BY <1>1, <1>3, <1>4, HoldsFront
  <2> QED BY <1>3, <2>1
<1>6. Holds(mem_rsvmap, p + 8, Cell(0)) /\ Holds(mem_rsvmap, p + 12, Cell(e.size))
  <2>1. Holds(mem_rsvmap, p + 8, Cell(0)) /\ Holds(mem_rsvmap, p + 8 + Len(Cell(0)), Cell(e.size))
    BY <1>1, <1>2, <1>3, <1>4, HoldsFront
  <2> QED BY <1>2, <1>3, <2>1
<1>7. RsvCell(p) = 0 /\ RsvCell(p + 8) = 0
  <2>1. 0 \in Nat
    OBVIOUS
  <2> QED BY <1>2, <1>5, <1>6, <2>1, ReadRsvCell
<1>8. RsvCell(p + 4) = e.address /\ RsvCell(p + 12) = e.size
  BY <1>1, <1>2, <1>5, <1>6, ReadRsvCell
<1>9. be64toh(p) = e.address
  <2>1. 0 * 65536 * 65536 + e.address = e.address
    BY <1>1
  <2> QED BY <1>7, <1>8, <2>1 DEF be64toh
<1>10. be64toh(p + 8) = e.size
  <2>1. 0 * 65536 * 65536 + e.size = e.size
    BY <1>1
  <2> QED BY <1>2, <1>7, <1>8, <2>1 DEF be64toh
<1>11. ASSUME EndsReserves(p) PROVE e.address = 0 /\ e.size = 0
  <2>1. \A k \in 0..15 : RsvByte(p + k) = 0
    BY <1>11 DEF EndsReserves
  <2>2. \A i \in 0..3 : RsvByte(p + 4 + i) = 0
    <3> SUFFICES ASSUME NEW i \in 0..3 PROVE RsvByte(p + 4 + i) = 0
      OBVIOUS
    <3>1. 4 + i \in 0..15 /\ p + (4 + i) = p + 4 + i
      OBVIOUS
    <3> QED BY <2>1, <3>1
  <2>3. \A i \in 0..3 : RsvByte(p + 12 + i) = 0
    <3> SUFFICES ASSUME NEW i \in 0..3 PROVE RsvByte(p + 12 + i) = 0
      OBVIOUS
    <3>1. 12 + i \in 0..15 /\ p + (12 + i) = p + 12 + i
      OBVIOUS
    <3> QED BY <2>1, <3>1
  <2> QED BY <1>1, <1>2, <1>5, <1>6, <2>2, <2>3, ReadRsvCell
<1> QED BY <1>9, <1>10, <1>11 DEF fdt_reserve_entry_address, fdt_reserve_entry_size

\* The walk over the reservation block visits its entries, in order, and no
\* more, and reads them as they were written.
THEOREM ReserveTheorem == Spec => []ReserveExact
<1>1. SideInv => ReserveExact
  <2> SUFFICES ASSUME Given PROVE ReserveExact
    BY DEF SideInv
  <2> DEFINE e == reserve.entries
             n == Len(e)
             t == reserve.tail
             At16(k) == IF k \in DOMAIN e THEN 16 * k - 15 ELSE NULL
  <2>1. /\ n \in Nat /\ DOMAIN e = 1..n /\ e \in Seq([address : Nat, size : Nat])
        /\ t \in Seq(Nat) /\ Len(t) \in Nat
        /\ mem_rsvmap \in Seq(Nat) /\ Len(mem_rsvmap) = 16 * n + Len(t)
        /\ \A k \in 1..n : Holds(mem_rsvmap, 16 * k - 15, Entry(e[k]))
        /\ Holds(mem_rsvmap, 16 * n + 1, t)
        /\ \A k \in 1..n : e[k].address # 0 \/ e[k].size # 0
        /\ Len(t) >= 16 => \A j \in 1..16 : t[j] = 0
        /\ n # 0 \/ Len(t) >= 16
    BY RsvLayout, Zenon
  <2> HIDE DEF e, t, n
  <2>2. n \in Nat /\ Len(t) \in Nat /\ Len(mem_rsvmap) = 16 * n + Len(t)
    BY <2>1
  <2>3. RsvBlock
    BY <2>1 DEF RsvBlock
  <2>4. ASSUME NEW k \in 1..n
        PROVE  /\ fdt_reserve_entry_address(16 * k - 15) = e[k].address
               /\ fdt_reserve_entry_size(16 * k - 15) = e[k].size
               /\ ~EndsReserves(16 * k - 15)
    <3>1. e[k] \in [address : Nat, size : Nat]
      BY <2>1, ElemLemma
    <3>2. 16 * k - 15 \in Nat /\ 16 * k - 15 >= 1
      BY <2>2
    <3>3. Holds(mem_rsvmap, 16 * k - 15, Entry(e[k])) /\ (e[k].address # 0 \/ e[k].size # 0)
      BY <2>1
    <3> QED BY <2>3, <3>1, <3>2, <3>3, EntryRead
  <2>5. ASSUME Len(t) >= 16 PROVE EndsReserves(16 * n + 1)
    <3> SUFFICES ASSUME NEW k \in 0..15 PROVE RsvByte(16 * n + 1 + k) = 0
      BY DEF EndsReserves
    <3>1. 16 * n + 1 \in Nat /\ 16 * n + 1 >= 1 /\ k \in 0..(Len(t) - 1) /\ k + 1 \in 1..16
      BY <2>2, <2>5
    <3>2. RsvByte(16 * n + 1 + k) = t[k + 1]
      BY <2>1, <2>3, <3>1, HoldsRsv
    <3> QED BY <2>1, <2>5, <3>1, <3>2
  <2>6. fdt_reserve_entry_begin = At16(1)
    <3>1. CASE n = 0
      <4>1. 1 \notin DOMAIN e /\ 16 * n + 1 = 1 /\ Len(t) >= 16
        BY <2>1, <3>1
      <4> QED BY <2>5, <4>1 DEF fdt_reserve_entry_begin
    <3>2. CASE n # 0
      <4>1. 1 \in 1..n /\ 16 * 1 - 15 = 1
        BY <2>2, <3>2
      <4>2. 1 \in DOMAIN e
        BY <2>1, <4>1, Zenon
      <4>3. ~EndsReserves(1)
        BY <2>4, <4>1
      <4> QED BY <4>1, <4>2, <4>3 DEF fdt_reserve_entry_begin
    <3> QED BY <3>1, <3>2
  <2>7. ASSUME NEW k \in DOMAIN e
        PROVE  /\ At16(k) = 16 * k - 15
               /\ fdt_next_reserve_entry(At16(k)) = At16(k + 1)
    <3>1. k \in 1..n
      BY <2>1, Zenon
    <3>2. At16(k) = 16 * k - 15
      OBVIOUS
    <3>3. /\ 16 * k - 15 + 16 + 15 = 16 * k + 16 /\ 16 * k - 15 + 16 = 16 * k + 1
          /\ 16 * (k + 1) - 15 = 16 * k + 1
      BY <2>2, <3>1
    <3>4. fdt_next_reserve_entry(16 * k - 15)
            = IF 16 * k + 16 < 1 \/ 16 * k + 16 > Len(mem_rsvmap) \/ EndsReserves(16 * k + 1) THEN NULL
              ELSE 16 * k + 1
      BY <3>3 DEF fdt_next_reserve_entry, fdt_memrsv_ptr_invalid
    <3>5. CASE k < n
      <4>1. k + 1 \in 1..n /\ ~(16 * k + 16 < 1 \/ 16 * k + 16 > Len(mem_rsvmap))
        BY <2>2, <3>1, <3>5
      <4>2. ~EndsReserves(16 * k + 1)
        BY <2>4, <3>3, <4>1
      <4>3. k + 1 \in DOMAIN e
        BY <2>1, <4>1, Zenon
      <4> QED BY <3>2, <3>3, <3>4, <4>1, <4>2, <4>3
    <3>6. CASE ~(k < n)
      <4>1. k = n /\ k + 1 \notin 1..n
        BY <2>2, <3>1, <3>6
      <4>2. k + 1 \notin DOMAIN e
        BY <2>1, <4>1, Zenon
      <4>3. 16 * k + 16 > Len(mem_rsvmap) \/ EndsReserves(16 * k + 1)
        BY <2>2, <2>5, <4>1
      <4> QED BY <3>2, <3>4, <4>2, <4>3
    <3> QED BY <3>2, <3>5, <3>6
  <2>8. ASSUME NEW k \in DOMAIN e
        PROVE  /\ fdt_reserve_entry_address(At16(k)) = e[k].address
               /\ fdt_reserve_entry_size(At16(k)) = e[k].size
    <3>1. k \in 1..n
      BY <2>1, Zenon
    <3> QED BY <2>4, <2>7, <3>1
  <2> HIDE DEF At16
  <2>9. /\ fdt_reserve_entry_begin = At16(1)
        /\ \A k \in DOMAIN e : /\ fdt_next_reserve_entry(At16(k)) = At16(k + 1)
                               /\ fdt_reserve_entry_address(At16(k)) = e[k].address
                               /\ fdt_reserve_entry_size(At16(k)) = e[k].size
    BY <2>6, <2>7, <2>8, Zenon
  <2> QED BY <2>9, Zenon DEF ReserveExact, At16, e
<1> QED BY <1>1, SideInvariant, PTL

-----------------------------------------------------------------------------
(***************************************************************************)
(* The searches.                                                           *)
(***************************************************************************)
\* Where the loop of a search ends, and with what.
FindEnds(p, by, key) == p = NULL \/ (by = "phandle" /\ BadPhandle(p)) \/ Matches(p, by, key)

FindValue(p, by) == IF p = NULL THEN NULL ELSE IF by = "phandle" /\ BadPhandle(p) THEN Loops ELSE p

\* The loop of the searches: what a turn keeps holds where it ends.
LEMMA FindRule ==
  ASSUME Blob, NEW by, NEW key, NEW start \in Pointer,
         NEW I \in SUBSET Pointer, start \in I,
         \A p \in I : ~FindEnds(p, by, key) => fdt_next_node(p, 0).node \in I
  PROVE  \E p \in I : FindEnds(p, by, key) /\ FindFrom(start, by, key) = FindValue(p, by)
<1> DEFINE stop == { p \in Pointer : FindEnds(p, by, key) }
           val == [p \in Pointer |-> FindValue(p, by)]
           next == [p \in Pointer |-> fdt_next_node(p, 0).node]
           rank == [p \in Pointer |-> IF p = NULL THEN 0 ELSE Len(dt_struct) + 1 - p]
           n == Len(dt_struct)
           Is(from) == from = [node \in Pointer |->
             IF node = NULL THEN NULL
             ELSE IF by = "phandle" /\ BadPhandle(node) THEN Loops
             ELSE IF Matches(node, by, key) THEN node
             ELSE from[fdt_next_node(node, 0).node]]
<1>1. n \in Nat /\ Descends(Pointer, stop, next, rank, n)
  <2>1. n \in Nat
    BY DEF Blob
  <2>2. rank \in [Pointer -> 0..n]
    BY <2>1 DEF Pointer, NULL
  <2>3. ASSUME NEW x \in Pointer, x \notin stop PROVE next[x] \in Pointer /\ rank[next[x]] < rank[x]
    <3>1. x # NULL
      BY <2>3 DEF FindEnds
    <3>2. /\ fdt_next_node(x, 0).node \in Pointer
          /\ fdt_next_node(x, 0).node # NULL => fdt_next_node(x, 0).node > x
      BY <3>1, NextNodeLemma
    <3> QED BY <2>1, <3>1, <3>2 DEF Pointer, NULL
  <2> QED BY <2>1, <2>2, <2>3 DEF Descends
<1>2. \A f : Is(f) <=> Loop(f, Pointer, stop, val, next)
  <2> SUFFICES ASSUME NEW f PROVE Is(f) <=> Loop(f, Pointer, stop, val, next)
    OBVIOUS
  <2>1. ASSUME NEW p \in Pointer
        PROVE  (IF p \in stop THEN val[p] ELSE f[next[p]])
                 = IF p = NULL THEN NULL
                   ELSE IF by = "phandle" /\ BadPhandle(p) THEN Loops
                   ELSE IF Matches(p, by, key) THEN p
                   ELSE f[fdt_next_node(p, 0).node]
    <3>1. /\ val[p] = FindValue(p, by) /\ next[p] = fdt_next_node(p, 0).node
          /\ p \in stop <=> FindEnds(p, by, key)
      OBVIOUS
    <3> HIDE DEF val, next, stop
    <3> QED BY <3>1, Zenon DEF FindEnds, FindValue
  <2> HIDE DEF stop, val, next
  <2> QED BY <2>1, Zenon DEF Loop
<1> DEFINE f == CHOOSE f : Is(f)
<1>3. Loop(f, Pointer, stop, val, next)
  <2> HIDE DEF stop, val, next, rank, n, Is
  <2>1. \E g : Is(g)
    BY <1>1, <1>2, LoopExists, Zenon
  <2>2. Is(f)
    BY <2>1, Zenon
  <2> QED BY <1>2, <2>2, Zenon
<1>4. FindFrom(start, by, key) = f[start]
  BY Zenon DEF FindFrom, Is
<1>5. \A y \in I : y \notin stop => next[y] \in I
  OBVIOUS
<1>6. \E p \in I : p \in stop /\ f[start] = val[p]
  <2> HIDE DEF stop, val, next, rank, n, f
  <2> QED BY <1>1, <1>3, <1>5, LoopRule
<1> HIDE DEF f
<1> QED BY <1>4, <1>6

\* The search takes for a match what is one, and does not stop elsewhere.
Agrees(by, key) ==
  \A m \in Nodes : /\ ~(by = "phandle" /\ BadPhandle(At(m)))
                   /\ Matches(At(m), by, key) <=> IsMatch(m, by, key)

\* Such a search finds the next match.
LEMMA FindExact ==
  ASSUME Done, NEW by, NEW key, Agrees(by, key)
  PROVE  Finds(by, key)
<1> SUFFICES ASSUME NEW n \in {0} \cup Nodes
             PROVE  Find(At(n), by, key) = First({ m \in Nodes : m > n /\ IsMatch(m, by, key) })
  BY Zenon DEF Finds
<1> DEFINE N == Len(tree)
           K == { k \in (n + 1)..(N + 1) : \A m \in (n + 1)..(k - 1) : ~IsMatch(m, by, key) }
           I == { At(k) : k \in K }
           S == { m \in Nodes : m > n /\ IsMatch(m, by, key) }
<1>1. N \in Nat /\ N >= 1 /\ Nodes = 1..N /\ Blob /\ 1 \in Nodes
  <2>1. N \in Nat /\ Nodes = 1..N /\ Blob /\ 1 \in Nodes
    BY Tree
  <2> QED BY <2>1
<1>2. n \in 0..N
  BY <1>1
<1> HIDE DEF N
<1>3. ASSUME NEW k \in (n + 1)..(N + 1)
      PROVE  /\ At(k) \in Pointer /\ (At(k) # NULL <=> k \in Nodes)
             /\ k \notin Nodes => k = N + 1
  <2>1. CASE k \in Nodes
    BY <2>1, DepthLemma
  <2>2. CASE k \notin Nodes
    <3>1. k = N + 1
      BY <1>1, <1>2, <2>2
    <3>2. At(k) = NULL
      BY <2>2 DEF At
    <3>3. NULL \in Pointer
      BY <1>1 DEF NULL, Pointer, Blob
    <3> QED BY <2>2, <3>1, <3>2, <3>3
  <2> QED BY <2>1, <2>2
<1>4. Find(At(n), by, key) = FindFrom(At(n + 1), by, key)
  <2>1. CASE n = 0
    <3>1. n \notin Nodes /\ n + 1 = 1
      BY <1>1, <2>1
    <3>2. At(n) = NULL
      BY <3>1 DEF At
    <3>3. fdt_node_begin = At(1)
      BY NodeBegin
    <3> QED BY <3>1, <3>2, <3>3, Zenon DEF Find
  <2>2. CASE n # 0
    <3>1. n \in Nodes
      BY <2>2
    <3>2. At(n) # NULL
      BY <3>1, DepthLemma
    <3>3. fdt_next_node(At(n), 0).node = At(n + 1)
      <4>1. 0 \in Int
        OBVIOUS
      <4> QED BY <3>1, <4>1, NextNodeExact
    <3> QED BY <3>2, <3>3, Zenon DEF Find
  <2> QED BY <2>1, <2>2
<1>5. n + 1 \in K /\ n + 1 \in (n + 1)..(N + 1)
  BY <1>1, <1>2
<1>6. I \in SUBSET Pointer /\ At(n + 1) \in I /\ At(n + 1) \in Pointer
  BY <1>3, <1>5
<1>7. ASSUME NEW p \in I, ~FindEnds(p, by, key) PROVE fdt_next_node(p, 0).node \in I
  <2>1. PICK k \in K : p = At(k)
    OBVIOUS
  <2>2. p # NULL /\ ~Matches(p, by, key)
    BY <1>7 DEF FindEnds
  <2>3. k \in Nodes /\ ~IsMatch(k, by, key)
    <3>1. k \in Nodes
      BY <1>3, <2>1, <2>2
    <3> QED BY <2>1, <2>2, <3>1 DEF Agrees
  <2>4. fdt_next_node(p, 0).node = At(k + 1)
    <3>1. 0 \in Int
      OBVIOUS
    <3> QED BY <2>1, <2>3, <3>1, NextNodeExact
  <2>5. k + 1 \in K
    <3>1. k \in (n + 1)..(N + 1) /\ \A m \in (n + 1)..(k - 1) : ~IsMatch(m, by, key)
      OBVIOUS
    <3>2. k + 1 \in (n + 1)..(N + 1) /\ (k + 1) - 1 = k
      BY <1>1, <1>2, <2>3, <3>1
    <3>3. \A m \in (n + 1)..k : m \in (n + 1)..(k - 1) \/ m = k
      BY <1>2, <3>1
    <3> QED BY <2>3, <3>1, <3>2, <3>3
  <2> QED BY <2>4, <2>5
<1> HIDE DEF I
<1>8. PICK p \in I : FindEnds(p, by, key) /\ FindFrom(At(n + 1), by, key) = FindValue(p, by)
  BY <1>1, <1>6, <1>7, FindRule
<1>9. PICK k \in K : p = At(k)
  BY DEF I
<1>10. k \in (n + 1)..(N + 1) /\ \A m \in (n + 1)..(k - 1) : ~IsMatch(m, by, key)
  BY <1>9
<1> HIDE DEF K
<1>11. CASE p = NULL
  <2>1. k = N + 1 /\ k \notin Nodes
    BY <1>3, <1>9, <1>10, <1>11
  <2>2. S = {}
    <3> SUFFICES ASSUME NEW m \in Nodes, m > n PROVE ~IsMatch(m, by, key)
      OBVIOUS
    <3>1. m \in (n + 1)..(k - 1)
      BY <1>1, <1>2, <2>1
    <3> QED BY <1>10, <3>1
  <2>3. First(S) = NULL
    BY <2>2 DEF First
  <2>4. FindValue(p, by) = NULL
    BY <1>11 DEF FindValue
  <2> QED BY <1>4, <1>8, <2>3, <2>4
<1>12. CASE p # NULL
  <2>1. k \in Nodes
    BY <1>3, <1>9, <1>10, <1>12
  <2>2. ~(by = "phandle" /\ BadPhandle(p)) /\ (Matches(p, by, key) <=> IsMatch(k, by, key))
    BY <1>9, <2>1 DEF Agrees
  <2>3. IsMatch(k, by, key)
    BY <1>8, <1>12, <2>2 DEF FindEnds
  <2>4. FindValue(p, by) = p
    BY <1>12, <2>2 DEF FindValue
  <2>5. k \in S
    <3>1. k > n
      BY <1>2, <1>10
    <3> QED BY <2>1, <2>3, <3>1
  <2>6. \A m \in S : k <= m
    <3> SUFFICES ASSUME NEW m \in Nodes, m > n, IsMatch(m, by, key), ~(k <= m) PROVE FALSE
      OBVIOUS
    <3>1. m \in (n + 1)..(k - 1)
      BY <1>1, <1>2, <1>10
    <3> QED BY <1>10, <3>1
  <2>7. S \subseteq Nat
    BY <1>1
  <2> HIDE DEF S
  <2>8. First(S) = At(k)
    BY <2>5, <2>6, <2>7, FirstLemma
  <2> QED BY <1>4, <1>8, <1>9, <2>4, <2>8 DEF S
<1> QED BY <1>11, <1>12

\* The comparison of unit names is right at every node, except with the name
\* that nameless nodes are given.
LEMMA UnitNameAgrees ==
  ASSUME Done, NEW key, key # DebugName
  PROVE  Agrees("unit_name", key)
<1> SUFFICES ASSUME NEW m \in Nodes
             PROVE  HasUnitName(At(m), key) <=> (key # <<>> /\ tree[m].name = key)
  BY Zenon DEF Agrees, Matches, IsMatch
<1>1. PICK i : IsToken(i, m)
  BY NodeToken
<1>2. i \in 1..Len(tokens) /\ tokens[i].is = FDT_BEGIN_NODE /\ tokens[i].nodes = m /\ tokens[i].at = At(m)
  BY <1>1 DEF IsToken
<1>3. /\ \A k \in DOMAIN tree[m].name : tree[m].name[k] # 0
      /\ tokens[i].bytes = Padded(Append(tree[m].name, 0))
  <2>1. BytesOf(tree, tokens[i])
    BY <1>2, Tokens
  <2> QED BY <1>2, <2>1, Zenon DEF BytesOf
<1>4. /\ tree[m].name \in Seq(Nat) /\ Blob /\ At(m) \in Nat /\ At(m) # 0
      /\ DOMAIN tree[m].name = 1..Len(tree[m].name)
  <2>1. m \in 1..Len(tree) /\ tree \in Seq(NodeRecord) /\ Blob
    BY Tree
  <2>2. tree[m].name \in Seq(Nat)
    BY <2>1, NodeLemma
  <2>3. At(m) \in Nat /\ At(m) # 0
    BY DepthLemma DEF Pointer, NULL
  <2> QED BY <2>1, <2>2, <2>3, ElemLemma
<1> DEFINE name == tree[m].name
           p == At(m) + 4
<1>5. Holds(dt_struct, p, tokens[i].bytes)
  <2>1. Layout /\ i \in DOMAIN tokens
    BY <1>2, Tree DEF BlobInv
  <2>2. Holds(dt_struct, tokens[i].at + 4, tokens[i].bytes)
    BY <2>1 DEF Layout
  <2> QED BY <1>2, <2>2
<1>6. p \in Nat /\ p >= 1
  BY <1>4
<1> HIDE DEF name, p
<1>7. Append(name, 0) \in Seq(Nat) /\ Len(Append(name, 0)) \in Nat
  <2>1. Append(name, 0) \in Seq(Nat)
    BY <1>4, AppendLemma DEF name
  <2> QED BY <2>1, ElemLemma
<1>8. Holds(dt_struct, p, Append(name, 0))
  <2>1. /\ Padded(Append(name, 0)) \in Seq(Nat)
        /\ Len(Padded(Append(name, 0))) >= Len(Append(name, 0))
        /\ \A k \in 1..Len(Append(name, 0)) : Padded(Append(name, 0))[k] = Append(name, 0)[k]
    BY <1>7, PaddedLemma
  <2>2. Len(Padded(Append(name, 0))) \in Nat
    BY <2>1, ElemLemma
  <2>3. Holds(dt_struct, p, Padded(Append(name, 0)))
    BY <1>3, <1>5 DEF name
  <2> QED BY <1>7, <2>1, <2>2, <2>3, HoldsPrefix
<1>9. String(p) = name
  <2>1. strlen(p) = Len(name)
    BY <1>3, <1>4, <1>6, <1>8, ReadString DEF name
  <2>2. Holds(dt_struct, p, name)
    <3>1. /\ Len(name) \in Nat /\ Len(Append(name, 0)) >= Len(name)
          /\ \A k \in 1..Len(name) : Append(name, 0)[k] = name[k]
      BY <1>4, AppendLemma, ElemLemma DEF name
    <3> QED BY <1>7, <1>8, <3>1, HoldsPrefix
  <2>3. Memory(p, Len(name)) = name
    BY <1>4, <1>6, <2>2, MemoryRead DEF name
  <2> QED BY <2>1, <2>3 DEF String
<1>10. HasUnitName(At(m), key) <=> (IF name = <<>> THEN DebugName ELSE name) = key
  BY <1>9, Zenon DEF HasUnitName, fdt_node_name, p
<1> QED BY <1>10, Zenon DEF name

\* The comparison of device types is right at every node.
LEMMA DeviceTypeAgrees ==
  ASSUME Done, NEW key
  PROVE  Agrees("device_type", key)
<1> SUFFICES ASSUME NEW m \in Nodes
             PROVE  HasDeviceType(At(m), key)
                      <=> (Has(m, "device_type") /\ Prop(m, "device_type").val \in {key, Append(key, 0)})
  BY Zenon DEF Agrees, Matches, IsMatch
<1> DEFINE q == Prop(m, "device_type")
<1>1. fdt_get_prop_by_name(At(m), NULL, "device_type") = q.at
  BY ByName
<1>2. HasDeviceType(At(m), key)
        <=> q.at # NULL /\ Memory(fdt_prop_val(q.at), fdt_prop_val_len(q.at)) \in {key, Append(key, 0)}
  BY <1>1, Zenon DEF HasDeviceType
<1>3. ASSUME Has(m, "device_type")
      PROVE  Memory(fdt_prop_val(q.at), fdt_prop_val_len(q.at)) = q.val
  <2>1. /\ q.val \in Seq(Nat) /\ fdt_prop_val_len(q.at) = Len(q.val)
        /\ fdt_prop_val(q.at) \in Nat /\ fdt_prop_val(q.at) >= 1
        /\ Holds(dt_struct, fdt_prop_val(q.at), q.val)
    BY <1>3, PropGiven
  <2>2. Blob
    BY Tree
  <2> HIDE DEF q
  <2> QED BY <2>1, <2>2, MemoryRead
<1>4. Has(m, "device_type") <=> q.at # NULL
  BY DEF Has
<1> QED BY <1>2, <1>3, <1>4, Zenon

\* What the values of two properties are by the devicetree specification: a
\* phandle is one cell, and a list of strings ends with a terminator.
WellFormed ==
  /\ \A v \in Values("phandle") : Len(v) = 4
  /\ \A v \in Values("compatible") : v = <<>> \/ v[Len(v)] = 0

\* A cell is the only value of four bytes with its number.
LEMMA CellUnique ==
  ASSUME NEW v \in Seq(0..255), Len(v) = 4, NEW key \in 1..2
  PROVE  Number(v) = key <=> v = Cell(key)
<1>1. key \div 16777216 = 0 /\ (key \div 65536) % 256 = 0 /\ (key \div 256) % 256 = 0 /\ key % 256 = key
  <2>1. CASE key = 1
    BY <2>1, Z3
  <2>2. CASE key = 2
    BY <2>2, Z3
  <2> QED BY <2>1, <2>2
<1>2. Cell(key) = <<0, 0, 0, key>>
  BY <1>1 DEF Cell
<1>3. v[1] \in 0..255 /\ v[2] \in 0..255 /\ v[3] \in 0..255 /\ v[4] \in 0..255
  <2>1. \A k \in 1..Len(v) : v[k] \in 0..255
    BY ElemLemma
  <2> QED BY <2>1
<1>4. Number(v) = key <=> v[1] = 0 /\ v[2] = 0 /\ v[3] = 0 /\ v[4] = key
  <2>1. ((v[1] * 256 + v[2]) * 256 + v[3]) * 256 + v[4] = key
          <=> v[1] = 0 /\ v[2] = 0 /\ v[3] = 0 /\ v[4] = key
    <3> DEFINE a == v[1]
               b == v[2]
               c == v[3]
               d == v[4]
    <3>1. a \in 0..255 /\ b \in 0..255 /\ c \in 0..255 /\ d \in 0..255
      BY <1>3
    <3> HIDE DEF a, b, c, d
    <3>2. ((a * 256 + b) * 256 + c) * 256 + d = key <=> a = 0 /\ b = 0 /\ c = 0 /\ d = key
      BY <3>1
    <3> QED BY <3>2 DEF a, b, c, d
  <2> QED BY <2>1, Zenon DEF Number
<1>5. v = Cell(key) <=> v[1] = 0 /\ v[2] = 0 /\ v[3] = 0 /\ v[4] = key
  BY <1>2
<1> QED BY <1>4, <1>5

\* The comparison of phandles is right at every node, and none stops the search.
LEMMA PhandleAgrees ==
  ASSUME Done, WellFormed, NEW key \in 1..2
  PROVE  Agrees("phandle", key)
<1> SUFFICES ASSUME NEW m \in Nodes
             PROVE  /\ ~BadPhandle(At(m))
                    /\ HasPhandle(At(m), key) <=> Prop(m, "phandle").val = Cell(key)
  BY Zenon DEF Agrees, Matches, IsMatch
<1> DEFINE q == Prop(m, "phandle")
<1>1. fdt_get_prop_by_name(At(m), NULL, "phandle") = q.at
  BY ByName
<1>2. BadPhandle(At(m)) <=> q.at # NULL /\ fdt_prop_num_cells(q.at) # 1
  BY <1>1, Zenon DEF BadPhandle
<1>3. HasPhandle(At(m), key) <=> q.at # NULL /\ ~BadPhandle(At(m)) /\ fdt_prop_get_cell(q.at, 0) = key
  BY <1>1, Zenon DEF HasPhandle
<1>4. CASE Has(m, "phandle")
  <2>1. q.at # NULL /\ q.val \in Seq(0..255) /\ q.val \in Values("phandle") /\ fdt_prop_val_len(q.at) = Len(q.val)
    BY <1>4, PropGiven DEF Has
  <2>2. Len(q.val) = 4
    BY <2>1 DEF WellFormed
  <2>3. fdt_prop_get_cell(q.at, 0) = IF Len(q.val) < 4 THEN 0 ELSE Number(q.val)
    BY <1>4, FirstCell
  <2> HIDE DEF q
  <2>4. fdt_prop_num_cells(q.at) = 1
    BY <2>1, <2>2 DEF fdt_prop_num_cells
  <2>5. fdt_prop_get_cell(q.at, 0) = Number(q.val)
    BY <2>2, <2>3
  <2>6. Number(q.val) = key <=> q.val = Cell(key)
    BY <2>1, <2>2, CellUnique
  <2> QED BY <1>2, <1>3, <2>1, <2>4, <2>5, <2>6 DEF q
<1>5. CASE ~Has(m, "phandle")
  <2>1. q.at = NULL
    BY <1>5 DEF Has
  <2>2. q = [at |-> NULL, name |-> "phandle", val |-> <<>>]
    BY <1>5, NotGiven
  <2>3. q.val = <<>>
    BY <2>2
  <2> HIDE DEF q
  <2>4. Cell(key) # <<>>
    BY CellLemma
  <2> QED BY <1>2, <1>3, <2>1, <2>3, <2>4 DEF q
<1> QED BY <1>4, <1>5

\* The states of the loop over a list of strings, and where it ends.
Lists == [strings : Nat \ {0}, len : Int]

ListOut(s) == s.len = 0 \/ s.strings > Len(dt_struct)

ListNext(s) ==
  [strings |-> s.strings + (strlen(s.strings) + 1), len |-> s.len - (strlen(s.strings) + 1)]

\* A turn of the loop over the strings of a list goes forward.
LEMMA ListNextLemma ==
  ASSUME Blob, NEW s \in Lists
  PROVE  /\ ListNext(s) \in Lists /\ ListNext(s).strings > s.strings
         /\ ListNext(s).strings = s.strings + (strlen(s.strings) + 1)
         /\ ListNext(s).len = s.len - (strlen(s.strings) + 1)
<1>1. s.strings \in Nat /\ s.strings >= 1 /\ s.len \in Int
  BY DEF Lists
<1>2. strlen(s.strings) \in Nat
  <2>1. strlen(s.strings) \in 0..Len(dt_struct)
    BY <1>1, StrlenLemma
  <2> QED BY <2>1
<1>3. /\ ListNext(s).strings = s.strings + (strlen(s.strings) + 1)
      /\ ListNext(s).len = s.len - (strlen(s.strings) + 1)
  BY DEF ListNext
<1>4. s.strings + (strlen(s.strings) + 1) \in Nat \ {0} /\ s.len - (strlen(s.strings) + 1) \in Int
      /\ s.strings + (strlen(s.strings) + 1) > s.strings
  BY <1>1, <1>2
<1>5. ListNext(s) \in Lists
  BY <1>4 DEF ListNext, Lists
<1> QED BY <1>3, <1>4, <1>5

\* The loop over the strings of a list: what a turn keeps holds where it ends.
LEMMA AnyStringRule ==
  ASSUME Blob, NEW p, NEW l, NEW compat, NEW I \in SUBSET Lists,
         [strings |-> p, len |-> l] \in I,
         \A s \in I : ~ListOut(s) /\ String(s.strings) # compat => ListNext(s) \in I
  PROVE  \E s \in I : /\ ListOut(s) \/ String(s.strings) = compat
                      /\ AnyString(p, l, compat) = IF ListOut(s) THEN FALSE ELSE TRUE
<1> DEFINE stop == { s \in Lists : ListOut(s) \/ String(s.strings) = compat }
           val == [s \in Lists |-> IF ListOut(s) THEN FALSE ELSE TRUE]
           next == [s \in Lists |-> ListNext(s)]
           rank == [s \in Lists |-> IF s.strings > Len(dt_struct) THEN 0 ELSE Len(dt_struct) + 1 - s.strings]
           n == Len(dt_struct)
           first == [strings |-> p, len |-> l]
           Go(any, s) ==
             IF s.len = 0 \/ s.strings > Len(dt_struct) THEN FALSE
             ELSE IF String(s.strings) = compat THEN TRUE
             ELSE LET past == strlen(s.strings) + 1
                  IN any[[strings |-> s.strings + past, len |-> s.len - past]]
           Is(any) == any = [s \in Lists |-> Go(any, s)]
<1>1. n \in Nat /\ Descends(Lists, stop, next, rank, n)
  <2>1. n \in Nat
    BY DEF Blob
  <2>2. \A s \in Lists : s.strings \in Nat /\ s.strings >= 1
    BY DEF Lists
  <2>3. rank \in [Lists -> 0..n]
    BY <2>1, <2>2
  <2>4. ASSUME NEW x \in Lists, x \notin stop PROVE next[x] \in Lists /\ rank[next[x]] < rank[x]
    <3>1. ~ListOut(x)
      BY <2>4
    <3>2. ListNext(x) \in Lists /\ ListNext(x).strings > x.strings
      BY ListNextLemma
    <3>3. x.strings \in Nat /\ ListNext(x).strings \in Nat /\ ~(x.strings > n)
      BY <2>2, <3>1, <3>2 DEF ListOut
    <3> QED BY <2>1, <3>2, <3>3
  <2> QED BY <2>1, <2>3, <2>4 DEF Descends
<1>2. \A f : Is(f) <=> Loop(f, Lists, stop, val, next)
  <2> SUFFICES ASSUME NEW f PROVE Is(f) <=> Loop(f, Lists, stop, val, next)
    OBVIOUS
  <2>1. ASSUME NEW s \in Lists
        PROVE  (IF s \in stop THEN val[s] ELSE f[next[s]]) = Go(f, s)
    <3>1. /\ val[s] = (IF ListOut(s) THEN FALSE ELSE TRUE) /\ next[s] = ListNext(s)
          /\ s \in stop <=> ListOut(s) \/ String(s.strings) = compat
      OBVIOUS
    <3> HIDE DEF val, next, stop
    <3> QED BY <3>1, Zenon DEF ListOut, ListNext
  <2> HIDE DEF stop, val, next, Go
  <2> QED BY <2>1, Zenon DEF Loop
<1> DEFINE f == CHOOSE f : Is(f)
<1>3. Loop(f, Lists, stop, val, next)
  <2> HIDE DEF stop, val, next, rank, n, Is
  <2>1. \E g : Is(g)
    BY <1>1, <1>2, LoopExists, Zenon
  <2>2. Is(f)
    BY <2>1, Zenon
  <2> QED BY <1>2, <2>2, Zenon
<1>4. AnyString(p, l, compat) = f[first]
  BY Zenon DEF AnyString, Lists
<1>5. \A y \in I : y \notin stop => next[y] \in I
  OBVIOUS
<1>6. \E s \in I : s \in stop /\ f[first] = val[s]
  <2>1. first \in I
    BY Zenon
  <2> HIDE DEF stop, val, next, rank, n, f, first
  <2> QED BY <1>1, <1>3, <1>5, <2>1, LoopRule
<1> HIDE DEF f
<1> QED BY <1>4, <1>6

-----------------------------------------------------------------------------
\* The string key stands in v behind the first a bytes, with its terminator.
Stands(v, a, key) ==
  /\ a + Len(key) + 1 <= Len(v)
  /\ \A i \in 1..Len(key) : v[a + i] = key[i]
  /\ v[a + Len(key) + 1] = 0

\* A list of strings in memory, and what to look for in it.
List(p, v, key) ==
  /\ Blob /\ p \in Nat /\ p >= 1
  /\ v \in Seq(Nat) /\ Holds(dt_struct, p, v)
  /\ v # <<>> => v[Len(v)] = 0
  /\ key \in Seq(Nat) /\ \A i \in 1..Len(key) : key[i] # 0

\* Byte reads the bytes of the list.
LEMMA ListBytes ==
  ASSUME NEW p, NEW v, NEW key, List(p, v, key), NEW a \in Nat, NEW i \in Nat, i >= 1, a + i <= Len(v)
  PROVE  Byte(p + a + i - 1) = v[a + i] /\ p + a + i - 1 <= Len(dt_struct)
<1>1. /\ p \in Nat /\ p >= 1 /\ Len(v) \in Nat
      /\ \A k \in 0..(Len(v) - 1) : Byte(p + k) = v[k + 1] /\ p + k <= Len(dt_struct)
  BY HoldsByte, ElemLemma DEF List
<1>2. /\ a + i - 1 \in 0..(Len(v) - 1) /\ p + (a + i - 1) = p + a + i - 1
      /\ (a + i - 1) + 1 = a + i
  BY <1>1
<1> QED BY <1>1, <1>2

\* Inside the list a string ends inside it.
LEMMA StringInside ==
  ASSUME NEW p, NEW v, NEW key, List(p, v, key), NEW a \in Nat, a < Len(v)
  PROVE  /\ p + a \in Nat /\ p + a >= 1 /\ p + a <= Len(dt_struct)
         /\ strlen(p + a) \in Nat /\ a + strlen(p + a) + 1 <= Len(v)
         /\ v[a + strlen(p + a) + 1] = 0
         /\ \A i \in 1..strlen(p + a) : v[a + i] # 0
<1> DEFINE L == strlen(p + a)
<1>1. /\ Blob /\ p \in Nat /\ p >= 1 /\ Len(v) \in Nat /\ v[Len(v)] = 0
  <2>1. Blob /\ p \in Nat /\ p >= 1 /\ v \in Seq(Nat) /\ (v # <<>> => v[Len(v)] = 0)
    BY DEF List
  <2>2. Len(v) \in Nat
    BY <2>1, ElemLemma
  <2>3. v # <<>>
    BY <2>2
  <2> QED BY <2>1, <2>2, <2>3
<1>2. p + a \in Nat /\ p + a >= 1
  BY <1>1
<1>3. Len(dt_struct) \in Nat
  BY <1>1, ElemLemma DEF Blob
<1>4. /\ L \in 0..Len(dt_struct)
      /\ Byte(p + a + L) = 0 \/ p + a + L > Len(dt_struct)
      /\ \A k \in 0..(L - 1) : Byte(p + a + k) # 0
  BY <1>1, <1>2, StrlenLemma
<1> HIDE DEF L
<1>5. L \in Nat
  BY <1>4
<1>6. \A i \in Nat : i >= 1 /\ a + i <= Len(v) =>
        Byte(p + a + i - 1) = v[a + i] /\ p + a + i - 1 <= Len(dt_struct)
  BY ListBytes
<1>7. a + L + 1 <= Len(v)
  <2> SUFFICES ASSUME ~(a + L + 1 <= Len(v)) PROVE FALSE
    OBVIOUS
  <2> DEFINE k == Len(v) - a - 1
  <2>1. k \in 0..(L - 1) /\ k + 1 \in Nat /\ k + 1 >= 1 /\ a + (k + 1) = Len(v)
        /\ p + a + (k + 1) - 1 = p + a + k
    BY <1>1, <1>5
  <2> HIDE DEF k
  <2>2. a + (k + 1) <= Len(v)
    BY <1>1, <2>1
  <2>3. Byte(p + a + k) = v[Len(v)]
    BY <1>6, <2>1, <2>2
  <2> QED BY <1>1, <1>4, <2>1, <2>3
<1>8. v[a + L + 1] = 0 /\ p + a <= Len(dt_struct)
  <2>1. L + 1 \in Nat /\ L + 1 >= 1 /\ a + (L + 1) <= Len(v) /\ a + (L + 1) = a + L + 1
        /\ p + a + (L + 1) - 1 = p + a + L
    BY <1>1, <1>5, <1>7
  <2>2. Byte(p + a + L) = v[a + L + 1] /\ p + a + L <= Len(dt_struct)
    BY <1>6, <2>1
  <2>3. ~(p + a + L > Len(dt_struct)) /\ p + a <= Len(dt_struct)
    BY <1>2, <1>3, <1>5, <2>2
  <2> QED BY <1>4, <2>2, <2>3
<1>9. ASSUME NEW i \in 1..L PROVE v[a + i] # 0
  <2>1. i \in Nat /\ i >= 1 /\ a + i <= Len(v) /\ i - 1 \in 0..(L - 1) /\ p + a + (i - 1) = p + a + i - 1
    BY <1>1, <1>5, <1>7
  <2>2. Byte(p + a + i - 1) = v[a + i]
    BY <1>6, <2>1
  <2> QED BY <1>4, <2>1, <2>2
<1> QED BY <1>2, <1>5, <1>7, <1>8, <1>9 DEF L

\* The string at an offset is the key just when the key stands there.
LEMMA StringStands ==
  ASSUME NEW p, NEW v, NEW key, List(p, v, key), NEW a \in Nat, a < Len(v)
  PROVE  String(p + a) = key <=> Stands(v, a, key)
<1> DEFINE L == strlen(p + a)
<1>1. /\ p \in Nat /\ p + a \in Nat /\ p + a >= 1 /\ L \in Nat /\ a + L + 1 <= Len(v) /\ v[a + L + 1] = 0
      /\ \A i \in 1..L : v[a + i] # 0
  <2>1. p \in Nat
    BY DEF List
  <2> HIDE DEF L
  <2> QED BY <2>1, StringInside DEF L
<1>2. key \in Seq(Nat) /\ Len(key) \in Nat /\ v \in Seq(Nat) /\ Len(v) \in Nat
      /\ \A i \in 1..Len(key) : key[i] # 0
  BY ElemLemma DEF List
<1>3. String(p + a) = [i \in 1..L |-> Byte(p + a + i - 1)]
  BY DEF String, Memory
<1> HIDE DEF L
<1>4. ASSUME NEW i \in 1..L PROVE Byte(p + a + i - 1) = v[a + i]
  <2>1. i \in Nat /\ i >= 1 /\ a + i <= Len(v)
    BY <1>1, <1>2
  <2> QED BY <2>1, ListBytes
<1>5. String(p + a) = [i \in 1..L |-> v[a + i]]
  BY <1>3, <1>4
<1>6. ASSUME String(p + a) = key PROVE Stands(v, a, key)
  <2>1. Len(key) = L /\ \A i \in 1..L : key[i] = v[a + i]
    BY <1>1, <1>5, <1>6
  <2> QED BY <1>1, <2>1 DEF Stands
<1>7. ASSUME Stands(v, a, key) PROVE String(p + a) = key
  <2>1. /\ a + Len(key) + 1 <= Len(v) /\ v[a + Len(key) + 1] = 0
        /\ \A i \in 1..Len(key) : v[a + i] = key[i]
    BY <1>7 DEF Stands
  <2>2. L = Len(key)
    <3>1. CASE L < Len(key)
      <4>1. L + 1 \in 1..Len(key) /\ a + (L + 1) = a + L + 1
        BY <1>1, <1>2, <3>1
      <4> QED BY <1>1, <1>2, <2>1, <4>1
    <3>2. CASE L > Len(key)
      <4>1. Len(key) + 1 \in 1..L /\ a + (Len(key) + 1) = a + Len(key) + 1
        <5>1. L \in Nat /\ Len(key) \in Nat
          BY <1>1, <1>2
        <5> QED BY <3>2, <5>1
      <4> QED BY <1>1, <2>1, <4>1
    <3> QED BY <1>1, <1>2, <3>1, <3>2
  <2>3. key = [i \in 1..Len(key) |-> key[i]]
    BY <1>2
  <2> QED BY <1>5, <2>1, <2>2, <2>3
<1> QED BY <1>6, <1>7

\* A part of a sequence, by its elements.
LEMMA PartLemma ==
  ASSUME NEW v \in Seq(Nat), NEW a \in Nat, NEW b \in Nat, b <= Len(v)
  PROVE  /\ a <= b => SubSeq(v, a + 1, b) = [i \in 1..(b - a) |-> v[a + i]]
         /\ ~(a <= b) => SubSeq(v, a + 1, b) = <<>>
<1>1. ASSUME a <= b PROVE SubSeq(v, a + 1, b) = [i \in 1..(b - a) |-> v[a + i]]
  BY <1>1
<1>2. ASSUME ~(a <= b) PROVE SubSeq(v, a + 1, b) = <<>>
  BY <1>2
<1> QED BY <1>1, <1>2

\* A part of the list is the key and its terminator just when the key stands there.
LEMMA PartStands ==
  ASSUME NEW v \in Seq(Nat), NEW key \in Seq(Nat), NEW a \in 0..Len(v)
  PROVE  (\E b \in 0..Len(v) : SubSeq(v, a + 1, b) = Append(key, 0)) <=> Stands(v, a, key)
<1> DEFINE k == Append(key, 0)
           K == Len(key)
<1>1. /\ k \in Seq(Nat) /\ Len(k) = K + 1 /\ K \in Nat /\ k[K + 1] = 0
      /\ \A i \in 1..K : k[i] = key[i]
  BY AppendLemma, ElemLemma
<1>2. Len(v) \in Nat /\ a \in Nat
  BY ElemLemma
<1> HIDE DEF k, K
<1>3. ASSUME NEW b \in 0..Len(v), SubSeq(v, a + 1, b) = k PROVE Stands(v, a, key)
  <2>1. b \in Nat /\ b <= Len(v)
    BY <1>2
  <2>2. a <= b
    <3> SUFFICES ASSUME ~(a <= b) PROVE FALSE
      OBVIOUS
    <3>1. k = <<>>
      BY <1>2, <1>3, <2>1, PartLemma
    <3>2. Len(k) = 0
      BY <3>1
    <3>3. K \in Nat /\ Len(k) = K + 1
      BY <1>1, Zenon
    <3>4. K + 1 = 0
      BY <3>2, <3>3, Zenon
    <3> QED BY <3>3, <3>4
  <2>3. k = [i \in 1..(b - a) |-> v[a + i]]
    BY <1>2, <1>3, <2>1, <2>2, PartLemma
  <2>4. b - a \in Nat /\ Len(k) = b - a
    <3>1. b - a \in Nat
      BY <1>2, <2>1, <2>2
    <3> HIDE DEF k
    <3> QED BY <2>3, <3>1
  <2>5. b - a = K + 1 /\ a + K + 1 = b /\ a + (K + 1) = a + K + 1
    BY <1>1, <1>2, <2>1, <2>4
  <2>6. \A i \in 1..(K + 1) : k[i] = v[a + i]
    BY <2>3, <2>5
  <2>7. \A i \in 1..K : i \in 1..(K + 1)
    BY <1>1
  <2>8. K + 1 \in 1..(K + 1)
    BY <1>1
  <2>9. \A i \in 1..K : v[a + i] = key[i]
    BY <1>1, <2>6, <2>7
  <2>10. v[a + K + 1] = 0
    BY <1>1, <2>5, <2>6, <2>8
  <2> QED BY <2>1, <2>5, <2>9, <2>10 DEF Stands, K
<1>4. ASSUME Stands(v, a, key) PROVE \E b \in 0..Len(v) : SubSeq(v, a + 1, b) = k
  <2> DEFINE b == a + K + 1
  <2>1. /\ a + K + 1 <= Len(v) /\ v[a + K + 1] = 0
        /\ \A i \in 1..K : v[a + i] = key[i]
    BY <1>4 DEF Stands, K
  <2>2. b \in Nat /\ b <= Len(v) /\ a <= b /\ b - a = K + 1 /\ b \in 0..Len(v) /\ a + (K + 1) = a + K + 1
    BY <1>1, <1>2, <2>1
  <2> HIDE DEF b
  <2>3. SubSeq(v, a + 1, b) = [i \in 1..(K + 1) |-> v[a + i]]
    BY <1>2, <2>2, PartLemma
  <2>4. ASSUME NEW i \in 1..(K + 1) PROVE v[a + i] = k[i]
    <3>1. CASE i = K + 1
      BY <1>1, <2>1, <2>2, <3>1
    <3>2. CASE i # K + 1
      <4>1. i \in 1..K
        BY <1>1, <3>2
      <4> QED BY <1>1, <2>1, <4>1
    <3> QED BY <3>1, <3>2
  <2>5. k = [i \in 1..(K + 1) |-> k[i]]
    BY <1>1
  <2>6. SubSeq(v, a + 1, b) = k
    BY <2>3, <2>4, <2>5
  <2> QED BY <2>2, <2>6
<1> QED BY <1>3, <1>4 DEF k

\* In front of a the key does not stand at the beginning of a string.
NotBefore(v, a, key) == \A b \in 0..(a - 1) : b = 0 \/ v[b] = 0 => ~Stands(v, b, key)

\* The loop over the strings finds the key just when it is one of them.
LEMMA AnyExact ==
  ASSUME NEW p, NEW v, NEW key, List(p, v, key)
  PROVE  AnyString(p, Len(v), key) <=> \E a \in 0..Len(v) : (a = 0 \/ v[a] = 0) /\ Stands(v, a, key)
<1> DEFINE Are(s, a) == /\ s.strings = p + a /\ s.len = Len(v) - a
                        /\ a = 0 \/ v[a] = 0
                        /\ NotBefore(v, a, key)
           I == { s \in Lists : \E a \in 0..Len(v) : Are(s, a) }
           first == [strings |-> p, len |-> Len(v)]
           N == Len(v)
<1>1. p \in Nat /\ p >= 1 /\ N \in Nat /\ Blob /\ Len(key) \in Nat
  BY ElemLemma DEF List
<1>2. first \in I
  <2>1. first \in Lists /\ first.strings = p + 0 /\ first.len = N - 0
    BY <1>1 DEF Lists
  <2>2. NotBefore(v, 0, key)
    BY DEF NotBefore
  <2>3. 0 \in 0..N
    BY <1>1
  <2> HIDE DEF first
  <2> QED BY <2>1, <2>2, <2>3
<1>3. ASSUME NEW s \in I, ~ListOut(s), String(s.strings) # key PROVE ListNext(s) \in I
  <2>1. PICK a \in 0..N : Are(s, a)
    OBVIOUS
  <2>2. s.strings = p + a /\ s.len = N - a /\ (a = 0 \/ v[a] = 0) /\ NotBefore(v, a, key)
    BY <2>1
  <2>3. a \in Nat /\ a < N
    <3>1. s.len # 0
      BY <1>3 DEF ListOut
    <3> QED BY <1>1, <2>2, <3>1
  <2> DEFINE L == strlen(p + a)
             t == ListNext(s)
  <2>4. /\ L \in Nat /\ a + L + 1 <= N /\ v[a + L + 1] = 0
        /\ \A i \in 1..L : v[a + i] # 0
    BY <2>3, StringInside
  <2>5. ~Stands(v, a, key)
    BY <1>3, <2>2, <2>3, StringStands
  <2>6. t \in Lists /\ t.strings = s.strings + (L + 1) /\ t.len = s.len - (L + 1)
    <3>1. s \in Lists
      OBVIOUS
    <3> QED BY <1>1, <2>2, <3>1, ListNextLemma
  <2> HIDE DEF L, t
  <2>7. t.strings = p + (a + L + 1) /\ t.len = N - (a + L + 1) /\ a + L + 1 \in 0..N
    BY <1>1, <2>2, <2>3, <2>4, <2>6
  <2>8. NotBefore(v, a + L + 1, key)
    <3> SUFFICES ASSUME NEW b \in 0..((a + L + 1) - 1), b = 0 \/ v[b] = 0 PROVE ~Stands(v, b, key)
      BY DEF NotBefore
    <3>1. b \in Nat /\ b <= a + L /\ L \in Nat
      BY <2>3, <2>4
    <3>2. CASE b < a
      <4>1. b \in 0..(a - 1)
        BY <2>3, <3>1, <3>2
      <4> QED BY <2>2, <4>1 DEF NotBefore
    <3>3. CASE b = a
      BY <2>5, <3>3
    <3>4. CASE b > a
      <4>1. b - a \in 1..L /\ a + (b - a) = b /\ b # 0
        BY <2>3, <3>1, <3>4
      <4>2. v[b] # 0
        BY <2>4, <4>1
      <4> QED BY <4>1, <4>2
    <3> QED BY <2>3, <3>1, <3>2, <3>3, <3>4
  <2>9. Are(t, a + L + 1)
    BY <2>4, <2>7, <2>8
  <2> QED BY <2>6, <2>7, <2>9 DEF t
<1> HIDE DEF I
<1>4. PICK s \in I : /\ ListOut(s) \/ String(s.strings) = key
                     /\ AnyString(p, N, key) = IF ListOut(s) THEN FALSE ELSE TRUE
  <2>1. I \in SUBSET Lists
    BY DEF I
  <2> QED BY <1>1, <1>2, <1>3, <2>1, AnyStringRule
<1>5. PICK a \in 0..N : Are(s, a)
  BY DEF I
<1>6. s.strings = p + a /\ s.len = N - a /\ (a = 0 \/ v[a] = 0) /\ NotBefore(v, a, key) /\ a \in Nat
  BY <1>5
<1>7. CASE ListOut(s)
  <2>1. a = N
    <3> SUFFICES ASSUME a # N PROVE FALSE
      OBVIOUS
    <3>1. a < N /\ s.len # 0
      BY <1>1, <1>6
    <3>2. p + a <= Len(dt_struct)
      BY <1>6, <3>1, StringInside
    <3>3. Len(dt_struct) \in Nat
      BY <1>1, ElemLemma DEF Blob
    <3> QED BY <1>1, <1>6, <1>7, <3>1, <3>2, <3>3 DEF ListOut
  <2>2. ASSUME NEW b \in 0..N, b = 0 \/ v[b] = 0, Stands(v, b, key) PROVE FALSE
    <3>1. b + Len(key) + 1 <= N
      BY <2>2 DEF Stands
    <3>2. b \in 0..(a - 1)
      BY <1>1, <2>1, <3>1
    <3> QED BY <1>6, <2>2, <3>2 DEF NotBefore
  <2> QED BY <1>4, <1>7, <2>2
<1>8. CASE ~ListOut(s)
  <2>1. String(p + a) = key /\ s.len # 0
    BY <1>4, <1>6, <1>8 DEF ListOut
  <2>2. a < N
    BY <1>1, <1>6, <2>1
  <2>3. Stands(v, a, key)
    BY <1>6, <2>1, <2>2, StringStands
  <2> QED BY <1>4, <1>6, <1>8, <2>3
<1> QED BY <1>7, <1>8

\* The search of a list of strings is right at every node.
LEMMA CompatibleAgrees ==
  ASSUME Done, WellFormed, NEW key \in Seq(Nat), \A i \in 1..Len(key) : key[i] # 0
  PROVE  Agrees("compatible", key)
<1> SUFFICES ASSUME NEW m \in Nodes
             PROVE  fdt_node_is_compatible(At(m), key)
                      <=> \E a, b \in 0..Len(Prop(m, "compatible").val) :
                            /\ a = 0 \/ Prop(m, "compatible").val[a] = 0
                            /\ SubSeq(Prop(m, "compatible").val, a + 1, b) = Append(key, 0)
  BY Zenon DEF Agrees, Matches, IsMatch
<1> DEFINE q == Prop(m, "compatible")
           v == q.val
<1>1. fdt_node_is_compatible(At(m), key)
        <=> q.at # NULL /\ AnyString(fdt_prop_val(q.at), fdt_prop_val_len(q.at), key)
  <2>1. fdt_get_prop_by_name(At(m), NULL, "compatible") = q.at
    BY ByName
  <2> QED BY <2>1, Zenon DEF fdt_node_is_compatible
<1>2. v \in Seq(Nat)
  <2>1. CASE Has(m, "compatible")
    BY <2>1, PropGiven
  <2>2. CASE ~Has(m, "compatible")
    <3>1. q = [at |-> NULL, name |-> "compatible", val |-> <<>>]
      BY <2>2, NotGiven
    <3>2. v = <<>>
      BY <3>1
    <3>3. <<>> \in Seq(Nat)
      OBVIOUS
    <3> HIDE DEF v
    <3> QED BY <3>2, <3>3
  <2> QED BY <2>1, <2>2
<1>3. (\E a, b \in 0..Len(v) : (a = 0 \/ v[a] = 0) /\ SubSeq(v, a + 1, b) = Append(key, 0))
        <=> \E a \in 0..Len(v) : (a = 0 \/ v[a] = 0) /\ Stands(v, a, key)
  <2> HIDE DEF v
  <2>1. \A a \in 0..Len(v) : (\E b \in 0..Len(v) : SubSeq(v, a + 1, b) = Append(key, 0)) <=> Stands(v, a, key)
    BY <1>2, PartStands
  <2> QED BY <2>1, Zenon
<1>4. CASE Has(m, "compatible")
  <2>1. /\ q.at # NULL /\ v \in Values("compatible") /\ fdt_prop_val_len(q.at) = Len(v)
        /\ fdt_prop_val(q.at) \in Nat /\ fdt_prop_val(q.at) >= 1
        /\ Holds(dt_struct, fdt_prop_val(q.at), v)
    BY <1>4, PropGiven DEF Has
  <2>2. v # <<>> => v[Len(v)] = 0
    BY <2>1, Zenon DEF WellFormed
  <2>3. Blob
    BY Tree
  <2> HIDE DEF v, q
  <2>4. List(fdt_prop_val(q.at), v, key)
    BY <1>2, <2>1, <2>2, <2>3 DEF List
  <2>5. AnyString(fdt_prop_val(q.at), Len(v), key)
          <=> \E a \in 0..Len(v) : (a = 0 \/ v[a] = 0) /\ Stands(v, a, key)
    BY <2>4, AnyExact
  <2> QED BY <1>1, <1>3, <2>1, <2>5, Zenon DEF v, q
<1>5. CASE ~Has(m, "compatible")
  <2>1. q.at = NULL
    BY <1>5 DEF Has
  <2>2. q = [at |-> NULL, name |-> "compatible", val |-> <<>>]
    BY <1>5, NotGiven
  <2>3. v = <<>> /\ Len(v) = 0
    BY <2>2
  <2> HIDE DEF v, q
  <2>4. ASSUME NEW a \in 0..Len(v), Stands(v, a, key) PROVE FALSE
    <3>1. a + Len(key) + 1 <= 0 /\ Len(key) \in Nat /\ a = 0
      BY <2>3, <2>4, ElemLemma DEF Stands
    <3> QED BY <3>1
  <2> QED BY <1>1, <1>3, <2>1, <2>4, Zenon DEF v, q
<1> QED BY <1>4, <1>5

\* A slice of a sequence has the elements of the sequence.
LEMMA SliceLemma ==
  ASSUME NEW S, NEW v \in Seq(S), NEW i \in 1..Len(v), NEW j \in 1..Len(v)
  PROVE  SubSeq(v, i, j) \in Seq(S)
OBVIOUS

\* A key is a string of bytes that are not 0.
LEMMA KeyLemma ==
  ASSUME Done, NEW name, NEW key \in Keys(name)
  PROVE  key \in Seq(Nat) /\ \A i \in 1..Len(key) : key[i] # 0
<1>1. name \in kind.strings /\ \E v \in Values(name) : \E i, j \in 1..Len(v) : key = SubSeq(v, i, j)
  BY DEF Keys
<1>2. PICK v \in Values(name) : \E i, j \in 1..Len(v) : key = SubSeq(v, i, j)
  BY <1>1
<1>3. PICK i \in 1..Len(v), j \in 1..Len(v) : key = SubSeq(v, i, j)
  BY <1>2
<1>4. kind \in Kinds
  BY DoneSide DEF Given
<1>5. PICK l \in DOMAIN Strings : name = Strings[l]
  BY <1>1, <1>4, BlobAssumption
<1>6. v \in Seq(Nat)
  BY <1>5, BlobAssumption, ByteSeqs
<1>7. key \in Seq(Nat)
  BY <1>3, <1>6, SliceLemma
<1>8. \A k \in DOMAIN key : key[k] # 0
  BY DEF Keys
<1> QED BY <1>7, <1>8, ElemLemma

\* Where every phandle is one cell and every list of strings is terminated, the
\* four searches find every node they should, in order, and no other.
THEOREM SearchTheorem ==
  ASSUME WellFormed
  PROVE  Spec => []SearchExact
<1>1. BlobInv /\ SideInv => SearchExact
  <2> SUFFICES ASSUME Done PROVE SearchExact
    BY DEF Done, SearchExact
  <2>1. ASSUME NEW key \in Keys("compatible") PROVE Finds("compatible", key)
    <3>1. key \in Seq(Nat) /\ \A i \in 1..Len(key) : key[i] # 0
      BY KeyLemma
    <3> QED BY <3>1, CompatibleAgrees, FindExact
  <2>2. ASSUME NEW key \in Keys("device_type") PROVE Finds("device_type", key)
    BY DeviceTypeAgrees, FindExact
  <2>3. ASSUME NEW key \in kind.unitNames PROVE Finds("unit_name", key)
    <3>1. kind \in Kinds
      BY DoneSide DEF Given
    <3>2. key # DebugName
      BY <3>1, BlobAssumption, Zenon
    <3> QED BY <3>2, UnitNameAgrees, FindExact
  <2>4. ASSUME NEW key \in 1..2 PROVE Finds("phandle", key)
    BY PhandleAgrees, FindExact
  <2> QED BY <2>1, <2>2, <2>3, <2>4, Zenon DEF SearchExact
<1> QED BY <1>1, BlobInvariant, SideInvariant, PTL
=============================================================================
