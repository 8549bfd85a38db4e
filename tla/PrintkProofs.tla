---------------------------- MODULE PrintkProofs ----------------------------
(***************************************************************************)
(* printk prints what its format says, for every format, every argument,   *)
(* every length of the buffer, whatever the stack held, and every history  *)
(* of registrations.                                                       *)
(***************************************************************************)
EXTENDS Printk, Induction, FiniteSetTheorems, SequenceTheorems

(***************************************************************************)
(* The inductive invariant, in four parts.                                 *)
(***************************************************************************)
\* The members that have found a slot.
Served == member \ lost

\* The table: no callback is in two slots, and the members that did not find
\* the table full are those in it.
TableInv ==
  /\ early_putchar_array \in [Slot -> Callbacks \cup {NoCallback}]
  /\ outside \in Callbacks \cup {NoCallback}
  /\ ret \in {"none", "KERR_SUCCESS", "KERR_EXIST", "KERR_NO_EXIST", "KERR_FULL"}
  /\ member \subseteq Callbacks
  /\ lost \subseteq member
  /\ NoDuplicates
  /\ Served = Registered

\* The output loops run inside a call only.
OutputInv ==
  /\ s \in Seq(Nat)
  /\ i \in 0..MAX_PUTCHAR
  /\ out \in [Callbacks -> Seq(Nat)]
  /\ ~Printing => Idle /\ \A cb \in Callbacks : out[cb] = <<>>

\* The buffer: what is stored in it has no NUL, and the backup terminator is
\* there.
BufferInv ==
  /\ buf \in [0..BUF_LEN -> 0..255]
  /\ buf[BUF_LEN] = NUL
  /\ buf_head \in 0..(BUF_LEN - 1)
  /\ num_chars \in Nat
  /\ \A k \in 0..(buf_head - 1) : buf[k] # NUL
  /\ ~Printing => buf_head = 0

\* n % signs come before the character at k, and no more.
Run(f, k, n) ==
  /\ \A l \in (k - n)..(k - 1) : f[l] = Percent
  /\ k - n = 1 \/ f[k - n - 1] # Percent

\* How many conversions that take an argument end at or before k.
Passed(c, k) == Cardinality({ l \in 1..k : TakesArg(c.fmt, l) })

\* The arguments from the n-th on.
RestOf(c, n, a) ==
  /\ a \in Seq(Seq(Nat))
  /\ Len(a) = Len(c.args) - n
  /\ \A j \in 1..Len(a) : a[j] = c.args[n + j]

\* The scan: escaped says whether the % signs that have just been passed are
\* odd in number, and the arguments left are those of the conversions ahead.
ScanInv ==
  /\ escaped \in BOOLEAN
  /\ Printing =>
       /\ call[1] \in Calls
       /\ pos \in 1..(Len(fmt) + 1)
       /\ \E n \in 0..(pos - 1) : Run(fmt, pos, n) /\ (escaped <=> n % 2 = 1)
       /\ RestOf(call[1], Passed(call[1], pos - 1), args)

PrintkInv == TableInv /\ OutputInv /\ BufferInv /\ ScanInv

\* The buffer has room, and what is in memory before are bytes.
LEMMA Sizes ==
  BUF_LEN \in Nat /\ BUF_LEN > 2 /\ PTR_BYTES \in Nat /\ Junk \subseteq 0..255 /\ Junk # {}
BY PrintkAssumption

-----------------------------------------------------------------------------
(***************************************************************************)
(* The format.                                                             *)
(***************************************************************************)
LEMMA RunUnique ==
  ASSUME NEW f, NEW k \in Nat, NEW n \in 0..(k - 1), NEW m \in 0..(k - 1),
         Run(f, k, n), Run(f, k, m)
  PROVE  n = m
<1>1. ~(n < m)
  <2>1. SUFFICES ASSUME n < m PROVE FALSE
    OBVIOUS
  <2>2. k - n - 1 \in (k - m)..(k - 1) /\ k - n # 1
    BY <2>1
  <2> QED BY <2>2 DEF Run
<1>2. ~(m < n)
  <2>1. SUFFICES ASSUME m < n PROVE FALSE
    OBVIOUS
  <2>2. k - m - 1 \in (k - n)..(k - 1) /\ k - m # 1
    BY <2>1
  <2> QED BY <2>2 DEF Run
<1> QED BY <1>1, <1>2

\* A character names a conversion if the % signs before it are odd in number.
LEMMA RunIsConversion ==
  ASSUME NEW f, NEW k \in Nat, NEW n \in 0..(k - 1), Run(f, k, n)
  PROVE  IsConversion(f, k) <=> n % 2 = 1
<1>1. ASSUME IsConversion(f, k) PROVE n % 2 = 1
  <2>1. PICK m \in 1..(k - 1) : m % 2 = 1 /\ Run(f, k, m)
    BY <1>1 DEF IsConversion, Run
  <2>2. m \in 0..(k - 1)
    OBVIOUS
  <2>3. m = n
    BY <2>1, <2>2, RunUnique
  <2> QED BY <2>1, <2>3
<1>2. ASSUME n % 2 = 1 PROVE IsConversion(f, k)
  <2>1. n \in 1..(k - 1)
    BY <1>2
  <2> QED BY <1>2, <2>1 DEF IsConversion, Run
<1> QED BY <1>1, <1>2

\* One character on: a % makes the run longer, anything else ends it.
LEMMA RunStep ==
  ASSUME NEW f, NEW k \in Nat \ {0}, NEW n \in 0..(k - 1), Run(f, k, n)
  PROVE  \E m \in 0..k :
           /\ Run(f, k + 1, m)
           /\ m % 2 = 1 <=> f[k] = Percent /\ ~(n % 2 = 1)
<1>1. CASE f[k] = Percent
  <2>1. n + 1 \in 0..k /\ ((n + 1) % 2 = 1 <=> ~(n % 2 = 1))
    OBVIOUS
  <2>2. ASSUME NEW l \in (k + 1 - (n + 1))..(k + 1 - 1) PROVE f[l] = Percent
    BY <1>1 DEF Run
  <2>3. k + 1 - (n + 1) = k - n
    OBVIOUS
  <2>4. Run(f, k + 1, n + 1)
    BY <2>2, <2>3 DEF Run
  <2> QED BY <1>1, <2>1, <2>4
<1>2. CASE f[k] # Percent
  <2>1. Run(f, k + 1, 0)
    <3>1. (k + 1 - 0)..(k + 1 - 1) = {} /\ k + 1 - 0 - 1 = k
      OBVIOUS
    <3> QED BY <1>2, <3>1 DEF Run
  <2>2. 0 \in 0..k /\ 0 % 2 # 1
    OBVIOUS
  <2> QED BY <1>2, <2>1, <2>2
<1> QED BY <1>1, <1>2

\* The conversions passed, one character on.
LEMMA PassedLemma ==
  ASSUME NEW c \in Calls, NEW k \in 1..Len(c.fmt)
  PROVE  /\ Passed(c, k - 1) \in Nat
         /\ Passed(c, k) = Passed(c, k - 1) + (IF TakesArg(c.fmt, k) THEN 1 ELSE 0)
         /\ Passed(c, k) <= Len(c.args)
         /\ Passed(c, 0) = 0
         /\ Passed(c, Len(c.fmt)) = Len(c.args)
<1> DEFINE N == Len(c.fmt)
           S(n) == { l \in 1..n : TakesArg(c.fmt, l) }
<1>1. N \in Nat /\ DOMAIN c.fmt = 1..N /\ k - 1 \in Int /\ N \in Int /\ 1 \in Int
  BY PrintkAssumption
<1>2. IsFiniteSet(1..(k - 1)) /\ IsFiniteSet(1..N)
  BY <1>1, FS_Interval, Zenon
<1>3. S(k - 1) \subseteq 1..(k - 1) /\ S(N) \subseteq 1..N /\ S(k) \subseteq S(N)
  BY <1>1
<1>4. IsFiniteSet(S(k - 1)) /\ IsFiniteSet(S(N))
  BY <1>2, <1>3, FS_Subset, Zenon
<1>5. S(k) = IF TakesArg(c.fmt, k) THEN S(k - 1) \cup {k} ELSE S(k - 1)
  BY <1>1
<1>6. k \notin S(k - 1)
  OBVIOUS
<1>7. S(0) = {} /\ S(N) = { l \in DOMAIN c.fmt : TakesArg(c.fmt, l) }
  BY <1>1
<1>8. Cardinality(S(k)) <= Cardinality(S(N))
  BY <1>3, <1>4, FS_Subset
<1>9. Cardinality(S(k - 1)) \in Nat
  BY <1>4, FS_CardinalityType
<1>10. Cardinality(S(N)) = Len(c.args)
  BY <1>7, PrintkAssumption
<1>11. Cardinality(S(0)) = 0
  BY <1>7, FS_EmptySet
<1> HIDE DEF S
<1>12. Cardinality(S(k)) = Cardinality(S(k - 1)) + (IF TakesArg(c.fmt, k) THEN 1 ELSE 0)
  <2>1. CASE TakesArg(c.fmt, k)
    BY <1>4, <1>5, <1>6, <2>1, FS_AddElement
  <2>2. CASE ~TakesArg(c.fmt, k)
    BY <1>5, <1>9, <2>2
  <2> QED BY <2>1, <2>2
<1>13. Passed(c, k - 1) = Cardinality(S(k - 1)) /\ Passed(c, k) = Cardinality(S(k))
       /\ Passed(c, 0) = Cardinality(S(0)) /\ Passed(c, N) = Cardinality(S(N))
  BY DEF Passed, S
<1> QED BY <1>8, <1>9, <1>10, <1>11, <1>12, <1>13

\* Taking an argument leaves those behind it.
LEMMA TakeLemma ==
  ASSUME NEW c \in Calls, NEW n \in Nat, n + 1 <= Len(c.args), NEW a, RestOf(c, n, a)
  PROVE  /\ a # <<>>
         /\ Head(a) = c.args[n + 1]
         /\ Head(a) \in Seq(Nat)
         /\ RestOf(c, n + 1, Tail(a))
<1>1. c.args \in Seq(Seq(Nat))
  BY PrintkAssumption
<1>2. a \in Seq(Seq(Nat)) /\ Len(a) = Len(c.args) - n /\ a # <<>>
  BY <1>1 DEF RestOf
<1>3. Head(a) = c.args[n + 1] /\ Head(a) \in Seq(Nat)
  BY <1>1, <1>2 DEF RestOf
<1>4. Tail(a) \in Seq(Seq(Nat)) /\ Len(Tail(a)) = Len(a) - 1
  BY <1>2
<1>5. ASSUME NEW j \in 1..Len(Tail(a)) PROVE Tail(a)[j] = c.args[n + 1 + j]
  <2>1. Tail(a)[j] = a[j + 1] /\ j + 1 \in 1..Len(a)
    BY <1>2, <1>4
  <2>2. a[j + 1] = c.args[n + (j + 1)]
    BY <2>1 DEF RestOf
  <2>3. n + (j + 1) = n + 1 + j
    OBVIOUS
  <2> QED BY <2>1, <2>2, <2>3
<1> QED BY <1>1, <1>2, <1>3, <1>4, <1>5 DEF RestOf

-----------------------------------------------------------------------------
(***************************************************************************)
(* The buffer.                                                             *)
(***************************************************************************)
\* The first n characters of a buffer.
Prefix(b, n) == [k \in 1..n |-> b[k - 1]]

\* The string of a buffer is what is in front of its first NUL.
LEMMA CStringLemma ==
  ASSUME NEW b, NEW n \in 0..BUF_LEN, b[n] = NUL, \A k \in 0..(n - 1) : b[k] # NUL
  PROVE  CString(b) = Prefix(b, n)
<1> DEFINE nul == { k \in 0..BUF_LEN : b[k] = NUL }
           least == CHOOSE m \in nul : \A l \in nul : m <= l
<1>1. n \in nul /\ \A l \in nul : n <= l
  <2>1. SUFFICES ASSUME NEW l \in nul PROVE n <= l
    BY Sizes
  <2>2. l \in Nat /\ l \notin 0..(n - 1)
    BY Sizes
  <2> QED BY <2>2, Sizes
<1>2. least \in nul /\ \A l \in nul : least <= l
  BY <1>1
<1>3. least = n
  <2>1. least \in Nat /\ n \in Nat /\ least <= n /\ n <= least
    BY <1>1, <1>2, Sizes
  <2> QED BY <2>1
<1> QED BY <1>3 DEF CString, Prefix

LEMMA PrefixType ==
  ASSUME NEW b \in [0..BUF_LEN -> 0..255], NEW n \in 0..BUF_LEN
  PROVE  Prefix(b, n) \in Seq(Nat) /\ Len(Prefix(b, n)) = n
<1>1. ASSUME NEW k \in 1..n PROVE b[k - 1] \in Nat
  <2>1. k - 1 \in 0..BUF_LEN
    BY Sizes
  <2>2. PICK v \in 0..255 : v = b[k - 1]
    BY <2>1
  <2>3. v \in Nat
    OBVIOUS
  <2> QED BY <2>2, <2>3
<1> QED BY <1>1, Sizes DEF Prefix

\* The digits of a pointer are characters.
LEMMA PointerType ==
  ASSUME NEW p \in Nat
  PROVE  /\ pointer_print(p) \in Seq(Nat)
         /\ Len(pointer_print(p)) = 2 * PTR_BYTES + 2
<1> DEFINE N == 2 * PTR_BYTES
           ip(k) == p \div 16^(N - k)
           digits == [k \in 1..N |-> IF ip(k) > 0 THEN HexDigit(ip(k) % 16) ELSE Zero]
<1>1. N \in Nat
  BY Sizes
<1>2. ASSUME NEW k \in 1..N PROVE digits[k] \in Nat
  <2>1. N - k \in 0..N
    BY <1>1
  <2>2. 16^(N - k) > 0 /\ 16^(N - k) \in Int
    BY <2>1, PrintkAssumption
  <2>3. ip(k) \in Nat
    BY <2>2
  <2>4. ip(k) % 16 \in 0..15
    BY <2>3
  <2>5. HexDigit(ip(k) % 16) \in Nat
    BY <2>4 DEF HexDigit, Zero
  <2> QED BY <2>5 DEF Zero
<1>3. digits \in Seq(Nat) /\ Len(digits) = N
  BY <1>1, <1>2
<1>4. pointer_print(p) = <<Zero, 120>> \o digits
  BY DEF pointer_print
<1> HIDE DEF digits
<1> QED BY <1>1, <1>3, <1>4 DEF Zero

-----------------------------------------------------------------------------
(***************************************************************************)
(* The table.                                                              *)
(***************************************************************************)
\* What does not touch the table keeps its part of the invariant.
LEMMA TableKept ==
  ASSUME TableInv, UNCHANGED table
  PROVE  TableInv'
BY DEF TableInv, table, NoDuplicates, Registered, Free, Served

LEMMA RegisterKeepsTable ==
  ASSUME TableInv, NEW cb \in Callbacks, register_early_putchar(cb)
  PROVE  TableInv'
<1>1. CASE RegisterKnown(cb)
  BY <1>1 DEF RegisterKnown, TableInv, NoDuplicates, Registered, Free, Served
<1>2. CASE RegisterFull(cb)
  <2>1. early_putchar_array' = early_putchar_array /\ Registered' = Registered /\ Free' = Free
    BY <1>2 DEF RegisterFull, Registered, Free
  <2>2. Served' = Served
    BY <1>2 DEF RegisterFull, TableInv, Served
  <2> QED BY <1>2, <2>1, <2>2 DEF RegisterFull, TableInv, NoDuplicates
<1>3. CASE RegisterNew(cb)
  <2>1. PICK k \in Free : early_putchar_array' = [early_putchar_array EXCEPT ![k] = cb]
    BY <1>3 DEF RegisterNew
  <2>2. k \in Slot /\ early_putchar_array[k] = NoCallback
    BY DEF Free
  <2>3. \A l \in Slot : early_putchar_array'[l] = IF l = k THEN cb ELSE early_putchar_array[l]
    BY <2>1 DEF TableInv
  <2>4. \A l \in Slot : early_putchar_array[l] # cb
    BY <1>3, TableAssumption DEF RegisterNew, Registered
  <2>5. Registered' = Registered \cup {cb}
    BY <2>2, <2>3, TableAssumption DEF Registered
  <2>6. NoDuplicates'
    BY <2>2, <2>3, <2>4 DEF TableInv, NoDuplicates, Free
  <2>7. early_putchar_array' \in [Slot -> Callbacks \cup {NoCallback}]
    BY <2>1 DEF TableInv
  <2>8. Served' = Served \cup {cb}
    BY <1>3 DEF RegisterNew, Served
  <2> QED BY <1>3, <2>5, <2>6, <2>7, <2>8 DEF RegisterNew, TableInv
<1> QED BY <1>1, <1>2, <1>3 DEF register_early_putchar

LEMMA UnregisterKeepsTable ==
  ASSUME TableInv, NEW cb \in Callbacks, unregister_early_putchar(cb)
  PROVE  TableInv'
<1>1. CASE UnregisterUnknown(cb)
  <2>1. early_putchar_array' = early_putchar_array /\ Registered' = Registered /\ Free' = Free
    BY <1>1 DEF UnregisterUnknown, Registered, Free
  <2>2. Served' = Served
    BY <1>1 DEF UnregisterUnknown, TableInv, Served
  <2> QED BY <1>1, <2>1, <2>2 DEF unregister_early_putchar, UnregisterUnknown, TableInv,
             NoDuplicates
<1>2. CASE UnregisterKnown(cb)
  <2>1. PICK k \in Slot :
          /\ early_putchar_array[k] = cb
          /\ early_putchar_array' = [early_putchar_array EXCEPT ![k] = NoCallback]
    BY <1>2 DEF UnregisterKnown
  <2>2. \A l \in Slot :
          early_putchar_array'[l] = IF l = k THEN NoCallback ELSE early_putchar_array[l]
    BY <2>1 DEF TableInv
  <2>3. \A l \in Slot : l # k => early_putchar_array[l] # cb
    BY <2>1, TableAssumption DEF TableInv, NoDuplicates, Free
  <2>4. Registered' = Registered \ {cb}
    BY <2>1, <2>2, <2>3 DEF Registered
  <2>5. NoDuplicates'
    BY <2>2 DEF TableInv, NoDuplicates, Free
  <2>6. early_putchar_array' \in [Slot -> Callbacks \cup {NoCallback}]
    BY <2>1 DEF TableInv
  <2>7. Served' = Served \ {cb} /\ cb \notin lost
    <3>1. cb \in Registered
      BY <2>1, TableAssumption DEF Registered
    <3> QED BY <1>2, <3>1 DEF UnregisterKnown, TableInv, Served
  <2> QED BY <1>2, <2>4, <2>5, <2>6, <2>7 DEF unregister_early_putchar, UnregisterKnown, TableInv
<1> QED BY <1>1, <1>2 DEF unregister_early_putchar

-----------------------------------------------------------------------------
(***************************************************************************)
(* What the actions share.                                                 *)
(***************************************************************************)
\* A flush or a conversion inside a call starts the output loops.
LEMMA PutsLemma ==
  ASSUME PrintkInv, NEW t \in Seq(Nat), early_puts(t), Printing'
  PROVE  TableInv' /\ OutputInv'
<1>1. TableInv'
  BY TableKept DEF PrintkInv, early_puts
<1>2. OutputInv'
  BY TableAssumption DEF PrintkInv, OutputInv, early_puts
<1> QED BY <1>1, <1>2

LEMMA ElementLemma ==
  ASSUME NEW S, NEW f \in Seq(S), NEW k \in 1..Len(f)
  PROVE  f[k] \in S
OBVIOUS

\* Where the scan is.
LEMMA ScanLemma ==
  ASSUME PrintkInv, Scanning
  PROVE  /\ call[1] \in Calls
         /\ fmt \in Seq(1..255)
         /\ pos \in 1..Len(fmt)
         /\ fmt[pos] \in 1..255
         /\ escaped <=> IsConversion(fmt, pos)
<1>1. call[1] \in Calls /\ pos \in 1..(Len(fmt) + 1) /\ pos <= Len(fmt)
  BY DEF PrintkInv, ScanInv, Scanning
<1>2. fmt \in Seq(1..255)
  BY <1>1, PrintkAssumption DEF fmt
<1>3. pos \in 1..Len(fmt) /\ pos \in Nat
  BY <1>1, <1>2
<1>4. fmt[pos] \in 1..255
  BY <1>2, <1>3, ElementLemma
<1>5. PICK n \in 0..(pos - 1) : Run(fmt, pos, n) /\ (escaped <=> n % 2 = 1)
  BY DEF PrintkInv, ScanInv, Scanning
<1>6. IsConversion(fmt, pos) <=> n % 2 = 1
  BY <1>3, <1>5, RunIsConversion
<1> QED BY <1>1, <1>2, <1>3, <1>4, <1>5, <1>6

\* A conversion that takes an argument finds its own first in line.
LEMMA ArgLemma ==
  ASSUME PrintkInv, Scanning, TakesArg(fmt, pos)
  PROVE  /\ Head(args) = ArgOf(call[1], pos)
         /\ Head(args) \in Seq(Nat)
         /\ fmt[pos] # Conv.s => Head(args) # <<>>
         /\ RestOf(call[1], Passed(call[1], pos), Tail(args))
<1> DEFINE c == call[1]
           n == Passed(c, pos - 1)
<1>1. c \in Calls /\ pos \in 1..Len(c.fmt)
  BY ScanLemma DEF fmt
<1>2. n \in Nat /\ Passed(c, pos) = n + 1 /\ n + 1 <= Len(c.args)
  BY <1>1, PassedLemma DEF fmt
<1>3. RestOf(c, n, args)
  BY DEF PrintkInv, ScanInv, Scanning
<1> HIDE DEF n
<1>4. /\ Head(args) = c.args[n + 1]
      /\ Head(args) \in Seq(Nat)
      /\ RestOf(c, n + 1, Tail(args))
  BY <1>1, <1>2, <1>3, TakeLemma
<1>5. Head(args) = ArgOf(c, pos)
  BY <1>2, <1>4 DEF ArgOf, Passed
<1>6. fmt[pos] # Conv.s => Head(args) # <<>>
  <2>1. pos \in DOMAIN c.fmt
    BY <1>1, Sizes
  <2> QED BY <1>1, <1>5, <2>1, PrintkAssumption DEF fmt
<1> QED BY <1>2, <1>4, <1>5, <1>6

\* The scan goes on behind the character at pos.
LEMMA Advance ==
  ASSUME PrintkInv, Scanning, UNCHANGED call, pos' = pos + 1,
         escaped' \in BOOLEAN,
         escaped' <=> fmt[pos] = Percent /\ ~escaped,
         args' = IF TakesArg(fmt, pos) THEN Tail(args) ELSE args
  PROVE  ScanInv'
<1> DEFINE c == call[1]
<1>1. c \in Calls /\ pos \in 1..Len(fmt) /\ pos \in Nat \ {0} /\ fmt \in Seq(1..255)
  BY ScanLemma
<1>2. pos' \in 1..(Len(fmt) + 1) /\ pos' - 1 = pos
  BY <1>1
<1>3. PICK n \in 0..(pos - 1) : Run(fmt, pos, n) /\ (escaped <=> n % 2 = 1)
  BY DEF PrintkInv, ScanInv, Scanning
<1>4. PICK m \in 0..pos :
        Run(fmt, pos + 1, m) /\ (m % 2 = 1 <=> fmt[pos] = Percent /\ ~(n % 2 = 1))
  BY <1>1, <1>3, RunStep
<1>5. RestOf(c, Passed(c, pos), args')
  <2>1. CASE TakesArg(fmt, pos)
    BY <2>1, ArgLemma
  <2>2. CASE ~TakesArg(fmt, pos)
    <3>1. Passed(c, pos) = Passed(c, pos - 1)
      BY <1>1, <2>2, PassedLemma DEF fmt
    <3> QED BY <2>2, <3>1 DEF PrintkInv, ScanInv, Scanning
  <2> QED BY <2>1, <2>2
<1>6. fmt' = fmt /\ c' = c /\ (Printing' <=> Printing)
  BY DEF fmt, Printing
<1>7. m \in 0..(pos' - 1) /\ Run(fmt', pos', m) /\ (escaped' <=> m % 2 = 1)
  BY <1>2, <1>3, <1>4, <1>6
<1>8. RestOf(c', Passed(c', pos' - 1), args')
  BY <1>2, <1>5, <1>6
<1> QED BY <1>1, <1>2, <1>6, <1>7, <1>8 DEF ScanInv

\* The scan stands still.
LEMMA ScanKept ==
  ASSUME PrintkInv, UNCHANGED <<call, pos, args, escaped>>
  PROVE  ScanInv'
BY DEF PrintkInv, ScanInv, fmt, Printing

-----------------------------------------------------------------------------
(***************************************************************************)
(* One lemma per action.                                                   *)
(***************************************************************************)
\* A flush prints what was stored, to the last character.
LEMMA FlushText ==
  ASSUME PrintkInv, Flush
  PROVE  /\ buf' \in [0..BUF_LEN -> 0..255] /\ buf'[BUF_LEN] = NUL
         /\ s' = Prefix(buf, buf_head)
         /\ s' \in Seq(Nat)
         /\ Len(s') = buf_head
<1> DEFINE b == [buf EXCEPT ![buf_head] = NUL]
<1>1. /\ buf \in [0..BUF_LEN -> 0..255] /\ buf[BUF_LEN] = NUL
      /\ buf_head \in 0..(BUF_LEN - 1) /\ buf_head \in 0..BUF_LEN
      /\ \A k \in 0..(buf_head - 1) : buf[k] # NUL
  BY Sizes DEF PrintkInv, BufferInv
<1>2. b \in [0..BUF_LEN -> 0..255] /\ b[BUF_LEN] = NUL /\ b[buf_head] = NUL
  BY <1>1, Sizes DEF NUL
<1>3. ASSUME NEW k \in 0..(buf_head - 1) PROVE b[k] = buf[k]
  BY <1>1, Sizes
<1>4. CString(b) = Prefix(b, buf_head)
  <2>1. \A k \in 0..(buf_head - 1) : b[k] # NUL
    BY <1>1, <1>3
  <2> HIDE DEF b
  <2> QED BY <1>1, <1>2, <2>1, CStringLemma
<1>5. Prefix(b, buf_head) = Prefix(buf, buf_head)
  <2>1. \A k \in 1..buf_head : k - 1 \in 0..(buf_head - 1)
    BY <1>1
  <2>2. \A k \in 1..buf_head : b[k - 1] = buf[k - 1]
    BY <1>3, <2>1
  <2> HIDE DEF b
  <2> QED BY <2>2 DEF Prefix
<1>6. buf' = b /\ s' = CString(b)
  BY DEF Flush, early_puts
<1>7. Prefix(buf, buf_head) \in Seq(Nat) /\ Len(Prefix(buf, buf_head)) = buf_head
  BY <1>1, PrefixType
<1> HIDE DEF b
<1> QED BY <1>2, <1>4, <1>5, <1>6, <1>7

LEMMA FlushLemma ==
  ASSUME PrintkInv, Printing, Flush
  PROVE  PrintkInv'
<1>1. s' \in Seq(Nat) /\ early_puts(s') /\ Printing'
  BY FlushText DEF Flush, early_puts, Printing
<1>2. TableInv' /\ OutputInv'
  BY <1>1, PutsLemma
<1>3. ScanInv'
  BY ScanKept DEF Flush
<1>4. BufferInv'
  <2>1. buf_head' = 0 /\ num_chars' \in Nat
    BY Sizes DEF Flush, PrintkInv, BufferInv
  <2> QED BY <2>1, FlushText, Sizes DEF BufferInv
<1> QED BY <1>2, <1>3, <1>4 DEF PrintkInv

\* A text of one or two characters through the start of the buffer is printed
\* as it is, unless it is a single NUL.
LEMMA ViaText ==
  ASSUME PrintkInv, NEW t \in Seq(0..255), NEW count, ViaBuffer(t, count),
         Len(t) \in 1..2,
         t = <<NUL>> \/ \A k \in 1..Len(t) : t[k] # NUL
  PROVE  /\ buf' \in [0..BUF_LEN -> 0..255] /\ buf'[BUF_LEN] = NUL
         /\ s' = IF t = <<NUL>> THEN <<>> ELSE t
         /\ s' \in Seq(Nat)
<1> DEFINE b == [k \in 0..BUF_LEN |-> IF k < Len(t) THEN t[k + 1]
                                      ELSE IF k = Len(t) THEN NUL ELSE buf[k]]
<1>1. BUF_LEN \in Nat /\ 2 < BUF_LEN /\ Len(t) \in 0..BUF_LEN
  <2>1. BUF_LEN \in Nat /\ BUF_LEN > 2
    BY Sizes
  <2>2. Len(t) = 1 \/ Len(t) = 2
    OBVIOUS
  <2>3. 1 \in 0..BUF_LEN /\ 2 \in 0..BUF_LEN /\ 2 < BUF_LEN
    BY <2>1
  <2> QED BY <2>1, <2>2, <2>3, Zenon
<1>2. buf \in [0..BUF_LEN -> 0..255] /\ buf[BUF_LEN] = NUL
  BY DEF PrintkInv, BufferInv
<1>3. ASSUME NEW k \in 0..BUF_LEN PROVE b[k] \in 0..255
  <2>1. CASE k < Len(t)
    <3>1. k + 1 \in 1..Len(t)
      BY <2>1
    <3> QED BY <2>1, <3>1, ElementLemma
  <2>2. CASE k >= Len(t)
    <3>1. b[k] = NUL \/ b[k] = buf[k]
      BY <2>2
    <3>2. buf[k] \in 0..255
      BY <1>2
    <3>3. NUL \in 0..255
      BY DEF NUL
    <3> HIDE DEF b
    <3> QED BY <3>1, <3>2, <3>3, Zenon
  <2>3. k < Len(t) \/ k >= Len(t)
    BY <1>1
  <2> HIDE DEF b
  <2> QED BY <2>1, <2>2, <2>3
<1>4. b \in [0..BUF_LEN -> 0..255]
  BY <1>3
<1>5. b[BUF_LEN] = NUL /\ b[Len(t)] = NUL
  BY <1>1, <1>2
<1>6. \A k \in 0..(Len(t) - 1) : b[k] = t[k + 1]
  BY <1>1
<1>7. buf' = b /\ s' = CString(b)
  BY DEF ViaBuffer, early_puts
<1> HIDE DEF b
<1>8. CASE t = <<NUL>>
  <2>1. 0 \in 0..BUF_LEN /\ b[0] = NUL /\ 0..(0 - 1) = {}
    BY <1>1, <1>6, <1>8
  <2>2. CString(b) = Prefix(b, 0)
    BY <2>1, CStringLemma
  <2>3. Prefix(b, 0) = <<>>
    BY DEF Prefix
  <2>4. s' = <<>> /\ <<>> \in Seq(Nat)
    BY <1>7, <2>2, <2>3
  <2> QED BY <1>4, <1>5, <1>7, <1>8, <2>4
<1>9. CASE t # <<NUL>>
  <2>1. ASSUME NEW k \in 0..(Len(t) - 1) PROVE b[k] # NUL
    <3>1. k + 1 \in 1..Len(t)
      OBVIOUS
    <3> QED BY <1>6, <1>9, <3>1
  <2>2. CString(b) = Prefix(b, Len(t))
    BY <1>1, <1>5, <2>1, CStringLemma
  <2>3. Prefix(b, Len(t)) = t
    <3>1. ASSUME NEW k \in 1..Len(t) PROVE b[k - 1] = t[k]
      <4>1. k - 1 \in 0..(Len(t) - 1) /\ k - 1 + 1 = k
        OBVIOUS
      <4> QED BY <1>6, <4>1
    <3>2. t = [k \in 1..Len(t) |-> t[k]]
      OBVIOUS
    <3> QED BY <3>1, <3>2 DEF Prefix
  <2>4. Prefix(b, Len(t)) \in Seq(Nat)
    BY <1>1, <1>4, PrefixType
  <2> QED BY <1>4, <1>5, <1>7, <1>9, <2>2, <2>3, <2>4
<1> QED BY <1>8, <1>9

\* A conversion whose letter is at pos, once its text t is on its way.
LEMMA ConvertedLemma ==
  ASSUME PrintkInv, Converting, Converted, early_puts(s'), s' \in Seq(Nat),
         buf' \in [0..BUF_LEN -> 0..255], buf'[BUF_LEN] = NUL, num_chars' \in Nat,
         args' = IF TakesArg(fmt, pos) THEN Tail(args) ELSE args
  PROVE  PrintkInv'
<1>1. Scanning /\ escaped /\ buf_head = 0 /\ Printing
  BY DEF Converting, Scanning
<1>2. /\ UNCHANGED call /\ Printing' /\ pos' = pos + 1
      /\ escaped' = FALSE /\ buf_head' = 0
  BY <1>1 DEF Converted, Printing
<1>3. TableInv' /\ OutputInv'
  BY <1>2, PutsLemma
<1>4. escaped' <=> fmt[pos] = Percent /\ ~escaped
  BY <1>1, <1>2
<1>5. ScanInv'
  BY <1>1, <1>2, <1>4, Advance
<1>6. BufferInv'
  BY <1>2, Sizes DEF BufferInv
<1> QED BY <1>3, <1>5, <1>6 DEF PrintkInv

LEMMA CountType == PrintkInv => num_chars \in Nat
BY DEF PrintkInv, BufferInv

LEMMA PercentSignLemma ==
  ASSUME PrintkInv, PercentSign
  PROVE  PrintkInv' /\ s' = <<Percent>>
<1>1. <<Percent>> \in Seq(0..255) /\ Len(<<Percent>>) \in 1..2
      /\ \A k \in 1..Len(<<Percent>>) : <<Percent>>[k] # NUL
  BY DEF Percent, NUL
<1>2. <<Percent>> # <<NUL>>
  BY DEF Percent, NUL
<1>3. ViaBuffer(<<Percent>>, 1) /\ Converting /\ Converted
  BY DEF PercentSign
<1>4. /\ buf' \in [0..BUF_LEN -> 0..255] /\ buf'[BUF_LEN] = NUL
      /\ s' = <<Percent>> /\ s' \in Seq(Nat)
  BY <1>1, <1>2, <1>3, ViaText
<1>5. early_puts(s') /\ num_chars' \in Nat
  BY <1>3, CountType DEF ViaBuffer, early_puts
<1>6. ~TakesArg(fmt, pos) /\ args' = args
  BY DEF PercentSign, TakesArg, Percent, Conv
<1> QED BY <1>3, <1>4, <1>5, <1>6, ConvertedLemma

LEMMA CharacterLemma ==
  ASSUME PrintkInv, Character
  PROVE  /\ PrintkInv'
         /\ TakesArg(fmt, pos)
         /\ LET ch == Head(args)[1] % 256
            IN s' = IF <<ch>> = <<NUL>> THEN <<>> ELSE <<ch>>
<1> DEFINE ch == Head(args)[1] % 256
<1>1. Converting /\ Converted /\ Scanning /\ escaped /\ fmt[pos] = Conv.c
      /\ ViaBuffer(<<ch>>, 1) /\ args' = Tail(args)
  BY DEF Character, Converting
<1>2. TakesArg(fmt, pos)
  BY <1>1, ScanLemma DEF TakesArg
<1>3. Head(args) \in Seq(Nat) /\ Head(args) # <<>>
  BY <1>1, <1>2, ArgLemma DEF Conv
<1>4. ch \in 0..255
  <2>1. Head(args)[1] \in Nat
    BY <1>3
  <2> QED BY <2>1
<1> HIDE DEF ch
<1>5. /\ <<ch>> \in Seq(0..255)
      /\ Len(<<ch>>) \in 1..2
      /\ <<ch>> = <<NUL>> \/ \A k \in 1..Len(<<ch>>) : <<ch>>[k] # NUL
  BY <1>4
<1>6. /\ buf' \in [0..BUF_LEN -> 0..255] /\ buf'[BUF_LEN] = NUL
      /\ s' = IF <<ch>> = <<NUL>> THEN <<>> ELSE <<ch>>
      /\ s' \in Seq(Nat)
  BY <1>1, <1>5, ViaText
<1>7. early_puts(s') /\ num_chars' \in Nat
  BY <1>1, CountType DEF ViaBuffer, early_puts
<1>8. PrintkInv'
  BY <1>1, <1>2, <1>6, <1>7, ConvertedLemma
<1> QED BY <1>2, <1>6, <1>8 DEF ch

\* %s and %p leave the buffer alone.
LEMMA DirectLemma ==
  ASSUME PrintkInv, CharString \/ Pointer
  PROVE  /\ PrintkInv'
         /\ TakesArg(fmt, pos)
<1>1. /\ Converting /\ Converted /\ Scanning /\ escaped /\ fmt[pos] \in {Conv.s, Conv.p}
      /\ args' = Tail(args) /\ buf' = buf
  BY DEF CharString, Pointer, Converting
<1>2. TakesArg(fmt, pos)
  BY <1>1, ScanLemma DEF TakesArg
<1>3. Head(args) \in Seq(Nat) /\ (fmt[pos] # Conv.s => Head(args) # <<>>)
  BY <1>1, <1>2, ArgLemma
<1>4. early_puts(s') /\ s' \in Seq(Nat) /\ num_chars' \in Nat
  <2>1. CASE CharString
    BY <1>3, <2>1, CountType DEF CharString, early_puts
  <2>2. CASE Pointer
    <3>1. Head(args)[1] \in Nat
      BY <1>3, <2>2 DEF Pointer, Conv
    <3>2. pointer_print(Head(args)[1]) \in Seq(Nat)
      BY <3>1, PointerType
    <3>3. num_chars' \in Nat
      BY <2>2, CountType, Sizes DEF Pointer
    <3> QED BY <2>2, <3>2, <3>3 DEF Pointer, early_puts
  <2> QED BY <2>1, <2>2
<1>5. buf' \in [0..BUF_LEN -> 0..255] /\ buf'[BUF_LEN] = NUL
  BY <1>1 DEF PrintkInv, BufferInv
<1> QED BY <1>1, <1>2, <1>4, <1>5, ConvertedLemma

LEMMA UnknownLemma ==
  ASSUME PrintkInv, Unknown
  PROVE  PrintkInv' /\ ~TakesArg(fmt, pos) /\ s' = <<Percent, fmt[pos]>>
<1> DEFINE t == <<Percent, fmt[pos]>>
<1>1. Converting /\ Converted /\ Scanning /\ ViaBuffer(t, 2) /\ args' = args
  BY DEF Unknown, Converting
<1>2. fmt[pos] \in 1..255
  BY <1>1, ScanLemma
<1>3. t \in Seq(0..255) /\ Len(t) \in 1..2 /\ \A k \in 1..Len(t) : t[k] # NUL
  BY <1>2 DEF Percent, NUL
<1>4. t # <<NUL>>
  OBVIOUS
<1> HIDE DEF t
<1>5. /\ buf' \in [0..BUF_LEN -> 0..255] /\ buf'[BUF_LEN] = NUL
      /\ s' = t /\ s' \in Seq(Nat)
  BY <1>1, <1>3, <1>4, ViaText
<1>6. early_puts(s') /\ num_chars' \in Nat
  BY <1>1, CountType DEF ViaBuffer, early_puts
<1>7. ~TakesArg(fmt, pos)
  BY DEF Unknown, TakesArg
<1>8. PrintkInv'
  BY <1>1, <1>5, <1>6, <1>7, ConvertedLemma
<1> QED BY <1>5, <1>7, <1>8 DEF t

LEMMA EscapeLemma ==
  ASSUME PrintkInv, Escape
  PROVE  PrintkInv'
<1>1. /\ Scanning /\ ~escaped /\ fmt[pos] = Percent /\ escaped' = TRUE /\ pos' = pos + 1
      /\ UNCHANGED <<table, output, call, args, buf, buf_head, num_chars>>
  BY DEF Escape
<1>2. TableInv'
  BY <1>1, TableKept DEF PrintkInv
<1>3. OutputInv' /\ BufferInv'
  BY <1>1 DEF PrintkInv, OutputInv, BufferInv, output, Idle, Printing
<1>4. ScanInv'
  <2>1. ~TakesArg(fmt, pos)
    BY <1>1 DEF TakesArg, Percent, Conv
  <2> QED BY <1>1, <2>1, Advance
<1> QED BY <1>2, <1>3, <1>4 DEF PrintkInv

\* A plain character is no conversion, and the buffer that holds it is well formed.
LEMMA PlainLemma ==
  ASSUME PrintkInv, Plain
  PROVE  /\ Scanning /\ ~escaped
         /\ ~TakesArg(fmt, pos)
         /\ fmt[pos] \in 1..255
         /\ Stored \in [0..BUF_LEN -> 0..255] /\ Stored[BUF_LEN] = NUL
         /\ Stored[buf_head] = fmt[pos]
         /\ \A k \in 0..(buf_head - 1) : Stored[k] = buf[k] /\ Stored[k] # NUL
         /\ \A k \in 0..buf_head : Stored[k] # NUL
<1>1. Scanning /\ ~escaped
  BY DEF Plain
<1>2. ~TakesArg(fmt, pos) /\ fmt[pos] \in 1..255
  BY <1>1, ScanLemma DEF TakesArg
<1>3. PICK ch \in 1..255 : ch = fmt[pos]
  BY <1>2
<1>4. /\ buf \in [0..BUF_LEN -> 0..255] /\ buf[BUF_LEN] = NUL
      /\ buf_head \in 0..(BUF_LEN - 1) /\ BUF_LEN \in Nat
      /\ \A k \in 0..(buf_head - 1) : buf[k] # NUL
  BY Sizes DEF PrintkInv, BufferInv
<1>5. Stored = [buf EXCEPT ![buf_head] = ch]
  BY <1>3 DEF Stored
<1>6. Stored \in [0..BUF_LEN -> 0..255] /\ Stored[BUF_LEN] = NUL /\ Stored[buf_head] = ch
  BY <1>4, <1>5
<1>7. \A k \in 0..(buf_head - 1) : Stored[k] = buf[k] /\ Stored[k] # NUL
  BY <1>4, <1>5
<1>8. ch # NUL
  BY DEF NUL
<1>9. \A k \in 0..buf_head : k = buf_head \/ k \in 0..(buf_head - 1)
  BY <1>4
<1>10. \A k \in 0..buf_head : Stored[k] # NUL
  BY <1>6, <1>7, <1>8, <1>9
<1> QED BY <1>1, <1>2, <1>3, <1>6, <1>7, <1>10

LEMMA StoreLemma ==
  ASSUME PrintkInv, Store
  PROVE  PrintkInv'
<1>1. /\ Plain /\ buf_head + 1 < BUF_LEN /\ buf' = Stored /\ buf_head' = buf_head + 1
      /\ pos' = pos + 1
      /\ UNCHANGED <<table, output, call, args, escaped, num_chars>>
  BY DEF Store
<1>2. TableInv'
  BY <1>1, TableKept DEF PrintkInv
<1>3. OutputInv'
  BY <1>1 DEF PrintkInv, OutputInv, output, Idle, Printing
<1>4. ScanInv'
  <2>1. Scanning /\ ~escaped /\ ~TakesArg(fmt, pos) /\ fmt[pos] # Percent
    BY <1>1, PlainLemma DEF Plain
  <2>2. escaped' \in BOOLEAN
    BY <1>1 DEF PrintkInv, ScanInv
  <2> QED BY <1>1, <2>1, <2>2, Advance
<1>5. BufferInv'
  <2>1. buf_head' \in 0..(BUF_LEN - 1) /\ buf_head' - 1 = buf_head
    BY <1>1, Sizes DEF PrintkInv, BufferInv
  <2>2. \A k \in 0..(buf_head' - 1) : buf'[k] # NUL
    BY <1>1, <2>1, PlainLemma
  <2>3. buf' \in [0..BUF_LEN -> 0..255] /\ buf'[BUF_LEN] = NUL
    BY <1>1, PlainLemma
  <2>4. Printing' /\ num_chars' \in Nat
    BY <1>1, CountType DEF Plain, Scanning, Printing
  <2> QED BY <2>1, <2>2, <2>3, <2>4 DEF BufferInv
<1> QED BY <1>2, <1>3, <1>4, <1>5 DEF PrintkInv

\* The flush of a full buffer ends at the backup terminator.
LEMMA StoreFullLemma ==
  ASSUME PrintkInv, StoreFull
  PROVE  /\ PrintkInv'
         /\ s' = Prefix(Stored, BUF_LEN)
<1>1. /\ Plain /\ buf_head + 1 = BUF_LEN /\ buf' = Stored /\ buf_head' = 0
      /\ pos' = pos + 1 /\ num_chars' = num_chars + BUF_LEN
      /\ UNCHANGED <<call, args, escaped>>
      /\ early_puts(CString(Stored))
  BY DEF StoreFull
<1>2. /\ Stored \in [0..BUF_LEN -> 0..255] /\ Stored[BUF_LEN] = NUL
      /\ \A k \in 0..(BUF_LEN - 1) : Stored[k] # NUL
  <2>1. BUF_LEN - 1 = buf_head
    BY <1>1, Sizes DEF PrintkInv, BufferInv
  <2> QED BY <1>1, <2>1, PlainLemma
<1>3. BUF_LEN \in 0..BUF_LEN
  BY Sizes
<1>4. CString(Stored) = Prefix(Stored, BUF_LEN)
  BY <1>2, <1>3, CStringLemma
<1>5. Prefix(Stored, BUF_LEN) \in Seq(Nat)
  BY <1>2, <1>3, PrefixType
<1>6. s' = Prefix(Stored, BUF_LEN) /\ early_puts(s') /\ s' \in Seq(Nat)
  BY <1>1, <1>4, <1>5 DEF early_puts
<1>7. Printing'
  BY <1>1 DEF Plain, Scanning, Printing
<1>8. TableInv' /\ OutputInv'
  BY <1>6, <1>7, PutsLemma
<1>9. ScanInv'
  <2>1. Scanning /\ ~escaped /\ ~TakesArg(fmt, pos) /\ fmt[pos] # Percent
    BY <1>1, PlainLemma DEF Plain
  <2>2. escaped' \in BOOLEAN
    BY <1>1 DEF PrintkInv, ScanInv
  <2> QED BY <1>1, <2>1, <2>2, Advance
<1>10. BufferInv'
  <2>1. num_chars' \in Nat
    BY <1>1, CountType, Sizes
  <2> QED BY <1>1, <1>2, <2>1, Sizes DEF BufferInv
<1> QED BY <1>6, <1>8, <1>9, <1>10 DEF PrintkInv

\* A call begins with nothing passed.
LEMMA CallLemma ==
  ASSUME PrintkInv, NEW c \in Calls, printf(c)
  PROVE  PrintkInv'
<1>1. /\ call' = <<c>> /\ pos' = 1 /\ args' = c.args /\ escaped' = FALSE
      /\ buf_head' = 0 /\ num_chars' = 0 /\ UNCHANGED <<table, output>>
  BY DEF printf
<1>2. PICK junk \in Junk : buf' = [k \in 0..BUF_LEN |-> IF k = BUF_LEN THEN NUL ELSE junk]
  BY DEF printf
<1>3. TableInv'
  BY <1>1, TableKept DEF PrintkInv
<1>4. OutputInv' /\ Printing'
  BY <1>1 DEF PrintkInv, OutputInv, output, Printing
<1>5. BufferInv'
  <2>1. junk \in 0..255 /\ NUL \in 0..255 /\ BUF_LEN \in 0..BUF_LEN
    BY Sizes DEF NUL
  <2>2. buf' \in [0..BUF_LEN -> 0..255] /\ buf'[BUF_LEN] = NUL
    BY <1>2, <2>1
  <2> QED BY <1>1, <2>2, Sizes DEF BufferInv
<1>6. ScanInv'
  <2>1. c.fmt \in Seq(1..255) /\ c.fmt # <<>> /\ c.args \in Seq(Seq(Nat))
    BY PrintkAssumption
  <2>2. 1 \in 1..Len(c.fmt) /\ 1 \in 1..(Len(c.fmt) + 1)
    BY <2>1
  <2>3. Passed(c, 0) = 0
    BY <2>2, PassedLemma
  <2>4. RestOf(c, 0, c.args)
    BY <2>1 DEF RestOf
  <2>5. Run(c.fmt, 1, 0) /\ 0 \in 0..(1 - 1) /\ 0 % 2 # 1
    BY DEF Run
  <2>6. call'[1] = c /\ fmt' = c.fmt /\ pos' - 1 = 0
    BY <1>1 DEF fmt
  <2> QED BY <1>1, <2>2, <2>3, <2>4, <2>5, <2>6 DEF ScanInv
<1> QED BY <1>3, <1>4, <1>5, <1>6 DEF PrintkInv

LEMMA NoBufferType ==
  NoBuffer \in [0..BUF_LEN -> 0..255] /\ NoBuffer[BUF_LEN] = NUL
BY Sizes DEF NoBuffer, NUL

LEMMA ReturnLemma ==
  ASSUME PrintkInv, Return
  PROVE  PrintkInv'
<1>1. TableInv'
  BY TableKept DEF PrintkInv, Return, table
<1>2. OutputInv'
  BY DEF PrintkInv, OutputInv, Return, AtEnd, Idle
<1>3. BufferInv'
  BY NoBufferType DEF PrintkInv, BufferInv, Return
<1>4. ScanInv'
  BY DEF ScanInv, Return, Printing
<1> QED BY <1>1, <1>2, <1>3, <1>4 DEF PrintkInv

LEMMA DriversLemma ==
  ASSUME PrintkInv, Drivers
  PROVE  PrintkInv'
<1>1. PICK cb \in Callbacks : register_early_putchar(cb) \/ unregister_early_putchar(cb)
  BY DEF Drivers
<1>2. TableInv'
  BY <1>1, RegisterKeepsTable, UnregisterKeepsTable DEF PrintkInv
<1>3. UNCHANGED <<output, formatter>>
  BY <1>1 DEF Drivers, register_early_putchar, unregister_early_putchar
<1>4. OutputInv' /\ BufferInv'
  BY <1>3 DEF PrintkInv, OutputInv, BufferInv, output, formatter, Idle, Printing
<1>5. ScanInv'
  BY <1>3, ScanKept DEF formatter
<1> QED BY <1>2, <1>4, <1>5 DEF PrintkInv

LEMMA PutsStepLemma ==
  ASSUME PrintkInv, Puts
  PROVE  PrintkInv'
<1>1. UNCHANGED <<table, formatter>> /\ ~Idle
  BY DEF Puts, Output, early_putchar, NextChar
<1>2. TableInv'
  BY <1>1, TableKept DEF PrintkInv
<1>3. BufferInv' /\ (Printing' <=> Printing)
  BY <1>1 DEF PrintkInv, BufferInv, formatter, Printing
<1>4. ScanInv'
  BY <1>1, ScanKept DEF formatter
<1>5. s \in Seq(Nat) /\ s # <<>> /\ Printing
  BY <1>1 DEF PrintkInv, OutputInv, Idle
<1>6. OutputInv'
  <2>1. CASE early_putchar
    <3>1. Head(s) \in Nat
      BY <1>5
    <3>2. out' \in [Callbacks -> Seq(Nat)]
      BY <2>1, <3>1 DEF early_putchar, PrintkInv, OutputInv
    <3>3. i' \in 0..MAX_PUTCHAR
      BY <2>1, TableAssumption DEF early_putchar, PrintkInv, OutputInv
    <3> QED BY <1>3, <1>5, <2>1, <3>2, <3>3 DEF early_putchar, OutputInv
  <2>2. CASE NextChar
    <3>1. Tail(s) \in Seq(Nat)
      BY <1>5
    <3>2. 0 \in 0..MAX_PUTCHAR
      BY TableAssumption
    <3> QED BY <1>3, <1>5, <2>2, <3>1, <3>2 DEF NextChar, PrintkInv, OutputInv
  <2> QED BY <2>1, <2>2 DEF Puts, Output
<1> QED BY <1>2, <1>3, <1>4, <1>6 DEF PrintkInv

-----------------------------------------------------------------------------
LEMMA PrintkInit == Init => PrintkInv
<1>1. SUFFICES ASSUME Init PROVE PrintkInv
  OBVIOUS
<1>2. EarlyInit /\ call = <<>> /\ escaped = FALSE /\ buf = NoBuffer /\ buf_head = 0
      /\ num_chars = 0
  BY <1>1 DEF Init
<1>3. TableInv
  BY <1>2 DEF EarlyInit, TableInv, NoDuplicates, Registered, Free, Served
<1>4. OutputInv
  BY <1>2, TableAssumption DEF EarlyInit, OutputInv, Idle
<1>5. BufferInv
  BY <1>2, NoBufferType, Sizes DEF BufferInv
<1>6. ScanInv
  BY <1>2 DEF ScanInv, Printing
<1> QED BY <1>3, <1>4, <1>5, <1>6 DEF PrintkInv

LEMMA PrintkNext == PrintkInv /\ [Next]_vars => PrintkInv'
<1>1. SUFFICES ASSUME PrintkInv, [Next]_vars PROVE PrintkInv'
  OBVIOUS
<1>2. CASE UNCHANGED vars
  <2>1. UNCHANGED <<table, output, formatter>>
    BY <1>2 DEF vars
  <2>2. TableInv'
    BY <1>1, <2>1, TableKept DEF PrintkInv
  <2>3. OutputInv' /\ BufferInv'
    BY <1>1, <2>1 DEF PrintkInv, OutputInv, BufferInv, output, formatter, Idle, Printing
  <2>4. ScanInv'
    BY <1>1, <2>1, ScanKept DEF formatter
  <2> QED BY <2>2, <2>3, <2>4 DEF PrintkInv
<1>3. CASE Drivers
  BY <1>1, <1>3, DriversLemma
<1>4. CASE \E c \in Calls : printf(c)
  BY <1>1, <1>4, CallLemma
<1>5. CASE Puts
  BY <1>1, <1>5, PutsStepLemma
<1>6. CASE formatted_print
  <2>1. CASE FlushBefore \/ FlushLast
    <3>1. Printing /\ Flush
      BY <2>1 DEF FlushBefore, FlushLast, Scanning, AtEnd
    <3> QED BY <1>1, <3>1, FlushLemma
  <2>2. CASE PercentSign
    BY <1>1, <2>2, PercentSignLemma
  <2>3. CASE Character
    BY <1>1, <2>3, CharacterLemma
  <2>4. CASE CharString \/ Pointer
    BY <1>1, <2>4, DirectLemma
  <2>5. CASE Unknown
    BY <1>1, <2>5, UnknownLemma
  <2>6. CASE Escape
    BY <1>1, <2>6, EscapeLemma
  <2>7. CASE Store
    BY <1>1, <2>7, StoreLemma
  <2>8. CASE StoreFull
    BY <1>1, <2>8, StoreFullLemma
  <2>9. CASE Return
    BY <1>1, <2>9, ReturnLemma
  <2> QED BY <1>6, <2>1, <2>2, <2>3, <2>4, <2>5, <2>6, <2>7, <2>8, <2>9 DEF formatted_print
<1> QED BY <1>1, <1>2, <1>3, <1>4, <1>5, <1>6 DEF Next

THEOREM PrintkInvariance == Spec => []PrintkInv
BY PrintkInit, PrintkNext, PTL DEF Spec

\* The formatter never writes behind its buffer and never overwrites the
\* backup terminator, for every buffer, format and argument.
THEOREM PrintkTypes == Spec => []PrintkTypeOK
<1>1. PrintkInv => PrintkTypeOK
  BY DEF PrintkInv, TableInv, OutputInv, BufferInv, ScanInv, PrintkTypeOK, EarlyTypeOK
<1> QED BY <1>1, PrintkInvariance, PTL

\* No history of registering and unregistering, the overflows of a full table
\* included, brings a callback into two slots.
THEOREM CallbacksAreOnce == Spec => []NoDuplicates
<1>1. PrintkInv => NoDuplicates
  BY DEF PrintkInv, TableInv
<1> QED BY <1>1, PrintkInvariance, PTL

-----------------------------------------------------------------------------
(***************************************************************************)
(* The text.  The characters of the format stand for sequences; joined one *)
(* by one they are what the drivers are sent.                              *)
(***************************************************************************)
\* What one pointer is printed as is a matter of numbers that TLC checks.
PointersAgree ==
  \A c \in Calls : \A k \in DOMAIN c.fmt :
    TakesArg(c.fmt, k) /\ c.fmt[k] = Conv.p =>
      PointerText(ArgOf(c, k)[1]) = pointer_print(ArgOf(c, k)[1])

\* No format ends in a single %, which the code does not print.
NoFinalPercent == \A c \in Calls : ~EndsInPercent(c.fmt)

JoinOf(q) == CHOOSE f : Joins(f, q) /\ FlattenSeq(q) = f[Len(q)]

\* What is counted, and what is sent, up to the character at k.
CountedUpTo(c, k) == JoinOf([l \in DOMAIN c.fmt |-> Stands(c, l)])[k]

SentUpTo(c, k) == JoinOf([l \in DOMAIN c.fmt |-> Shown(c, l)])[k]

LEMMA CallType ==
  ASSUME NEW c \in Calls
  PROVE  /\ c.fmt \in Seq(1..255) /\ c.args \in Seq(Seq(Nat))
         /\ Len(c.fmt) \in Nat /\ Len(c.fmt) # 0 /\ DOMAIN c.fmt = 1..Len(c.fmt)
<1>1. c.fmt \in Seq(1..255) /\ c.args \in Seq(Seq(Nat)) /\ c.fmt # <<>>
  BY PrintkAssumption
<1>2. ASSUME NEW f \in Seq(1..255), f # <<>>
      PROVE  Len(f) \in Nat /\ Len(f) # 0 /\ DOMAIN f = 1..Len(f)
  BY <1>2
<1> QED BY <1>1, <1>2

\* What each kind of character stands for.
LEMMA StandsLemma ==
  ASSUME NEW c \in Calls, NEW k \in DOMAIN c.fmt
  PROVE  /\ ~IsConversion(c.fmt, k) /\ c.fmt[k] = Percent =>
              Stands(c, k) = IF k < Len(c.fmt) THEN <<>> ELSE <<Percent>>
         /\ ~IsConversion(c.fmt, k) /\ c.fmt[k] # Percent => Stands(c, k) = <<c.fmt[k]>>
         /\ IsConversion(c.fmt, k) =>
              /\ c.fmt[k] = Percent => Stands(c, k) = <<Percent>>
              /\ c.fmt[k] = Conv.c => Stands(c, k) = <<ArgOf(c, k)[1] % 256>>
              /\ c.fmt[k] = Conv.s => Stands(c, k) = ArgOf(c, k)
              /\ c.fmt[k] = Conv.p => Stands(c, k) = PointerText(ArgOf(c, k)[1])
              /\ c.fmt[k] \notin {Percent, Conv.c, Conv.s, Conv.p}
                   => Stands(c, k) = <<Percent, c.fmt[k]>>
<1> DEFINE ch == c.fmt[k]
           arg == ArgOf(c, k)
<1>1. /\ Percent # Conv.c /\ Percent # Conv.s /\ Percent # Conv.p
      /\ Conv.c # Conv.s /\ Conv.c # Conv.p /\ Conv.s # Conv.p
  BY DEF Percent, Conv
<1>2. Stands(c, k) =
        IF ~IsConversion(c.fmt, k)
        THEN IF ch = Percent /\ k < Len(c.fmt) THEN <<>> ELSE <<ch>>
        ELSE CASE ch = Percent -> <<Percent>>
               [] ch = Conv.c  -> <<arg[1] % 256>>
               [] ch = Conv.s  -> arg
               [] ch = Conv.p  -> PointerText(arg[1])
               [] OTHER        -> <<Percent, ch>>
  BY DEF Stands
<1> HIDE DEF ch, arg
<1>3. ~IsConversion(c.fmt, k) =>
        Stands(c, k) = IF ch = Percent /\ k < Len(c.fmt) THEN <<>> ELSE <<ch>>
  BY <1>2
<1>4. IsConversion(c.fmt, k) /\ ch = Percent => Stands(c, k) = <<Percent>>
  BY <1>1, <1>2
<1>5. IsConversion(c.fmt, k) /\ ch = Conv.c => Stands(c, k) = <<arg[1] % 256>>
  BY <1>1, <1>2
<1>6. IsConversion(c.fmt, k) /\ ch = Conv.s => Stands(c, k) = arg
  BY <1>1, <1>2
<1>7. IsConversion(c.fmt, k) /\ ch = Conv.p => Stands(c, k) = PointerText(arg[1])
  BY <1>1, <1>2
<1>8. IsConversion(c.fmt, k) /\ ch \notin {Percent, Conv.c, Conv.s, Conv.p}
        => Stands(c, k) = <<Percent, ch>>
  BY <1>2
<1> QED BY <1>3, <1>4, <1>5, <1>6, <1>7, <1>8, Zenon DEF ch, arg

\* The argument of a conversion.
LEMMA ArgType ==
  ASSUME NEW c \in Calls, NEW k \in DOMAIN c.fmt, TakesArg(c.fmt, k)
  PROVE  /\ ArgOf(c, k) \in Seq(Nat)
         /\ c.fmt[k] # Conv.s => ArgOf(c, k) # <<>>
         /\ c.fmt[k] = Conv.s => ArgOf(c, k) \in Seq(1..255)
<1>1. k \in 1..Len(c.fmt) /\ c.args \in Seq(Seq(Nat))
  BY CallType
<1>2. Passed(c, k) \in 1..Len(c.args)
  BY <1>1, PassedLemma
<1>3. ArgOf(c, k) \in Seq(Nat)
  BY <1>1, <1>2, ElementLemma DEF ArgOf, Passed
<1> QED BY <1>3, PrintkAssumption

LEMMA StandsType ==
  ASSUME PointersAgree, NEW c \in Calls, NEW k \in DOMAIN c.fmt
  PROVE  /\ Stands(c, k) \in Seq(Nat)
         /\ Shown(c, k) \in Seq(Nat)
<1> DEFINE ch == c.fmt[k]
<1>1. ch \in Nat
  <2>1. ch \in 1..255
    BY CallType, ElementLemma
  <2> QED BY <2>1
<1>2. Percent \in Nat
  BY DEF Percent
<1> HIDE DEF ch
<1>3. Stands(c, k) \in Seq(Nat)
  <2>0. <<>> \in Seq(Nat) /\ <<ch>> \in Seq(Nat)
        /\ <<Percent>> \in Seq(Nat) /\ <<Percent, ch>> \in Seq(Nat)
    BY <1>1, <1>2
  <2>1. CASE ~IsConversion(c.fmt, k)
    BY <2>0, <2>1, StandsLemma, Zenon DEF ch
  <2>2. CASE IsConversion(c.fmt, k) /\ ch \notin {Conv.c, Conv.s, Conv.p}
    BY <2>0, <2>2, StandsLemma, Zenon DEF ch
  <2>3. CASE IsConversion(c.fmt, k) /\ ch \in {Conv.c, Conv.s, Conv.p}
    <3>1. TakesArg(c.fmt, k)
      BY <2>3 DEF TakesArg, ch
    <3>2. ArgOf(c, k) \in Seq(Nat) /\ (ch # Conv.s => ArgOf(c, k)[1] \in Nat)
      BY <3>1, ArgType DEF ch
    <3>3. CASE ch = Conv.c
      <4>1. ch # Conv.s
        BY <3>3 DEF Conv
      <4>2. ArgOf(c, k)[1] % 256 \in Nat
        BY <3>2, <4>1
      <4>3. Stands(c, k) = <<ArgOf(c, k)[1] % 256>>
        BY <2>3, <3>3, StandsLemma, Zenon DEF ch
      <4> QED BY <4>2, <4>3
    <3>4. CASE ch = Conv.s
      BY <2>3, <3>2, <3>4, StandsLemma, Zenon DEF ch
    <3>5. CASE ch = Conv.p
      <4>1. ch # Conv.s
        BY <3>5 DEF Conv
      <4>2. Stands(c, k) = PointerText(ArgOf(c, k)[1])
        BY <2>3, <3>5, StandsLemma, Zenon DEF ch
      <4>3. PointerText(ArgOf(c, k)[1]) = pointer_print(ArgOf(c, k)[1])
        BY <3>1, <3>5, Zenon DEF PointersAgree, ch
      <4> QED BY <3>2, <4>1, <4>2, <4>3, PointerType
    <3> QED BY <2>3, <3>3, <3>4, <3>5
  <2> QED BY <2>1, <2>2, <2>3
<1> QED BY <1>3 DEF Shown

LEMMA JoinLemma ==
  ASSUME NEW q \in Seq(Seq(Nat)), q # <<>>
  PROVE  Joins(JoinOf(q), q) /\ FlattenSeq(q) = JoinOf(q)[Len(q)]
<1>1. \E f : Joins(f, q) /\ FlattenSeq(q) = f[Len(q)]
  BY FlattenLemma
<1> QED BY <1>1, Zenon DEF JoinOf

\* A sequence given by its elements.
LEMMA TableOfTexts ==
  ASSUME NEW N \in Nat, N # 0, NEW q, q = [l \in 1..N |-> q[l]],
         \A l \in 1..N : q[l] \in Seq(Nat)
  PROVE  q \in Seq(Seq(Nat)) /\ Len(q) = N /\ q # <<>>
<1>1. q \in [1..N -> Seq(Nat)]
  OBVIOUS
<1>2. q \in Seq(Seq(Nat)) /\ Len(q) = N
  BY <1>1
<1> QED
  BY <1>2

\* The text, one character on.
LEMMA TextLemma ==
  ASSUME PointersAgree, NEW c \in Calls
  PROVE  /\ SentUpTo(c, 0) = <<>> /\ CountedUpTo(c, 0) = <<>>
         /\ Sent(c) = SentUpTo(c, Len(c.fmt))
         /\ Formatted(c) = CountedUpTo(c, Len(c.fmt))
         /\ \A k \in 0..Len(c.fmt) : SentUpTo(c, k) \in Seq(Nat) /\ CountedUpTo(c, k) \in Seq(Nat)
         /\ \A k \in 1..Len(c.fmt) :
              /\ SentUpTo(c, k) = SentUpTo(c, k - 1) \o Shown(c, k)
              /\ CountedUpTo(c, k) = CountedUpTo(c, k - 1) \o Stands(c, k)
<1> DEFINE N == Len(c.fmt)
           q == [l \in DOMAIN c.fmt |-> Stands(c, l)]
           r == [l \in DOMAIN c.fmt |-> Shown(c, l)]
<1>1. N \in Nat /\ N # 0 /\ DOMAIN c.fmt = 1..N
  BY CallType
<1>2. q \in Seq(Seq(Nat)) /\ Len(q) = N /\ q # <<>>
  <2>1. \A l \in 1..N : Stands(c, l) \in Seq(Nat)
    BY <1>1, StandsType
  <2>2. q = [l \in 1..N |-> q[l]] /\ \A l \in 1..N : q[l] \in Seq(Nat)
    BY <1>1, <2>1
  <2> HIDE DEF q
  <2> QED BY <1>1, <2>2, TableOfTexts
<1>3. r \in Seq(Seq(Nat)) /\ Len(r) = N /\ r # <<>>
  <2>1. \A l \in 1..N : Shown(c, l) \in Seq(Nat)
    BY <1>1, StandsType
  <2>2. r = [l \in 1..N |-> r[l]] /\ \A l \in 1..N : r[l] \in Seq(Nat)
    BY <1>1, <2>1
  <2> HIDE DEF r
  <2> QED BY <1>1, <2>2, TableOfTexts
<1>4. \A k \in 1..N : q[k] = Stands(c, k) /\ r[k] = Shown(c, k)
  BY <1>1
<1>5. \A k : CountedUpTo(c, k) = JoinOf(q)[k] /\ SentUpTo(c, k) = JoinOf(r)[k]
  BY DEF CountedUpTo, SentUpTo
<1>6. Sent(c) = FlattenSeq(r) /\ Formatted(c) = FlattenSeq(q)
  BY DEF Sent, Formatted
<1> HIDE DEF q, r
<1>7. Joins(JoinOf(q), q) /\ FlattenSeq(q) = JoinOf(q)[N]
  BY <1>2, JoinLemma
<1>8. Joins(JoinOf(r), r) /\ FlattenSeq(r) = JoinOf(r)[N]
  BY <1>3, JoinLemma
<1>9. JoinOf(q)[0] = <<>> /\ JoinOf(r)[0] = <<>>
  BY <1>7, <1>8 DEF Joins
<1>10. \A k \in 0..N : JoinOf(q)[k] \in Seq(Nat) /\ JoinOf(r)[k] \in Seq(Nat)
  BY <1>2, <1>3, <1>7, <1>8 DEF Joins
<1>11. \A k \in 1..N : /\ JoinOf(q)[k] = JoinOf(q)[k - 1] \o q[k]
                       /\ JoinOf(r)[k] = JoinOf(r)[k - 1] \o r[k]
  BY <1>2, <1>3, <1>7, <1>8 DEF Joins
<1> QED BY <1>4, <1>5, <1>6, <1>7, <1>8, <1>9, <1>10, <1>11

LEMMA ConcatEmpty ==
  ASSUME NEW d \in Seq(Nat)
  PROVE  d \o <<>> = d
OBVIOUS

\* Passing the first character of a string on.
LEMMA ConcatTail ==
  ASSUME NEW d \in Seq(Nat), NEW t \in Seq(Nat), t # <<>>
  PROVE  /\ Append(d, Head(t)) \in Seq(Nat)
         /\ Append(d, Head(t)) \o Tail(t) = d \o t
<1> DEFINE a == Append(d, Head(t)) \o Tail(t)
           b == d \o t
<1>1. a \in Seq(Nat) /\ b \in Seq(Nat) /\ Append(d, Head(t)) \in Seq(Nat)
  OBVIOUS
<1>2. Len(a) = Len(b)
  OBVIOUS
<1>3. \A k \in 1..Len(b) : a[k] = b[k]
  OBVIOUS
<1> QED BY <1>1, <1>2, <1>3

LEMMA SnocLemma ==
  ASSUME NEW n \in Nat, NEW ch \in Nat, NEW p \in Seq(Nat), NEW r \in Seq(Nat),
         Len(p) = n, Len(r) = n + 1, r[n + 1] = ch, \A k \in 1..n : r[k] = p[k]
  PROVE  p \o <<ch>> = r
<1>1. p \o <<ch>> = Append(p, ch)
  BY AppendIsConcat
<1>2. /\ Append(p, ch) \in Seq(Nat) /\ Len(Append(p, ch)) = n + 1
      /\ \A k \in 1..n : Append(p, ch)[k] = p[k]
      /\ Append(p, ch)[n + 1] = ch
  OBVIOUS
<1>3. \A k \in 1..(n + 1) : k \in 1..n \/ k = n + 1
  OBVIOUS
<1>4. Append(p, ch) = r
  BY <1>2, <1>3
<1> QED BY <1>1, <1>4

\* Storing one character more.
LEMMA ConcatStored ==
  ASSUME NEW d \in Seq(Nat), NEW ch \in 1..255, NEW n \in 0..(BUF_LEN - 1),
         NEW b \in [0..BUF_LEN -> 0..255]
  PROVE  (d \o Prefix(b, n)) \o <<ch>> = d \o Prefix([b EXCEPT ![n] = ch], n + 1)
<1>0. PICK b2 \in [0..BUF_LEN -> 0..255] : b2 = [b EXCEPT ![n] = ch]
  <2>1. ch \in 0..255
    OBVIOUS
  <2>2. [b EXCEPT ![n] = ch] \in [0..BUF_LEN -> 0..255]
    BY <2>1
  <2> QED BY <2>2
<1>1. n \in 0..BUF_LEN /\ n + 1 \in 0..BUF_LEN /\ n \in Nat /\ ch \in Nat
  BY Sizes
<1>2. Prefix(b, n) \in Seq(Nat) /\ Len(Prefix(b, n)) = n
  BY <1>1, PrefixType
<1>3. Prefix(b2, n + 1) \in Seq(Nat) /\ Len(Prefix(b2, n + 1)) = n + 1
  BY <1>1, PrefixType
<1>4. Prefix(b2, n + 1)[n + 1] = ch
  <2>1. b2[n] = ch
    BY <1>0, <1>1
  <2> QED BY <1>1, <2>1 DEF Prefix
<1>5. ASSUME NEW k \in 1..n PROVE Prefix(b2, n + 1)[k] = Prefix(b, n)[k]
  <2>1. k - 1 \in 0..(n - 1) /\ k \in 1..(n + 1)
    BY <1>1
  <2>2. b2[k - 1] = b[k - 1]
    BY <1>0, <1>1, <2>1
  <2> QED BY <2>1, <2>2 DEF Prefix
<1>6. Prefix(b, n) \o <<ch>> = Prefix(b2, n + 1)
  BY <1>1, <1>2, <1>3, <1>4, <1>5, SnocLemma
<1>7. (d \o Prefix(b, n)) \o <<ch>> = d \o (Prefix(b, n) \o <<ch>>)
  <2>1. <<ch>> \in Seq(Nat)
    BY <1>1
  <2> QED BY <1>2, <2>1, ConcatAssociative
<1> QED BY <1>0, <1>6, <1>7

-----------------------------------------------------------------------------
(***************************************************************************)
(* The invariant of the text: what every member has been sent, what is on  *)
(* its way and what is in the buffer are together the text of the          *)
(* characters that have been scanned.                                      *)
(***************************************************************************)
\* What cb has of it while the character at the front of s goes round.
Told(done, cb) ==
  IF ~Idle /\ \E k \in 0..(i - 1) : early_putchar_array[k] = cb THEN Append(done, Head(s))
  ELSE done

\* All members have been sent done, and t is to follow.
Ahead(done, t) ==
  /\ done \o t = SentUpTo(call[1], pos - 1)
  /\ \A cb \in Callbacks : out[cb] = IF cb \in Served THEN Told(done, cb) ELSE <<>>

TextInv ==
  Printing =>
    /\ num_chars + buf_head = Len(CountedUpTo(call[1], pos - 1))
    /\ ~Idle => buf_head = 0
    /\ \E done \in Seq(Nat) : Ahead(done, IF Idle THEN Prefix(buf, buf_head) ELSE s)

\* A step of the scan that sends t: t is the rest of the text up to where the
\* scan is now.
LEMMA SendLemma ==
  ASSUME PrintkInv, Printing, UNCHANGED call, early_puts(s'), buf_head' = 0,
         NEW done \in Seq(Nat),
         \A cb \in Callbacks : out[cb] = IF cb \in Served THEN Told(done, cb) ELSE <<>>,
         done \o s' = SentUpTo(call[1], pos' - 1),
         num_chars' = Len(CountedUpTo(call[1], pos' - 1)), num_chars' \in Nat
  PROVE  TextInv'
<1>1. /\ Idle /\ i' = 0 /\ out' = out /\ Served' = Served
      /\ early_putchar_array' = early_putchar_array
  BY DEF early_puts, table, Served
<1>2. \A cb : Told(done, cb) = done /\ Told(done, cb)' = done
  BY <1>1 DEF Told
<1>3. \A cb \in Callbacks : out'[cb] = IF cb \in Served' THEN Told(done, cb)' ELSE <<>>
  BY <1>1, <1>2
<1>4. Prefix(buf', buf_head') = <<>>
  BY DEF Prefix
<1>5. done \o (IF Idle' THEN Prefix(buf', buf_head') ELSE s') = SentUpTo(call[1], pos' - 1)
  BY <1>4 DEF Idle
<1>6. Ahead(done, IF Idle THEN Prefix(buf, buf_head) ELSE s)'
  BY <1>3, <1>5 DEF Ahead
<1>7. (num_chars + buf_head)' = Len(CountedUpTo(call[1], pos - 1))'
  OBVIOUS
<1> QED BY <1>6, <1>7 DEF TextInv

\* Where the text is when the output loops are idle.
LEMMA IdleText ==
  ASSUME PrintkInv, TextInv, Printing, Idle
  PROVE  \E done \in Seq(Nat) :
           /\ done \o Prefix(buf, buf_head) = SentUpTo(call[1], pos - 1)
           /\ \A cb \in Callbacks : out[cb] = IF cb \in Served THEN Told(done, cb) ELSE <<>>
           /\ buf_head = 0 => done = SentUpTo(call[1], pos - 1)
<1>1. PICK done \in Seq(Nat) : Ahead(done, IF Idle THEN Prefix(buf, buf_head) ELSE s)
  BY DEF TextInv
<1>2. Ahead(done, Prefix(buf, buf_head))
  BY <1>1
<1>3. buf_head = 0 => Prefix(buf, buf_head) = <<>>
  BY DEF Prefix
<1>4. buf_head = 0 => done = SentUpTo(call[1], pos - 1)
  BY <1>2, <1>3, ConcatEmpty DEF Ahead
<1> QED BY <1>2, <1>4 DEF Ahead

LEMMA FlushKeepsText ==
  ASSUME PrintkInv, TextInv, Printing, Flush
  PROVE  TextInv'
<1>1. Idle /\ UNCHANGED <<call, pos>> /\ buf_head' = 0 /\ num_chars' = num_chars + buf_head
  BY DEF Flush, early_puts
<1>2. PICK done \in Seq(Nat) :
        /\ done \o Prefix(buf, buf_head) = SentUpTo(call[1], pos - 1)
        /\ \A cb \in Callbacks : out[cb] = IF cb \in Served THEN Told(done, cb) ELSE <<>>
  BY <1>1, IdleText
<1>3. s' = Prefix(buf, buf_head) /\ early_puts(s')
  BY FlushText DEF Flush, early_puts
<1>4. num_chars' = Len(CountedUpTo(call[1], pos' - 1))
  BY <1>1 DEF TextInv
<1>5. num_chars' \in Nat
  BY <1>1, CountType DEF PrintkInv, BufferInv
<1> QED BY <1>1, <1>2, <1>3, <1>4, <1>5, SendLemma

\* A conversion sends what its letter stands for.
LEMMA ConversionKeepsText ==
  ASSUME PointersAgree, PrintkInv, TextInv, Converting, Converted, early_puts(s'),
         s' = Shown(call[1], pos),
         num_chars' = num_chars + Len(Stands(call[1], pos))
  PROVE  TextInv'
<1> DEFINE c == call[1]
<1>1. /\ Scanning /\ Printing /\ Idle /\ buf_head = 0 /\ buf_head' = 0
      /\ call' = call /\ pos' = pos + 1
  BY DEF Converting, Scanning, Converted
<1>2. c \in Calls /\ pos \in 1..Len(c.fmt) /\ pos \in DOMAIN c.fmt /\ pos' - 1 = pos
  <2>1. c \in Calls /\ pos \in 1..Len(c.fmt)
    BY <1>1, ScanLemma DEF fmt
  <2> QED BY <1>1, <2>1, CallType
<1>3. PICK done \in Seq(Nat) :
        /\ \A cb \in Callbacks : out[cb] = IF cb \in Served THEN Told(done, cb) ELSE <<>>
        /\ done = SentUpTo(c, pos - 1)
  BY <1>1, IdleText
<1>4. SentUpTo(c, pos) = done \o s'
  BY <1>2, <1>3, TextLemma
<1>5. pos - 1 \in 0..Len(c.fmt) /\ pos \in 0..Len(c.fmt)
  BY <1>2
<1>6. Len(CountedUpTo(c, pos)) = num_chars'
  <2>1. CountedUpTo(c, pos) = CountedUpTo(c, pos - 1) \o Stands(c, pos)
    BY <1>2, TextLemma
  <2>2. CountedUpTo(c, pos - 1) \in Seq(Nat) /\ Stands(c, pos) \in Seq(Nat)
    BY <1>2, <1>5, TextLemma, StandsType
  <2>3. num_chars \in Nat /\ num_chars + buf_head = Len(CountedUpTo(c, pos - 1))
    BY <1>1, CountType DEF TextInv
  <2>4. ASSUME NEW u \in Seq(Nat), NEW v \in Seq(Nat) PROVE Len(u \o v) = Len(u) + Len(v)
    OBVIOUS
  <2>5. Len(CountedUpTo(c, pos)) = Len(CountedUpTo(c, pos - 1)) + Len(Stands(c, pos))
    BY <2>1, <2>2, <2>4
  <2> QED BY <1>1, <2>3, <2>5
<1>7. num_chars' \in Nat
  <2>1. CountedUpTo(c, pos) \in Seq(Nat)
    BY <1>2, <1>5, TextLemma
  <2> QED BY <1>6, <2>1, LenProperties
<1> QED BY <1>1, <1>2, <1>3, <1>4, <1>6, <1>7, SendLemma

LEMMA PercentSignKeepsText ==
  ASSUME PointersAgree, PrintkInv, TextInv, PercentSign
  PROVE  TextInv'
<1>1. Converting /\ Converted /\ Scanning /\ escaped /\ fmt[pos] = Percent
      /\ ViaBuffer(<<Percent>>, 1)
  BY DEF PercentSign, Converting
<1>2. call[1] \in Calls /\ pos \in DOMAIN call[1].fmt /\ IsConversion(fmt, pos)
  BY <1>1, ScanLemma, CallType DEF fmt
<1>3. Stands(call[1], pos) = <<Percent>>
  BY <1>1, <1>2, StandsLemma DEF fmt
<1>4. <<Percent>> # <<NUL>> /\ Len(<<Percent>>) = 1
  BY DEF Percent, NUL
<1>5. s' = Shown(call[1], pos) /\ early_puts(s')
  BY <1>1, <1>3, <1>4, PercentSignLemma DEF Shown, ViaBuffer, early_puts
<1>6. num_chars' = num_chars + Len(Stands(call[1], pos))
  BY <1>1, <1>3, <1>4 DEF ViaBuffer
<1> QED BY <1>1, <1>5, <1>6, ConversionKeepsText

LEMMA CharacterKeepsText ==
  ASSUME PointersAgree, PrintkInv, TextInv, Character
  PROVE  TextInv'
<1> DEFINE ch == Head(args)[1] % 256
<1>1. Converting /\ Converted /\ Scanning /\ escaped /\ fmt[pos] = Conv.c
      /\ ViaBuffer(<<ch>>, 1)
  BY DEF Character, Converting
<1>2. call[1] \in Calls /\ pos \in DOMAIN call[1].fmt /\ IsConversion(fmt, pos)
  BY <1>1, ScanLemma, CallType DEF fmt
<1>3. TakesArg(fmt, pos) /\ s' = IF <<ch>> = <<NUL>> THEN <<>> ELSE <<ch>>
  BY CharacterLemma
<1>4. Head(args) = ArgOf(call[1], pos)
  BY <1>1, <1>3, ArgLemma
<1>5. Stands(call[1], pos) = <<ch>>
  BY <1>1, <1>2, <1>4, StandsLemma, Zenon DEF fmt
<1> HIDE DEF ch
<1>6. s' = Shown(call[1], pos) /\ early_puts(s')
  BY <1>1, <1>3, <1>5 DEF Shown, ViaBuffer, early_puts
<1>7. num_chars' = num_chars + Len(Stands(call[1], pos))
  <2>1. Len(<<ch>>) = 1
    OBVIOUS
  <2> QED BY <1>1, <1>5, <2>1 DEF ViaBuffer
<1> QED BY <1>1, <1>6, <1>7, ConversionKeepsText

LEMMA CharStringKeepsText ==
  ASSUME PointersAgree, PrintkInv, TextInv, CharString
  PROVE  TextInv'
<1>1. Converting /\ Converted /\ Scanning /\ escaped /\ fmt[pos] = Conv.s
      /\ early_puts(Head(args)) /\ num_chars' = num_chars + Len(Head(args))
  BY DEF CharString, Converting
<1>2. call[1] \in Calls /\ pos \in DOMAIN call[1].fmt /\ IsConversion(fmt, pos)
  BY <1>1, ScanLemma, CallType DEF fmt
<1>3. TakesArg(fmt, pos)
  BY DirectLemma
<1>4. Head(args) = ArgOf(call[1], pos)
  BY <1>1, <1>3, ArgLemma
<1>5. Stands(call[1], pos) = Head(args)
  BY <1>1, <1>2, <1>4, StandsLemma, Zenon DEF fmt
<1>6. Head(args) # <<NUL>>
  <2>1. Head(args) \in Seq(1..255)
    BY <1>1, <1>2, <1>3, <1>4, ArgType DEF fmt
  <2>2. ASSUME NEW t \in Seq(1..255), t = <<NUL>> PROVE FALSE
    <3>1. t[1] \in 1..255 /\ t[1] = 0
      BY <2>2 DEF NUL
    <3> QED BY <3>1
  <2> QED BY <2>1, <2>2
<1>7. s' = Shown(call[1], pos) /\ early_puts(s')
  BY <1>1, <1>5, <1>6 DEF Shown, early_puts
<1> QED BY <1>1, <1>5, <1>7, ConversionKeepsText

LEMMA PointerKeepsText ==
  ASSUME PointersAgree, PrintkInv, TextInv, Pointer
  PROVE  TextInv'
<1> DEFINE t == pointer_print(Head(args)[1])
<1>1. Converting /\ Converted /\ Scanning /\ escaped /\ fmt[pos] = Conv.p
      /\ early_puts(t) /\ num_chars' = num_chars + 2 * PTR_BYTES + 2
  BY DEF Pointer, Converting
<1>2. call[1] \in Calls /\ pos \in DOMAIN call[1].fmt /\ IsConversion(fmt, pos)
  BY <1>1, ScanLemma, CallType DEF fmt
<1>3. TakesArg(fmt, pos)
  BY DirectLemma
<1>4. Head(args) = ArgOf(call[1], pos) /\ Head(args) \in Seq(Nat) /\ Head(args) # <<>>
  BY <1>1, <1>3, ArgLemma DEF Conv
<1>5. Stands(call[1], pos) = PointerText(ArgOf(call[1], pos)[1])
  BY <1>1, <1>2, StandsLemma, Zenon DEF fmt
<1>6. Stands(call[1], pos) = t
  BY <1>1, <1>2, <1>3, <1>4, <1>5, Zenon DEF PointersAgree, fmt
<1>7. t \in Seq(Nat) /\ Len(t) = 2 * PTR_BYTES + 2
  BY <1>4, PointerType
<1> HIDE DEF t
<1>8. t # <<NUL>>
  <2>1. Len(<<NUL>>) = 1 /\ 2 * PTR_BYTES + 2 # 1
    BY Sizes
  <2> QED BY <1>7, <2>1
<1>9. s' = Shown(call[1], pos) /\ early_puts(s')
  BY <1>1, <1>6, <1>8 DEF Shown, early_puts
<1>10. num_chars' = num_chars + Len(Stands(call[1], pos))
  BY <1>1, <1>6, <1>7, CountType, Sizes
<1> QED BY <1>1, <1>9, <1>10, ConversionKeepsText

LEMMA UnknownKeepsText ==
  ASSUME PointersAgree, PrintkInv, TextInv, Unknown
  PROVE  TextInv'
<1> DEFINE t == <<Percent, fmt[pos]>>
<1>1. Converting /\ Converted /\ Scanning /\ escaped /\ ViaBuffer(t, 2)
      /\ fmt[pos] \notin {Percent, Conv.c, Conv.s, Conv.p}
  BY DEF Unknown, Converting
<1>2. call[1] \in Calls /\ pos \in DOMAIN call[1].fmt /\ IsConversion(fmt, pos)
  BY <1>1, ScanLemma, CallType DEF fmt
<1>3. Stands(call[1], pos) = t
  BY <1>1, <1>2, StandsLemma, Zenon DEF fmt
<1>4. t # <<NUL>> /\ Len(t) = 2
  OBVIOUS
<1>5. s' = t
  BY UnknownLemma
<1> HIDE DEF t
<1>6. s' = Shown(call[1], pos) /\ early_puts(s')
  BY <1>1, <1>3, <1>4, <1>5 DEF Shown, ViaBuffer, early_puts
<1>7. num_chars' = num_chars + Len(Stands(call[1], pos))
  BY <1>1, <1>3, <1>4 DEF ViaBuffer
<1> QED BY <1>1, <1>6, <1>7, ConversionKeepsText

\* The % that begins a conversion stands for nothing.
LEMMA EscapeKeepsText ==
  ASSUME PointersAgree, NoFinalPercent, PrintkInv, TextInv, Escape
  PROVE  TextInv'
<1> DEFINE c == call[1]
<1>1. /\ Scanning /\ Printing /\ Idle /\ ~escaped /\ fmt[pos] = Percent
      /\ pos' = pos + 1
      /\ UNCHANGED <<table, output, call, args, buf, buf_head, num_chars>>
  BY DEF Escape, Scanning
<1>2. c \in Calls /\ pos \in 1..Len(c.fmt) /\ pos \in DOMAIN c.fmt /\ ~IsConversion(c.fmt, pos)
  BY <1>1, ScanLemma, CallType DEF fmt
<1>3. pos' - 1 = pos /\ pos - 1 \in 0..Len(c.fmt)
  BY <1>1, <1>2
<1>4. Stands(c, pos) = <<>>
  <2>1. pos # Len(c.fmt)
    BY <1>1, <1>2 DEF NoFinalPercent, EndsInPercent, fmt
  <2>2. pos < Len(c.fmt)
    BY <1>2, <2>1, CallType
  <2> QED BY <1>1, <1>2, <2>2, StandsLemma DEF fmt
<1>5. Shown(c, pos) = <<>>
  BY <1>4 DEF Shown
<1>6. SentUpTo(c, pos) = SentUpTo(c, pos - 1) /\ CountedUpTo(c, pos) = CountedUpTo(c, pos - 1)
  <2>1. SentUpTo(c, pos - 1) \in Seq(Nat) /\ CountedUpTo(c, pos - 1) \in Seq(Nat)
    BY <1>2, <1>3, TextLemma
  <2>2. /\ SentUpTo(c, pos) = SentUpTo(c, pos - 1) \o <<>>
        /\ CountedUpTo(c, pos) = CountedUpTo(c, pos - 1) \o <<>>
    BY <1>2, <1>4, <1>5, TextLemma
  <2> QED BY <2>1, <2>2, ConcatEmpty
<1>7. PICK done \in Seq(Nat) : Ahead(done, IF Idle THEN Prefix(buf, buf_head) ELSE s)
  BY <1>1 DEF TextInv
<1>8. Ahead(done, IF Idle THEN Prefix(buf, buf_head) ELSE s)'
  BY <1>1, <1>3, <1>6, <1>7 DEF Ahead, Told, Idle, output, table, Served
<1>9. num_chars' + buf_head' = Len(CountedUpTo(call'[1], pos' - 1))
  BY <1>1, <1>3, <1>6 DEF TextInv
<1> QED BY <1>1, <1>8, <1>9 DEF TextInv, Idle, output

\* A plain character stands for itself, and joins what is stored.
LEMMA StoredText ==
  ASSUME PointersAgree, PrintkInv, TextInv, Plain
  PROVE  /\ call[1] \in Calls /\ pos \in 1..Len(call[1].fmt)
         /\ Len(CountedUpTo(call[1], pos)) = num_chars + buf_head + 1
         /\ \E done \in Seq(Nat) :
              /\ done \o Prefix(Stored, buf_head + 1) = SentUpTo(call[1], pos)
              /\ \A cb \in Callbacks : out[cb] = IF cb \in Served THEN Told(done, cb) ELSE <<>>
<1> DEFINE c == call[1]
<1>1. Scanning /\ Printing /\ Idle /\ ~escaped /\ fmt[pos] # Percent
  BY DEF Plain, Scanning
<1>2. c \in Calls /\ pos \in 1..Len(c.fmt) /\ pos \in DOMAIN c.fmt
      /\ ~IsConversion(c.fmt, pos) /\ fmt[pos] \in 1..255
  BY <1>1, ScanLemma, CallType DEF fmt
<1>3. PICK ch \in 1..255 : ch = fmt[pos]
  BY <1>2
<1>4. Stands(c, pos) = <<ch>>
  BY <1>1, <1>2, <1>3, StandsLemma DEF fmt
<1>5. Shown(c, pos) = <<ch>>
  <2>1. <<ch>> # <<NUL>>
    BY DEF NUL
  <2> QED BY <1>4, <2>1 DEF Shown
<1>6. pos - 1 \in 0..Len(c.fmt)
  BY <1>2
<1>7. /\ SentUpTo(c, pos) = SentUpTo(c, pos - 1) \o <<ch>>
      /\ CountedUpTo(c, pos) = CountedUpTo(c, pos - 1) \o <<ch>>
      /\ CountedUpTo(c, pos - 1) \in Seq(Nat)
  BY <1>2, <1>4, <1>5, <1>6, TextLemma
<1>8. Len(CountedUpTo(c, pos)) = num_chars + buf_head + 1
  <2>1. ASSUME NEW u \in Seq(Nat) PROVE Len(u \o <<ch>>) = Len(u) + 1
    OBVIOUS
  <2>2. Len(CountedUpTo(c, pos)) = Len(CountedUpTo(c, pos - 1)) + 1
    BY <1>7, <2>1
  <2> QED BY <1>1, <2>2 DEF TextInv
<1>9. PICK done \in Seq(Nat) :
        /\ done \o Prefix(buf, buf_head) = SentUpTo(c, pos - 1)
        /\ \A cb \in Callbacks : out[cb] = IF cb \in Served THEN Told(done, cb) ELSE <<>>
  BY <1>1, IdleText
<1>10. (done \o Prefix(buf, buf_head)) \o <<ch>> = done \o Prefix(Stored, buf_head + 1)
  <2>1. Stored = [buf EXCEPT ![buf_head] = ch]
    BY <1>3 DEF Stored
  <2>2. buf \in [0..BUF_LEN -> 0..255] /\ buf_head \in 0..(BUF_LEN - 1)
    BY DEF PrintkInv, BufferInv
  <2> QED BY <2>1, <2>2, ConcatStored
<1>11. done \o Prefix(Stored, buf_head + 1) = SentUpTo(c, pos)
  BY <1>7, <1>9, <1>10
<1> QED BY <1>2, <1>8, <1>9, <1>11

LEMMA StoreKeepsText ==
  ASSUME PointersAgree, PrintkInv, TextInv, Store
  PROVE  TextInv'
<1>1. /\ Plain /\ Idle /\ buf' = Stored /\ buf_head' = buf_head + 1 /\ pos' = pos + 1
      /\ UNCHANGED <<table, output, call, args, escaped, num_chars>>
  BY DEF Store, Plain, Scanning
<1>2. pos \in 1..Len(call[1].fmt)
      /\ Len(CountedUpTo(call[1], pos)) = num_chars + buf_head + 1
  BY <1>1, StoredText
<1>3. PICK done \in Seq(Nat) :
        /\ done \o Prefix(Stored, buf_head + 1) = SentUpTo(call[1], pos)
        /\ \A cb \in Callbacks : out[cb] = IF cb \in Served THEN Told(done, cb) ELSE <<>>
  BY <1>1, StoredText
<1>4. pos' - 1 = pos /\ Idle'
  BY <1>1, <1>2 DEF Idle, output
<1>5. Ahead(done, IF Idle THEN Prefix(buf, buf_head) ELSE s)'
  BY <1>1, <1>3, <1>4 DEF Ahead, Told, Idle, output, table, Served
<1>6. num_chars' + buf_head' = Len(CountedUpTo(call'[1], pos' - 1))
  <2>1. num_chars \in Nat /\ buf_head \in Nat
    BY Sizes DEF PrintkInv, BufferInv
  <2> QED BY <1>1, <1>2, <1>4, <2>1
<1> QED BY <1>4, <1>5, <1>6 DEF TextInv

LEMMA StoreFullKeepsText ==
  ASSUME PointersAgree, PrintkInv, TextInv, StoreFull
  PROVE  TextInv'
<1>1. /\ Plain /\ Printing /\ buf_head + 1 = BUF_LEN /\ buf_head' = 0 /\ pos' = pos + 1
      /\ num_chars' = num_chars + BUF_LEN /\ call' = call
      /\ early_puts(CString(Stored))
  BY DEF StoreFull, Plain, Scanning
<1>2. pos \in 1..Len(call[1].fmt)
      /\ Len(CountedUpTo(call[1], pos)) = num_chars + buf_head + 1
  BY <1>1, StoredText
<1>3. PICK done \in Seq(Nat) :
        /\ done \o Prefix(Stored, buf_head + 1) = SentUpTo(call[1], pos)
        /\ \A cb \in Callbacks : out[cb] = IF cb \in Served THEN Told(done, cb) ELSE <<>>
  BY <1>1, StoredText
<1>4. s' = Prefix(Stored, BUF_LEN) /\ early_puts(s')
  BY <1>1, StoreFullLemma DEF early_puts
<1>5. pos' - 1 = pos
  BY <1>1, <1>2
<1>6. num_chars' \in Nat /\ num_chars' = num_chars + buf_head + 1
  BY <1>1, Sizes DEF PrintkInv, BufferInv
<1> QED BY <1>1, <1>2, <1>3, <1>4, <1>5, <1>6, SendLemma

LEMMA CallKeepsText ==
  ASSUME PointersAgree, PrintkInv, NEW c \in Calls, printf(c)
  PROVE  TextInv'
<1>1. /\ ~Printing /\ Idle /\ call' = <<c>> /\ pos' = 1 /\ buf_head' = 0 /\ num_chars' = 0
      /\ UNCHANGED <<table, output>>
  BY DEF printf
<1>2. call'[1] = c /\ pos' - 1 = 0 /\ Idle'
  BY <1>1 DEF Idle, output
<1>3. SentUpTo(c, 0) = <<>> /\ CountedUpTo(c, 0) = <<>>
  BY TextLemma
<1>4. Prefix(buf', buf_head') = <<>>
  BY <1>1 DEF Prefix
<1>5. \A cb \in Callbacks : out'[cb] = <<>>
  BY <1>1 DEF PrintkInv, OutputInv, output
<1>6. \A cb : Told(<<>>, cb)' = <<>>
  BY <1>2 DEF Told
<1>7. <<>> \in Seq(Nat) /\ <<>> \o <<>> = <<>>
  OBVIOUS
<1>8. Ahead(<<>>, IF Idle THEN Prefix(buf, buf_head) ELSE s)'
  BY <1>2, <1>3, <1>4, <1>5, <1>6, <1>7 DEF Ahead
<1>9. num_chars' + buf_head' = Len(CountedUpTo(call'[1], pos' - 1))
  BY <1>1, <1>2, <1>3
<1> QED BY <1>2, <1>7, <1>8, <1>9 DEF TextInv

\* One slot more has had its turn.
LEMMA PutcharKeepsText ==
  ASSUME PrintkInv, TextInv, Printing, early_putchar, UNCHANGED formatter
  PROVE  TextInv'
<1>1. /\ ~Idle /\ i < MAX_PUTCHAR /\ i' = i + 1 /\ UNCHANGED <<table, s>>
      /\ out' = [cb \in Callbacks |->
                   IF early_putchar_array[i] = cb THEN Append(out[cb], Head(s)) ELSE out[cb]]
  BY DEF early_putchar
<1>2. /\ UNCHANGED <<call, pos, buf, buf_head, num_chars>>
      /\ early_putchar_array' = early_putchar_array /\ Served' = Served
      /\ Idle' = Idle
  BY <1>1 DEF formatter, table, Idle, Served
<1>3. PICK done \in Seq(Nat) : Ahead(done, s)
  BY <1>1 DEF TextInv
<1>4. i \in Slot /\ i \in Nat
  BY <1>1, TableAssumption DEF PrintkInv, OutputInv, Slot
<1>5. ASSUME NEW cb \in Callbacks
      PROVE  out'[cb] = IF cb \in Served' THEN Told(done, cb)' ELSE <<>>
  <2>1. CASE early_putchar_array[i] = cb
    <3>1. cb \in Served
      BY <1>4, <2>1, TableAssumption DEF PrintkInv, TableInv, Registered
    <3>2. ~\E k \in 0..(i - 1) : early_putchar_array[k] = cb
      <4>1. SUFFICES ASSUME NEW k \in 0..(i - 1), early_putchar_array[k] = cb PROVE FALSE
        OBVIOUS
      <4>2. k \in Slot /\ k # i
        BY <1>4, TableAssumption DEF Slot
      <4>3. k \in Free
        BY <1>4, <2>1, <4>1, <4>2 DEF PrintkInv, TableInv, NoDuplicates
      <4> QED BY <4>1, <4>3, TableAssumption DEF Free
    <3>3. out[cb] = done
      BY <1>3, <3>1, <3>2 DEF Ahead, Told
    <3>4. i \in 0..(i' - 1)
      BY <1>1, <1>4
    <3>5. Told(done, cb)' = Append(done, Head(s))
      BY <1>1, <1>2, <2>1, <3>4 DEF Told
    <3> QED BY <1>1, <1>2, <2>1, <3>1, <3>3, <3>5
  <2>2. CASE early_putchar_array[i] # cb
    <3>1. out'[cb] = out[cb]
      BY <1>1, <2>2
    <3>2. \A k : k \in 0..(i' - 1) <=> k \in 0..(i - 1) \/ k = i
      BY <1>1, <1>4
    <3>3. (\E k \in 0..(i' - 1) : early_putchar_array[k] = cb)
            <=> (\E k \in 0..(i - 1) : early_putchar_array[k] = cb)
      BY <2>2, <3>2
    <3>4. Told(done, cb)' = Told(done, cb)
      BY <1>1, <1>2, <3>3 DEF Told
    <3> QED BY <1>2, <1>3, <3>1, <3>4 DEF Ahead
  <2> QED BY <2>1, <2>2
<1>6. done \o s' = SentUpTo(call'[1], pos' - 1)
  BY <1>1, <1>2, <1>3 DEF Ahead
<1>7. Ahead(done, IF Idle THEN Prefix(buf, buf_head) ELSE s)'
  BY <1>1, <1>2, <1>5, <1>6 DEF Ahead
<1> QED BY <1>1, <1>2, <1>7 DEF TextInv

\* Every member has had its turn.
LEMMA NextCharKeepsText ==
  ASSUME PrintkInv, TextInv, Printing, NextChar, UNCHANGED formatter
  PROVE  TextInv'
<1>1. /\ ~Idle /\ i = MAX_PUTCHAR /\ i' = 0 /\ s' = Tail(s) /\ UNCHANGED <<table, out>>
  BY DEF NextChar
<1>2. UNCHANGED <<call, pos, buf, buf_head, num_chars, early_putchar_array, Served>>
  BY <1>1 DEF formatter, table, Served
<1>3. PICK done \in Seq(Nat) : Ahead(done, s)
  BY <1>1 DEF TextInv
<1>4. s \in Seq(Nat) /\ s # <<>> /\ buf_head = 0
  BY <1>1 DEF PrintkInv, OutputInv, Idle, TextInv
<1>5. PICK more \in Seq(Nat) : more = Append(done, Head(s)) /\ more \o s' = done \o s
  BY <1>1, <1>4, ConcatTail
<1>6. ASSUME NEW cb \in Callbacks
      PROVE  out'[cb] = IF cb \in Served' THEN Told(more, cb)' ELSE <<>>
  <2>1. Told(more, cb)' = more
    <3>1. 0..(i' - 1) = {}
      BY <1>1
    <3> QED BY <3>1 DEF Told
  <2>2. CASE cb \in Served
    <3>1. \E k \in Slot : early_putchar_array[k] = cb
      BY <2>2 DEF PrintkInv, TableInv, Registered
    <3>2. Slot = 0..(i - 1)
      BY <1>1 DEF Slot
    <3>3. out[cb] = more
      BY <1>1, <1>3, <1>5, <2>2, <3>1, <3>2 DEF Ahead, Told
    <3> QED BY <1>1, <1>2, <2>1, <2>2, <3>3
  <2>3. CASE cb \notin Served
    BY <1>1, <1>2, <1>3, <2>3 DEF Ahead
  <2> QED BY <2>2, <2>3
<1>7. Prefix(buf', buf_head') = <<>>
  BY <1>2, <1>4 DEF Prefix
<1>8. more \o (IF Idle' THEN Prefix(buf', buf_head') ELSE s') = SentUpTo(call'[1], pos' - 1)
  BY <1>2, <1>3, <1>5, <1>7 DEF Ahead, Idle
<1>9. Ahead(more, IF Idle THEN Prefix(buf, buf_head) ELSE s)'
  BY <1>6, <1>8 DEF Ahead
<1> QED BY <1>2, <1>4, <1>5, <1>9 DEF TextInv

\* Init and what happens outside a call say nothing about a text.
LEMMA TextNext ==
  ASSUME PointersAgree, NoFinalPercent, PrintkInv, TextInv, [Next]_vars
  PROVE  TextInv'
<1>1. CASE UNCHANGED vars
  BY <1>1 DEF TextInv, Ahead, Told, Idle, Printing, vars, table, output, formatter, Served
<1>2. CASE Drivers
  BY <1>2 DEF Drivers, TextInv, Printing, formatter
<1>3. CASE \E c \in Calls : printf(c)
  BY <1>3, CallKeepsText
<1>4. CASE Puts
  <2>1. Printing /\ UNCHANGED formatter
    BY <1>4 DEF Puts, Output, early_putchar, NextChar, PrintkInv, OutputInv
  <2> QED BY <1>4, <2>1, PutcharKeepsText, NextCharKeepsText DEF Puts, Output
<1>5. CASE formatted_print
  <2>1. CASE FlushBefore \/ FlushLast
    <3>1. Printing /\ Flush
      BY <2>1 DEF FlushBefore, FlushLast, Scanning, AtEnd
    <3> QED BY <3>1, FlushKeepsText
  <2>2. CASE PercentSign
    BY <2>2, PercentSignKeepsText
  <2>3. CASE Character
    BY <2>3, CharacterKeepsText
  <2>4. CASE CharString
    BY <2>4, CharStringKeepsText
  <2>5. CASE Pointer
    BY <2>5, PointerKeepsText
  <2>6. CASE Unknown
    BY <2>6, UnknownKeepsText
  <2>7. CASE Escape
    BY <2>7, EscapeKeepsText
  <2>8. CASE Store
    BY <2>8, StoreKeepsText
  <2>9. CASE StoreFull
    BY <2>9, StoreFullKeepsText
  <2>10. CASE Return
    BY <2>10 DEF Return, TextInv, Printing
  <2> QED BY <1>5, <2>1, <2>2, <2>3, <2>4, <2>5, <2>6, <2>7, <2>8, <2>9, <2>10 DEF formatted_print
<1> QED BY <1>1, <1>2, <1>3, <1>4, <1>5 DEF Next

\* When a call returns, the text is complete.
LEMMA ReturnText ==
  ASSUME PointersAgree, PrintkInv, TextInv, Return
  PROVE  /\ num_chars = Len(Formatted(call[1]))
         /\ args = <<>>
         /\ \A cb \in Callbacks : out[cb] = IF cb \in Served THEN Sent(call[1]) ELSE <<>>
<1> DEFINE c == call[1]
<1>1. Printing /\ Idle /\ pos > Len(fmt) /\ buf_head = 0
  BY DEF Return, AtEnd
<1>2. c \in Calls /\ pos \in 1..(Len(fmt) + 1) /\ fmt = c.fmt
  BY <1>1 DEF PrintkInv, ScanInv, fmt
<1>3. Len(c.fmt) \in Nat /\ Len(c.fmt) # 0 /\ c.args \in Seq(Seq(Nat))
  BY <1>2, CallType
<1>4. pos - 1 = Len(c.fmt)
  BY <1>1, <1>2, <1>3
<1>5. num_chars = Len(Formatted(c))
  BY <1>1, <1>2, <1>4, TextLemma, CountType DEF TextInv
<1>6. args = <<>>
  <2>1. RestOf(c, Passed(c, Len(c.fmt)), args)
    BY <1>1, <1>4 DEF PrintkInv, ScanInv
  <2>2. Passed(c, Len(c.fmt)) = Len(c.args)
    <3>1. 1 \in 1..Len(c.fmt)
      BY <1>3
    <3> QED BY <1>2, <3>1, PassedLemma
  <2> QED BY <1>3, <2>1, <2>2 DEF RestOf
<1>7. PICK done \in Seq(Nat) :
        /\ \A cb \in Callbacks : out[cb] = IF cb \in Served THEN Told(done, cb) ELSE <<>>
        /\ done = SentUpTo(c, pos - 1)
  BY <1>1, IdleText
<1>8. \A cb : Told(done, cb) = done
  BY <1>1 DEF Told
<1>9. done = Sent(c)
  BY <1>2, <1>4, <1>7, TextLemma
<1> QED BY <1>5, <1>6, <1>7, <1>8, <1>9

\* printk is correct: for every format that does not end in a single % and all
\* arguments, when a call returns, each driver that has registered, and did
\* not find the table full, has printed the formatted text once and in order,
\* no other driver has printed anything, every argument has been taken, and
\* the result is the length of the text.
THEOREM PrintkIsCorrect ==
  ASSUME PointersAgree, NoFinalPercent
  PROVE  Spec => FormattedOutput
<1>1. Init => TextInv
  BY DEF Init, TextInv, Printing
<1>2. PrintkInv /\ TextInv /\ [Next]_vars => TextInv'
  BY TextNext
<1>3. PrintkInv /\ TextInv /\ [Next]_vars =>
        [Return =>
           /\ num_chars = Len(Formatted(call[1]))
           /\ args = <<>>
           /\ \A cb \in Callbacks \ lost :
                out[cb] = IF cb \in member THEN Sent(call[1]) ELSE <<>>]_vars
  BY ReturnText DEF Served
<1> QED BY <1>1, <1>2, <1>3, PrintkInvariance, PTL DEF Spec, FormattedOutput
=============================================================================
