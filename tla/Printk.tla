------------------------------- MODULE Printk -------------------------------
(***************************************************************************)
(* printk: the formatter of libc/src/stdio/printf.c over the callback      *)
(* table of early output.  The format is scanned character by character;   *)
(* plain characters collect in a buffer on the stack that is flushed when  *)
(* it is full, before a conversion and at the end.  Every flush and every  *)
(* conversion is an early_puts of its own, which runs to its end before    *)
(* the scan goes on.                                                       *)
(***************************************************************************)
EXTENDS EarlyOutput, SequencesExt

CONSTANTS
  BUF_LEN,     \* the length of the buffer without its backup terminator
  PTR_BYTES,   \* sizeof(void*)
  Junk,        \* what a byte of the stack may hold before it is written
  Calls        \* the calls: a format and what its conversions take, each a sequence:
               \* one character, one pointer or the characters of a string

NUL == 0
Percent == 37
Zero == 48
Conv == [c |-> 99, s |-> 115, p |-> 112]

\* The character at k follows an odd number of % signs: it names a conversion.
IsConversion(f, k) ==
  \E n \in 1..(k - 1) :
    /\ n % 2 = 1
    /\ \A l \in (k - n)..(k - 1) : f[l] = Percent
    /\ k - n = 1 \/ f[k - n - 1] # Percent

TakesArg(f, k) == IsConversion(f, k) /\ f[k] \in {Conv.c, Conv.s, Conv.p}

\* The argument that belongs to the conversion at k.
ArgOf(c, k) == c.args[Cardinality({ l \in 1..k : TakesArg(c.fmt, l) })]

\* _Static_assert; the format ends with a NUL of its own, which is not in fmt.
\* A caller passes what its format takes: a character, a pointer or a string,
\* which holds no NUL.  The last conjunct is arithmetic the provers lack.
ASSUME PrintkAssumption ==
  /\ BUF_LEN \in Nat /\ BUF_LEN > 2
  /\ PTR_BYTES \in Nat
  /\ Junk \subseteq 0..255 /\ Junk # {}
  /\ \A c \in Calls :
       /\ c.fmt \in Seq(1..255) /\ c.fmt # <<>>
       /\ c.args \in Seq(Seq(Nat))
       /\ Len(c.args) = Cardinality({ k \in DOMAIN c.fmt : TakesArg(c.fmt, k) })
       /\ \A k \in DOMAIN c.fmt :
            TakesArg(c.fmt, k) =>
              IF c.fmt[k] = Conv.s THEN ArgOf(c, k) \in Seq(1..255) ELSE ArgOf(c, k) # <<>>
  /\ \A k \in 0..(2 * PTR_BYTES) : 16^k > 0

VARIABLES
  call,        \* the call that is running, <<>> if none is
  pos,         \* fmt: the next character of the format
  args,        \* the arguments that va_arg has not taken
  escaped,     \* the last character was a %
  buf,         \* the buffer, 0..BUF_LEN
  buf_head,    \* how many characters are in it
  num_chars    \* how many characters have left it

formatter == <<call, pos, args, escaped, buf, buf_head, num_chars>>
vars == <<table, output, formatter>>

Printing == call # <<>>

\* The string at the start of a buffer: it ends where the first NUL is.
CString(b) ==
  LET nul == { k \in 0..BUF_LEN : b[k] = NUL }
  IN [k \in 1..(CHOOSE n \in nul : \A m \in nul : n <= m) |-> b[k - 1]]

\* Digits are '0'..'9' and 'A'..'F'.
HexDigit(d) == IF d < 10 THEN Zero + d ELSE 65 + (d - 10)

\* pointer_print: "0x" and two digits for each byte, the last one first; what
\* is left of ip when it is 0 is printed as '0'.
pointer_print(p) ==
  <<Zero, 120>> \o
  [k \in 1..(2 * PTR_BYTES) |->
     LET ip == p \div 16^(2 * PTR_BYTES - k) IN IF ip > 0 THEN HexDigit(ip % 16) ELSE Zero]

-----------------------------------------------------------------------------
\* A call of printk with a format and its arguments.
printf(c) ==
  /\ ~Printing
  /\ Idle
  /\ \E junk \in Junk :
       buf' = [k \in 0..BUF_LEN |-> IF k = BUF_LEN THEN NUL ELSE junk]
  /\ call' = <<c>>
  /\ pos' = 1
  /\ args' = c.args
  /\ escaped' = FALSE
  /\ buf_head' = 0
  /\ num_chars' = 0
  /\ UNCHANGED <<table, output>>

fmt == call[1].fmt

\* No flush is running and the scan has not reached the end of the format.
Scanning == Printing /\ Idle /\ pos <= Len(fmt)

\* Mutant: the terminator is forgotten, as if the buffer were full.
FlushUnterminated ==
  /\ early_puts(CString(buf))
  /\ num_chars' = num_chars + buf_head
  /\ buf_head' = 0
  /\ UNCHANGED <<call, pos, args, escaped, buf>>

\* buf[buf_head] = '\0', puts(buf): before a conversion and after the loop.
Flush ==
  LET b == [buf EXCEPT ![buf_head] = NUL]
  IN /\ early_puts(CString(b))
     /\ buf' = b
     /\ num_chars' = num_chars + buf_head
     /\ buf_head' = 0
     /\ UNCHANGED <<call, pos, args, escaped>>

FlushBefore == Scanning /\ escaped /\ buf_head > 0 /\ Flush

\* A text of one or two characters goes through the start of the buffer.
ViaBuffer(t, count) ==
  LET b == [k \in 0..BUF_LEN |-> IF k < Len(t) THEN t[k + 1]
                                 ELSE IF k = Len(t) THEN NUL ELSE buf[k]]
  IN /\ buf' = b
     /\ early_puts(CString(b))
     /\ num_chars' = num_chars + count

\* The conversion is over and the scan goes on behind its letter.
Converted == escaped' = FALSE /\ pos' = pos + 1 /\ UNCHANGED <<call, buf_head>>

Converting == Scanning /\ escaped /\ buf_head = 0

PercentSign ==
  /\ Converting
  /\ fmt[pos] = Percent
  /\ ViaBuffer(<<Percent>>, 1)
  /\ Converted
  /\ UNCHANGED args

\* The int that va_arg takes is cast to char.
Character ==
  /\ Converting
  /\ fmt[pos] = Conv.c
  /\ ViaBuffer(<<Head(args)[1] % 256>>, 1)
  /\ args' = Tail(args)
  /\ Converted

\* The string is printed from where it is and counted by strlen.
CharString ==
  /\ Converting
  /\ fmt[pos] = Conv.s
  /\ early_puts(Head(args))
  /\ num_chars' = num_chars + Len(Head(args))
  /\ args' = Tail(args)
  /\ Converted
  /\ UNCHANGED buf

Pointer ==
  /\ Converting
  /\ fmt[pos] = Conv.p
  /\ early_puts(pointer_print(Head(args)[1]))
  /\ num_chars' = num_chars + 2 * PTR_BYTES + 2
  /\ args' = Tail(args)
  /\ Converted
  /\ UNCHANGED buf

\* A letter that is no conversion is printed with its %.
Unknown ==
  /\ Converting
  /\ fmt[pos] \notin {Percent, Conv.c, Conv.s, Conv.p}
  /\ ViaBuffer(<<Percent, fmt[pos]>>, 2)
  /\ Converted
  /\ UNCHANGED args

Escape ==
  /\ Scanning
  /\ ~escaped
  /\ fmt[pos] = Percent
  /\ escaped' = TRUE
  /\ pos' = pos + 1
  /\ UNCHANGED <<table, output, call, args, buf, buf_head, num_chars>>

Plain == Scanning /\ ~escaped /\ fmt[pos] # Percent

Stored == [buf EXCEPT ![buf_head] = fmt[pos]]

\* Mutant: the buffer is taken to be one longer than it is.
StoreOffByOne ==
  /\ Plain
  /\ buf_head + 1 <= BUF_LEN
  /\ buf' = Stored
  /\ buf_head' = buf_head + 1
  /\ pos' = pos + 1
  /\ UNCHANGED <<table, output, call, args, escaped, num_chars>>

Store ==
  /\ Plain
  /\ buf_head + 1 < BUF_LEN
  /\ buf' = Stored
  /\ buf_head' = buf_head + 1
  /\ pos' = pos + 1
  /\ UNCHANGED <<table, output, call, args, escaped, num_chars>>

\* The buffer is full: the backup terminator ends it.
StoreFull ==
  /\ Plain
  /\ buf_head + 1 = BUF_LEN
  /\ buf' = Stored
  /\ early_puts(CString(Stored))
  /\ num_chars' = num_chars + BUF_LEN
  /\ buf_head' = 0
  /\ pos' = pos + 1
  /\ UNCHANGED <<call, args, escaped>>

\* The loop has ended: it tests for the terminator before it looks at escaped.
AtEnd == Printing /\ Idle /\ pos > Len(fmt)

FlushLast == AtEnd /\ buf_head > 0 /\ Flush

NoBuffer == [k \in 0..BUF_LEN |-> NUL]

\* formatted_print returns num_chars; its locals are gone.
Return ==
  /\ AtEnd
  /\ buf_head = 0
  /\ call' = <<>>
  /\ pos' = 1
  /\ args' = <<>>
  /\ escaped' = FALSE
  /\ buf' = NoBuffer
  /\ num_chars' = 0
  /\ out' = [cb \in Callbacks |-> <<>>]
  /\ UNCHANGED <<table, s, i, buf_head>>

formatted_print ==
  \/ FlushBefore \/ PercentSign \/ Character \/ CharString \/ Pointer \/ Unknown
  \/ Escape \/ Store \/ StoreFull \/ FlushLast \/ Return

\* Drivers come and go between two calls.
Drivers ==
  /\ ~Printing
  /\ \E cb \in Callbacks : register_early_putchar(cb) \/ unregister_early_putchar(cb)
  /\ UNCHANGED formatter

Puts == Output /\ UNCHANGED formatter

Init ==
  /\ EarlyInit
  /\ call = <<>> /\ pos = 1 /\ args = <<>> /\ escaped = FALSE
  /\ buf = NoBuffer /\ buf_head = 0 /\ num_chars = 0

Next ==
  \/ Drivers
  \/ \E c \in Calls : printf(c)
  \/ formatted_print
  \/ Puts

\* The loops of a running call go on: callbacks return and nothing preempts
\* the only hart that prints.
Spec == Init /\ [][Next]_vars /\ WF_vars(formatted_print \/ Puts)

-----------------------------------------------------------------------------
(***************************************************************************)
(* What a call should print, read off its format.                          *)
(***************************************************************************)
\* The pointer that a text of hexadecimal digits denotes.
Denotes(t) ==
  FoldLeft(LAMBDA n, ch : 16 * n + (IF ch < 58 THEN ch - Zero ELSE ch - 55), 0, t)

PointerText(p) ==
  LET digits == { Zero + d : d \in 0..9 } \cup { 65 + d : d \in 0..5 }
  IN <<Zero, 120>> \o (CHOOSE t \in [1..(2 * PTR_BYTES) -> digits] : Denotes(t) = p)

\* What the character at k stands for.  A % that nothing follows stands for
\* itself: `In this case we need to output the final %'.
Stands(c, k) ==
  IF ~IsConversion(c.fmt, k)
  THEN IF c.fmt[k] = Percent /\ k < Len(c.fmt) THEN <<>> ELSE <<c.fmt[k]>>
  ELSE CASE c.fmt[k] = Percent -> <<Percent>>
         [] c.fmt[k] = Conv.c  -> <<ArgOf(c, k)[1] % 256>>
         [] c.fmt[k] = Conv.s  -> ArgOf(c, k)
         [] c.fmt[k] = Conv.p  -> PointerText(ArgOf(c, k)[1])
         [] OTHER              -> <<Percent, c.fmt[k]>>

\* What a driver is sent of it: puts ends where a NUL is.
Shown(c, k) == IF Stands(c, k) = <<NUL>> THEN <<>> ELSE Stands(c, k)

\* A single % ends the format.
EndsInPercent(f) == f[Len(f)] = Percent /\ ~IsConversion(f, Len(f))

Formatted(c) == FlattenSeq([k \in DOMAIN c.fmt |-> Stands(c, k)])

Sent(c) == FlattenSeq([k \in DOMAIN c.fmt |-> Shown(c, k)])

-----------------------------------------------------------------------------
\* The type invariant, of the formatter and of the table below it: buf_head
\* stays inside the buffer and its backup terminator is never overwritten.
PrintkTypeOK ==
  /\ EarlyTypeOK
  /\ Printing => call[1] \in Calls /\ pos \in 1..(Len(fmt) + 1)
  /\ escaped \in BOOLEAN
  /\ buf \in [0..BUF_LEN -> 0..255]
  /\ buf[BUF_LEN] = NUL
  /\ buf_head \in 0..(BUF_LEN - 1)
  /\ num_chars \in Nat

\* When printk returns, every driver that has registered and not unregistered
\* has printed the formatted text, once, in order and through however many
\* flushes of the buffer, and no other driver has printed anything.  The
\* result is the length of the text, in which a NUL from %c counts but is not
\* printed.  Nothing is said of a driver that found the table full, which is
\* told that it is registered and is not (FullIsReported).
FormattedOutput ==
  [][Return =>
       /\ num_chars = Len(Formatted(call[1]))
       /\ args = <<>>
       /\ \A cb \in Callbacks \ lost :
            out[cb] = IF cb \in member THEN Sent(call[1]) ELSE <<>>]_vars

\* Every printk returns.
PrintfReturns == Printing ~> ~Printing

\* early_output.h: a new callback is answered with KERR_FULL when the
\* maximum number of callbacks has been registered.
FullIsReported ==
  [][\A cb \in Callbacks :
       register_early_putchar(cb) /\ Free = {} /\ cb \notin Registered
         => ret' = "KERR_FULL"]_vars
=============================================================================
