------------------------------ MODULE MCPrintk ------------------------------
(***************************************************************************)
(* One driver more than the table has slots: it fills up and overflows.    *)
(* All formats of up to three characters over a plain letter, %, c and s,  *)
(* and longer ones that cross the end of a buffer of three characters.     *)
(***************************************************************************)
EXTENDS Printk

a == 97

Short == UNION { [1..n -> {a, Percent, Conv.c, Conv.s}] : n \in 1..3 }

Long == {<<a, a, a, a>>, <<a, 98, 99, Percent, Percent>>, <<a, 98, 99, 100, Percent, Conv.s, a>>,
         <<Percent, Conv.c, Percent, Conv.s>>, <<a, Percent, Conv.p, Percent, a>>}

\* A NUL and another character, an empty string and one that is longer than
\* the buffer, a pointer of two unlike digits.
ArgsOf(ch) == CASE ch = Conv.c -> {<<0>>, <<98>>, <<256 + 99>>}
                [] ch = Conv.s -> {<<>>, <<98, 99, 100, 101>>}
                [] ch = Conv.p -> {<<10>>, <<160>>}

\* All arguments a format may be given.
ArgLists(f) ==
  LET at == SetToSortSeq({ k \in DOMAIN f : TakesArg(f, k) }, LAMBDA k, l : k < l)
  IN { g \in [DOMAIN at -> UNION { ArgsOf(f[at[k]]) : k \in DOMAIN at }] :
         \A k \in DOMAIN at : g[k] \in ArgsOf(f[at[k]]) }

Given == UNION { { [fmt |-> f, args |-> g] : g \in ArgLists(f) } : f \in Short \cup Long }

MCCalls == { c \in Given : ~EndsInPercent(c.fmt) }

PercentCalls == Given \ MCCalls

MCJunk == {0, 88}
=============================================================================
