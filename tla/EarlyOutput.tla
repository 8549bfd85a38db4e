---------------------------- MODULE EarlyOutput ----------------------------
(***************************************************************************)
(* Early output, kernel/early_output.c: a fixed table of putchar callbacks *)
(* that drivers enter and leave at any time, and the two loops that send   *)
(* each character of a string to every one of them.                        *)
(***************************************************************************)
EXTENDS Naturals, Sequences, FiniteSets

CONSTANTS
  MAX_PUTCHAR, \* EARLY_OUTPUT_MAX_PUTCHAR
  Callbacks,   \* the putchar functions of the drivers
  NoCallback   \* NULL

ASSUME TableAssumption ==
  /\ MAX_PUTCHAR \in Nat \ {0}
  /\ NoCallback \notin Callbacks

VARIABLES
  early_putchar_array,   \* the slots 0..MAX_PUTCHAR-1
  outside,               \* what the memory in front of the array was made to hold
  ret,                   \* what the last registration or removal returned
  member,                \* history: who was told KERR_SUCCESS and has not left
  lost,                  \* history: those of them who found the table full
  s, i,                  \* the rest of the string, the next slot to call
  out                    \* history: what each callback printed

table == <<early_putchar_array, outside, ret, member, lost>>
output == <<s, i, out>>

Slot == 0..(MAX_PUTCHAR - 1)

Registered == { early_putchar_array[k] : k \in Slot } \ {NoCallback}

Free == { k \in Slot : early_putchar_array[k] = NoCallback }

\* No early_puts is running.
Idle == s = <<>>

-----------------------------------------------------------------------------
\* The loop meets the callback, whatever free slots come before it.
RegisterKnown(cb) ==
  /\ cb \in Registered
  /\ ret' = "KERR_EXIST"
  /\ UNCHANGED <<early_putchar_array, outside, member, lost>>

\* Mutant: the first free slot is used before the search is over.
RegisterEager(cb) ==
  /\ \E k \in Free : early_putchar_array' = [early_putchar_array EXCEPT ![k] = cb]
  /\ ret' = "KERR_SUCCESS"
  /\ member' = member \cup {cb}
  /\ lost' = lost \ {cb}
  /\ UNCHANGED outside

\* The loop runs to the end and has kept the last free slot.
RegisterNew(cb) ==
  /\ cb \notin Registered
  /\ \E k \in Free :
       /\ \A l \in Free : l <= k
       /\ early_putchar_array' = [early_putchar_array EXCEPT ![k] = cb]
  /\ ret' = "KERR_SUCCESS"
  /\ member' = member \cup {cb}
  /\ lost' = lost \ {cb}
  /\ UNCHANGED outside

\* No slot is free: index is still (size_t)-1, which is not below 0, so the
\* callback is stored in front of the array and told that it is registered.
RegisterFull(cb) ==
  /\ cb \notin Registered
  /\ Free = {}
  /\ outside' = cb
  /\ ret' = "KERR_SUCCESS"
  /\ member' = member \cup {cb}
  /\ lost' = lost \cup {cb}
  /\ UNCHANGED early_putchar_array

register_early_putchar(cb) ==
  /\ Idle
  /\ RegisterKnown(cb) \/ RegisterNew(cb) \/ RegisterFull(cb)
  /\ UNCHANGED output

\* Only the first slot that holds the callback is cleared.
UnregisterKnown(cb) ==
  /\ \E k \in Slot :
       /\ early_putchar_array[k] = cb
       /\ \A l \in 0..(k - 1) : early_putchar_array[l] # cb
       /\ early_putchar_array' = [early_putchar_array EXCEPT ![k] = NoCallback]
  /\ ret' = "KERR_SUCCESS"
  /\ member' = member \ {cb}
  /\ UNCHANGED lost

\* A callback that found the table full is told that it never registered.
UnregisterUnknown(cb) ==
  /\ cb \notin Registered
  /\ ret' = "KERR_NO_EXIST"
  /\ member' = member \ {cb}
  /\ lost' = lost \ {cb}
  /\ UNCHANGED early_putchar_array

unregister_early_putchar(cb) ==
  /\ Idle
  /\ UnregisterKnown(cb) \/ UnregisterUnknown(cb)
  /\ UNCHANGED <<outside, output>>

\* early_puts(t) begins; for an empty t it is over at once.
early_puts(t) ==
  /\ Idle
  /\ s' = t
  /\ i' = 0
  /\ UNCHANGED <<table, out>>

\* Mutant: a free slot is never passed.
PutcharSticks ==
  /\ ~Idle
  /\ i < MAX_PUTCHAR
  /\ out' = [cb \in Callbacks |->
               IF early_putchar_array[i] = cb THEN Append(out[cb], Head(s)) ELSE out[cb]]
  /\ i' = IF i \in Free THEN i ELSE i + 1
  /\ UNCHANGED <<table, s>>

\* One turn of the loop of early_putchar, for the first character of s.
early_putchar ==
  /\ ~Idle
  /\ i < MAX_PUTCHAR
  /\ out' = [cb \in Callbacks |->
               IF early_putchar_array[i] = cb THEN Append(out[cb], Head(s)) ELSE out[cb]]
  /\ i' = i + 1
  /\ UNCHANGED <<table, s>>

\* early_putchar returns and early_puts goes to the next character.
NextChar ==
  /\ ~Idle
  /\ i = MAX_PUTCHAR
  /\ s' = Tail(s)
  /\ i' = 0
  /\ UNCHANGED <<table, out>>

Output == early_putchar \/ NextChar

EarlyInit ==
  /\ early_putchar_array = [k \in Slot |-> NoCallback]
  /\ outside = NoCallback
  /\ ret = "none"
  /\ member = {}
  /\ lost = {}
  /\ s = <<>>
  /\ i = 0
  /\ out = [cb \in Callbacks |-> <<>>]

-----------------------------------------------------------------------------
\* The types of the table and of the output loops.
EarlyTypeOK ==
  /\ early_putchar_array \in [Slot -> Callbacks \cup {NoCallback}]
  /\ outside \in Callbacks \cup {NoCallback}
  /\ ret \in {"none", "KERR_SUCCESS", "KERR_EXIST", "KERR_NO_EXIST", "KERR_FULL"}
  /\ member \subseteq Callbacks
  /\ lost \subseteq member
  /\ s \in Seq(Nat)
  /\ i \in 0..MAX_PUTCHAR
  /\ out \in [Callbacks -> Seq(Nat)]

\* A callback is never in two slots, whatever holes registering and
\* unregistering leave: register_early_putchar searches the whole table
\* before it uses a hole, so removing a callback once removes it.
NoDuplicates ==
  \A k, l \in Slot :
    early_putchar_array[k] = early_putchar_array[l] /\ k # l => k \in Free
=============================================================================
