------------------------------- MODULE NoteBook -------------------------------
(***************************************************************************)
(* What a dead-drop pool is for, without trees, roots, fees or owners: a   *)
(* book of notes, each paid at most once, after its time, out of the cash  *)
(* that the notes brought in.                                              *)
(***************************************************************************)
EXTENDS Totals

CONSTANT Losses   \* what an anomaly of the chain may take at once

VARIABLES
  notes,   \* the notes, numbered from 0 in the order they came
  due,     \* when each of them may be paid
  paid,    \* the numbers of those that were
  cash,    \* what the pool holds
  now

bookVars == <<notes, due, paid, cash, now>>

Init == notes = <<>> /\ due = <<>> /\ paid = {} /\ cash = 0 /\ now = 0

Worth(S) == Total([i \in S |-> notes[i].amount])
Owed == Worth(DOMAIN notes \ paid)

\* A note enters at the end of the book with the cash it is worth, and the
\* entries before it stay as they are.
Put ==
  LET n == Cardinality(DOMAIN notes)
  IN
  /\ DOMAIN notes' = 0..n /\ DOMAIN due' = 1..(n + 1)
  /\ \A i \in DOMAIN notes : notes'[i] = notes[i] /\ due'[i + 1] = due[i + 1]
  /\ due'[n + 1] >= now
  /\ cash' = cash + notes'[n].amount
  /\ UNCHANGED <<paid, now>>

\* Some unpaid notes whose time has come are paid, each at most what it is worth.
Pay(S) ==
  /\ S # {} /\ \A i \in S : due[i + 1] <= now
  /\ paid' = paid \cup S
  /\ cash' \in (cash - Worth(S))..cash
  /\ UNCHANGED <<notes, due, now>>

\* The owner's income never comes out of what is owed for notes.
Collect == cash' \in Owed..(cash - 1) /\ UNCHANGED <<notes, due, paid, now>>

Receive == cash' > cash /\ UNCHANGED <<notes, due, paid, now>>
Lose == cash' \in {cash - n : n \in Losses} /\ UNCHANGED <<notes, due, paid, now>>
Pass == now' = now + 1 /\ UNCHANGED <<notes, due, paid, cash>>

Next ==
  \/ Put \/ Collect \/ Receive \/ Lose \/ Pass
  \/ \E S \in SUBSET (DOMAIN notes \ paid) : Pay(S)

Spec == Init /\ [][Next]_bookVars
=============================================================================
