---------------------------- MODULE RecordLedger ----------------------------
(***************************************************************************)
(* What write-behind persistence promises, whatever the database does: a    *)
(* record is owed until it is stored or given up and counted; it never      *)
(* leaves the books another way, comes back, or is given up twice; and the  *)
(* books are only closed when nothing is owed.                              *)
(***************************************************************************)
VARIABLES
  owed,     \* the records still to be written
  stored,   \* the records in the tables
  givenUp,  \* the records counted as not persisted
  closed

vars == <<owed, stored, givenUp, closed>>

Init == owed = {} /\ stored = {} /\ givenUp = {} /\ closed = FALSE

\* What a step may do to the records on the books: a row is only ever of a known
\* record (one given up may still be committed, by a transaction abandoned at its
\* deadline), and nothing stored or counted is taken back.
Settle(books) ==
  /\ stored \subseteq stored' /\ stored' \ stored \subseteq books \cup givenUp
  /\ givenUp \subseteq givenUp' /\ givenUp' \ givenUp \subseteq books
  /\ owed' \subseteq books /\ owed' \cap givenUp' = {}
  /\ books \ owed' \subseteq stored' \cup givenUp'

\* Records arrive; older ones may have to be given up for them.
Arrive ==
  /\ ~closed
  /\ LET new == (owed' \cup givenUp') \ (owed \cup givenUp)
     IN  new # {} /\ new \cap stored = {} /\ Settle(owed \cup new)
  /\ UNCHANGED <<stored, closed>>

Write == Settle(owed) /\ UNCHANGED closed

Close == ~closed /\ closed' = TRUE /\ Settle(owed) /\ owed' = {}

Next == Arrive \/ Write \/ Close

\* Once no more records arrive, everything owed is settled.
Settles == owed # {} ~> owed = {}

\* Step by step: the promise without Settles.
StepSpec == Init /\ [][Next]_vars

Spec == StepSpec /\ Settles
=============================================================================
