---------------------------- MODULE EventChannel ----------------------------
(***************************************************************************)
(* What the queue and its consumer promise the collectors and the callback, *)
(* whatever tasks, parked puts, duplicates and raising callbacks it takes:  *)
(* one first-in-first-out backlog, from which an event leaves once, when it *)
(* has been dealt with, and a shutdown that leaves nothing in it.           *)
(***************************************************************************)
EXTENDS Naturals, Sequences

CONSTANTS Source

VARIABLES
  backlog,   \* the events accepted and not yet dealt with, oldest first
  latest,    \* source -> the number of its last event accepted
  finished,  \* how many events have been dealt with
  closed     \* has the channel been shut down?

vars == <<backlog, latest, finished, closed>>

Init ==
  /\ backlog = <<>> /\ latest = [s \in Source |-> 0]
  /\ finished = 0 /\ closed = FALSE

\* An event is accepted: a later one of its source than any before.
Accept ==
  /\ ~closed
  /\ Len(backlog') = Len(backlog) + 1 /\ SubSeq(backlog', 1, Len(backlog)) = backlog
  /\ LET ev == backlog'[Len(backlog')]
     IN  ev.n > latest[ev.src] /\ latest' = [latest EXCEPT ![ev.src] = ev.n]
  /\ UNCHANGED <<finished, closed>>

\* The oldest event has been dealt with.
Finish ==
  /\ backlog # <<>>
  /\ backlog' = Tail(backlog)
  /\ finished' = finished + 1
  /\ UNCHANGED <<latest, closed>>

Close ==
  /\ ~closed /\ backlog = <<>>
  /\ closed' = TRUE
  /\ UNCHANGED <<backlog, latest, finished>>

Next == Accept \/ Finish \/ Close

\* Once the sources fall silent the backlog is worked off.
Drains == backlog # <<>> ~> backlog = <<>>

\* Step by step: the promise without Drains.
StepSpec == Init /\ [][Next]_vars

Spec == StepSpec /\ Drains
=============================================================================
