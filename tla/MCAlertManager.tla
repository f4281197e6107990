--------------------------- MODULE MCAlertManager ---------------------------
(* Instances of AlertManager for TLC. *)
EXTENDS AlertManager

\* The gates over time, with no sink; the lanes and their shutdown, with
\* rules that are never throttled: a lane that overflows, and two routed differently.
MCSetups == {
  [rules |-> {"r1", "r2", "low"}, keys |-> {"e1", "e2"}, sinks |-> {},
   detections |-> 5, closes |-> 1, time |-> 4],
  [rules |-> {"wide1"}, keys |-> {"e1", "e2", "e3"}, sinks |-> {"sinkA"},
   detections |-> 4, closes |-> 2, time |-> 0],
  [rules |-> {"wide1", "wide2"}, keys |-> {"e1", "e2"}, sinks |-> {"sinkA", "sinkB"},
   detections |-> 2, closes |-> 2, time |-> 0]}

\* sinkB takes only wide1's alerts (its own severity floor).
Routing == [s \in Sink |-> IF s = "sinkA" THEN Rule ELSE {"wide1"}]
\* sinkA is a webhook, sinkB sends once.
Attempts == [s \in Sink |-> IF s = "sinkA" THEN 2 ELSE 1]
Limits == [r \in Rule |-> IF r = "r1" THEN 2 ELSE IF r \in {"wide1", "wide2"} THEN 9 ELSE 1]
Periods == [r \in Rule |-> IF r = "r1" THEN 2 ELSE 1]
=============================================================================
