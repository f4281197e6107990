------------------------------ MODULE MCReadApi -----------------------------
(* Instances of ReadApi for TLC. *)
EXTENDS ReadApi

Rows(events, alerts) == [k \in Kind |-> IF k = "event" THEN events ELSE alerts]

\* A setup bounds the rows inserted, the failing deletes, the requests, the changes of
\* the database's health and the time, and says what there is in it at all.
Quiet == [retention |-> FALSE, sequence |-> FALSE, rows |-> Rows(0, 0), faults |-> 0,
          requests |-> 0, others |-> {}, pages |-> FALSE, walked |-> "event",
          probes |-> FALSE, swaps |-> 0, dies |-> FALSE, until |-> 1]

\* The limiter; retention with a failing delete; pages against inserts and retention,
\* with ids reused (SQLite) and not (PostgreSQL); probes and outages; the end of the
\* process with a prune and a page read in progress.
MCSetups == {
  [Quiet EXCEPT !.requests = 5, !.others = Client, !.until = 4],
  [Quiet EXCEPT !.retention = TRUE, !.rows = Rows(2, 2), !.faults = 1, !.until = 3],
  [Quiet EXCEPT !.retention = TRUE, !.rows = Rows(3, 0), !.pages = TRUE, !.requests = 4,
                !.until = 3],
  [Quiet EXCEPT !.retention = TRUE, !.sequence = TRUE, !.rows = Rows(0, 3), !.pages = TRUE,
                !.walked = "alert", !.requests = 3, !.until = 3],
  [Quiet EXCEPT !.probes = TRUE, !.swaps = 2, !.until = 5, !.dies = TRUE],
  [Quiet EXCEPT !.retention = TRUE, !.rows = Rows(1, 0), !.faults = 1, !.pages = TRUE,
                !.requests = 1, !.swaps = 1, !.dies = TRUE, !.until = 3]}

\* A page read and a database that hangs.
HangSetups == {[Quiet EXCEPT !.pages = TRUE, !.rows = Rows(1, 0), !.requests = 1,
                             !.swaps = 1, !.dies = TRUE]}
=============================================================================
