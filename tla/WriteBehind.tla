---------------------------- MODULE WriteBehind ----------------------------
(***************************************************************************)
(* runtime.py, "Write-behind persistence": the consumer buffers events and  *)
(* their alerts, a flusher task writes them in one transaction, a failed    *)
(* write goes back to the front of the buffer, a rejected one is written    *)
(* row by row, and shutdown makes one last attempt.                         *)
(*                                                                          *)
(* A record is its write id; events and alerts are numbered separately, in  *)
(* the order they enter the buffer.  storage/ is modelled by what a save    *)
(* can do to the tables and report to its caller (Database.run and          *)
(* Repository.save_batch).                                                  *)
(***************************************************************************)
EXTENDS Integers, Sequences, FiniteSets, Functions

CONSTANTS
  MaxBuffered,  \* settings.persist_max_buffered
  BatchSize,    \* settings.persist_batch_size
  MaxAlerts,    \* the most alerts one event raises
  MaxEvents,    \* bound: events consumed
  MaxFaults,    \* bound: saves that fail for another reason than the rows
  MaxRefused,   \* bound: rows of each kind the database rejects
  FaultKinds    \* how such a save can fail

ASSUME WriteBehindAssumption ==
  /\ MaxBuffered \in Nat \ {0} /\ BatchSize \in 1..MaxBuffered
  /\ MaxAlerts \in Nat /\ MaxEvents \in Nat /\ MaxFaults \in Nat /\ MaxRefused \in Nat
  /\ FaultKinds \subseteq {"outage", "ack_lost", "timeout"}

Kind == {"event", "alert"}
Id   == 1..(MaxEvents * (MaxAlerts + 1))

VARIABLES
  pending,       \* _pending_events, _pending_alerts
  flushWanted,   \* _flush_wanted
  stopFlushing,  \* _stop_flushing
  flusher,       \* program counter of _flush_periodically
  stopPc,        \* how far Runtime.stop() has got
  lock,          \* the holder of _flush_lock
  phase,         \* what flush() awaits: the batch's save or one row's
  batch,         \* the records the flush in progress has yet to write
  rejected,      \* rejected_events, rejected_alerts of _write_row_by_row
  unpersisted,   \* _events_unpersisted, _alerts_unpersisted
  failing,       \* _persist_failing
  stored,        \* the tables: how many rows hold each write id
  abandoned,     \* transactions given up at the deadline, still running
  made,          \* records created so far (the write id generator)
  refused,       \* the records the database rejects, whenever it sees them
  faults,        \* failed saves so far (_persist_failures)
  counted        \* history: the records added to an unpersisted counter

bufferVars == <<pending, flushWanted, unpersisted, counted>>
flushVars  == <<lock, phase, batch, rejected, failing>>
dbVars     == <<stored, abandoned, faults>>
taskVars   == <<flusher, stopPc, stopFlushing>>
vars == <<bufferVars, flushVars, dbVars, taskVars, made, refused>>

Empty == [k \in Kind |-> <<>>]
Zero  == [k \in Kind |-> 0]
IsEmpty(records) == \A k \in Kind : records[k] = <<>>

Init ==
  /\ pending = Empty /\ flushWanted = FALSE
  /\ unpersisted = Zero /\ counted = [k \in Kind |-> {}]
  /\ lock = "none" /\ phase = "idle" /\ batch = Empty
  /\ rejected = [k \in Kind |-> {}] /\ failing = FALSE
  /\ stored = [k \in Kind |-> [i \in Id |-> 0]] /\ abandoned = {} /\ faults = 0
  /\ flusher = "wait" /\ stopPc = "none" /\ stopFlushing = FALSE
  /\ made = Zero
  /\ refused = [k \in Kind |-> {}]

-----------------------------------------------------------------------------
(* The buffer. *)

\* _trim_pending: the newest MaxBuffered records of each kind stay ...
Newest(s) ==
  IF Len(s) > MaxBuffered THEN SubSeq(s, Len(s) - MaxBuffered + 1, Len(s)) ELSE s

\* ... and the older ones are dropped and counted.
Oldest(s) == {s[i] : i \in 1..(Len(s) - MaxBuffered)}

Excess(s) == IF Len(s) > MaxBuffered THEN Len(s) - MaxBuffered ELSE 0

\* Make `buffer` the pending records, trimmed, and count what that drops
\* together with the records in `extra`.
Keep(buffer, extra) ==
  /\ pending' = [k \in Kind |-> Newest(buffer[k])]
  /\ unpersisted' =
       [k \in Kind |-> unpersisted[k] + Excess(buffer[k]) + Cardinality(extra[k])]
  /\ counted' = [k \in Kind |-> counted[k] \cup Oldest(buffer[k]) \cup extra[k]]

\* A write id generator that hands out the last id again.
GrownReusingId(n) ==
  [pending EXCEPT !["alert"] = @ \o [i \in 1..n |-> made["alert"] + i],
                  !["event"] = Append(@, made["event"])]

\* The buffer after an event that raised n alerts.
Grown(n) ==
  [pending EXCEPT !["alert"] = @ \o [i \in 1..n |-> made["alert"] + i],
                  !["event"] = Append(@, made["event"] + 1)]

\* _consume: buffer the alerts and the event, trim if the *events* exceed the
\* cap, wake the flusher when a batch is ready.  It never suspends.
Consume ==
  /\ stopPc \in {"none", "draining"}
  /\ made["event"] < MaxEvents
  /\ \E n \in 0..MaxAlerts :
       /\ made' = [made EXCEPT !["event"] = @ + 1, !["alert"] = @ + n]
       /\ \E bad \in SUBSET {made["event"] + 1},
             badAlerts \in SUBSET ((made["alert"] + 1)..(made["alert"] + n)) :
            refused' = [refused EXCEPT !["event"] = @ \cup bad, !["alert"] = @ \cup badAlerts]
       /\ \A k \in Kind : Cardinality(refused'[k]) <= MaxRefused
       /\ IF Len(Grown(n)["event"]) > MaxBuffered
          THEN Keep(Grown(n), [k \in Kind |-> {}])
          ELSE pending' = Grown(n) /\ UNCHANGED <<unpersisted, counted>>
  /\ flushWanted' = (flushWanted \/ Len(pending'["event"]) >= BatchSize)
  /\ UNCHANGED <<flushVars, dbVars, taskVars>>

-----------------------------------------------------------------------------
(* flush() *)

\* Take the lock and swap the buffers; there is something to write.
BeginFlush(owner) ==
  /\ lock = "none" /\ ~IsEmpty(pending)
  /\ lock' = owner /\ phase' = "batch"
  /\ batch' = pending /\ pending' = Empty
  /\ UNCHANGED <<rejected, failing, unpersisted, counted>>

\* Nothing buffered: flush() returns True and leaves _persist_failing alone.
EmptyFlush ==
  /\ lock = "none" /\ IsEmpty(pending)
  /\ UNCHANGED <<flushVars, pending, unpersisted, counted>>

\* A flusher that does not look at _stop_flushing.
FlusherLoopsForever == "wait"

\* What the caller of flush() does with its result: the flusher goes round its
\* loop or backs off, stop() closes the sinks.
FlusherLoop == IF stopFlushing THEN "done" ELSE "wait"

\* A flush() that sets _persist_failing and never clears it.
ReturnFailingSticks(written) ==
  /\ lock' = "none" /\ phase' = "idle" /\ batch' = Empty
  /\ rejected' = [k \in Kind |-> {}]
  /\ failing' = (failing \/ ~written)
  /\ \/ /\ lock = "flusher"
        /\ flusher' = IF written THEN FlusherLoop ELSE "backoff"
        /\ UNCHANGED stopPc
     \/ /\ lock = "stop"
        /\ stopPc' = "closed"
        /\ UNCHANGED flusher

Return(written) ==
  /\ lock' = "none" /\ phase' = "idle" /\ batch' = Empty
  /\ rejected' = [k \in Kind |-> {}]
  /\ failing' = ~written
  /\ \/ /\ lock = "flusher"
        /\ flusher' = IF written THEN FlusherLoop ELSE "backoff"
        /\ UNCHANGED stopPc
     \/ /\ lock = "stop"
        /\ stopPc' = "closed"
        /\ UNCHANGED flusher

\* An INSERT without the ON CONFLICT clause.
InsertAlways(ids) == stored' = [k \in Kind |-> [i \in Id |->
  IF i \in ids[k] THEN stored[k][i] + 1 ELSE stored[k][i]]]

\* save_batch: one transaction; a write id already stored is skipped.
InsertOnce(ids) == stored' = [k \in Kind |-> [i \in Id |->
  IF i \in ids[k] /\ stored[k][i] = 0 THEN 1 ELSE stored[k][i]]]

IdsOf(records) == [k \in Kind |-> Range(records[k])]
Refusable(ids) == \E k \in Kind : ids[k] \cap refused[k] # {}

\* A save that fails though the rows are good: nothing was written, or it was
\* and the acknowledgement is lost, or the deadline passed and the transaction
\* still runs, abandoned (with a row the database rejects it can only die).
SaveFails(ids) ==
  /\ faults < MaxFaults
  /\ faults' = faults + 1
  /\ \/ /\ "outage" \in FaultKinds
        /\ UNCHANGED <<stored, abandoned>>
     \/ /\ "ack_lost" \in FaultKinds /\ ~Refusable(ids)
        /\ InsertOnce(ids)
        /\ UNCHANGED abandoned
     \/ /\ "timeout" \in FaultKinds /\ ~Refusable(ids)
        /\ abandoned' = abandoned \cup {ids}
        /\ UNCHANGED stored

\* A requeue behind the records that arrived during the write.
RequeueAtBack(records) ==
  Keep([k \in Kind |-> pending[k] \o records[k]], rejected)

\* _requeue: unwritten records go back to the front, and the cap is enforced.
\* After stop()'s last flush, _discard_pending counts and clears the buffer.
Requeue(records) ==
  LET front == [k \in Kind |-> records[k] \o pending[k]]
  IN  IF lock = "stop"
      THEN /\ pending' = Empty
           /\ unpersisted' = [k \in Kind |->
                unpersisted[k] + Cardinality(rejected[k]) + Len(front[k])]
           /\ counted' = [k \in Kind |->
                counted[k] \cup rejected[k] \cup Range(front[k])]
      ELSE Keep(front, rejected)

\* The whole batch commits.
SaveBatch ==
  /\ phase = "batch" /\ ~Refusable(IdsOf(batch))
  /\ InsertOnce(IdsOf(batch))
  /\ Return(TRUE)
  /\ UNCHANGED <<bufferVars, abandoned, faults, stopFlushing, made, refused>>

\* The database rejects the batch: isolate the rows.
BatchRejected ==
  /\ phase = "batch" /\ Refusable(IdsOf(batch))
  /\ phase' = "rows"
  /\ UNCHANGED <<bufferVars, dbVars, taskVars, lock, batch, rejected, failing, made, refused>>

\* The batch fails: requeue it.
BatchFails ==
  /\ phase = "batch"
  /\ SaveFails(IdsOf(batch))
  /\ Requeue(batch)
  /\ Return(FALSE)
  /\ UNCHANGED <<flushWanted, stopFlushing, made, refused>>

\* Row by row: the events first, then the alerts.
RowKind == IF batch["event"] # <<>> THEN "event" ELSE "alert"
Row == [k \in Kind |-> IF k = RowKind THEN {Head(batch[k])} ELSE {}]
RowsLeft == [batch EXCEPT ![RowKind] = Tail(@)]

\* After the last row the rejected ones are counted and flush() returns.
AfterRow(turnedDown) ==
  IF IsEmpty(RowsLeft)
  THEN /\ unpersisted' = [k \in Kind |-> unpersisted[k] + Cardinality(turnedDown[k])]
       /\ counted' = [k \in Kind |-> counted[k] \cup turnedDown[k]]
       /\ Return(TRUE)
  ELSE /\ batch' = RowsLeft
       /\ rejected' = turnedDown
       /\ UNCHANGED <<lock, phase, failing, unpersisted, counted, flusher, stopPc>>

\* A row commits in its own transaction.
SaveRow ==
  /\ phase = "rows" /\ ~Refusable(Row)
  /\ InsertOnce(Row)
  /\ AfterRow(rejected)
  /\ UNCHANGED <<pending, flushWanted, abandoned, faults, stopFlushing, made, refused>>

\* A row is rejected: dropped, and counted when the loop ends.
RowRejected ==
  /\ phase = "rows" /\ Refusable(Row)
  /\ AfterRow([k \in Kind |-> rejected[k] \cup Row[k]])
  /\ UNCHANGED <<pending, flushWanted, dbVars, stopFlushing, made, refused>>

\* The database fails midway: the rows not yet written are put back.
RowFails ==
  /\ phase = "rows"
  /\ SaveFails(Row)
  /\ Requeue(batch)
  /\ Return(FALSE)
  /\ UNCHANGED <<flushWanted, stopFlushing, made, refused>>

\* An abandoned transaction commits late, or its connection finally dies.
AbandonedEnds ==
  /\ \E ids \in abandoned :
       /\ abandoned' = abandoned \ {ids}
       /\ InsertOnce(ids) \/ UNCHANGED stored
  /\ UNCHANGED <<bufferVars, flushVars, taskVars, faults, made, refused>>

-----------------------------------------------------------------------------
(* The flusher task and Runtime.stop() *)

\* Woken by a full batch, by stop(), or by the flush interval.
FlusherWakes ==
  /\ flusher = "wait"
  /\ flushWanted' = FALSE
  /\ \/ BeginFlush("flusher") /\ flusher' = "flush"
     \/ EmptyFlush /\ flusher' = FlusherLoop
  /\ UNCHANGED <<dbVars, stopPc, stopFlushing, made, refused>>

\* The backoff elapses or is cut short by stop().
BackoffEnds ==
  /\ flusher = "backoff"
  /\ flusher' = FlusherLoop
  /\ UNCHANGED <<bufferVars, flushVars, dbVars, stopPc, stopFlushing, made, refused>>

\* stop() drains the pipeline, whose consumer still buffers events.
StopBegins ==
  /\ stopPc = "none"
  /\ stopPc' = "draining"
  /\ UNCHANGED <<bufferVars, flushVars, dbVars, flusher, stopFlushing, made, refused>>

\* The pipeline is drained: ask the flusher to end, never cancel it.
StopFlusher ==
  /\ stopPc = "draining"
  /\ stopPc' = "flusher"
  /\ stopFlushing' = TRUE /\ flushWanted' = TRUE
  /\ UNCHANGED <<pending, unpersisted, counted, flushVars, dbVars, flusher, made, refused>>

\* A stop() that skips the last flush once the flusher has ended.
StopWithoutFlush ==
  /\ stopPc = "flusher" /\ flusher = "done"
  /\ stopPc' = "closed"
  /\ UNCHANGED <<bufferVars, flushVars, dbVars, flusher, stopFlushing, made, refused>>

\* The flusher is done: one last attempt for what the drain consumed.
StopFlush ==
  /\ stopPc = "flusher" /\ flusher = "done"
  /\ \/ BeginFlush("stop") /\ stopPc' = "flush"
     \/ EmptyFlush /\ stopPc' = "closed"
  /\ UNCHANGED <<flushWanted, dbVars, flusher, stopFlushing, made, refused>>

Closed == stopPc = "closed" /\ abandoned = {} /\ UNCHANGED vars

SaveEnds ==
  SaveBatch \/ BatchRejected \/ BatchFails \/ SaveRow \/ RowRejected \/ RowFails

Next ==
  \/ Consume
  \/ SaveEnds
  \/ AbandonedEnds
  \/ FlusherWakes \/ BackoffEnds
  \/ StopBegins \/ StopFlusher \/ StopFlush
  \/ Closed

\* Every save ends by its deadline, the flusher's timers fire, and stop(), once
\* begun, goes on; no event and no call of stop() is bound to come.
Fairness ==
  /\ WF_vars(SaveEnds)
  /\ WF_vars(FlusherWakes \/ BackoffEnds)
  /\ WF_vars(StopFlusher \/ StopFlush)

Spec == Init /\ [][Next]_vars /\ Fairness

-----------------------------------------------------------------------------
(* Properties. *)

BufferTypes ==
  /\ pending \in [Kind -> Seq(Id)] /\ flushWanted \in BOOLEAN
  /\ unpersisted \in [Kind -> Nat] /\ counted \in [Kind -> SUBSET Id]

FlushTypes ==
  /\ lock \in {"none", "flusher", "stop"} /\ phase \in {"idle", "batch", "rows"}
  /\ batch \in [Kind -> Seq(Id)] /\ rejected \in [Kind -> SUBSET Id]
  /\ failing \in BOOLEAN

DbTypes ==
  /\ stored \in [Kind -> [Id -> Nat]]
  /\ abandoned \in SUBSET [Kind -> SUBSET Id]
  /\ faults \in Nat

TaskTypes ==
  /\ flusher \in {"wait", "flush", "backoff", "done"}
  /\ stopPc \in {"none", "draining", "flusher", "flush", "closed"}
  /\ stopFlushing \in BOOLEAN

\* Every variable keeps the type the code gives it.
TypeOK ==
  /\ BufferTypes /\ FlushTypes /\ DbTypes /\ TaskTypes
  /\ made \in [Kind -> Nat] /\ refused \in [Kind -> SUBSET Id]

InBuffer(k)  == Range(pending[k]) \cup Range(batch[k]) \cup rejected[k]
Persisted(k) == {i \in Id : stored[k][i] > 0}

\* A retry, a late commit and a lost acknowledgement never store a record
\* twice (repository.py, Pending).
StoredAtMostOnce == \A k \in Kind : \A i \in Id : stored[k][i] <= 1

\* "A transient outage loses nothing" and whatever is given up is counted
\* (runtime.py): a record is buffered, stored or counted.
NoSilentLoss ==
  \A k \in Kind : 1..made[k] \subseteq InBuffer(k) \cup Persisted(k) \cup counted[k]

\* The unpersisted counters count records: none is counted twice, and none that
\* is still going to be written.
CountedOnce ==
  \A k \in Kind :
    /\ unpersisted[k] = Cardinality(counted[k])
    /\ counted[k] \cap InBuffer(k) = {}

\* Together: every record is on exactly the books it should be on.
RecordsAccounted == StoredAtMostOnce /\ NoSilentLoss /\ CountedOnce

\* Records of both kinds, on the ledger's books.
Owed    == UNION {{k} \X InBuffer(k) : k \in Kind}
OnFile  == UNION {{k} \X Persisted(k) : k \in Kind}
GivenUp == UNION {{k} \X counted[k] : k \in Kind}

\* The buffers, the flusher and the database implement RecordLedger: through retries,
\* requeues, row-by-row writes, late commits and shutdown a record stays owed until it
\* is stored or counted, once a finite outage is over none stays owed, and stop()
\* never closes the books on one (runtime.py, "A transient outage loses nothing").
Ledger == INSTANCE RecordLedger WITH
  owed    <- Owed,
  stored  <- OnFile,
  givenUp <- GivenUp,
  closed  <- stopPc = "closed"

\* A record is owed until it is stored or counted as lost, and in the end it is one of them
\* (runtime.py, flush and stop): WriteBehind implements RecordLedger.
LedgerImplemented == Ledger!Spec

\* Through retries, requeues and row-by-row writes a flush commits a row only
\* after every older record that is ever stored by one: "commits stay ordered".
\* (A flush that ends or moves to its next row changes `batch`.)
FlushCommitsOrdered ==
  [][batch' # batch =>
       \A k \in Kind : \A i, j \in Id :
         stored[k][i] = 0 /\ stored'[k][i] > 0 /\ stored[k][j] > 0 => j < i]_vars

\* "The buffer is capped at persist_max_buffered records" (runtime.py).
BufferCapped == \A k \in Kind : Len(pending[k]) <= MaxBuffered

\* A failed write does not leave the process not ready for ever: readiness comes
\* back when the database does, or the process shuts down.
ReadinessRecovers == failing ~> (~failing \/ stopPc = "closed")

\* Shutdown completes whatever the database does.
StopCompletes == stopPc = "draining" ~> stopPc = "closed"
=============================================================================
