----------------------------- MODULE Retention -----------------------------
(***************************************************************************)
(* runtime.py, prune and _prune_periodically, over the two tables of        *)
(* storage/: rows are inserted by the flusher and deleted, in batches, once *)
(* they have been stored longer than the retention period.                  *)
(*                                                                          *)
(* A row is its id and its created_at.  Rows are deleted only when they are *)
(* older than the period, so the pair stays unique where SQLite hands an id *)
(* out again.                                                               *)
(***************************************************************************)
EXTENDS Integers, FiniteSets, FiniteSetsExt

CONSTANTS
  Kind,             \* the tables: "event", "alert"
  RetentionPeriod,  \* settings.retention_days
  PruneBatch,       \* _PRUNE_BATCH
  Setups            \* the instances a run covers (see MCReadApi)

ASSUME RetentionAssumption == RetentionPeriod \in Nat /\ PruneBatch \in Nat \ {0}

VARIABLES
  setup,         \* the instance chosen
  now,           \* the clock (it starts one period after its origin)
  rows,          \* rows[k]: the table
  lastId,        \* PostgreSQL's sequences
  pruner,        \* program counter of _prune_periodically
  cutoff,        \* prune(): the cutoff of this pass
  deleted,       \* prune(): rows deleted in this pass
  pruned,        \* _pruned
  stopPruning,   \* _stop_pruning
  lateDeletes,   \* cutoffs of deletes given up at the deadline, still running
  pruneFaults,   \* deletes that failed so far
  removed,       \* history: each row removed, when, and if prune() was told
  swept          \* history: the cutoff of the last pass that went to its end

tableVars  == <<rows, lastId>>
prunerVars == <<pruner, cutoff, deleted, pruned, lateDeletes, pruneFaults, removed, swept>>
retentionVars == <<setup, now, tableVars, prunerVars, stopPruning>>

None == -1
NoRows == [k \in Kind |-> 0]

RetentionInit ==
  /\ setup \in Setups
  /\ now = RetentionPeriod
  /\ rows = [k \in Kind |-> {}] /\ lastId = NoRows
  /\ pruner = IF setup.retention THEN "start" ELSE "none"
  /\ cutoff = None /\ deleted = NoRows /\ pruned = NoRows
  /\ stopPruning = FALSE /\ lateDeletes = {} /\ pruneFaults = 0
  /\ removed = [k \in Kind |-> {}] /\ swept = None

\* PostgreSQL never hands an id out twice; SQLite (an INTEGER PRIMARY KEY without
\* AUTOINCREMENT) goes on from the highest id present.
NextId(k) ==
  IF setup.sequence THEN lastId[k] + 1
  ELSE IF rows[k] = {} THEN 1 ELSE Max({r.id : r \in rows[k]}) + 1

\* The flusher commits a row (see WriteBehind).
Insert(k) ==
  /\ Cardinality(rows[k]) + Cardinality(removed[k]) < setup.rows[k]
  /\ rows' = [rows EXCEPT ![k] = @ \cup {[id |-> NextId(k), at |-> now]}]
  /\ lastId' = [lastId EXCEPT ![k] = @ + 1]
  /\ UNCHANGED <<setup, now, prunerVars, stopPruning>>

Expired(k, limit) == {r \in rows[k] : r.at < limit}
Lesser(a, b) == IF a < b THEN a ELSE b

\* delete_stored_before: up to PruneBatch expired rows of each table, in no given
\* order (the subquery has none).
BatchesOf(limit) ==
  {gone \in [Kind -> SUBSET UNION {Expired(k, limit) : k \in Kind}] :
     \A k \in Kind :
       /\ gone[k] \subseteq Expired(k, limit)
       /\ Cardinality(gone[k]) = Lesser(PruneBatch, Cardinality(Expired(k, limit)))}

Delete(gone, told) ==
  /\ rows' = [k \in Kind |-> rows[k] \ gone[k]]
  /\ removed' = [k \in Kind |->
       removed[k] \cup {[row |-> r, at |-> now, told |-> told] : r \in gone[k]}]

\* prune() begins: one cutoff for the whole pass.
PruneBegins ==
  /\ pruner = "start" /\ ~stopPruning
  /\ cutoff' = now - RetentionPeriod
  /\ deleted' = NoRows
  /\ pruner' = "delete"
  /\ UNCHANGED <<setup, now, tableVars, pruned, stopPruning, lateDeletes, pruneFaults,
                 removed, swept>>

\* prune() ends: what it deleted is added to the totals.
PassOver(counts) ==
  /\ pruned' = [k \in Kind |-> pruned[k] + counts[k]]
  /\ pruner' = "sleep" /\ cutoff' = None /\ deleted' = NoRows

\* A pass that ends as soon as one of the tables comes back short.
ShortAnywhere(gone) == \E k \in Kind : Cardinality(gone[k]) < PruneBatch

\* Both came back short: nothing expired is left.
Short(gone) == \A k \in Kind : Cardinality(gone[k]) < PruneBatch

\* One batch commits; a short one ends the pass.
PruneOneBatch ==
  /\ pruner = "delete"
  /\ \E gone \in BatchesOf(cutoff) :
       LET counts == [k \in Kind |-> deleted[k] + Cardinality(gone[k])]
       IN  /\ Delete(gone, TRUE)
           /\ IF Short(gone)
              THEN PassOver(counts) /\ swept' = cutoff
              ELSE /\ deleted' = counts /\ pruner' = "between"
                   /\ UNCHANGED <<pruned, cutoff, swept>>
  /\ UNCHANGED <<setup, now, lastId, stopPruning, lateDeletes, pruneFaults>>

\* sleep(0) lets the flusher and the API in; shutdown ends the pass here.
BetweenBatches ==
  /\ pruner = "between"
  /\ IF stopPruning THEN PassOver(deleted)
     ELSE pruner' = "delete" /\ UNCHANGED <<pruned, cutoff, deleted>>
  /\ UNCHANGED <<setup, now, tableVars, stopPruning, lateDeletes, pruneFaults, removed, swept>>

\* A batch fails: nothing deleted, or deleted and the acknowledgement lost, or given
\* up at the deadline with the transaction still running.  The pass ends.
PruneFails ==
  /\ pruner = "delete" /\ pruneFaults < setup.faults
  /\ pruneFaults' = pruneFaults + 1
  /\ PassOver(deleted)
  /\ \/ UNCHANGED <<rows, removed, lateDeletes>>
     \/ (\E gone \in BatchesOf(cutoff) : Delete(gone, FALSE)) /\ UNCHANGED lateDeletes
     \/ lateDeletes' = lateDeletes \cup {cutoff} /\ UNCHANGED <<rows, removed>>
  /\ UNCHANGED <<setup, now, lastId, stopPruning, swept>>

\* The abandoned transaction deletes after all, or dies.
LateDelete ==
  /\ \E limit \in lateDeletes :
       /\ lateDeletes' = lateDeletes \ {limit}
       /\ \/ \E gone \in BatchesOf(limit) : Delete(gone, FALSE)
          \/ UNCHANGED <<rows, removed>>
  /\ UNCHANGED <<setup, now, lastId, pruner, cutoff, deleted, pruned, stopPruning,
                 pruneFaults, swept>>

\* A pruner whose loop does not look at _stop_pruning.
PrunerWakesForever ==
  /\ pruner = "sleep"
  /\ pruner' = "start"
  /\ UNCHANGED <<setup, now, tableVars, cutoff, deleted, pruned, stopPruning, lateDeletes,
                 pruneFaults, removed, swept>>

\* The interval elapses, or stop() wakes the pruner and its loop ends.
PrunerWakes ==
  /\ pruner \in {"start", "sleep"}
  /\ pruner' = IF stopPruning THEN "done" ELSE "start"
  /\ pruner' # pruner
  /\ UNCHANGED <<setup, now, tableVars, cutoff, deleted, pruned, stopPruning, lateDeletes,
                 pruneFaults, removed, swept>>

PrunerStep == PruneBegins \/ PruneOneBatch \/ BetweenBatches \/ PruneFails \/ PrunerWakes

-----------------------------------------------------------------------------
\* "Delete events and alerts stored longer than the retention period ... until nothing
\* expired is left" (runtime.py, prune), with inserts between the batches, lost
\* acknowledgements and deletes that outlive their deadline: no younger row ever goes,
\* a pass that ran to its end left nothing expired in either table, and between passes
\* the totals count the rows prune() was told of, each once.
RetentionExact ==
  \A k \in Kind :
    /\ \A d \in removed[k] : d.at - d.row.at > RetentionPeriod
    /\ swept # None => Expired(k, swept) = {}
    /\ pruner \in {"start", "sleep", "done"} =>
         pruned[k] = Cardinality({d \in removed[k] : d.told})
=============================================================================
