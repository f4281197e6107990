# Sentinel Linux: a TLA+ model

Sentinel Linux is a host-monitoring daemon: collectors watch logs, processes,
sockets and files, and what they see is normalised, deduplicated, matched against
detection rules, turned into alerts, delivered to sinks, written to a database and
served by a small read API. It is one asyncio process. Its correctness lives in the
gaps between `await`s and between two system calls: what is in flight when a
collector crashes, when a write times out, when a file is replaced under its reader
or when somebody calls `stop()`.

This directory models those parts, checks them with TLC on small instances and proves
the safety properties with TLAPS for every configuration. Source paths below are relative to
`src/src/sentinel/`.

## The system and its parts

| Part | State it keeps | Operations | What makes it correct |
|---|---|---|---|
| Event queue, `pipeline/queue.py` | bounded queue, unfinished count, `accepted`, `dropped` | `put` (BLOCK or DROP_NEWEST), `get`, `task_done`, `join` | never beyond `maxsize`; each record is accepted or counted; `join` returns exactly when all is finished |
| Pipeline, `pipeline/runner.py` | collector tasks, consumer task, stop flag, counters | `run`, `_supervise` (restart with backoff), `_consume`, `stop` | a crash or a raising callback is contained; `stop` returns, after a complete drain |
| Dedup window, `pipeline/dedup.py` | keys with their expiry, in insertion order | `seen` and its two evictions | suppresses repeats within a TTL and nothing else; bounded |
| Auth log, `collectors/authlog.py` | open file, offset, partial line, per-second counts of identical records | open, read, follow rotation and truncation, emit | every line read is emitted, in order, under an id of its own; blindness is reported |
| File integrity, `collectors/integrity.py` | last snapshot with its digests and stat cache | scan (lstat, hash), diff | events tell what is on disk; a deletion is real or explained; ids do not repeat |
| Processes, sockets, `collectors/process.py`, `network.py` | last snapshot | scan of `/proc`, diff | a quiet pass knows the host; stopped and closed mean gone |
| Normalizer, `normalizer/*.py` | dead-letter counter | `normalize` | a record becomes one event or is counted |
| Detection, `detection/*.py` | rules, action index cache, threshold windows | `evaluate` | a rule never misses an event it matches; thresholds count right; memory bounded |
| Alert manager, `alerting/manager.py`, `sinks/*.py` | dedup window, throttle windows, withheld counts, one lane per sink | `process`, `offer`, `_deliver`, `drain`, `stop`, `aclose`, the webhook's retries | budget respected, withheld alerts announced, sinks isolated, `aclose` returns |
| Write-behind, `runtime.py` | pending events and alerts, flush lock, failure flag, loss counters | `_consume`, `flush`, `_write_row_by_row`, `_requeue`, `_flush_periodically`, `stop` | no silent loss, no duplicate row, order, bounded memory, shutdown settles everything |
| Retention, `runtime.py`, `storage/repository.py` | cutoff, running totals, stop event | `prune` in batches, `_prune_periodically` | deletes what is expired, all of it, and nothing else |
| Storage, `storage/*.py` | the tables, abandoned transactions | `save_batch`, `Database.run`, paged reads, deletes, `dispose` | at most one row per write id, whatever is retried |
| Read API, `api/*.py` | rate-limit windows, the shared database check | requests and pages, `/readyz`, the lifespan's shutdown | limits are exact; pages neither skip nor repeat; readiness is fresh; the process ends |
| Metrics, settings, logging, CLI, demo | - | - | no state that evolves |

How they interact. Collectors `put` on the queue (they may block there); the single
consumer takes an event, asks the dedup window, and awaits the runtime's callback,
which evaluates the rules, hands detections to the alert manager and appends to the
write-behind buffers. Sink workers, the flusher and the pruner are tasks of their own,
connected only by queues and events. `Runtime.stop()` goes through them in order: drain
the pipeline, end the flusher, flush once more, close the sinks. The API shares the
process and the database; when the pipeline dies the runtime ends the server, whose
lifespan then stops the runtime.

The hard behaviours: `stop()` at any moment, even before `run()` has taken a step;
collectors parked on a full queue during shutdown; a file renamed, truncated or
recreated between two reads; a pid or an inode number used again; a write that failed
only in appearance; an outage in the middle of a row-by-row pass; rows inserted and
deleted under a client's cursor; a sink or a database that never answers; times exactly
on a boundary; a regex that runs out of time inside a negation. `PROJECT.json` lists them
under `hazards`, each at its line, with the property that watches it.

## Modules and how they correspond to the code

Asyncio switches tasks only at an `await` that suspends, so one action is the code between
two suspension points, whole, and a program-counter variable says where each task is
parked. The collectors' scans run in worker threads beside a host that does not wait for
them; there, one action is the code between two system calls. `evaluate()` of the detection
engine suspends nowhere and shares its state with no other task; it is taken apart into
the turns of its loop so that its steps can be reasoned about. `map` in `PROJECT.json`
gives the lines for each definition. Operators described as a faulty variant ("A put that
...", "Faulty variant: ...") and placed before the definition they vary are not part of any
specification; they are the mutations that show each property can fail.

**`DedupWindow`**: pure operators on a sequence of `[key, expiry]` in insertion order:
`EvictExpired` drops the stale head, `EvictToCap` the oldest beyond the cap, `Seen`
and `AfterSeen` are the answer and the new window of `seen()`. Used by both `Pipeline`
and `AlertManager`.

**`Pipeline`** composes the queue, the collectors' poll loop, the supervisor, the
consumer with its dedup window, and `stop()`. `col[c]` is the collector's position
(polling, emitting, parked in `put`, waiting, in backoff, done), `consumer` and
`inflight` the consumer's, `stopPc` that of `stop()`. A collector's pass reads records
which are normalised or dead-lettered, and may crash at any point of it; the backoff
ends by its timer or by the stop signal. Clock values are integers and `Tick` moves them.

**`EventChannel`** is what the queue and its consumer promise, without tasks, parked puts or
duplicates: one FIFO backlog from which an event leaves once, when it has been dealt
with, and which is empty when the channel closes. `Pipeline!Channel` maps the event in the
callback followed by the queue to the backlog.

**`WriteBehind`**: buffers, the lock, the flusher, `flush()` with its batch and
row-by-row phases, and shutdown. `storage/` appears as what a save can do: commit,
reject a row (always the same rows), fail having written nothing, commit and lose the
acknowledgement, or pass its deadline and commit later or never. A record is its
write id; `refused` fixes which rows the database rejects. `counted` is a history of
what the loss counters have counted.

**`RecordLedger`** is what write-behind promises whatever the database does: a record is owed
until it is stored or given up and counted, nothing is taken back, and the books are closed
only when nothing is owed. `WriteBehind!Ledger` maps the buffers and the batch on its
way to `owed`, the tables to `stored` and the counted losses to `givenUp`.

**`AlertManager`**: `process()` with its severity, dedup and throttle gates (one
step: it never suspends), a lane with a bounded queue and a worker per sink, and
`aclose()`, which may be called again. A delivery succeeds, fails, is retried as often as
the sink retries, or is cut off, and whatever is reported it may have arrived
(`received`).

**`Conditions`** and **`DetectionEngine`**: condition trees, their evaluation with
Python's short-circuits and three outcomes (true, false, ran out of time), the static
analysis behind the action index, its bounded cache, and the threshold windows.
`Matches` is the reference: what a condition says of an event in plain logic. A regex is
a pattern name; each event says which patterns are found in the scanned parts of its
field and which are too slow. The trees are given by depth (`Levels`), so that the
evaluation, the reference and the analysis are recursive functions over them, each built from
an operator for one node. `evaluate()` goes through the candidate rules one step each:
`Receive` looks them up, and the rule in turn gives up, matches or not, is skipped, or counts
the event in the window of its group (`GiveUp`, `Match`, `Skip`, `Count`).

**`AuthLogTail`**: the tail loop beside a syslog daemon and logrotate. Bytes are reduced to
pieces: a line is written in one or more pieces, the last of which carries the newline,
and offsets, the size of one read and the longest line count pieces. The daemon
writes to the inode it has open, which after a rename is not the one the path names;
logrotate renames, creates and truncates; the path may be unreadable. The reader's steps
are open, read, `stat` and compare, and then one step per line (`EmitLine`), since every put
on the queue may suspend it; identical records of one second are numbered into their ids there.

**`FileIntegrity`**: scans of the watched files, one `lstat` and one read at a time, beside
writers that change, chmod, remove and recreate them. The kernel's timestamps are coarser
than time, so two changes may share a ctime; size and mtime are left out because
a writer can restore both. The files of a scan are taken in any order (`todo` is the set
still to visit). Calls may fail though what they are about is there (`Fault`): `os.walk()`
passes over a directory it cannot list and `_snapshot_file` over a file it cannot `lstat`
(`unseen`), and a file whose content cannot be read is recorded without a digest
(`unhashed`); only a root that is away is marked as missing. The stat cache reuses a digest
when the ctime is old enough. `FileDiff` makes the events, with what their ids are computed
from.

**`ProcessCollector`**, **`NetworkCollector`**: passes over `/proc`, one read at a time, while
processes fork, exec, die and reuse pids, and sockets open and close in stages; the entries of
a pass come in any order. `/proc` may not be listable for a while, and `stat`, `cmdline` or
`exe` of a process that runs may be unreadable (`Misread`; `unread` and `obscured` remember
whose).

**`SnapshotCollectors`** composes the process, network and integrity collectors as
`build_collectors` does: each enabled one takes its steps, and they share nothing but the host.

**`RateLimiter`**, **`Retention`** and **`ReadApi`**: `RateLimiter` holds the operators of the
sliding windows and of the bounded table of callers: a request pops the leading hits that
are too old, is refused at the limit, and is charged otherwise. `Retention` is `prune()` and its loop
over the two tables, where a batch commits, fails, commits and loses its answer, or
outlives its deadline. `ReadApi` extends both: requests through the limiter and the key check,
a client that walks a table by its cursors (`walk.got` is the pages it was given), readiness
probes that share one cached check, a database that goes down or hangs, and the end of the
process, by its supervisor or by the death of its pipeline, through the lifespan's shutdown.
A pipeline that died raises a signal; requests may be answered before it is handled.

**`MC*`** modules hold the constants of the instances. The theorems are in
**`PipelineProofs`** (with `DedupWindow`), **`WriteBehindProofs`**, **`AlertManagerProofs`**,
**`ReadApiProofs`** (with `Retention` and `RateLimiter`), **`ProcfsProofs`**,
**`FileIntegrityProofs`**, **`AuthLogTailProofs`** and **`DetectionEngineProofs`** (with
`Conditions`).

## Runs

Where one run covers several small instances, a constant (`Setups`, `Hosts`, `Scenarios`)
lists them and `Init` chooses one.

| Run | Question | Instance |
|---|---|---|
| `pipeline` | Does any interleaving of puts, crashes, callbacks and `stop()` lose, reorder or miscount an event, or hang, and is suppression exact over time? | BLOCK: 2 collectors (one may end by itself), 2 slots, 2 records and 1 crash each; DROP_NEWEST: 1 slot, 3 keys and 4 records with a clock to 1, or 2 keys and 3 records with a clock to 3; window of 2, TTL 2 |
| `write_behind` | Is a record ever stored twice, lost silently, counted twice, reordered or left behind, and does everything settle when the faults stop? | 3 events with up to 1 alert each, buffer of 2, 2 faults of any kind, 1 bad row per kind |
| `detection` | Can the index, the short-circuits or a timeout hide a match, and do thresholds fire exactly when they should? | 689 condition trees, 27 events, sequences of 2, cache of 1; and 2 threshold rules, 24 events, sequences of 4, times 0..3 in any order, 3 groups |
| `alert` | Budget, withheld counts, isolation of the lanes, accounting, shutdown | the gates: 3 rules, 2 keys, 5 detections, clock to 4; a webhook's lane that overflows: 4 detections, 1 slot, 2 attempts; two lanes, one of which may hang: 2 detections; `aclose` twice |
| `authlog` | Does rotation, truncation, an outage or a split line lose, repeat or reorder a record? | 3 lines of one second (2 pieces; 3 pieces, over-long; a repeat summary for 2), reads of 2 pieces, 2 inodes, 1 truncation, an unreadable directory |
| `collectors` | Do the events tell what runs, what listens and what is on disk? | 2 pids, 2 starts, 1 exec, 2 outages or failed reads (of the latter 1), `max_procs` 1 or 2; 3 sockets on 1 port, or fewer and changes of a table, `max_sockets` 2; 1 file with 3 changes, or with 2 and a failing call, clock to 4; 2 files, one unhashable, 2 changes, room for both and a failing call, or room for one; timestamps of 2 ticks, a root that may go away |
| `service` | What do clients, the supervisor and the tables see? | the limiter: 5 requests, 2 addresses, limit 2, table of 2; retention: 2 + 2 rows in batches of 1, 1 failing delete; pages against inserts and retention: 3 rows, ids reused (SQLite) or not (PostgreSQL); 2 probers and 2 changes of health; the end of the process with a prune and a page read in progress |

Five runs end in a counterexample. In each the code does something that a comment or a
document says it does not:

* `wb_alert_cap`: the buffer is said to be capped; only the number of *events* triggers
  the trim, so alerts can exceed the cap. (What the trim drops is counted, which is part of
  `RecordsAccounted`.)
* `authlog_rotation`: no line is said to be skipped by a rotation; the reader leaves the old
  file for good once the path names another, while the daemon writes to the old one until it
  reopens its log.
* `shutdown_hang`: a hung database is said not to hang shutdown; a page read has no deadline
  and the server waits for it before the lifespan stops the runtime. (`ShutdownCompletes`
  shows that nothing else can hold it.)
* `alert_reclose`: `Runtime.stop()` is said to be idempotent; a lane leaves what it abandons in
  its queue, so a second `stop()` adds it to `dropped` again. (`LaneAccounted` holds up to the
  end of the first.)
* `integrity_unreadable`: `source_available` is said to be false while a watched path is
  unreadable; only a root whose `lstat` fails counts. The files of a directory that cannot be
  listed, and a file that cannot be `lstat`ed, read as deleted while it stays true.
  (`DeletedMeansGone` shows that no other deletion is false.)

**Why the bounds are enough.** Each is just past the point where the case it is there for
happens: more producers than slots, so a put parks and one parks behind another; a
crash before, during and after the stop; more keys than the window holds and times on
both sides of the TTL; more records than the buffer holds, while a batch is away, and
enough faults for a retry to fail; more subscribers than groups, and enough matches for a
rule to fire and begin again; a file that is renamed, recreated and then truncated with a line half
read; a change and its undoing within one tick of the kernel's clock, before, between and
after an `lstat` and its read; a pid that dies and comes back as another process within a
pass; more callers than the limiter's table holds; a row that expires between two batches
and one whose id is handed out again under a cursor. The bounds (`MaxRead` in
`Pipeline`, `MaxCrash`, `MaxTime`, `MaxEvents`, `MaxFaults`, `MaxRefused`, `MaxFiles`,
`MaxTruncations`, `MaxStarts`, `MaxExecs`, `MaxOutages`, `MaxMisreads`, `MaxOpened`, `MaxActivity`
and the fields of the setups and hosts, of which `faults` bounds the calls that fail) are guards
on what the environment may do; nothing the code does is cut off. Failed reads of a process
share the bound of the outages, and changes of the socket tables that of the sockets opened.
In `collectors` one collector is enabled at a time: they share no state.

**Symmetry** is used for the pids in `collectors`, which checks only invariants and action
properties (pids are only compared).

**Deadlock** is checked except in `authlog`, `collectors` and `service`, whose
environments may come to rest with the collector closed or the process idle.

**Fairness.** Weak fairness of each task that is ready: the asyncio loop runs every ready
callback, and a worker thread runs. Weak fairness of timers (backoff, poll interval, flush
interval) and of deadlines: `asyncio.timeout` and `wait_for` fire. A callback and a save end,
since the code puts a deadline on the save and the callback never suspends; so do a pruner's
delete and a readiness check. *Not* assumed: that an event arrives, that anyone calls
`stop()`, that a collector crashes, that an abandoned transaction ends, that a sink outside
`FairSink` ever answers, or that a page read ends while the database hangs. What
`write_behind` says of settling relies on `MaxFaults`: an outage that never ends settles
nothing before shutdown. `CatchesUp` is stated for a path that stays readable from some moment
on. The signal `_shut_down_for_restart` raises is handled. `CloseTerminates` relies on
`CloseSinks`: a sink's own `aclose()` has no deadline, but those of the built-in sinks end.

## Properties

`Pipeline`: `AcceptedAccounted` (the count `join` waits on is exact), `RecordsAccounted`
(each record read is with its collector, accepted, refused, dead-lettered, or part of
a pass that crashed), `DrainedAtStop`, `ExactlyOncePerWindow`, `OnlyDuplicatesSuppressed`,
`StopTerminates`, and `ChannelImplemented`, the refinement of `EventChannel`, which also
covers the order of each source and that what is accepted is in the end dealt with.

`WriteBehind`: `RecordsAccounted` (a record is stored at most once, never lost
silently and counted at most once), `FlushCommitsOrdered` (order), `ReadinessRecovers`,
`StopCompletes`, and `LedgerImplemented`, the refinement of `RecordLedger`, which includes that
what is owed is in the end settled and that nothing is owed when the books are closed. No bound
on the buffers holds as documented: see `wb_alert_cap`.

`AlertManager`: `ThrottleHolds`, `WithheldAnnounced`, `LaneAccounted` (up to the end of the
first `aclose()`; for a second one see `alert_reclose`), and `Bulkhead`, `CloseTerminates`.

`DetectionEngine`: `FiresWhatMatches`, `ThresholdExact`. The latter is stated for event
times that do not run backwards. The code trims only the head of a window, so out of order
it can both over- and undercount, and it promises nothing about that case.

`AuthLogTail`: `ReadIsEmitted`, `EmittedInOrder`, `DistinctIds`, `FinalPassCatchesUp`,
`BlindIsReported`, `CatchesUp` (the reader gets back to the end of the live file again and again,
not just once). The exceptions the code allows are named in the formulas, so
that each says exactly how far the promise goes. `DistinctIds` is stated for a log in which the
lines of one timestamp follow one another: the counts are kept for the latest timestamp only, so
lines stamped 1, 2, 1 may repeat an id.

`FileIntegrity`: `QuietScanTellsAll`, `DeletedMeansGone`, `TransitionsDistinct`.
`ProcessCollector` and `NetworkCollector`: `QuietPassKnowsProcesses`, `StoppedMeansGone`,
`QuietPassKnowsSockets`, `ClosedMeansGone`. A scan is not a snapshot: about a pass during
which the host changed the collectors can promise little, but one undisturbed pass puts
everything right that it could read, whatever came before. What it could not read is named in
the formulas, item by item: a file the scan could not list or `lstat` counts as deleted and a
process whose `stat` could not be read as stopped, that one and no other. A failed read of
a file's content, or of an image, can leave the last known one standing.

`ReadApi`: `LimitExact`, `WalkExact`, `RetentionExact` (of `Retention`), `ReadyFresh`,
`ShutdownCompletes`.

## Observations

Made while modelling; none is a run of its own.

* Pipeline: `run()` does not return once the collectors have ended and the queue is
  drained, as `runner.py:91` says: it also waits for the consumer, which only `stop()` ends
  (`runner.py:130`).
* Write-behind: a transaction abandoned at its deadline may commit after a later flush, so the
  rows of the tables are not always in commit order. A record whose commit succeeded but was
  reported as a failure is counted as unpersisted if it is trimmed or discarded later: the
  loss counters are an upper bound.
* Alerts: the notification in delivery when `aclose()` gives up appears in no counter. An
  e-mail's thread may still send after its timeout.
* Auth log: a truncation clears the per-second counts, so an id may come again. A `stat` that fails
  for another reason than a missing file ends the poll and loses its lines. A file
  truncated and regrown past the offset between two polls is not noticed. The final pass makes
  one read only.
* File integrity: a scan cut at `max_files` is compared like a complete one and reads as
  deletions. A write between `lstat` and read can give a transition the id of an earlier one.
  If a file is written twice within one tick of the kernel's clock and the read in between fails,
  both snapshots carry the same ctime and one of them no digest, so the second change is not
  reported; nor is it later (`unhashed`).
* Processes: an exec after the second read of an image goes unseen (the module says so). An empty
  re-read is said to confirm nothing (`process.py:233-234`), but it settles the first reading all
  the same (243), so an image first read between fork and exec then stays (`obscured`).
  Sockets: one of Sentinel's own opened between the listing of its descriptors and the read
  of the table is reported, and then reported closed.
* Read API: `/readyz` reads `running` before it awaits the database check, so that half may be
  stale. `total` comes from a second statement and need not agree with the page.

## Proofs

Every theorem holds for all values of the constants that satisfy the named assumptions of
the modules: sizes, limits and periods are natural numbers (positive where the settings
require it), sets of tasks are finite, and what an instance lists is drawn from the right
sets. Those about the process, network and integrity collectors are stated of `Collectors`, the
specification of `SnapshotCollectors`, for any set of enabled ones. Two assumptions have content. `WindowAssumption` of `FileIntegrity`: the racy
window and the poll interval are no shorter than a tick of the kernel's clock, which is what
the code's constants are there for. `LevelsAssumption` of `Conditions`: a condition is a finite
tree of the forms the schema lets through (`extra="forbid"`, one form per node, a threshold's
count at least 2 and its window at least 1), which is what loading a rule guarantees; that `*` is
no action only keeps the model's name for "no restriction" apart. The bounds on the environment
(`MaxTime`, `MaxFaults` and so on) are arbitrary numbers in the theorems.

| Module | Theorem | States, of every reachable state or step |
|---|---|---|
| `PipelineProofs` | `TypeCorrect` | `TypeOK`: the queue and the window keep their configured sizes |
| | `AcceptedEventsAccounted` | `AcceptedAccounted` |
| | `StopDrains` | `DrainedAtStop` |
| | `NoFalseDuplicates`, `OncePerWindow` | `OnlyDuplicatesSuppressed`, `ExactlyOncePerWindow` |
| | `RecordsAllAccounted` | `RecordsAccounted` |
| | `ChannelStepByStep` | each step is one of `EventChannel`, or leaves it unchanged |
| `WriteBehindProofs` | `TypeCorrect` | `TypeOK` |
| | `AllRecordsAccounted` | `RecordsAccounted` |
| | `CommitsStayOrdered` | `FlushCommitsOrdered` |
| | `LedgerStepByStep` | each step is one of `RecordLedger`, or leaves it unchanged |
| `AlertManagerProofs` | `ThrottleNeverExceeded` | `ThrottleHolds` |
| | `WithheldAllAnnounced` | `WithheldAnnounced` |
| | `LanesAccount` | `LaneAccounted` |
| `ReadApiProofs` | `ReadinessFresh` | `ReadyFresh` |
| | `RetentionHolds` | `RetentionExact` |
| | `WalksAreExact` | `WalkExact` |
| | `LimitsAreExact` | `LimitExact` |
| `ProcfsProofs` | `ProcessesKnown`, `StopsAreTrue` | `QuietPassKnowsProcesses`, `StoppedMeansGone` |
| | `SocketsKnown`, `ClosesAreTrue` | `QuietPassKnowsSockets`, `ClosedMeansGone` |
| `FileIntegrityProofs` | `QuietScanTellsTheDisk` | `QuietScanTellsAll` |
| | `DeletionsAreTrue` | `DeletedMeansGone` |
| | `TransitionsStayDistinct` | `TransitionsDistinct` |
| `AuthLogTailProofs` | `NothingReadIsLost` | `ReadIsEmitted` |
| | `RecordsInOrder`, `IdsAreDistinct` | `EmittedInOrder`, `DistinctIds` |
| | `FinalPassDelivers` | `FinalPassCatchesUp` |
| | `BlindnessIsReported` | `BlindIsReported` |
| `DetectionEngineProofs` | `EvaluationTells` | of every condition and event: an evaluation that decides says what `Matches` says |
| | `IndexSound` | of every condition and event: the index never excludes a match |
| | `MemoryIsBounded` | `TypeOK`: table, windows and cache keep their bounds |
| | `EventsFireWhatTheyMatch` | `FiresWhatMatches` |
| | `ThresholdsCountExactly` | `ThresholdExact` |

None of the invariants is inductive as the runs check it. What had to be added says why the
code is right, and is the part worth reading:

**Pipeline.** `TypeInv` adds to `TypeOK` the accounting of accepted events and `TaskShape`,
which positions of consumer, in-flight event and `stop()` go together; that
`unfinished - 1` is a natural number follows only from the accounting. `StopInv` adds
`Phases` (what is over before each phase of `stop()`) and `WorkOwned` (while something
is unfinished, a live consumer is there to finish it): the step by which `join` returns needs to
know that no collector can put again and that no callback is running. `DedupInv` adds that
expiry times grow along the window, so that evicting the stale head evicts every stale entry,
and that each entry stems from a dispatch one TTL before it expires; `OnceInv` the converse,
that a dispatch younger than a TTL still has its entry unless the cap evicted it.
`ChannelInv` says that a parked put is the newest of its collector, which gives the order
of each source.

**Write-behind.** `TypeInv` says who holds the lock, what a flush has in hand, and that the
last flush of `stop()` finds buffers nobody adds to. `Books` is about age: a batch is older
than what arrives while it is written, the rejected rows are older than the rows left, and
whatever has been committed, or may yet be by a transaction given up at its deadline, is a run of
the oldest records left. That is why a retry never stores a row twice and the trim
never drops a newer record before an older one.

**Alerts.** `_rule_hits` keeps times, not notifications. `ThrottleInv` says that every
notification of the period has a place of its own in it, so that its length bounds them; that a
trim of the head loses none follows from the comparison it makes. `LaneInv` balances
each lane's counters with its queue and worker, in each phase of `aclose()`.

**Read API.** `ReadyInv`: the probe's lock keeps two queued callers from checking twice, since
while it is free the cached result is no older than the last check begun. `RetentionInv`: a
cutoff only falls behind, so a row inserted later is younger than any, abandoned deletes
included. `WalkInv`: whatever the walk has been given is at or above its cursor, and each
row there at its beginning is below the cursor, given, or deleted; a row that takes over an id
is a different row. `LimitOf`: the hits of a window are the times of distinct admissions of its
caller (so a refusal is deserved), and each admission not followed by an eviction of the caller
has its place (so none is admitted past the limit); ascending times make the pops exact.

**Processes and sockets.** A process is known by pid and start time and a socket by its inode.
What was recorded of one that still exists is still true of it, or the host is known to
have changed since (`Recorded`, `NetRecorded`); the events so far say what the baseline holds; and
a pass during which nothing happened has read the entries behind it as they are, or remembers
which it could not read.

**File integrity.** `Cached` and `Faithful` say when a digest may be used again: a cacheable
entry was read when its ctime was already older than a tick, so a later change has a
later ctime. `Told` keeps the events equal to the baseline. `EventsSpent` says which ctimes
the ids given out so far can contain. The attempt to prove `TransitionsDistinct` for the middle
of a scan failed for a good reason (`last` is then still the previous scan's), and it is now
stated for a collector at rest.

**Auth log.** `ReadInv` is about bytes: the buffer is exactly what the open file holds between the
start of the line in hand and the offset, or that line is being discarded for a reason
(`TailFollowsFile`), so a line that ends within the next read is among the lines that read
completes (`ReadCovers`), whatever the split; and every auth line before the offset is covered.
It holds until the file is truncated and regrows unseen. `Untruncated` holds until the first
truncation: files are written one after the other, lines in order (`WrittenInOrder`), the poll
never comes to a file before it is through with the one before it (`Reached`), whatever is
in hand or emitted is behind all that is still to be read (`TakenInOrder`), and `seen` counts
what was emitted with the latest timestamp (`Numbered`). `OwedIsReached`: until the final pass has
read, a line owed at the stop is within its one read; afterwards it is covered.
`PollKnowsItsFile`: a poll that reads or follows has a file, and one that comes to its end
without a file has already set `source_available` to false.

**Detection.** What a recursive function computes is proved without the library's induction
schemes, which the provers cannot instantiate: `TreeInduction` and `TreeRecursion` quantify over
sets of trees instead of predicates, and rest on there being a lowest level without the
property. With them `EvaluateNode`, `MatchesNode` and `RequiredActionsNode` unfold the three functions
one node at a time, and `EvaluationTells` and `IndexSound` follow by induction over the tree.
`MemoryInv` adds to the bounds that a group has one window and that the cache answers what the
index would. A window holds times, not events: `TrackInv` says that while times do not run
backwards the times in it are those of distinct matches of its group since the rule last fired,
in order, and that unless a group was evicted a match that is not among them is older than the
window of a match already seen (`Traces`). That, and the fact that two values have one group
key exactly when they are one subscriber's (`KeyIsSubscriber`), makes the length of a slid
window the number of matches in it (`WindowCounts`, through a bijection). A rule that has not
had its turn has not fired for the event (`FiredInTurn`).

`PipelineProofs` also proves what the dedup window's evictions keep and remove. The facts about
sequences need no induction: a stale prefix is described by its length, and the lines of a run of
bytes by the positions of their ends.

Only model-checked:

* liveness, which is outside what the prover supports: `StopTerminates`, `ReadinessRecovers`,
  `StopCompletes`, `Bulkhead`, `CloseTerminates`, `CatchesUp`, `ShutdownCompletes`, and the fairness
  halves of `ChannelImplemented` and `LedgerImplemented`.

Every invariant the runs check, and every property of single steps, is a theorem.

## What is not modelled

Field mapping, rendering of alerts, log formats, parsing of rules, HTTP and SMTP transport,
SQL text, configuration parsing, metrics and the command line: data or I/O without evolving
state. Durations are reduced to timers that fire. The database rejects a row always or
never. A restarted process is not modelled: the program recovers nothing from a previous
one except what the tables hold.

## Plan

The safety properties are proved and the liveness properties checked. What could be added:

1. The settings' validation, once a property depends on how two settings relate (today the
   `ASSUME`s state what it guarantees).
2. A threshold's promise for event times that run backwards, if the code comes to make one:
   `ThresholdExact` would lose its hypothesis and `Traces` its order.
