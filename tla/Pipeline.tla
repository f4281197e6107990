------------------------------ MODULE Pipeline ------------------------------
(***************************************************************************)
(* pipeline/runner.py and pipeline/queue.py: supervised collectors feeding  *)
(* one bounded queue, one consumer task that owns the dedup window, and the *)
(* graceful stop (signal, gather, join, cancel).                            *)
(*                                                                          *)
(* Every action is one step of one asyncio task, from the point where the   *)
(* task resumes to its next await that can suspend.                         *)
(***************************************************************************)
EXTENDS DedupWindow, FiniteSets, FiniteSetsExt

CONSTANTS
  Source,      \* the collectors, by name
  Finite,      \* those whose run() may return on its own
  Key,         \* event.dedup_key values
  Ttl,         \* settings.dedup_window_seconds
  MaxEntries,  \* settings.dedup_max_entries
  Setups       \* the installations to try: [sources : the collectors registered, keys : the keys
               \*   of their events, maxsize : queue_maxsize, policy : queue_backpressure,
               \*   reads : bound on the records one source yields, crashes : bound on the
               \*   crashes of one collector, time : bound on the clock]

ASSUME PipelineAssumption ==
  /\ Finite \subseteq Source /\ IsFiniteSet(Source)
  /\ Ttl \in Nat \ {0} /\ MaxEntries \in Nat \ {0}
  /\ Setups \subseteq [sources : SUBSET Source \ {{}}, keys : SUBSET Key, maxsize : Nat \ {0},
                       policy : {"block", "drop_newest"}, reads : Nat, crashes : Nat, time : Nat]

VARIABLES
  setup,           \* the installation of this behaviour
  run,             \* the task of Pipeline.run()
  stopRequested,   \* _stop_requested, and every collector's stop event
  stopPc,          \* how far Pipeline.stop() has got
  col,             \* program counter of each collector task (_supervise + run)
  final,           \* is the collector in its final catch-up pass?
  left,            \* records of the current pass not yet emitted
  hand,            \* the event a collector blocks on putting
  restarts,        \* _restarts
  queue,           \* the events buffered in the asyncio queue
  unfinished,      \* the queue's count of puts not yet task_done()'d
  accepted,        \* BoundedEventQueue.accepted
  dropped,         \* BoundedEventQueue.dropped
  consumer,        \* program counter of the consumer task
  inflight,        \* the event the consumer's callback is working on
  window,          \* DedupWindow._entries
  processed, deduped, consumerErrors,
  now,             \* the monotonic clock
  read,            \* history: records each source has yielded
  unmapped,        \* the normalizer's dead-letter count
  lost,            \* history: records of a pass that a crash cut short
  taken            \* history: what the consumer took, in order

colVars      == <<col, final, left, hand, restarts, read, unmapped, lost>>
queueVars    == <<queue, unfinished, accepted, dropped>>
consumerVars == <<consumer, inflight, window, processed, deduped, consumerErrors, taken>>
stopVars     == <<run, stopRequested, stopPc>>
vars == <<colVars, queueVars, consumerVars, stopVars, now, setup>>

QueueMaxsize == setup.maxsize
Policy == setup.policy

NoEvent == [src |-> "none"]
Event   == [src : Source, n : Nat, key : Key]
Taken   == [ev : Event, at : Nat, fresh : BOOLEAN]

Init ==
  /\ setup \in Setups
  /\ run = "scheduled" /\ stopRequested = FALSE /\ stopPc = "none"
  /\ col = [c \in Source |-> "none"]
  /\ final = [c \in Source |-> FALSE]
  /\ left = [c \in Source |-> 0]
  /\ hand = [c \in Source |-> NoEvent]
  /\ restarts = [c \in Source |-> 0]
  /\ read = [c \in Source |-> 0]
  /\ unmapped = 0 /\ lost = 0
  /\ queue = <<>> /\ unfinished = 0 /\ accepted = 0 /\ dropped = 0
  /\ consumer = "none" /\ inflight = NoEvent
  /\ window = <<>> /\ processed = 0 /\ deduped = 0 /\ consumerErrors = 0
  /\ taken = <<>>
  /\ now = 0

-----------------------------------------------------------------------------
(* Pipeline.run() *)

\* One task per registered collector, and the consumer's.
Spawn ==
  /\ col' = [c \in Source |-> IF c \in setup.sources THEN "resume" ELSE "done"]
  /\ consumer' = "get"

\* run() whose first step spawns the tasks without looking at _stop_requested.
RunAfterStop ==
  /\ run = "scheduled"
  /\ run' = "running"
  /\ Spawn
  /\ UNCHANGED <<stopRequested, stopPc, final, left, hand, restarts, read, unmapped, lost,
                 queueVars, inflight, window, processed, deduped, consumerErrors, taken, now,
                 setup>>

\* The first step of run(): spawn the tasks, unless stop() won the race.
Run ==
  /\ run = "scheduled"
  /\ IF stopRequested
     THEN /\ run' = "returned"
          /\ UNCHANGED <<col, consumer>>
     ELSE run' = "running" /\ Spawn
  /\ UNCHANGED <<stopRequested, stopPc, final, left, hand, restarts, read, unmapped, lost,
                 queueVars, inflight, window, processed, deduped, consumerErrors, taken, now,
                 setup>>

\* gather() over the tasks ends once the consumer is cancelled too.
RunExit ==
  /\ run = "running"
  /\ \A c \in Source : col[c] = "done"
  /\ consumer = "cancelled"
  /\ run' = "returned"
  /\ UNCHANGED <<stopRequested, stopPc, colVars, queueVars, consumerVars, now, setup>>

-----------------------------------------------------------------------------
(* A collector: the poll loop of run() inside _supervise(). *)

Goto(c, pc) == col' = [col EXCEPT ![c] = pc]

\* Head of `while not self.stopping`: a pass, the last one once stop is set.
LoopHead(c) ==
  /\ col[c] = "resume"
  /\ Goto(c, "poll")
  /\ final' = [final EXCEPT ![c] = stopRequested]
  /\ UNCHANGED <<left, hand, restarts, read, unmapped, lost,
                 queueVars, consumerVars, stopVars, now, setup>>

\* The scan thread returns k new records.
ScanDone(c) ==
  /\ col[c] = "poll"
  /\ \E k \in 0..(setup.reads - read[c]) :
       /\ left' = [left EXCEPT ![c] = k]
       /\ read' = [read EXCEPT ![c] = @ + k]
  /\ Goto(c, "emit")
  /\ UNCHANGED <<final, hand, restarts, unmapped, lost,
                 queueVars, consumerVars, stopVars, now, setup>>

NextEvent(c, key) == [src |-> c, n |-> read[c] - left[c] + 1, key |-> key]

\* A queue that hands out the newest event first (asyncio.LifoQueue).
EnqueueFront(ev) ==
  /\ queue' = <<ev>> \o queue
  /\ unfinished' = unfinished + 1
  /\ accepted' = accepted + 1
  /\ UNCHANGED dropped

Enqueue(ev) ==
  /\ queue' = Append(queue, ev)
  /\ unfinished' = unfinished + 1
  /\ accepted' = accepted + 1
  /\ UNCHANGED dropped

\* A put under DROP_NEWEST that forgets to count the refusal.
PutSilent(c, ev) ==
  /\ IF Len(queue) < QueueMaxsize THEN Enqueue(ev) ELSE UNCHANGED queueVars
  /\ UNCHANGED <<col, hand>>

\* A full check that lets one event too many in.
PutOffByOne(c, ev) ==
  \/ /\ Len(queue) <= QueueMaxsize
     /\ Enqueue(ev)
     /\ UNCHANGED <<col, hand>>
  \/ /\ Len(queue) > QueueMaxsize
     /\ Goto(c, "put")
     /\ hand' = [hand EXCEPT ![c] = ev]
     /\ UNCHANGED queueVars

\* BoundedEventQueue.put: a full queue parks the caller (BLOCK) or refuses
\* the event and counts it (DROP_NEWEST).
Put(c, ev) ==
  \/ /\ Len(queue) < QueueMaxsize
     /\ Enqueue(ev)
     /\ UNCHANGED <<col, hand>>
  \/ /\ Len(queue) >= QueueMaxsize
     /\ Policy = "block"
     /\ Goto(c, "put")
     /\ hand' = [hand EXCEPT ![c] = ev]
     /\ UNCHANGED queueVars
  \/ /\ Len(queue) >= QueueMaxsize
     /\ Policy = "drop_newest"
     /\ dropped' = dropped + 1
     /\ UNCHANGED <<queue, unfinished, accepted, col, hand>>

\* Normalize one record and put the event, or skip an unmappable record.
Emit(c) ==
  /\ col[c] = "emit" /\ left[c] > 0
  /\ left' = [left EXCEPT ![c] = @ - 1]
  /\ \/ \E key \in setup.keys : Put(c, NextEvent(c, key)) /\ UNCHANGED unmapped
     \/ /\ unmapped' = unmapped + 1
        /\ UNCHANGED <<queueVars, col, hand>>
  /\ UNCHANGED <<final, restarts, read, lost, consumerVars, stopVars, now, setup>>

\* A put parked on a full queue resumes with a free slot.
PutResume(c) ==
  /\ col[c] = "put" /\ Len(queue) < QueueMaxsize
  /\ Enqueue(hand[c])
  /\ hand' = [hand EXCEPT ![c] = NoEvent]
  /\ Goto(c, "emit")
  /\ UNCHANGED <<final, left, restarts, read, unmapped, lost, consumerVars, stopVars, now, setup>>

\* A run() that loops on after its last pass.
PassDoneLoops(c) ==
  /\ col[c] = "emit" /\ left[c] = 0
  /\ Goto(c, "wait")
  /\ UNCHANGED <<final, left, hand, restarts, read, unmapped, lost,
                 queueVars, consumerVars, stopVars, now, setup>>

\* The pass is over: sleep until the next poll, or return after the last one.
PassDone(c) ==
  /\ col[c] = "emit" /\ left[c] = 0
  /\ \/ ~final[c] /\ Goto(c, "wait")
     \/ (final[c] \/ c \in Finite) /\ Goto(c, "done")
  /\ UNCHANGED <<final, left, hand, restarts, read, unmapped, lost,
                 queueVars, consumerVars, stopVars, now, setup>>

\* wait_stop(poll) times out ...
WaitTimeout(c) ==
  /\ col[c] = "wait" /\ ~stopRequested
  /\ Goto(c, "resume")
  /\ UNCHANGED <<final, left, hand, restarts, read, unmapped, lost,
                 queueVars, consumerVars, stopVars, now, setup>>

\* ... or sees the stop, and the final catch-up pass follows.
WaitStopped(c) ==
  /\ col[c] = "wait" /\ stopRequested
  /\ Goto(c, "poll")
  /\ final' = [final EXCEPT ![c] = TRUE]
  /\ UNCHANGED <<left, hand, restarts, read, unmapped, lost,
                 queueVars, consumerVars, stopVars, now, setup>>

\* The scan, the parser or the normalizer raises: the rest of the pass is
\* gone, and _supervise counts the crash and backs off.
Crash(c) ==
  /\ col[c] = "poll" \/ (col[c] = "emit" /\ left[c] > 0)
  /\ restarts[c] < setup.crashes
  /\ Goto(c, "backoff")
  /\ lost' = lost + left[c]
  /\ left' = [left EXCEPT ![c] = 0]
  /\ restarts' = [restarts EXCEPT ![c] = @ + 1]
  /\ UNCHANGED <<final, hand, read, unmapped, queueVars, consumerVars, stopVars, now, setup>>

\* The backoff elapses before any stop: the collector runs again.
BackoffExpires(c) ==
  /\ col[c] = "backoff" /\ ~stopRequested
  /\ Goto(c, "resume")
  /\ UNCHANGED <<final, left, hand, restarts, read, unmapped, lost,
                 queueVars, consumerVars, stopVars, now, setup>>

\* wait_stop returned True in the backoff: _supervise gives up on the collector.
BackoffStopped(c) ==
  /\ col[c] = "backoff" /\ stopRequested
  /\ Goto(c, "done")
  /\ UNCHANGED <<final, left, hand, restarts, read, unmapped, lost,
                 queueVars, consumerVars, stopVars, now, setup>>

-----------------------------------------------------------------------------
(* The consumer. *)

Take(fresh) == taken' = Append(taken, [ev |-> Head(queue), at |-> now, fresh |-> fresh])

\* A fresh event leaves the queue and goes to the callback.
GetFresh ==
  /\ consumer = "get" /\ queue # <<>>
  /\ ~Seen(window, Head(queue).key, now)
  /\ window' = AfterSeen(window, Head(queue).key, now, Ttl, MaxEntries)
  /\ inflight' = Head(queue)
  /\ consumer' = "call"
  /\ Take(TRUE)
  /\ queue' = Tail(queue)
  /\ UNCHANGED <<unfinished, accepted, dropped, processed, deduped, consumerErrors,
                 colVars, stopVars, now, setup>>

\* A duplicate branch that skips the `finally` with its task_done().
GetDuplicateNoDone ==
  /\ consumer = "get" /\ queue # <<>>
  /\ Seen(window, Head(queue).key, now)
  /\ window' = AfterSeen(window, Head(queue).key, now, Ttl, MaxEntries)
  /\ deduped' = deduped + 1
  /\ Take(FALSE)
  /\ queue' = Tail(queue)
  /\ UNCHANGED <<unfinished, accepted, dropped, consumer, inflight, processed, consumerErrors,
                 colVars, stopVars, now, setup>>

\* A duplicate is counted, and task_done() runs in the finally clause.
GetDuplicate ==
  /\ consumer = "get" /\ queue # <<>>
  /\ Seen(window, Head(queue).key, now)
  /\ window' = AfterSeen(window, Head(queue).key, now, Ttl, MaxEntries)
  /\ deduped' = deduped + 1
  /\ Take(FALSE)
  /\ queue' = Tail(queue)
  /\ unfinished' = unfinished - 1
  /\ UNCHANGED <<accepted, dropped, consumer, inflight, processed, consumerErrors,
                 colVars, stopVars, now, setup>>

\* The callback returns or raises; either way the consumer goes on.
CallbackEnds ==
  /\ consumer = "call"
  /\ \/ processed' = processed + 1 /\ UNCHANGED consumerErrors
     \/ consumerErrors' = consumerErrors + 1 /\ UNCHANGED processed
  /\ unfinished' = unfinished - 1
  /\ inflight' = NoEvent
  /\ consumer' = "get"
  /\ UNCHANGED <<queue, accepted, dropped, window, deduped, taken, colVars, stopVars, now, setup>>

-----------------------------------------------------------------------------
(* Pipeline.stop() *)

\* stop() before run() has taken its first step: there are no tasks to wait for.
StopBeforeRun ==
  /\ stopPc = "none" /\ run = "scheduled"
  /\ stopRequested' = TRUE
  /\ stopPc' = "done"
  /\ UNCHANGED <<run, colVars, queueVars, consumerVars, now, setup>>

\* Set the flag and signal every collector, with no await in between.
StopSignal ==
  /\ stopPc = "none" /\ run = "running"
  /\ stopRequested' = TRUE
  /\ stopPc' = "gather"
  /\ UNCHANGED <<run, colVars, queueVars, consumerVars, now, setup>>

\* gather(*collector_tasks) returns.
StopGather ==
  /\ stopPc = "gather"
  /\ \A c \in Source : col[c] = "done"
  /\ stopPc' = "join"
  /\ UNCHANGED <<run, stopRequested, colVars, queueVars, consumerVars, now, setup>>

\* queue.join() returns, and the consumer is cancelled.
StopJoin ==
  /\ stopPc = "join"
  /\ unfinished = 0
  /\ consumer' = "cancelled"
  /\ stopPc' = "done"
  /\ UNCHANGED <<run, stopRequested, colVars, queueVars, inflight, window, processed,
                 deduped, consumerErrors, taken, now, setup>>

-----------------------------------------------------------------------------
Tick ==
  /\ now < setup.time
  /\ now' = now + 1
  /\ UNCHANGED <<colVars, queueVars, consumerVars, stopVars, setup>>

Finished == stopPc = "done" /\ run = "returned" /\ UNCHANGED vars

Collector(c) ==
  \/ LoopHead(c) \/ ScanDone(c) \/ Emit(c) \/ PutResume(c) \/ PassDone(c)
  \/ WaitTimeout(c) \/ WaitStopped(c) \/ BackoffExpires(c) \/ BackoffStopped(c)

Consumer == GetFresh \/ GetDuplicate \/ CallbackEnds

Stop == StopGather \/ StopJoin

Next ==
  \/ Run \/ RunExit
  \/ \E c \in Source : Collector(c) \/ Crash(c)
  \/ Consumer
  \/ StopBeforeRun \/ StopSignal \/ Stop
  \/ Tick
  \/ Finished

\* The event loop runs every ready task; callbacks and scans end.  Nothing
\* makes a crash, a call of stop() or the passing of time happen.
Fairness ==
  /\ WF_vars(Run) /\ WF_vars(RunExit)
  /\ \A c \in Source : WF_vars(Collector(c))
  /\ WF_vars(Consumer)
  /\ WF_vars(Stop)

Spec == Init /\ [][Next]_vars /\ Fairness

-----------------------------------------------------------------------------
(* Properties. *)

CollectorPc == {"none", "resume", "poll", "emit", "put", "wait", "backoff", "done"}

StopTypes ==
  /\ run \in {"scheduled", "running", "returned"}
  /\ stopRequested \in BOOLEAN
  /\ stopPc \in {"none", "gather", "join", "done"}

CollectorTypes ==
  /\ col \in [Source -> CollectorPc]
  /\ final \in [Source -> BOOLEAN]
  /\ left \in [Source -> Nat]
  /\ hand \in [Source -> Event \cup {NoEvent}]
  /\ restarts \in [Source -> Nat]
  /\ read \in [Source -> Nat]
  /\ unmapped \in Nat /\ lost \in Nat

QueueTypes ==
  /\ setup \in Setups
  /\ queue \in Seq(Event) /\ Len(queue) <= QueueMaxsize
  /\ unfinished \in Nat /\ accepted \in Nat /\ dropped \in Nat

ConsumerTypes ==
  /\ consumer \in {"none", "get", "call", "cancelled"}
  /\ inflight \in Event \cup {NoEvent}
  /\ window \in Seq(Entries(Key)) /\ Len(window) <= MaxEntries
  /\ processed \in Nat /\ deduped \in Nat /\ consumerErrors \in Nat
  /\ taken \in Seq(Taken)

\* Every variable keeps the type the code gives it; the queue never holds more
\* than its maxsize, and the dedup window never more than its cap.
TypeOK == StopTypes /\ CollectorTypes /\ QueueTypes /\ ConsumerTypes /\ now \in Nat

InFlight == IF consumer = "call" THEN 1 ELSE 0

\* "Every collision must be either survived or counted" (queue.py): an accepted
\* event is queued, with the callback, or counted once by the consumer, and the
\* count join() waits on is exactly the events not finished with.
AcceptedAccounted ==
  /\ unfinished = Len(queue) + InFlight
  /\ accepted = Len(queue) + InFlight + processed + deduped + consumerErrors

\* How many of the records of source c are no longer with its collector, and those records.
Released(c) == read[c] - left[c] - (IF col[c] = "put" THEN 1 ELSE 0)
ReleasedRecords == UNION {{c} \X (1..Released(c)) : c \in Source}

\* Every record a source yielded is still with its collector, was put on the
\* queue, or is counted: refused, unmappable, or part of a pass that crashed.
RecordsAccounted == Cardinality(ReleasedRecords) = accepted + dropped + unmapped + lost

\* The consumer's callback sees a key at most once per window: between two
\* dispatches of a key the first has expired, or at least MaxEntries other
\* keys were dispatched and pushed it out (dedup.py, seen()).
ExactlyOncePerWindow ==
  \A i, j \in DOMAIN taken :
    /\ i < j
    /\ taken[i].fresh /\ taken[j].fresh
    /\ taken[i].ev.key = taken[j].ev.key
    => \/ taken[j].at >= taken[i].at + Ttl
       \/ Cardinality({k \in (i + 1)..(j - 1) : taken[k].fresh}) >= MaxEntries

\* "A repeat ... is a real second event" (dedup.py): an event is suppressed only
\* if the callback was given the same key less than a TTL before.
OnlyDuplicatesSuppressed ==
  \A j \in DOMAIN taken :
    ~taken[j].fresh =>
      \E i \in 1..(j - 1) :
        /\ taken[i].fresh
        /\ taken[i].ev.key = taken[j].ev.key
        /\ taken[j].at < taken[i].at + Ttl

\* When stop() returns, nothing the collectors put is left behind: all tasks are
\* over, the queue is drained, and no callback was cut short (runner.py, stop()).
DrainedAtStop ==
  stopPc = "done" =>
    /\ \A c \in Source : col[c] \in {"none", "done"} /\ left[c] = 0
    /\ queue = <<>> /\ unfinished = 0 /\ inflight = NoEvent
    /\ consumer \in {"none", "cancelled"}
    /\ accepted = processed + deduped + consumerErrors

\* stop() and run() both return: no order of run()'s first step, blocked puts,
\* backoffs and callbacks leaves them waiting on each other.
StopTerminates == stopRequested ~> (stopPc = "done" /\ run = "returned")

\* The numbers a source's events have among those taken and those queued.
Numbers(ts, q, c) ==
  {ts[i].ev.n : i \in {i \in DOMAIN ts : ts[i].ev.src = c}}
  \cup {q[i].n : i \in {i \in DOMAIN q : q[i].src = c}}

Backlog == (IF consumer = "call" THEN <<inflight>> ELSE <<>>) \o queue

Latest == [c \in Source |-> Max({0} \cup Numbers(taken, queue, c))]

\* The queue, its parked puts and the consumer implement EventChannel: whatever the
\* interleaving, events are finished with in the order they were accepted, each
\* source's in the order it was read, each once, and all before stop() returns.
Channel == INSTANCE EventChannel WITH
  backlog  <- Backlog,
  latest   <- Latest,
  finished <- processed + deduped + consumerErrors,
  closed   <- stopPc = "done"

\* Each accepted event is dealt with once, in order, and none is left when stop() returns
\* (queue.py, runner.py): Pipeline implements EventChannel.
ChannelImplemented == Channel!Spec

=============================================================================
