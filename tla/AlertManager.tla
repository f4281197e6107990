---------------------------- MODULE AlertManager ----------------------------
(***************************************************************************)
(* alerting/manager.py: the gates a detection passes (severity floor,       *)
(* dedup, per-rule sliding-window throttle) and the sink lanes (a bounded   *)
(* queue and a lazily started delivery worker per sink), with aclose().     *)
(*                                                                          *)
(* process() never suspends, so one detection is one step.  A rule fixes    *)
(* the severity of its alerts, and with it which sinks accept them.         *)
(***************************************************************************)
EXTENDS DedupWindow, FiniteSets, FiniteSetsExt

CONSTANTS
  Rule, EventKey, Sink,
  BelowFloor,     \* rules whose severity is below min_severity
  Accepts,        \* [Sink -> SUBSET Rule]: AlertSink.accepts
  Limit, Period,  \* [Rule -> Nat]: the throttle of each rule (_throttle_for)
  Ttl, MaxEntries,
  SinkQueueSize,
  Retries,        \* [Sink -> Nat]: attempts per delivery (WebhookSink._max_retries, else 1)
  FairSink,       \* the sinks whose deliveries are assumed to end
  Setups          \* the instances to try: [rules, keys, sinks : what is configured and what
                  \*   comes in; detections, closes, time : bounds on the detections, the
                  \*   calls of aclose() and the clock]

ASSUME AlertManagerAssumption ==
  /\ BelowFloor \subseteq Rule /\ FairSink \subseteq Sink
  /\ IsFiniteSet(Sink) /\ IsFiniteSet(Rule)
  /\ Accepts \in [Sink -> SUBSET Rule]
  /\ Limit \in [Rule -> Nat \ {0}] /\ Period \in [Rule -> Nat \ {0}]
  /\ Ttl \in Nat \ {0} /\ MaxEntries \in Nat \ {0} /\ SinkQueueSize \in Nat \ {0}
  /\ Retries \in [Sink -> Nat \ {0}]
  /\ \A u \in Setups : u.rules \subseteq Rule /\ u.keys \subseteq EventKey /\ u.sinks \subseteq Sink

VARIABLES
  setup,                        \* the instance of this behaviour
  window,                       \* the dedup window's entries
  hits,                         \* _rule_hits: notification times per rule
  withheld,                     \* _withheld
  emitted, suppressed, deduped, throttled,
  laneQueue, worker,            \* _SinkLane._queue and its worker's state
  attempt,                      \* _post_with_retry: failed attempts of the delivery at hand
  delivered, errors, dropped,   \* the counters of each lane
  closing,                      \* how far aclose() has got
  lanes,                        \* the lanes that step of aclose() still waits for
  now,
  offered,                      \* history: notifications given to each lane
  cut,                          \* history: deliveries cancelled in flight
  received,                     \* history: copies that reached the sink's destination
  stopped,                      \* history: lanes stop() was called on
  notified                      \* history: [rule, at, note] per notification

gateVars == <<window, hits, withheld, emitted, suppressed, deduped, throttled, notified>>
laneVars == <<laneQueue, worker, attempt, delivered, errors, dropped, offered, cut, received,
              stopped>>
vars == <<gateVars, laneVars, closing, lanes, now, setup>>

Zeros(S) == [x \in S |-> 0]

Init ==
  /\ setup \in Setups
  /\ window = <<>> /\ hits = [r \in Rule |-> <<>>] /\ withheld = Zeros(Rule)
  /\ emitted = 0 /\ suppressed = 0 /\ deduped = 0 /\ throttled = Zeros(Rule)
  /\ laneQueue = [s \in Sink |-> <<>>] /\ worker = [s \in Sink |-> "none"]
  /\ delivered = Zeros(Sink) /\ errors = Zeros(Sink) /\ dropped = Zeros(Sink)
  /\ closing = "open" /\ lanes = {} /\ now = 0
  /\ attempt = Zeros(Sink) /\ received = Zeros(Sink)
  /\ offered = Zeros(Sink) /\ cut = Zeros(Sink) /\ stopped = {}
  /\ notified = <<>>

Handled == emitted + suppressed + deduped + MapThenSumSet(LAMBDA r : throttled[r], Rule)

-----------------------------------------------------------------------------
(* process(): the gates *)

\* A window that forgets a notification at the very end of its period.
ExpiredEarly(r) ==
  CHOOSE n \in 0..Len(hits[r]) :
    /\ \A i \in 1..n : hits[r][i] <= now - Period[r]
    /\ n < Len(hits[r]) => hits[r][n + 1] > now - Period[r]

\* _is_throttled pops the leading times that lie before the window.
Expired(r) ==
  CHOOSE n \in 0..Len(hits[r]) :
    /\ \A i \in 1..n : hits[r][i] < now - Period[r]
    /\ n < Len(hits[r]) => hits[r][n + 1] >= now - Period[r]

Recent(r) == SubSeq(hits[r], Expired(r) + 1, Len(hits[r]))

IsThrottled(r) == Len(Recent(r)) >= Limit[r]

DedupKey(r, e) == <<r, e>>

\* A full lane that drops the notification without counting it.
OfferDroppingSilently(r) ==
  LET routed(s) == s \in setup.sinks /\ r \in Accepts[s]
      full(s)   == Len(laneQueue[s]) >= SinkQueueSize
  IN  /\ worker' = [s \in Sink |->
            IF routed(s) /\ worker[s] = "none" THEN "get" ELSE worker[s]]
      /\ laneQueue' = [s \in Sink |->
            IF routed(s) /\ ~full(s) THEN Append(laneQueue[s], r) ELSE laneQueue[s]]
      /\ offered' = [s \in Sink |-> IF routed(s) THEN offered[s] + 1 ELSE offered[s]]
      /\ UNCHANGED <<dropped, delivered, errors, cut, stopped, attempt, received>>

\* offer() to every lane that accepts the alert: start its worker if it has
\* none, queue the notification, or drop and count it if the queue is full.
Offer(r) ==
  LET routed(s) == s \in setup.sinks /\ r \in Accepts[s]
      full(s)   == Len(laneQueue[s]) >= SinkQueueSize
  IN  /\ worker' = [s \in Sink |->
            IF routed(s) /\ worker[s] = "none" THEN "get" ELSE worker[s]]
      /\ laneQueue' = [s \in Sink |->
            IF routed(s) /\ ~full(s) THEN Append(laneQueue[s], r) ELSE laneQueue[s]]
      /\ dropped' = [s \in Sink |->
            IF routed(s) /\ full(s) THEN dropped[s] + 1 ELSE dropped[s]]
      /\ offered' = [s \in Sink |-> IF routed(s) THEN offered[s] + 1 ELSE offered[s]]
      /\ UNCHANGED <<delivered, errors, cut, stopped, attempt, received>>

\* The runtime calls process() only while the consumer runs.
Accepting == closing = "open" /\ Handled < setup.detections

\* Gate 1: below the severity floor.
Suppress(r) ==
  /\ Accepting
  /\ r \in BelowFloor
  /\ suppressed' = suppressed + 1
  /\ UNCHANGED <<window, hits, withheld, emitted, deduped, throttled, notified,
                 laneVars, closing, lanes, now, setup>>

\* Gate 2: the same rule on the same event inside the dedup window.
Dedup(r, e) ==
  /\ Accepting
  /\ r \notin BelowFloor
  /\ Seen(window, DedupKey(r, e), now)
  /\ window' = AfterSeen(window, DedupKey(r, e), now, Ttl, MaxEntries)
  /\ deduped' = deduped + 1
  /\ UNCHANGED <<hits, withheld, emitted, suppressed, throttled, notified,
                 laneVars, closing, lanes, now, setup>>

Fresh(r, e) ==
  /\ Accepting
  /\ r \notin BelowFloor
  /\ ~Seen(window, DedupKey(r, e), now)
  /\ window' = AfterSeen(window, DedupKey(r, e), now, Ttl, MaxEntries)

\* Gate 3: the rule's budget is spent; the alert is stored but not sent.
Throttle(r, e) ==
  /\ Fresh(r, e)
  /\ IsThrottled(r)
  /\ hits' = [hits EXCEPT ![r] = Recent(r)]
  /\ throttled' = [throttled EXCEPT ![r] = @ + 1]
  /\ withheld' = [withheld EXCEPT ![r] = @ + 1]
  /\ UNCHANGED <<emitted, suppressed, deduped, notified, laneVars, closing, lanes, now, setup>>

\* A notification that announces the withheld alerts and does not reset them.
NotifyKeepingWithheld(r, e) ==
  /\ Fresh(r, e)
  /\ ~IsThrottled(r)
  /\ hits' = [hits EXCEPT ![r] = Append(Recent(r), now)]
  /\ notified' = Append(notified, [rule |-> r, at |-> now, note |-> withheld[r]])
  /\ Offer(r)
  /\ emitted' = emitted + 1
  /\ UNCHANGED <<withheld, suppressed, deduped, throttled, closing, lanes, now, setup>>

\* Past the gates: announce the alerts withheld since the last notification
\* and fan out.
Notify(r, e) ==
  /\ Fresh(r, e)
  /\ ~IsThrottled(r)
  /\ hits' = [hits EXCEPT ![r] = Append(Recent(r), now)]
  /\ withheld' = [withheld EXCEPT ![r] = 0]
  /\ notified' = Append(notified, [rule |-> r, at |-> now, note |-> withheld[r]])
  /\ Offer(r)
  /\ emitted' = emitted + 1
  /\ UNCHANGED <<suppressed, deduped, throttled, closing, lanes, now, setup>>

Process(r, e) == Suppress(r) \/ Dedup(r, e) \/ Throttle(r, e) \/ Notify(r, e)

-----------------------------------------------------------------------------
(* The delivery worker of a lane. *)

WorkerGets(s) ==
  /\ worker[s] = "get" /\ laneQueue[s] # <<>>
  /\ worker' = [worker EXCEPT ![s] = "emit"]
  /\ laneQueue' = [laneQueue EXCEPT ![s] = Tail(@)]
  /\ UNCHANGED <<gateVars, attempt, delivered, errors, dropped, offered, cut, received,
                 stopped, closing, lanes, now, setup>>

\* The delivery at hand is over.
EmitEnds(s, next) ==
  /\ worker[s] = "emit"
  /\ worker' = [worker EXCEPT ![s] = next]
  /\ attempt' = [attempt EXCEPT ![s] = 0]
  /\ UNCHANGED <<gateVars, laneQueue, dropped, offered, cut, stopped, closing, lanes, now, setup>>

\* An attempt that failed may have reached the destination all the same.
MaybeReceived(s) == \E n \in 0..1 : received' = [received EXCEPT ![s] = @ + n]

\* A worker without the firewall: a failing sink ends it.
EmitFailsFatally(s) ==
  /\ EmitEnds(s, "none")
  /\ errors' = [errors EXCEPT ![s] = @ + 1]
  /\ MaybeReceived(s) /\ UNCHANGED delivered

\* emit() raises (a blocked destination, a status that is not retried, the last attempt),
\* or is cut off by the delivery timeout.
EmitFails(s) ==
  /\ EmitEnds(s, "get")
  /\ errors' = [errors EXCEPT ![s] = @ + 1]
  /\ MaybeReceived(s) /\ UNCHANGED delivered

\* _post_with_retry: a timeout, a network error or a retryable status, and attempts left.
EmitRetries(s) ==
  /\ worker[s] = "emit" /\ attempt[s] < Retries[s] - 1
  /\ attempt' = [attempt EXCEPT ![s] = @ + 1]
  /\ MaybeReceived(s)
  /\ UNCHANGED <<gateVars, laneQueue, worker, delivered, errors, dropped, offered, cut, stopped,
                 closing, lanes, now, setup>>

EmitSucceeds(s) ==
  /\ EmitEnds(s, "get")
  /\ delivered' = [delivered EXCEPT ![s] = @ + 1]
  /\ received' = [received EXCEPT ![s] = @ + 1]
  /\ UNCHANGED errors

Worker(s) == WorkerGets(s) \/ EmitFails(s) \/ EmitRetries(s) \/ EmitSucceeds(s)

-----------------------------------------------------------------------------
(* aclose() *)

\* Start draining every lane; a lane without a worker has nothing to wait for.
Aclose ==
  /\ closing = "open" /\ setup.closes > 0
  /\ closing' = "draining"
  /\ lanes' = {s \in Sink : worker[s] # "none"}
  /\ UNCHANGED <<gateVars, laneVars, now, setup>>

\* Runtime.stop() called a second time closes the sinks again.
AcloseAgain ==
  /\ closing = "closed" /\ setup.closes > 1
  /\ closing' = "again"
  /\ lanes' = setup.sinks
  /\ UNCHANGED <<gateVars, laneVars, now, setup>>

\* A drain that waits for the queue without a deadline.
DrainUntimed(s) ==
  /\ closing = "draining" /\ s \in lanes
  /\ laneQueue[s] = <<>> /\ worker[s] # "emit"
  /\ lanes' = lanes \ {s}
  /\ UNCHANGED <<gateVars, laneVars, closing, now, setup>>

\* drain() of one lane ends: every notification attempted, or the deadline.
DrainEnds(s) ==
  /\ closing = "draining" /\ s \in lanes
  /\ lanes' = lanes \ {s}
  /\ UNCHANGED <<gateVars, laneVars, closing, now, setup>>

\* The gather over the drains is over: stop the lanes one after the other.
StopLanes ==
  /\ closing = "draining" /\ lanes = {}
  /\ closing' = "stopping"
  /\ lanes' = setup.sinks
  /\ UNCHANGED <<gateVars, laneVars, now, setup>>

\* stop() of one lane: what is queued is abandoned and counted, the worker is
\* cancelled wherever it is.  The queue itself is left as it is.
StopLane(s) ==
  /\ closing \in {"stopping", "again"} /\ s \in lanes
  /\ dropped' = [dropped EXCEPT ![s] = @ + Len(laneQueue[s])]
  /\ cut' = [cut EXCEPT ![s] = IF worker[s] = "emit" THEN @ + 1 ELSE @]
  /\ worker' = [worker EXCEPT ![s] = "none"]
  /\ attempt' = [attempt EXCEPT ![s] = 0]
  /\ stopped' = stopped \cup {s}
  /\ lanes' = lanes \ {s}
  /\ IF worker[s] = "emit" THEN MaybeReceived(s) ELSE UNCHANGED received
  /\ UNCHANGED <<gateVars, laneQueue, delivered, errors, offered, closing, now, setup>>

\* The sinks' own aclose(), whose failures are only logged, ends it.
CloseSinks ==
  /\ closing \in {"stopping", "again"} /\ lanes = {}
  /\ closing' = IF closing = "again" THEN "reclosed" ELSE "closed"
  /\ UNCHANGED <<gateVars, laneVars, lanes, now, setup>>

Tick ==
  /\ now < setup.time
  /\ now' = now + 1
  /\ UNCHANGED <<gateVars, laneVars, closing, lanes, setup>>

Closed == closing \in {"closed", "reclosed"} /\ UNCHANGED vars

AcloseStep == StopLanes \/ CloseSinks \/ \E s \in Sink : DrainEnds(s) \/ StopLane(s)

Next ==
  \/ \E r \in setup.rules, e \in setup.keys : Process(r, e)
  \/ \E s \in Sink : Worker(s)
  \/ Aclose \/ AcloseAgain \/ AcloseStep
  \/ Tick
  \/ Closed

\* The event loop runs the lane workers and aclose(), whose waits have
\* deadlines.  Only the sinks in FairSink are assumed to answer or time out.
Fairness ==
  /\ \A s \in FairSink : WF_vars(Worker(s))
  /\ WF_vars(AcloseStep)

Spec == Init /\ [][Next]_vars /\ Fairness

-----------------------------------------------------------------------------
(* Properties. *)

\* "Caps how many notifications one rule can send per window": in any closed
\* interval of a rule's period it notifies at most Limit times.
ThrottleHolds ==
  \A i \in DOMAIN notified :
    LET r == notified[i].rule
    IN  Cardinality({j \in DOMAIN notified :
          /\ notified[j].rule = r
          /\ notified[j].at \in notified[i].at..(notified[i].at + Period[r])}) <= Limit[r]

\* The withheld alerts of a rule that its notifications have announced.
Announced(r) ==
  UNION {{i} \X (1..notified[i].note) : i \in {i \in DOMAIN notified : notified[i].rule = r}}

\* "The rule's next notification states how many were withheld": each throttled
\* alert is announced by exactly one later notification, or still to be.
WithheldAnnounced ==
  \A r \in Rule : throttled[r] = withheld[r] + Cardinality(Announced(r))

\* A lane loses no notification and counts none twice, up to the end of the first shutdown:
\* each is queued, in delivery, delivered, failed, or dropped and counted; only the one in
\* delivery when stop() cuts it off goes uncounted (manager.py, _SinkLane).  What counts as
\* delivered has arrived, and nothing arrives more often than it is retried, for good.
LaneAccounted ==
  \A s \in Sink :
    LET waiting == Len(laneQueue[s]) + (IF worker[s] = "emit" THEN 1 ELSE 0)
    IN  /\ closing \notin {"again", "reclosed"} =>
             offered[s] = delivered[s] + errors[s] + dropped[s] + cut[s]
                          + (IF s \in stopped THEN 0 ELSE waiting)
        /\ cut[s] <= 1
        /\ received[s] \in delivered[s]..(offered[s] * Retries[s])

\* Runtime.stop() is "Idempotent" (runtime.py): a second one, after the first has returned,
\* finds nothing left to count.  It does not hold: _SinkLane.stop() (manager.py) leaves the
\* notifications it abandons in the queue, and adds them to the lane's dropped count again.
StopIdempotent ==
  [][(closing \in {"closed", "again"}) => UNCHANGED <<delivered, errors, dropped>>]_vars

MaxOffers == Max({u.detections : u \in {u \in Setups : u.sinks # {}}})

\* Every sink but a hung one keeps delivering: whatever one lane's sink does, the
\* notifications of the others are attempted or, at shutdown, given up.
Bulkhead ==
  \A s \in FairSink : \A n \in 1..MaxOffers :
    offered[s] >= n ~> delivered[s] + errors[s] + dropped[s] + cut[s] >= n

\* aclose() returns even if no sink ever answers.
CloseTerminates == closing = "draining" ~> closing \in {"closed", "again", "reclosed"}

=============================================================================
