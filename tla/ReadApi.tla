------------------------------ MODULE ReadApi ------------------------------
(***************************************************************************)
(* The process as its clients and its supervisor see it: api/app.py and     *)
(* api/security.py over the tables of Retention.  A request passes the rate *)
(* limiter, then the API key check, then reads one page; readiness probes   *)
(* share one database check; a dead pipeline ends the process through the   *)
(* lifespan's shutdown, which waits for the pruner.                         *)
(***************************************************************************)
EXTENDS Retention, RateLimiter

CONSTANTS
  Client,      \* TCP peer addresses
  Walker,      \* the one whose client follows the cursors
  PageSizes,   \* values of `limit` a client asks for
  Prober,      \* concurrent callers of /readyz
  ReadyCache   \* _READY_CACHE_S

ASSUME ReadyAssumption == ReadyCache \in Nat \ {0} /\ "free" \notin Prober
ASSUME PageAssumption ==
  PageSizes \subseteq Nat \ {0} /\ \A s \in Setups : s.walked \in Kind

VARIABLES
  windows,    \* RateLimitMiddleware._hits
  log,        \* history: every limited path's request and what became of it
  walk,       \* a client following the cursors of one table; `got` is the pages it got
  pipelineUp, \* Runtime.running
  persisting, \* Runtime.persisting
  db,         \* what a check would meet: "ok", "down", "hangs"
  probers,    \* program counters of _not_ready_reason
  probeLock,  \* _DatabaseProbe._lock
  checkedAt,  \* _DatabaseProbe._checked_at
  problem,    \* _DatabaseProbe._problem is not None
  checks,     \* history: when each database check began
  found,      \* history: when it was last found good, and when bad
  answer,     \* history: the last answer of /readyz
  swaps,      \* changes of db, persisting so far
  lifespan    \* how far the process has got towards its exit

limitVars  == <<windows, log>>
readyVars  == <<probers, probeLock, checkedAt, problem, checks, found, answer>>
healthVars == <<db, persisting, swaps>>
apiVars == <<limitVars, walk, readyVars, healthVars, pipelineUp, lifespan>>
vars == <<retentionVars, apiVars>>

NoAnswer == [ready |-> FALSE, cause |-> "none", at |-> 0]

Init ==
  /\ RetentionInit
  /\ windows = <<>> /\ log = <<>>
  /\ walk = [kind |-> setup.walked, cursor |-> 0, limit |-> 1,
              got |-> <<>>, begun |-> {}, on |-> "no"]
  /\ pipelineUp = TRUE /\ persisting = TRUE /\ db = "ok" /\ swaps = 0
  /\ probers = [p \in Prober |-> "idle"]
  /\ probeLock = "free" /\ checkedAt = None /\ problem = FALSE
  /\ checks = <<>> /\ found = [good \in BOOLEAN |-> None] /\ answer = NoAnswer
  /\ lifespan = "serving"

-----------------------------------------------------------------------------
(* Requests and pages. *)

\* RateLimitMiddleware.dispatch on a path that is not exempt.
Dispatch(client, authenticated) ==
  LET b == Bucket(client, authenticated)
      evicted == IF Evicts(windows, b)
                 THEN <<[who |-> windows[1].bucket, at |-> now, verdict |-> "evicted"]>>
                 ELSE <<>>
  IN  /\ windows' = Charged(windows, b, now)
      /\ log' = Append(log \o evicted,
           [who |-> <<IF authenticated THEN "key" ELSE "anon", client>>, at |-> now,
            verdict |-> IF Admits(windows, b, now) THEN "admitted" ELSE "limited"])

Requests == Len(SelectSeq(log, LAMBDA e : e.verdict # "evicted"))

\* A request require_api_key turns down, or one that reads nothing of the tables
\* (/rules, /metrics): charged all the same.
OtherRequest(client, authenticated) ==
  /\ lifespan = "serving" /\ Requests < setup.requests /\ client \in setup.others
  /\ Dispatch(client, authenticated)
  /\ UNCHANGED <<retentionVars, walk, readyVars, healthVars, pipelineUp, lifespan>>

\* Repository.list_events / list_alerts: the n rows with the highest ids below the cursor.
ListRows(k, n, before) ==
  LET below == {r \in rows[k] : before = 0 \/ r.id < before}
  IN  {r \in below : Cardinality({s \in below : s.id > r.id}) < n}

\* The cursor of the next page taken from the row read ahead.
NextCursorAhead(read, data) == Min({r.id : r \in read})

\* The next page starts below the last row of this one.
NextCursor(read, data) == Min({r.id : r \in data})

\* GET /events, /alerts: an admitted request opens a session, with no deadline.
PageBegins(client, limit) ==
  /\ lifespan = "serving" /\ setup.pages /\ Requests < setup.requests
  /\ walk.on \in {"no", "yes"}
  /\ Dispatch(client, TRUE)
  /\ walk' = IF Last(log').verdict = "limited" THEN walk
             ELSE [walk EXCEPT !.limit = limit, !.on = "reading",
                     !.begun = IF walk.on = "no" THEN rows[walk.kind] ELSE @]
  /\ UNCHANGED <<retentionVars, readyVars, healthVars, pipelineUp, lifespan>>

\* It reads one row more than asked for, to know if there are more.  On a database that
\* is down the answer is a 500 and the client asks again; one that hangs answers nothing.
PageEnds ==
  /\ walk.on = "reading" /\ db # "hangs"
  /\ LET read == ListRows(walk.kind, walk.limit + 1, walk.cursor)
         more == Cardinality(read) > walk.limit
         data == ListRows(walk.kind, walk.limit, walk.cursor)
     IN  walk' = IF db = "down" THEN [walk EXCEPT !.on = "yes"]
                 ELSE [walk EXCEPT
                   !.got = Append(@, data),
                   !.cursor = IF more THEN NextCursor(read, data) ELSE @,
                   !.on = IF more THEN "yes" ELSE "done"]
  /\ UNCHANGED <<retentionVars, limitVars, readyVars, healthVars, pipelineUp, lifespan>>

-----------------------------------------------------------------------------
(* GET /readyz, exempt from the limit. *)

Answer(p, ready, cause) ==
  /\ probers' = [probers EXCEPT ![p] = "idle"]
  /\ answer' = [ready |-> ready, cause |-> cause, at |-> now]

\* _not_ready_reason looks at the pipeline, then queues for the probe's lock.
ReadyRequest(p) ==
  /\ lifespan = "serving" /\ setup.probes /\ probers[p] = "idle"
  /\ IF pipelineUp THEN probers' = [probers EXCEPT ![p] = "queued"] /\ UNCHANGED answer
     ELSE Answer(p, FALSE, "pipeline")
  /\ UNCHANGED <<retentionVars, limitVars, walk, probeLock, checkedAt, problem, checks,
                 found, healthVars, pipelineUp, lifespan>>

\* What is answered once the database half is known: writes may be failing still.
Conclude(p, bad) ==
  Answer(p, ~bad /\ persisting,
         IF bad THEN "database" ELSE IF persisting THEN "none" ELSE "writes")

\* A cache that never goes stale once filled.
StaleSticky == checkedAt = None

Stale == checkedAt = None \/ now - checkedAt >= ReadyCache

\* problem(): the lock is free and the cached result is fresh.
ProbeCached(p) ==
  /\ probers[p] = "queued" /\ probeLock = "free" /\ ~Stale
  /\ Conclude(p, problem)
  /\ UNCHANGED <<retentionVars, limitVars, walk, probeLock, checkedAt, problem, checks,
                 found, healthVars, pipelineUp, lifespan>>

\* problem(): otherwise check, holding the lock.
ProbeBegins(p) ==
  /\ probers[p] = "queued" /\ probeLock = "free" /\ Stale
  /\ probeLock' = p
  /\ probers' = [probers EXCEPT ![p] = "checking"]
  /\ checks' = Append(checks, now)
  /\ UNCHANGED <<retentionVars, limitVars, walk, checkedAt, problem, found, answer,
                 healthVars, pipelineUp, lifespan>>

\* The check answers, or the deadline passes on a database that hangs.
ProbeEnds(p) ==
  /\ probers[p] = "checking"
  /\ probeLock' = "free"
  /\ checkedAt' = now /\ problem' = (db # "ok")
  /\ found' = [found EXCEPT ![db = "ok"] = now]
  /\ Conclude(p, db # "ok")
  /\ UNCHANGED <<retentionVars, limitVars, walk, checks, healthVars, pipelineUp, lifespan>>

-----------------------------------------------------------------------------
(* The process. *)

\* The database, its writes (WriteBehind's _persist_failing) and the clock.
HealthChanges ==
  /\ swaps < setup.swaps
  /\ swaps' = swaps + 1
  /\ \/ \E d \in {"ok", "down", "hangs"} \ {db} : db' = d /\ UNCHANGED persisting
     \/ persisting' = ~persisting /\ UNCHANGED db
  /\ UNCHANGED <<retentionVars, limitVars, walk, readyVars, pipelineUp, lifespan>>

Tick ==
  /\ now < setup.until
  /\ now' = now + 1
  /\ UNCHANGED <<setup, tableVars, prunerVars, stopPruning, apiVars>>

\* The pipeline task dies; _on_pipeline_exit logs it and on_fatal raises SIGTERM.
PipelineDies ==
  /\ setup.dies /\ pipelineUp
  /\ pipelineUp' = FALSE
  /\ UNCHANGED <<retentionVars, limitVars, walk, readyVars, healthVars, lifespan>>

\* SIGTERM reaches the server, which stops taking requests.
Terminated ==
  /\ lifespan = "serving" /\ lifespan' = "terminating"
  /\ UNCHANGED <<retentionVars, limitVars, walk, readyVars, healthVars, pipelineUp>>

\* ... the one _shut_down_for_restart raised; requests may be answered until then.
ShutDownForRestart == ~pipelineUp /\ Terminated

\* ... or one from the supervisor.
Terminate == setup.dies /\ Terminated

\* The server lets the requests in flight end, then the lifespan's finally clause
\* calls Runtime.stop(): the pruner is asked to stop.
StopBegins ==
  /\ lifespan = "terminating"
  /\ walk.on # "reading" /\ \A p \in Prober : probers[p] = "idle"
  /\ lifespan' = "stopping"
  /\ stopPruning' = (pruner # "none")
  /\ UNCHANGED <<setup, now, tableVars, prunerVars, limitVars, walk, readyVars, healthVars,
                 pipelineUp>>

\* The pruner is done: drain the pipeline, flush, close the sinks (see Pipeline,
\* WriteBehind, AlertManager); the pipeline is down.
PrunerAwaited ==
  /\ lifespan = "stopping" /\ pruner \in {"none", "done"}
  /\ lifespan' = "disposing"
  /\ pipelineUp' = FALSE
  /\ UNCHANGED <<retentionVars, limitVars, walk, readyVars, healthVars>>

\* Database.dispose releases the pool or gives up at its own deadline.
Dispose ==
  /\ lifespan = "disposing"
  /\ lifespan' = "exited"
  /\ UNCHANGED <<retentionVars, limitVars, walk, readyVars, healthVars, pipelineUp>>

\* Nothing is left to happen once the process is gone.
Exited == lifespan = "exited" /\ UNCHANGED vars

Inserts == lifespan \notin {"disposing", "exited"} /\ \E k \in Kind : Insert(k)
Shutdown == ShutDownForRestart \/ StopBegins \/ PrunerAwaited \/ Dispose
ProbeStep(p) == ProbeCached(p) \/ ProbeBegins(p) \/ ProbeEnds(p)

Next ==
  \/ (Inserts /\ UNCHANGED apiVars)
  \/ (PrunerStep /\ UNCHANGED apiVars)
  \/ (LateDelete /\ UNCHANGED apiVars)
  \/ \E c \in Client, authenticated \in BOOLEAN : OtherRequest(c, authenticated)
  \/ \E limit \in PageSizes : PageBegins(Walker, limit)
  \/ PageEnds
  \/ \E p \in Prober : ReadyRequest(p)
  \/ \E p \in Prober : ProbeStep(p)
  \/ HealthChanges \/ Tick
  \/ PipelineDies \/ Terminate \/ Shutdown
  \/ Exited

\* The pruner's and the probes' database calls have deadlines, a page read ends if the
\* database answers, and the event loop carries through a shutdown that has begun.
Fairness ==
  /\ WF_vars(PrunerStep /\ UNCHANGED apiVars)
  /\ \A p \in Prober : WF_vars(ProbeStep(p))
  /\ WF_vars(PageEnds)
  /\ WF_vars(Shutdown)

Spec == Init /\ [][Next]_vars /\ Fairness

-----------------------------------------------------------------------------
(* Properties. *)

Same(i, j) == log[i].who = log[j].who

\* Admissions of i's caller no older than the window when request i arrived.
Recent(i) ==
  {j \in 1..i : log[j].verdict = "admitted" /\ Same(i, j) /\ log[j].at >= log[i].at - RateWindow}

\* "Callers that present the API key get a budget separate from unauthenticated traffic
\* from the same address" (security.py): a request is refused only when its own caller
\* has spent the limit in the window, whatever the others do and whatever the bounded
\* table evicts; and a caller gets past the limit only if its window was evicted.
LimitExact ==
  \A i \in DOMAIN log :
    /\ log[i].verdict = "limited" => Cardinality(Recent(i)) >= RateLimit
    /\ log[i].verdict = "admitted" =>
         Cardinality({j \in Recent(i) :
           \A e \in j..i : ~(log[e].verdict = "evicted" /\ Same(e, i))}) <= RateLimit

\* Following the cursors (app.py) while the flusher inserts, retention deletes and
\* SQLite hands ids out again: no row comes twice, the ids fall from page to page, and a
\* walk that ends has returned every row that was there from its first request to its end.
WalkExact ==
  /\ \A i, j \in DOMAIN walk.got :
       i < j => \A r \in walk.got[i], s \in walk.got[j] : r.id > s.id
  /\ walk.on = "done" =>
       \A r \in walk.begun :
         r \notin rows[walk.kind] \/ \E i \in DOMAIN walk.got : r \in walk.got[i]

\* "The database half of readiness, checked at most once per _READY_CACHE_S" (app.py),
\* however many callers queue for it; and an answer rests on a check that ended less
\* than that ago: no ready for a database lost since, no alarm for one that is back.
ReadyFresh ==
  /\ \A i \in 2..Len(checks) : checks[i] - checks[i - 1] >= ReadyCache
  /\ answer.ready => found[TRUE] # None /\ answer.at - found[TRUE] < ReadyCache
  /\ answer.cause = "database" =>
       found[FALSE] # None /\ answer.at - found[FALSE] < ReadyCache

\* A process told to end, by its supervisor or by the death of its pipeline, ends, with
\* a prune in progress and whatever the database does; a page read the database never
\* answers is the one thing that can hold it.
ShutdownCompletes ==
  lifespan = "terminating" \/ ~pipelineUp ~>
    (lifespan = "exited" \/ (walk.on = "reading" /\ db = "hangs"))

\* "writes have a deadline, so a hung database cannot hang shutdown" (docs/adr/0004).
HangCannotHoldShutdown == lifespan = "terminating" ~> lifespan = "exited"
=============================================================================
