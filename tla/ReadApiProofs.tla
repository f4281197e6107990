--------------------------- MODULE ReadApiProofs ---------------------------
(***************************************************************************)
(* Theorems about ReadApi and the Retention it extends, for every table     *)
(* size, period, batch, cache time and number of callers.                   *)
(***************************************************************************)
EXTENDS ReadApi, FiniteSetTheorems, SequenceTheorems, WellFoundedInduction, TLAPS

(***************************************************************************)
(* Readiness.  The probe's lock is what keeps two queued callers from       *)
(* checking twice: while it is free the cached result is no older than the  *)
(* last check begun, and the cached result is what found records.           *)
(***************************************************************************)

ReadyTypes ==
  /\ now \in Nat
  /\ probers \in [Prober -> {"idle", "queued", "checking"}]
  /\ checkedAt \in Nat \cup {None} /\ problem \in BOOLEAN
  /\ checks \in Seq(Nat)
  /\ found \in [BOOLEAN -> Nat \cup {None}]
  /\ answer \in [ready : BOOLEAN, cause : {"none", "pipeline", "database", "writes"}, at : Nat]
  /\ pipelineUp \in BOOLEAN /\ persisting \in BOOLEAN

\* The lock is held by the one caller that is checking.
LockHeld ==
  \A p \in Prober : probers[p] = "checking" <=> probeLock = p

\* What the cache holds was found then, and no check has begun since unless the lock is held.
CacheTrue ==
  /\ checkedAt # None =>
       /\ checkedAt <= now
       /\ IF problem THEN found[FALSE] = checkedAt ELSE found[TRUE] = checkedAt
  /\ \A i \in 1..Len(checks) : checks[i] <= now
  /\ probeLock = "free" /\ checks # <<>> =>
       checkedAt # None /\ checks[Len(checks)] <= checkedAt

ReadyInv == ReadyTypes /\ LockHeld /\ CacheTrue /\ ReadyFresh

\* Nothing has been checked or answered at first.
LEMMA ReadyInit == Init => ReadyInv
<1> SUFFICES ASSUME Init PROVE ReadyInv
  OBVIOUS
<1> USE DEF Init, NoAnswer, None
<1>1. ReadyTypes
  <2>1. now \in Nat /\ checks \in Seq(Nat)
    BY RetentionAssumption DEF RetentionInit
  <2>2. probers \in [Prober -> {"idle", "queued", "checking"}]
    OBVIOUS
  <2>3. checkedAt \in Nat \cup {None} /\ found \in [BOOLEAN -> Nat \cup {None}]
    OBVIOUS
  <2>4. answer \in [ready : BOOLEAN, cause : {"none", "pipeline", "database", "writes"}, at : Nat]
    OBVIOUS
  <2>5. pipelineUp \in BOOLEAN /\ persisting \in BOOLEAN /\ problem \in BOOLEAN
    OBVIOUS
  <2>6. QED
    BY <2>1, <2>2, <2>3, <2>4, <2>5 DEF ReadyTypes
<1>2. LockHeld /\ CacheTrue
  BY ReadyAssumption DEF LockHeld, CacheTrue
<1>3. ReadyFresh
  BY DEF ReadyFresh
<1>4. QED
  BY <1>1, <1>2, <1>3 DEF ReadyInv

\* Steps of other parts of the process, and the passing of time, keep the invariant.
LEMMA ReadyKept ==
  ASSUME ReadyInv, UNCHANGED readyVars, now' \in {now, now + 1},
         pipelineUp' \in BOOLEAN, persisting' \in BOOLEAN
  PROVE  ReadyInv'
<1> USE DEF readyVars
<1>1. now \in Nat /\ now' \in Nat /\ now' >= now
  BY DEF ReadyInv, ReadyTypes
<1>2. ReadyTypes'
  BY <1>1 DEF ReadyInv, ReadyTypes
<1>3. LockHeld' /\ ReadyFresh'
  BY DEF ReadyInv, LockHeld, ReadyFresh
<1>4. CacheTrue'
  <2>1. checkedAt \in Nat \cup {None} /\ \A i \in 1..Len(checks) : checks[i] \in Nat
    BY DEF ReadyInv, ReadyTypes
  <2>2. checkedAt # None /\ checkedAt <= now => checkedAt <= now'
    BY <1>1, <2>1
  <2>3. \A i \in 1..Len(checks) : checks[i] <= now => checks[i] <= now'
    BY <1>1, <2>1
  <2>4. QED
    BY <2>2, <2>3 DEF ReadyInv, CacheTrue
<1>5. QED
  BY <1>2, <1>3, <1>4 DEF ReadyInv

\* An answer is well formed, and the caller goes back to idle.
LEMMA AnswerTypes ==
  ASSUME ReadyTypes, NEW p \in Prober, NEW ready \in BOOLEAN,
         NEW cause \in {"none", "pipeline", "database", "writes"}, Answer(p, ready, cause)
  PROVE  /\ probers' \in [Prober -> {"idle", "queued", "checking"}]
         /\ probers' = [probers EXCEPT ![p] = "idle"]
         /\ answer' \in [ready : BOOLEAN, cause : {"none", "pipeline", "database", "writes"},
                         at : Nat]
         /\ answer'.ready = ready /\ answer'.cause = cause /\ answer'.at = now
BY DEF ReadyTypes, Answer

\* What is concluded from the database half: ready only if it was good, and blamed on the
\* database only if it was bad.
LEMMA ConcludeAnswers ==
  ASSUME ReadyTypes, NEW p \in Prober, NEW bad \in BOOLEAN, Conclude(p, bad)
  PROVE  /\ probers' \in [Prober -> {"idle", "queued", "checking"}]
         /\ probers' = [probers EXCEPT ![p] = "idle"]
         /\ answer' \in [ready : BOOLEAN, cause : {"none", "pipeline", "database", "writes"},
                         at : Nat]
         /\ answer'.at = now
         /\ answer'.ready => ~bad
         /\ answer'.cause = "database" => bad
<1> DEFINE ready == ~bad /\ persisting
           cause == IF bad THEN "database" ELSE IF persisting THEN "none" ELSE "writes"
<1>1. ready \in BOOLEAN /\ cause \in {"none", "pipeline", "database", "writes"}
  OBVIOUS
<1>2. Answer(p, ready, cause)
  BY DEF Conclude
<1>3. cause = "database" => bad
  OBVIOUS
<1>4. ready => ~bad
  OBVIOUS
<1> HIDE DEF ready, cause
<1>5. QED
  BY <1>1, <1>2, <1>3, <1>4, AnswerTypes

\* A caller that finds the pipeline dead is answered at once; others queue for the lock.
LEMMA ReadyRequests ==
  ASSUME ReadyInv, NEW p \in Prober, ReadyRequest(p)
  PROVE  ReadyInv'
<1>1. ReadyTypes /\ LockHeld /\ CacheTrue /\ ReadyFresh
  BY DEF ReadyInv
<1>2. /\ probers[p] = "idle"
      /\ UNCHANGED <<now, probeLock, checkedAt, problem, checks, found, pipelineUp, persisting>>
  BY DEF ReadyRequest, retentionVars, healthVars
<1>3. \/ probers' = [probers EXCEPT ![p] = "queued"] /\ answer' = answer
      \/ Answer(p, FALSE, "pipeline")
  BY DEF ReadyRequest
<1>4. /\ probers' \in [Prober -> {"idle", "queued", "checking"}]
      /\ \A q \in Prober : probers'[q] = "checking" <=> probers[q] = "checking"
      /\ answer' \in [ready : BOOLEAN, cause : {"none", "pipeline", "database", "writes"},
                      at : Nat]
      /\ answer' = answer \/ (~answer'.ready /\ answer'.cause = "pipeline")
  <2>1. CASE probers' = [probers EXCEPT ![p] = "queued"] /\ answer' = answer
    BY <1>1, <1>2, <2>1 DEF ReadyTypes
  <2>2. CASE Answer(p, FALSE, "pipeline")
    BY <1>1, <1>2, <2>2, AnswerTypes DEF ReadyTypes
  <2>3. QED
    BY <1>3, <2>1, <2>2
<1>5. ReadyTypes'
  BY <1>1, <1>2, <1>4 DEF ReadyTypes
<1>6. LockHeld' /\ CacheTrue'
  BY <1>1, <1>2, <1>4 DEF LockHeld, CacheTrue
<1>7. ReadyFresh'
  BY <1>1, <1>2, <1>4 DEF ReadyFresh
<1>8. QED
  BY <1>5, <1>6, <1>7 DEF ReadyInv

\* An answer from the cache rests on a check that ended less than ReadyCache ago.
LEMMA CachedAnswers ==
  ASSUME ReadyInv, NEW p \in Prober, ProbeCached(p)
  PROVE  ReadyInv'
<1>1. ReadyTypes /\ LockHeld /\ CacheTrue /\ ReadyFresh
  BY DEF ReadyInv
<1>2. /\ probers[p] = "queued" /\ Conclude(p, problem)
      /\ UNCHANGED <<now, probeLock, checkedAt, problem, checks, found, pipelineUp, persisting>>
  BY DEF ProbeCached, retentionVars, healthVars
<1>3. /\ checkedAt \in Nat /\ checkedAt # None /\ now - checkedAt < ReadyCache /\ now \in Nat
      /\ problem \in BOOLEAN
  BY <1>1, ReadyAssumption DEF ProbeCached, Stale, ReadyTypes, None
<1>4. /\ probers' \in [Prober -> {"idle", "queued", "checking"}]
      /\ probers' = [probers EXCEPT ![p] = "idle"]
      /\ answer' \in [ready : BOOLEAN, cause : {"none", "pipeline", "database", "writes"},
                      at : Nat]
      /\ answer'.at = now /\ (answer'.ready => ~problem)
      /\ answer'.cause = "database" => problem
  BY <1>1, <1>2, <1>3, ConcludeAnswers
<1>5. ReadyTypes'
  BY <1>1, <1>2, <1>4 DEF ReadyTypes
<1>6. \A q \in Prober : probers'[q] = "checking" <=> probers[q] = "checking"
  BY <1>1, <1>2, <1>4 DEF ReadyTypes
<1>7. LockHeld' /\ CacheTrue'
  BY <1>1, <1>2, <1>6 DEF LockHeld, CacheTrue
<1>8. ReadyFresh'
  <2>1. /\ answer'.ready => found'[TRUE] = checkedAt
        /\ answer'.cause = "database" => found'[FALSE] = checkedAt
    BY <1>1, <1>2, <1>3, <1>4 DEF CacheTrue
  <2>2. QED
    BY <1>1, <1>2, <1>3, <1>4, <2>1 DEF ReadyFresh
<1>9. QED
  BY <1>5, <1>7, <1>8 DEF ReadyInv

\* A check begins only ReadyCache after the end of the one before it.
LEMMA CheckBegins ==
  ASSUME ReadyInv, NEW p \in Prober, ProbeBegins(p)
  PROVE  ReadyInv'
<1>1. ReadyTypes /\ LockHeld /\ CacheTrue /\ ReadyFresh
  BY DEF ReadyInv
<1>2. /\ probers[p] = "queued" /\ probeLock = "free" /\ Stale
      /\ probeLock' = p /\ probers' = [probers EXCEPT ![p] = "checking"]
      /\ checks' = Append(checks, now)
      /\ UNCHANGED <<now, checkedAt, problem, found, answer, pipelineUp, persisting>>
  BY DEF ProbeBegins, retentionVars, healthVars
<1> DEFINE n == Len(checks)
<1>3. /\ checks \in Seq(Nat) /\ n \in Nat /\ now \in Nat
      /\ checkedAt \in Nat \cup {None} /\ \A i \in 1..n : checks[i] \in Nat
  BY <1>1 DEF ReadyTypes
<1>4. /\ checks' \in Seq(Nat) /\ Len(checks') = n + 1 /\ checks'[n + 1] = now
      /\ \A i \in 1..n : checks'[i] = checks[i]
  BY <1>2, <1>3
<1>5. checks # <<>> <=> n > 0
  BY <1>3
<1> HIDE DEF n
<1>6. ReadyTypes'
  <2>1. probers' \in [Prober -> {"idle", "queued", "checking"}]
    BY <1>1, <1>2 DEF ReadyTypes
  <2>2. QED
    BY <1>1, <1>2, <1>4, <2>1 DEF ReadyTypes
<1>7. LockHeld'
  <2>1. \A q \in Prober : probers[q] # "checking"
    BY <1>1, <1>2, ReadyAssumption DEF LockHeld
  <2>2. QED
    BY <1>1, <1>2, <2>1 DEF LockHeld, ReadyTypes
<1>8. CacheTrue'
  <2>1. \A i \in 1..Len(checks') : checks'[i] <= now'
    <3> TAKE i \in 1..Len(checks')
    <3>1. i \in 1..n \/ i = n + 1
      BY <1>3, <1>4
    <3>2. QED
      BY <1>1, <1>2, <1>3, <1>4, <3>1 DEF CacheTrue, n
  <2>2. probeLock' # "free"
    BY <1>2, ReadyAssumption
  <2>3. QED
    BY <1>1, <1>2, <2>1, <2>2 DEF CacheTrue
<1>9. ReadyFresh'
  <2>1. ASSUME NEW i \in 2..(n + 1) PROVE checks'[i] - checks'[i - 1] >= ReadyCache
    <3>1. i - 1 \in 1..n /\ checks'[i - 1] = checks[i - 1]
      BY <1>3, <1>4
    <3>2. CASE i \in 2..n
      <4>1. checks'[i] = checks[i]
        BY <1>3, <1>4, <3>2
      <4>2. QED
        BY <1>1, <3>1, <3>2, <4>1 DEF ReadyFresh, n
    <3>3. CASE i = n + 1
      <4>1. i - 1 = n /\ n > 0 /\ checks'[i] = now /\ n \in 1..n
        BY <1>3, <1>4, <3>1, <3>3
      <4>2. checkedAt # None /\ checks[n] <= checkedAt
        BY <1>1, <1>2, <1>5, <4>1 DEF CacheTrue, n
      <4>3. now - checkedAt >= ReadyCache /\ checkedAt \in Nat /\ checks[n] \in Nat
        BY <1>2, <1>3, <4>1, <4>2 DEF Stale
      <4>4. QED
        BY <1>3, <3>1, <4>1, <4>2, <4>3, ReadyAssumption
    <3>4. QED
      BY <1>3, <3>2, <3>3
  <2>2. QED
    BY <1>1, <1>2, <1>4, <2>1 DEF ReadyFresh
<1>10. QED
  BY <1>6, <1>7, <1>8, <1>9 DEF ReadyInv

\* The end of a check fills the cache and frees the lock.
LEMMA CheckEnds ==
  ASSUME ReadyInv, NEW p \in Prober, ProbeEnds(p)
  PROVE  ReadyInv'
<1>1. ReadyTypes /\ LockHeld /\ CacheTrue /\ ReadyFresh
  BY DEF ReadyInv
<1>2. /\ probers[p] = "checking" /\ probeLock' = "free"
      /\ checkedAt' = now /\ problem' = (db # "ok")
      /\ found' = [found EXCEPT ![db = "ok"] = now] /\ Conclude(p, db # "ok")
      /\ UNCHANGED <<now, checks, pipelineUp, persisting>>
  BY DEF ProbeEnds, retentionVars, healthVars
<1>3. now \in Nat /\ now # None /\ problem' \in BOOLEAN
  BY <1>1, <1>2 DEF ReadyTypes, None
<1>4. /\ found' \in [BOOLEAN -> Nat \cup {None}]
      /\ IF problem' THEN found'[FALSE] = now ELSE found'[TRUE] = now
  <2>1. found \in [BOOLEAN -> Nat \cup {None}]
    BY <1>1 DEF ReadyTypes
  <2>2. CASE db = "ok"
    <3>1. found' = [found EXCEPT ![TRUE] = now] /\ ~problem'
      BY <1>2, <2>2
    <3>2. QED
      BY <1>3, <2>1, <3>1
  <2>3. CASE db # "ok"
    <3>1. found' = [found EXCEPT ![FALSE] = now] /\ problem'
      BY <1>2, <2>3
    <3>2. QED
      BY <1>3, <2>1, <3>1
  <2>4. QED
    BY <2>2, <2>3
<1>5. /\ probers' \in [Prober -> {"idle", "queued", "checking"}]
      /\ probers' = [probers EXCEPT ![p] = "idle"]
      /\ answer' \in [ready : BOOLEAN, cause : {"none", "pipeline", "database", "writes"},
                      at : Nat]
      /\ answer'.at = now /\ (answer'.ready => ~problem')
      /\ answer'.cause = "database" => problem'
  <2>1. PICK bad \in BOOLEAN : bad = (db # "ok")
    OBVIOUS
  <2>2. Conclude(p, bad) /\ problem' = bad
    BY <1>2, <2>1
  <2>3. QED
    BY <1>1, <2>2, ConcludeAnswers
<1>6. ReadyTypes'
  BY <1>1, <1>2, <1>3, <1>4, <1>5 DEF ReadyTypes
<1>7. LockHeld'
  <2>1. \A q \in Prober \ {p} : probers[q] # "checking"
    BY <1>1, <1>2 DEF LockHeld
  <2>2. \A q \in Prober : probers'[q] # "checking"
    BY <1>1, <1>5, <2>1 DEF ReadyTypes
  <2>3. QED
    BY <1>2, <2>2, ReadyAssumption DEF LockHeld
<1>8. CacheTrue'
  <2>1. checks # <<>> => Len(checks) \in 1..Len(checks)
    BY <1>1 DEF ReadyTypes
  <2>2. checkedAt' # None /\ checkedAt' <= now' /\ now' = now
    BY <1>2, <1>3
  <2>3. IF problem' THEN found'[FALSE] = checkedAt' ELSE found'[TRUE] = checkedAt'
    BY <1>2, <1>4
  <2>4. /\ \A i \in 1..Len(checks') : checks'[i] <= now'
        /\ checks' # <<>> => checks'[Len(checks')] <= checkedAt'
    BY <1>1, <1>2, <2>1 DEF CacheTrue
  <2>5. QED
    BY <2>2, <2>3, <2>4 DEF CacheTrue
<1>9. ReadyFresh'
  <2>1. now - now < ReadyCache
    BY <1>3, ReadyAssumption
  <2>2. /\ answer'.ready => found'[TRUE] = now
        /\ answer'.cause = "database" => found'[FALSE] = now
    BY <1>4, <1>5
  <2>3. QED
    BY <1>1, <1>2, <1>3, <1>5, <2>1, <2>2 DEF ReadyFresh
<1>10. QED
  BY <1>6, <1>7, <1>8, <1>9 DEF ReadyInv

\* The readiness invariant is inductive.
LEMMA ReadyNext == ReadyInv /\ [Next]_vars => ReadyInv'
<1> SUFFICES ASSUME ReadyInv, [Next]_vars PROVE ReadyInv'
  OBVIOUS
<1>1. pipelineUp \in BOOLEAN /\ persisting \in BOOLEAN
  BY DEF ReadyInv, ReadyTypes
<1>2. CASE \E p \in Prober : ReadyRequest(p) \/ ProbeStep(p)
  BY <1>2, ReadyRequests, CachedAnswers, CheckBegins, CheckEnds DEF ProbeStep
<1>3. CASE UNCHANGED apiVars /\ (Inserts \/ PrunerStep \/ LateDelete)
  <2>1. now' = now
    BY <1>3 DEF Inserts, Insert, PrunerStep, PruneBegins, PruneOneBatch, BetweenBatches,
       PruneFails, PrunerWakes, LateDelete
  <2>2. QED
    BY <1>1, <1>3, <2>1, ReadyKept DEF apiVars, healthVars
<1>4. CASE \/ \E c \in Client, authenticated \in BOOLEAN : OtherRequest(c, authenticated)
           \/ \E limit \in PageSizes : PageBegins(Walker, limit)
           \/ PageEnds
  BY <1>1, <1>4, ReadyKept DEF OtherRequest, PageBegins, PageEnds, retentionVars, healthVars
<1>5. CASE HealthChanges
  BY <1>1, <1>5, ReadyKept DEF HealthChanges, retentionVars
<1>6. CASE Tick
  BY <1>1, <1>6, ReadyKept DEF Tick, apiVars, healthVars
<1>7. CASE PipelineDies \/ Terminate \/ Shutdown \/ UNCHANGED vars
  <2>1. now' = now /\ UNCHANGED <<readyVars, persisting>> /\ pipelineUp' \in BOOLEAN
    BY <1>1, <1>7 DEF PipelineDies, Terminate, Terminated, Shutdown, ShutDownForRestart,
       StopBegins, PrunerAwaited, Dispose, retentionVars, healthVars, vars, apiVars
  <2>2. QED
    BY <1>1, <2>1, ReadyKept
<1>8. QED
  BY <1>2, <1>3, <1>4, <1>5, <1>6, <1>7 DEF Next, Exited

\* Readiness checks are ReadyCache apart however many callers there are, and every answer
\* rests on a check that ended less than that before it.
THEOREM ReadinessFresh == Spec => []ReadyFresh
<1>1. ReadyInv => ReadyFresh
  BY DEF ReadyInv
<1>2. QED
  BY <1>1, ReadyInit, ReadyNext, PTL DEF Spec

(***************************************************************************)
(* Retention.  A cutoff, once taken, only gets older, whether it belongs to *)
(* the pass in progress, to a delete given up at its deadline or to the     *)
(* last complete pass.  A row removed is older than the clock by more than  *)
(* the period, so it never equals one that is inserted: no row is counted   *)
(* twice, though ids come back.                                             *)
(***************************************************************************)

InPass == pruner \in {"delete", "between"}

\* A time at or before the cutoff a pass that begins now would take.
PastCutoff(t) == t \in Int /\ t <= now - RetentionPeriod

Told(S) == {d \in S : d.told}

RetentionTypes ==
  /\ now \in Nat /\ now >= RetentionPeriod
  /\ rows = [k \in Kind |-> rows[k]] /\ removed = [k \in Kind |-> removed[k]]
  /\ pruned \in [Kind -> Nat] /\ deleted \in [Kind -> Nat]
  /\ \A k \in Kind : IsFiniteSet(rows[k]) /\ IsFiniteSet(removed[k])

Cutoffs ==
  /\ InPass => PastCutoff(cutoff)
  /\ \A limit \in lateDeletes : PastCutoff(limit)
  /\ PastCutoff(swept)

TableAges ==
  \A k \in Kind :
    /\ \A r \in rows[k] : r.at \in Nat /\ r.at <= now
    /\ \A d \in removed[k] :
         /\ d.at \in Nat /\ d.at <= now /\ d.row.at \in Nat
         /\ d.at - d.row.at > RetentionPeriod
         /\ d.row \notin rows[k]

SweptClean == swept # None => \A k \in Kind : Expired(k, swept) = {}

Totals ==
  /\ ~InPass => deleted = NoRows
  /\ \A k \in Kind : pruned[k] + deleted[k] = Cardinality(Told(removed[k]))

RetentionInv == RetentionTypes /\ Cutoffs /\ TableAges /\ SweptClean /\ Totals

\* What retention promises follows.
LEMMA RetentionInvExact == RetentionInv => RetentionExact
<1> SUFFICES ASSUME RetentionInv, NEW k \in Kind
             PROVE  /\ \A d \in removed[k] : d.at - d.row.at > RetentionPeriod
                    /\ swept # None => Expired(k, swept) = {}
                    /\ pruner \in {"start", "sleep", "done"} =>
                         pruned[k] = Cardinality({d \in removed[k] : d.told})
  BY DEF RetentionExact
<1>1. /\ \A d \in removed[k] : d.at - d.row.at > RetentionPeriod
      /\ swept # None => Expired(k, swept) = {}
  BY DEF RetentionInv, TableAges, SweptClean
<1>2. ASSUME pruner \in {"start", "sleep", "done"}
      PROVE  pruned[k] = Cardinality({d \in removed[k] : d.told})
  <2>1. deleted[k] = 0 /\ pruned[k] \in Nat
    BY <1>2 DEF RetentionInv, RetentionTypes, Totals, InPass, NoRows
  <2>2. pruned[k] + deleted[k] = Cardinality(Told(removed[k]))
    BY DEF RetentionInv, Totals
  <2>3. QED
    BY <2>1, <2>2 DEF Told
<1>3. QED
  BY <1>1, <1>2

\* The tables are empty at first and the pruner is not in a pass.
LEMMA RetentionInitially == RetentionInit => RetentionInv
<1> SUFFICES ASSUME RetentionInit PROVE RetentionInv
  OBVIOUS
<1> USE DEF RetentionInit
<1>1. RetentionTypes
  BY RetentionAssumption, FS_EmptySet DEF RetentionTypes, NoRows
<1>2. ~InPass /\ Cutoffs
  BY RetentionAssumption DEF InPass, Cutoffs, PastCutoff, None
<1>3. TableAges /\ SweptClean
  BY DEF TableAges, SweptClean
<1>4. Totals
  <2>1. \A k \in Kind : Told(removed[k]) = {} /\ pruned[k] + deleted[k] = 0
    BY DEF Told, NoRows
  <2>2. QED
    BY <1>2, <2>1, FS_EmptySet DEF Totals
<1>5. QED
  BY <1>1, <1>2, <1>3, <1>4 DEF RetentionInv

\* The records of what is removed are as many as the rows, and none was there before.
LEMMA RemovedRecords ==
  ASSUME NEW R, NEW G, NEW new, IsFiniteSet(R), IsFiniteSet(G), ExistsBijection(G, new),
         \A d \in R : d.row \notin G, \A d \in new : d.row \in G
  PROVE  /\ IsFiniteSet(R \cup new)
         /\ (\A d \in new : d.told) =>
              Cardinality(Told(R \cup new)) = Cardinality(Told(R)) + Cardinality(G)
         /\ (\A d \in new : ~d.told) => Told(R \cup new) = Told(R)
         /\ Cardinality(Told(R)) \in Nat /\ Cardinality(G) \in Nat
<1>1. IsFiniteSet(new) /\ Cardinality(new) = Cardinality(G) /\ Cardinality(G) \in Nat
  BY FS_Bijection, FS_CardinalityType
<1>2. Told(R) \in SUBSET R
  BY DEF Told
<1>3. IsFiniteSet(Told(R)) /\ Cardinality(Told(R)) \in Nat
  BY <1>2, FS_Subset, FS_CardinalityType
<1>4. IsFiniteSet(R \cup new)
  BY <1>1, FS_Union
<1>5. R \cap new = {}
  OBVIOUS
<1>6. ASSUME \A d \in new : d.told
      PROVE  Cardinality(Told(R \cup new)) = Cardinality(Told(R)) + Cardinality(G)
  <2>1. Told(R \cup new) = Told(R) \cup new
    BY <1>6 DEF Told
  <2>2. Told(R) \cap new = {}
    BY <1>2, <1>5
  <2>3. Cardinality({}) = 0
    BY FS_EmptySet
  <2>4. Cardinality(Told(R) \cup new)
          = Cardinality(Told(R)) + Cardinality(new) - Cardinality(Told(R) \cap new)
    BY <1>1, <1>3, FS_Union
  <2>5. PICK a \in Nat, g \in Nat : a = Cardinality(Told(R)) /\ g = Cardinality(G)
    BY <1>1, <1>3
  <2>6. Cardinality(Told(R) \cup new) = a + g - 0
    BY <1>1, <2>2, <2>3, <2>4, <2>5
  <2>7. a + g - 0 = a + g
    OBVIOUS
  <2>8. QED
    BY <2>1, <2>5, <2>6, <2>7
<1>7. ASSUME \A d \in new : ~d.told PROVE Told(R \cup new) = Told(R)
  BY <1>7 DEF Told
<1>8. QED
  BY <1>1, <1>3, <1>4, <1>6, <1>7

\* A batch takes rows past the cutoff only, all of them if it comes back short, and a row
\* removed is recorded once.
LEMMA DeleteKeeps ==
  ASSUME RetentionInv, NEW limit, PastCutoff(limit), NEW gone \in BatchesOf(limit),
         NEW told \in BOOLEAN, Delete(gone, told), now' = now
  PROVE  /\ rows' = [k \in Kind |-> rows'[k]] /\ removed' = [k \in Kind |-> removed'[k]]
         /\ \A k \in Kind : IsFiniteSet(rows'[k]) /\ IsFiniteSet(removed'[k])
         /\ \A k \in Kind : rows'[k] \subseteq rows[k]
         /\ TableAges'
         /\ \A k \in Kind :
              /\ Cardinality(gone[k]) \in Nat
              /\ Cardinality(Told(removed'[k]))
                   = Cardinality(Told(removed[k])) + (IF told THEN Cardinality(gone[k]) ELSE 0)
              /\ Cardinality(gone[k]) < PruneBatch => \A r \in rows'[k] : ~(r.at < limit)
<1>1. RetentionTypes /\ TableAges
  BY DEF RetentionInv
<1>2. /\ rows' = [k \in Kind |-> rows[k] \ gone[k]]
      /\ removed' = [k \in Kind |->
           removed[k] \cup {[row |-> r, at |-> now, told |-> told] : r \in gone[k]}]
  BY DEF Delete
<1>3. rows' = [k \in Kind |-> rows'[k]] /\ removed' = [k \in Kind |-> removed'[k]]
  BY <1>2
<1>4. limit \in Int /\ limit <= now - RetentionPeriod /\ now \in Nat /\ RetentionPeriod \in Nat
  BY <1>1, RetentionAssumption DEF PastCutoff, RetentionTypes
<1>5. ASSUME NEW k \in Kind
      PROVE  /\ IsFiniteSet(rows'[k]) /\ IsFiniteSet(removed'[k])
             /\ rows'[k] \subseteq rows[k]
             /\ Cardinality(gone[k]) \in Nat
             /\ Cardinality(Told(removed'[k]))
                  = Cardinality(Told(removed[k])) + (IF told THEN Cardinality(gone[k]) ELSE 0)
             /\ Cardinality(gone[k]) < PruneBatch => \A r \in rows'[k] : ~(r.at < limit)
             /\ \A r \in rows'[k] : r.at \in Nat /\ r.at <= now'
             /\ \A d \in removed'[k] :
                  /\ d.at \in Nat /\ d.at <= now' /\ d.row.at \in Nat
                  /\ d.at - d.row.at > RetentionPeriod
                  /\ d.row \notin rows'[k]
  <2> DEFINE X == Expired(k, limit)
             G == gone[k]
             R == removed[k]
             new == {[row |-> r, at |-> now, told |-> told] : r \in G}
  <2>1. G \subseteq X /\ Cardinality(G) = Lesser(PruneBatch, Cardinality(X))
    BY DEF BatchesOf
  <2>2. X \subseteq rows[k] /\ (\A r \in X : r.at < limit) /\ IsFiniteSet(rows[k])
        /\ IsFiniteSet(R) /\ \A r \in rows[k] \ X : ~(r.at < limit)
    BY <1>1 DEF Expired, RetentionTypes
  <2>3. rows'[k] = rows[k] \ G /\ removed'[k] = R \cup new
    BY <1>2
  <2>4. /\ \A r \in rows[k] : r.at \in Nat /\ r.at <= now
        /\ \A d \in R :
             /\ d.at \in Nat /\ d.at <= now /\ d.row.at \in Nat
             /\ d.at - d.row.at > RetentionPeriod
             /\ d.row \notin rows[k]
    BY <1>1 DEF TableAges
  <2> HIDE DEF X, G, R
  <2>5. IsFiniteSet(X) /\ IsFiniteSet(G) /\ IsFiniteSet(rows[k] \ G)
    <3>1. IsFiniteSet(X)
      BY <2>2, FS_Subset
    <3>2. IsFiniteSet(G)
      BY <2>1, <3>1, FS_Subset
    <3>3. rows[k] \ G \in SUBSET rows[k]
      OBVIOUS
    <3>4. IsFiniteSet(rows[k] \ G)
      BY <2>2, <3>3, FS_Subset
    <3>5. QED
      BY <3>1, <3>2, <3>4
  <2>6. Cardinality(X) \in Nat /\ Cardinality(G) \in Nat
    BY <2>5, FS_CardinalityType
  <2>7. \A d \in R : d.row \notin G
    BY <2>1, <2>2, <2>4
  <2>8. /\ IsFiniteSet(R \cup new)
        /\ told => Cardinality(Told(R \cup new)) = Cardinality(Told(R)) + Cardinality(G)
        /\ ~told => Told(R \cup new) = Told(R)
        /\ Cardinality(Told(R)) \in Nat /\ Cardinality(G) \in Nat
    <3>1. ExistsBijection(G, new)
      <4> DEFINE f == [r \in G |-> [row |-> r, at |-> now, told |-> told]]
      <4>1. f \in [G -> new]
        OBVIOUS
      <4>2. \A a, b \in G : f[a] = f[b] => a = b
        <5> SUFFICES ASSUME NEW a \in G, NEW b \in G, f[a] = f[b] PROVE a = b
          OBVIOUS
        <5>1. f[a].row = a /\ f[b].row = b
          OBVIOUS
        <5>2. QED
          BY <5>1
      <4>3. \A d \in new : \E a \in G : f[a] = d
        OBVIOUS
      <4> HIDE DEF f, new
      <4>4. f \in Bijection(G, new)
        BY <4>1, <4>2, <4>3 DEF Bijection, Injection, Surjection, IsInjective
      <4>5. QED
        BY <4>4 DEF ExistsBijection
    <3>2. /\ \A d \in new : d.row \in G
          /\ told => \A d \in new : d.told
          /\ ~told => \A d \in new : ~d.told
      OBVIOUS
    <3> HIDE DEF new
    <3>3. QED
      BY <2>2, <2>5, <2>7, <3>1, <3>2, RemovedRecords
  <2>9. \A d \in new : d.row \in G /\ d.at = now
    OBVIOUS
  <2> HIDE DEF new
  <2>10. Cardinality(Told(R \cup new))
           = Cardinality(Told(R)) + (IF told THEN Cardinality(G) ELSE 0)
    BY <2>8
  <2>11. ASSUME Cardinality(G) < PruneBatch PROVE \A r \in rows[k] \ G : ~(r.at < limit)
    <3>1. Cardinality(G) = Cardinality(X)
      BY <2>1, <2>6, <2>11, RetentionAssumption DEF Lesser
    <3>2. G = X
      BY <2>1, <2>5, <3>1, FS_Subset
    <3>3. QED
      BY <2>2, <3>2
  <2>12. \A d \in R \cup new :
           /\ d.at \in Nat /\ d.at <= now /\ d.row.at \in Nat
           /\ d.at - d.row.at > RetentionPeriod
           /\ d.row \notin rows[k] \ G
    <3> TAKE d \in R \cup new
    <3>1. CASE d \in R
      BY <2>4, <3>1
    <3>2. CASE d \in new
      <4>1. d.at = now /\ d.row \in G /\ d.row \in rows[k] /\ d.row.at < limit
        BY <2>1, <2>2, <2>9, <3>2
      <4>2. d.row.at \in Nat
        BY <2>4, <4>1
      <4>3. QED
        BY <1>4, <4>1, <4>2
    <3>3. QED
      BY <3>1, <3>2
  <2>13. QED
    BY <2>3, <2>4, <2>5, <2>6, <2>8, <2>10, <2>11, <2>12 DEF G, R
<1>6. TableAges'
  BY <1>5 DEF TableAges
<1>7. QED
  BY <1>3, <1>5, <1>6

\* What else the process does, and the passing of time, keeps the retention invariant.
LEMMA RetentionKept ==
  ASSUME RetentionInv, UNCHANGED <<tableVars, prunerVars>>, now' \in {now, now + 1}
  PROVE  RetentionInv'
<1> USE DEF tableVars, prunerVars
<1>1. /\ now \in Nat /\ now' \in Nat /\ now' >= now /\ RetentionPeriod \in Nat
      /\ now' >= RetentionPeriod
  BY RetentionAssumption DEF RetentionInv, RetentionTypes
<1>2. RetentionTypes' /\ SweptClean' /\ Totals'
  BY <1>1 DEF RetentionInv, RetentionTypes, SweptClean, Expired, Totals, InPass
<1>3. Cutoffs'
  <2>1. CASE now' = now
    BY <2>1 DEF RetentionInv, Cutoffs, PastCutoff, InPass
  <2>2. CASE now' = now + 1
    <3>1. \A t : PastCutoff(t) => t \in Int /\ t <= (now + 1) - RetentionPeriod
      BY <1>1 DEF PastCutoff
    <3>2. QED
      BY <2>2, <3>1 DEF RetentionInv, Cutoffs, PastCutoff, InPass
  <2>3. QED
    BY <2>1, <2>2
<1>4. TableAges'
  <2>1. \A t \in Nat : t <= now => t <= now'
    BY <1>1
  <2>2. QED
    BY <2>1 DEF RetentionInv, TableAges
<1>5. QED
  BY <1>2, <1>3, <1>4 DEF RetentionInv

\* A row inserted now has not expired, and was never removed.
LEMMA InsertRetention ==
  ASSUME RetentionInv, NEW k \in Kind, Insert(k)
  PROVE  RetentionInv'
<1> DEFINE r == [id |-> NextId(k), at |-> now]
<1>1. RetentionTypes /\ Cutoffs /\ TableAges /\ SweptClean /\ Totals
  BY DEF RetentionInv
<1>2. rows' = [rows EXCEPT ![k] = @ \cup {r}] /\ now' = now /\ UNCHANGED prunerVars
  BY DEF Insert
<1>3. r.at = now /\ now \in Nat /\ now >= RetentionPeriod /\ RetentionPeriod \in Nat
  BY <1>1, RetentionAssumption DEF RetentionTypes
<1> HIDE DEF r
<1>4. \A j \in Kind : rows'[j] = IF j = k THEN rows[k] \cup {r} ELSE rows[j]
  BY <1>1, <1>2 DEF RetentionTypes
<1>5. RetentionTypes'
  <2>1. rows' = [j \in Kind |-> rows'[j]]
    BY <1>1, <1>2 DEF RetentionTypes
  <2>2. IsFiniteSet(rows[k] \cup {r})
    BY <1>1, FS_AddElement DEF RetentionTypes
  <2>3. QED
    BY <1>1, <1>2, <1>4, <2>1, <2>2 DEF RetentionTypes, prunerVars
<1>6. Cutoffs' /\ Totals'
  BY <1>1, <1>2 DEF Cutoffs, PastCutoff, InPass, Totals, prunerVars
<1>7. TableAges'
  <2> SUFFICES ASSUME NEW j \in Kind
               PROVE  /\ \A s \in rows'[j] : s.at \in Nat /\ s.at <= now
                      /\ \A d \in removed[j] :
                           /\ d.at \in Nat /\ d.at <= now /\ d.row.at \in Nat
                           /\ d.at - d.row.at > RetentionPeriod
                           /\ d.row \notin rows'[j]
    BY <1>2 DEF TableAges, prunerVars
  <2>1. /\ \A s \in rows[j] : s.at \in Nat /\ s.at <= now
        /\ \A d \in removed[j] :
             /\ d.at \in Nat /\ d.at <= now /\ d.row.at \in Nat
             /\ d.at - d.row.at > RetentionPeriod
             /\ d.row \notin rows[j]
    BY <1>1 DEF TableAges
  <2>2. \A d \in removed[j] : d.row # r
    <3> TAKE d \in removed[j]
    <3>1. d.row.at # now
      BY <1>3, <2>1
    <3>2. QED
      BY <1>3, <3>1
  <2>3. r.at \in Nat /\ r.at <= now
    BY <1>3
  <2>4. QED
    BY <1>4, <2>1, <2>2, <2>3
<1>8. SweptClean'
  <2> SUFFICES ASSUME swept # None, NEW j \in Kind, NEW s \in rows'[j], s.at < swept
               PROVE  FALSE
    BY <1>2 DEF SweptClean, Expired, prunerVars
  <2>1. swept \in Int /\ swept <= now
    BY <1>1, <1>3 DEF Cutoffs, PastCutoff
  <2>2. s # r
    BY <1>3, <2>1
  <2>3. s \in rows[j]
    BY <1>4, <2>2
  <2>4. QED
    BY <1>1, <2>3 DEF SweptClean, Expired
<1>9. QED
  BY <1>5, <1>6, <1>7, <1>8 DEF RetentionInv

\* A batch that answers: what it deleted is counted, and a short one ends the pass with
\* nothing expired left.
LEMMA BatchRetention ==
  ASSUME RetentionInv, PruneOneBatch
  PROVE  RetentionInv'
<1>1. RetentionTypes /\ Cutoffs /\ TableAges /\ SweptClean /\ Totals
  BY DEF RetentionInv
<1> DEFINE counts(g) == [k \in Kind |-> deleted[k] + Cardinality(g[k])]
<1>2. PICK gone \in BatchesOf(cutoff) :
        /\ Delete(gone, TRUE)
        /\ IF Short(gone)
           THEN PassOver(counts(gone)) /\ swept' = cutoff
           ELSE /\ deleted' = counts(gone) /\ pruner' = "between"
                /\ UNCHANGED <<pruned, cutoff, swept>>
  BY DEF PruneOneBatch
<1>3. pruner = "delete" /\ now' = now /\ lateDeletes' = lateDeletes /\ TRUE \in BOOLEAN
  BY DEF PruneOneBatch
<1>4. PastCutoff(cutoff) /\ PastCutoff(swept)
  BY <1>1, <1>3 DEF Cutoffs, InPass
<1>5. /\ rows' = [k \in Kind |-> rows'[k]] /\ removed' = [k \in Kind |-> removed'[k]]
      /\ \A k \in Kind : IsFiniteSet(rows'[k]) /\ IsFiniteSet(removed'[k])
      /\ \A k \in Kind : rows'[k] \subseteq rows[k]
      /\ TableAges'
      /\ \A k \in Kind :
           /\ Cardinality(gone[k]) \in Nat
           /\ Cardinality(Told(removed'[k]))
                = Cardinality(Told(removed[k])) + (IF TRUE THEN Cardinality(gone[k]) ELSE 0)
           /\ Cardinality(gone[k]) < PruneBatch => \A r \in rows'[k] : ~(r.at < cutoff)
  BY <1>2, <1>3, <1>4, DeleteKeeps
<1>6. pruned \in [Kind -> Nat] /\ deleted \in [Kind -> Nat] /\ now \in Nat
  BY <1>1 DEF RetentionTypes
<1>7. \A k \in Kind :
        /\ Cardinality(gone[k]) \in Nat
        /\ Cardinality(Told(removed'[k])) = pruned[k] + (deleted[k] + Cardinality(gone[k]))
  <2> TAKE k \in Kind
  <2>1. PICK g \in Nat, p \in Nat, d \in Nat :
          g = Cardinality(gone[k]) /\ p = pruned[k] /\ d = deleted[k]
    BY <1>5, <1>6
  <2>2. Cardinality(Told(removed'[k])) = p + d + g
    BY <1>1, <1>5, <2>1 DEF Totals
  <2>3. p + d + g = p + (d + g)
    BY <2>1
  <2>4. QED
    BY <2>1, <2>2, <2>3
<1>8. counts(gone) \in [Kind -> Nat]
  <2> SUFFICES ASSUME NEW k \in Kind PROVE deleted[k] + Cardinality(gone[k]) \in Nat
    OBVIOUS
  <2>1. QED
    BY <1>6, <1>7
<1>9. CASE Short(gone)
  <2>1. /\ pruned' = [k \in Kind |-> pruned[k] + counts(gone)[k]]
        /\ pruner' = "sleep" /\ deleted' = NoRows /\ swept' = cutoff
    BY <1>2, <1>9 DEF PassOver
  <2>2. \A k \in Kind : pruned'[k] = pruned[k] + (deleted[k] + Cardinality(gone[k]))
    BY <2>1
  <2>3. \A k \in Kind : pruned'[k] = Cardinality(Told(removed'[k])) /\ deleted'[k] = 0
    BY <1>7, <2>1, <2>2 DEF NoRows
  <2>4. \A k \in Kind : pruned'[k] \in Nat
    BY <1>6, <1>7, <2>2
  <2>5. pruned' \in [Kind -> Nat] /\ deleted' \in [Kind -> Nat]
    BY <2>1, <2>4 DEF NoRows
  <2>6. RetentionTypes'
    BY <1>1, <1>3, <1>5, <2>5 DEF RetentionTypes
  <2>7. Cutoffs'
    BY <1>1, <1>3, <1>4, <2>1 DEF Cutoffs, InPass, PastCutoff
  <2>8. SweptClean'
    BY <1>5, <1>9, <2>1 DEF SweptClean, Expired, Short
  <2>9. Totals'
    <3>1. \A k \in Kind : pruned'[k] + deleted'[k] = Cardinality(Told(removed'[k]))
      BY <2>3, <2>4
    <3>2. QED
      BY <2>1, <3>1 DEF Totals, InPass
  <2>10. QED
    BY <1>5, <2>6, <2>7, <2>8, <2>9 DEF RetentionInv
<1>10. CASE ~Short(gone)
  <2>1. deleted' = counts(gone) /\ pruner' = "between" /\ UNCHANGED <<pruned, cutoff, swept>>
    BY <1>2, <1>10
  <2>2. RetentionTypes'
    BY <1>1, <1>3, <1>5, <1>8, <2>1 DEF RetentionTypes
  <2>3. Cutoffs'
    BY <1>1, <1>3, <1>4, <2>1 DEF Cutoffs, InPass, PastCutoff
  <2>4. SweptClean'
    BY <1>1, <1>5, <2>1 DEF SweptClean, Expired
  <2>5. Totals'
    <3>1. \A k \in Kind : deleted'[k] = deleted[k] + Cardinality(gone[k])
      BY <2>1
    <3>2. \A k \in Kind : pruned'[k] + deleted'[k] = Cardinality(Told(removed'[k]))
      BY <1>7, <2>1, <3>1
    <3>3. QED
      BY <2>1, <3>2 DEF Totals, InPass
  <2>6. QED
    BY <1>5, <2>2, <2>3, <2>4, <2>5 DEF RetentionInv
<1>11. QED
  BY <1>9, <1>10

\* A pass that ends keeps what it had counted.
LEMMA PassOverTotals ==
  ASSUME RetentionInv, PassOver(deleted)
  PROVE  /\ pruned' \in [Kind -> Nat] /\ deleted' \in [Kind -> Nat]
         /\ deleted' = NoRows /\ pruner' = "sleep"
         /\ \A k \in Kind : pruned'[k] + deleted'[k] = pruned[k] + deleted[k]
<1>1. pruned \in [Kind -> Nat] /\ deleted \in [Kind -> Nat]
  BY DEF RetentionInv, RetentionTypes
<1>2. /\ pruned' = [k \in Kind |-> pruned[k] + deleted[k]]
      /\ deleted' = NoRows /\ pruner' = "sleep"
  BY DEF PassOver
<1>3. \A k \in Kind : pruned'[k] = pruned[k] + deleted[k] /\ pruned'[k] \in Nat
  BY <1>1, <1>2
<1>4. \A k \in Kind : deleted'[k] = 0
  BY <1>2 DEF NoRows
<1>5. \A k \in Kind : pruned'[k] + deleted'[k] = pruned'[k]
  BY <1>3, <1>4
<1>6. pruned' \in [Kind -> Nat] /\ deleted' \in [Kind -> Nat]
  BY <1>2, <1>3 DEF NoRows
<1>7. QED
  BY <1>2, <1>3, <1>5, <1>6

\* A pass cut short between two batches.
LEMMA BetweenRetention ==
  ASSUME RetentionInv, BetweenBatches
  PROVE  RetentionInv'
<1>1. RetentionTypes /\ Cutoffs /\ TableAges /\ SweptClean /\ Totals
  BY DEF RetentionInv
<1>2. pruner = "between" /\ UNCHANGED <<now, rows, removed, lateDeletes, swept>>
  BY DEF BetweenBatches, tableVars
<1>3. TableAges' /\ SweptClean'
  BY <1>1, <1>2 DEF TableAges, SweptClean, Expired
<1>4. CASE stopPruning
  <2>1. PassOver(deleted)
    BY <1>4 DEF BetweenBatches
  <2>2. /\ pruned' \in [Kind -> Nat] /\ deleted' \in [Kind -> Nat]
        /\ deleted' = NoRows /\ pruner' = "sleep"
        /\ \A k \in Kind : pruned'[k] + deleted'[k] = pruned[k] + deleted[k]
    BY <2>1, PassOverTotals
  <2>3. QED
    BY <1>1, <1>2, <1>3, <2>2
       DEF RetentionInv, RetentionTypes, Cutoffs, PastCutoff, InPass, Totals
<1>5. CASE ~stopPruning
  BY <1>1, <1>2, <1>3, <1>5
     DEF BetweenBatches, RetentionInv, RetentionTypes, Cutoffs, PastCutoff, InPass, Totals
<1>6. QED
  BY <1>4, <1>5

\* A delete nobody is told of, of a cutoff in the past: the counts stay as they are.
LEMMA UntoldDelete ==
  ASSUME RetentionInv, NEW limit, PastCutoff(limit), now' = now, UNCHANGED swept,
         \/ UNCHANGED <<rows, removed>>
         \/ \E gone \in BatchesOf(limit) : Delete(gone, FALSE)
  PROVE  /\ rows' = [k \in Kind |-> rows'[k]] /\ removed' = [k \in Kind |-> removed'[k]]
         /\ \A k \in Kind : IsFiniteSet(rows'[k]) /\ IsFiniteSet(removed'[k])
         /\ TableAges' /\ SweptClean'
         /\ \A k \in Kind : Cardinality(Told(removed'[k])) = Cardinality(Told(removed[k]))
<1>1. RetentionTypes /\ TableAges /\ SweptClean
  BY DEF RetentionInv
<1>2. CASE UNCHANGED <<rows, removed>>
  BY <1>1, <1>2 DEF RetentionTypes, TableAges, SweptClean, Expired
<1>3. ASSUME NEW gone \in BatchesOf(limit), Delete(gone, FALSE)
      PROVE  /\ rows' = [k \in Kind |-> rows'[k]] /\ removed' = [k \in Kind |-> removed'[k]]
             /\ \A k \in Kind : IsFiniteSet(rows'[k]) /\ IsFiniteSet(removed'[k])
             /\ TableAges' /\ SweptClean'
             /\ \A k \in Kind : Cardinality(Told(removed'[k])) = Cardinality(Told(removed[k]))
  <2>1. FALSE \in BOOLEAN
    OBVIOUS
  <2>2. /\ rows' = [k \in Kind |-> rows'[k]] /\ removed' = [k \in Kind |-> removed'[k]]
        /\ \A k \in Kind : IsFiniteSet(rows'[k]) /\ IsFiniteSet(removed'[k])
        /\ \A k \in Kind : rows'[k] \subseteq rows[k]
        /\ TableAges'
        /\ \A k \in Kind :
             /\ Cardinality(gone[k]) \in Nat
             /\ Cardinality(Told(removed'[k]))
                  = Cardinality(Told(removed[k])) + (IF FALSE THEN Cardinality(gone[k]) ELSE 0)
             /\ Cardinality(gone[k]) < PruneBatch => \A r \in rows'[k] : ~(r.at < limit)
    BY <1>3, <2>1, DeleteKeeps
  <2>3. SweptClean'
    BY <1>1, <2>2 DEF SweptClean, Expired
  <2>4. \A k \in Kind : Cardinality(Told(removed'[k])) = Cardinality(Told(removed[k]))
    <3> TAKE k \in Kind
    <3>1. pruned[k] \in Nat /\ deleted[k] \in Nat
      BY <1>1 DEF RetentionTypes
    <3>2. Cardinality(Told(removed[k])) \in Nat
      BY <3>1 DEF RetentionInv, Totals
    <3>3. QED
      BY <2>2, <3>2
  <2>5. QED
    BY <2>2, <2>3, <2>4
<1>4. QED
  BY <1>2, <1>3

\* A pass that begins takes its cutoff from the clock.
LEMMA BeginRetention ==
  ASSUME RetentionInv, PruneBegins
  PROVE  RetentionInv'
<1>1. RetentionTypes /\ Cutoffs /\ TableAges /\ SweptClean /\ Totals
  BY DEF RetentionInv
<1>2. /\ pruner = "start" /\ pruner' = "delete" /\ cutoff' = now - RetentionPeriod
      /\ deleted' = NoRows /\ UNCHANGED <<now, rows, pruned, lateDeletes, removed, swept>>
  BY DEF PruneBegins, tableVars
<1>3. deleted = NoRows
  BY <1>1, <1>2 DEF Totals, InPass
<1>4. cutoff' \in Int /\ cutoff' <= now - RetentionPeriod
  BY <1>1, <1>2, RetentionAssumption DEF RetentionTypes
<1>5. Cutoffs'
  BY <1>1, <1>2, <1>4 DEF Cutoffs, PastCutoff, InPass
<1>6. RetentionTypes' /\ TableAges' /\ SweptClean' /\ Totals'
  BY <1>1, <1>2, <1>3 DEF RetentionTypes, TableAges, SweptClean, Expired, Totals, InPass
<1>7. QED
  BY <1>5, <1>6 DEF RetentionInv

\* A batch that fails ends its pass; whatever it deleted, prune() does not count.
LEMMA FailRetention ==
  ASSUME RetentionInv, PruneFails
  PROVE  RetentionInv'
<1>1. RetentionTypes /\ Cutoffs /\ TableAges /\ SweptClean /\ Totals
  BY DEF RetentionInv
<1>2. pruner = "delete" /\ now' = now /\ swept' = swept /\ PassOver(deleted)
  BY DEF PruneFails
<1>3. PastCutoff(cutoff)
  BY <1>1, <1>2 DEF Cutoffs, InPass
<1>4. /\ lateDeletes' \subseteq lateDeletes \cup {cutoff}
      /\ \/ UNCHANGED <<rows, removed>>
         \/ \E gone \in BatchesOf(cutoff) : Delete(gone, FALSE)
  BY DEF PruneFails
<1>5. /\ pruned' \in [Kind -> Nat] /\ deleted' \in [Kind -> Nat]
      /\ deleted' = NoRows /\ pruner' = "sleep"
      /\ \A k \in Kind : pruned'[k] + deleted'[k] = pruned[k] + deleted[k]
  BY <1>2, PassOverTotals
<1>6. /\ rows' = [k \in Kind |-> rows'[k]] /\ removed' = [k \in Kind |-> removed'[k]]
      /\ \A k \in Kind : IsFiniteSet(rows'[k]) /\ IsFiniteSet(removed'[k])
      /\ TableAges' /\ SweptClean'
      /\ \A k \in Kind : Cardinality(Told(removed'[k])) = Cardinality(Told(removed[k]))
  BY <1>2, <1>3, <1>4, UntoldDelete
<1>7. RetentionTypes'
  BY <1>1, <1>2, <1>5, <1>6 DEF RetentionTypes
<1>8. Cutoffs'
  BY <1>1, <1>2, <1>3, <1>4, <1>5 DEF Cutoffs, PastCutoff, InPass
<1>9. Totals'
  BY <1>1, <1>5, <1>6 DEF Totals, InPass
<1>10. QED
  BY <1>6, <1>7, <1>8, <1>9 DEF RetentionInv

\* A delete that outlives its deadline removes rows past its own cutoff only.
LEMMA LateRetention ==
  ASSUME RetentionInv, LateDelete
  PROVE  RetentionInv'
<1>1. RetentionTypes /\ Cutoffs /\ TableAges /\ SweptClean /\ Totals
  BY DEF RetentionInv
<1>2. UNCHANGED <<now, pruner, cutoff, deleted, pruned, swept>>
  BY DEF LateDelete
<1>3. PICK limit \in lateDeletes :
        /\ lateDeletes' = lateDeletes \ {limit}
        /\ \/ UNCHANGED <<rows, removed>>
           \/ \E gone \in BatchesOf(limit) : Delete(gone, FALSE)
  BY DEF LateDelete
<1>4. PastCutoff(limit)
  BY <1>1 DEF Cutoffs
<1>5. /\ rows' = [k \in Kind |-> rows'[k]] /\ removed' = [k \in Kind |-> removed'[k]]
      /\ \A k \in Kind : IsFiniteSet(rows'[k]) /\ IsFiniteSet(removed'[k])
      /\ TableAges' /\ SweptClean'
      /\ \A k \in Kind : Cardinality(Told(removed'[k])) = Cardinality(Told(removed[k]))
  BY <1>2, <1>3, <1>4, UntoldDelete
<1>6. RetentionTypes'
  BY <1>1, <1>2, <1>5 DEF RetentionTypes
<1>7. Cutoffs'
  BY <1>1, <1>2, <1>3 DEF Cutoffs, PastCutoff, InPass
<1>8. Totals'
  BY <1>1, <1>2, <1>5 DEF Totals, InPass
<1>9. QED
  BY <1>5, <1>6, <1>7, <1>8 DEF RetentionInv

\* Waking is not part of a pass.
LEMMA WakeRetention ==
  ASSUME RetentionInv, PrunerWakes
  PROVE  RetentionInv'
BY DEF PrunerWakes, tableVars, RetentionInv, RetentionTypes, Cutoffs, PastCutoff, InPass,
   TableAges, SweptClean, Expired, Totals

\* Every step keeps the retention invariant.
LEMMA RetentionNext == RetentionInv /\ [Next]_vars => RetentionInv'
<1> SUFFICES ASSUME RetentionInv, [Next]_vars PROVE RetentionInv'
  OBVIOUS
<1>1. CASE Inserts
  BY <1>1, InsertRetention DEF Inserts
<1>2. CASE PrunerStep
  BY <1>2, BeginRetention, BatchRetention, BetweenRetention, FailRetention, WakeRetention
     DEF PrunerStep
<1>3. CASE LateDelete
  BY <1>3, LateRetention
<1>4. CASE UNCHANGED retentionVars
  BY <1>4, RetentionKept DEF retentionVars
<1>5. CASE Tick
  BY <1>5, RetentionKept DEF Tick
<1>6. CASE StopBegins
  BY <1>6, RetentionKept DEF StopBegins
<1>7. CASE \/ \E c \in Client, authenticated \in BOOLEAN : OtherRequest(c, authenticated)
           \/ \E limit \in PageSizes : PageBegins(Walker, limit)
           \/ PageEnds \/ HealthChanges \/ PipelineDies \/ Terminate
           \/ ShutDownForRestart \/ PrunerAwaited \/ Dispose
  BY <1>4, <1>7 DEF OtherRequest, PageBegins, PageEnds, HealthChanges, PipelineDies,
     Terminate, ShutDownForRestart, Terminated, PrunerAwaited, Dispose
<1>8. CASE \E p \in Prober : ReadyRequest(p) \/ ProbeStep(p)
  BY <1>4, <1>8 DEF ReadyRequest, ProbeStep, ProbeCached, ProbeBegins, ProbeEnds
<1>9. CASE UNCHANGED vars
  BY <1>4, <1>9 DEF vars
<1>10. QED
  BY <1>1, <1>2, <1>3, <1>5, <1>6, <1>7, <1>8, <1>9 DEF Next, Shutdown, Exited

\* Retention (runtime.py, prune) removes no row younger than the period, leaves nothing
\* expired when a pass runs to its end, and counts each row it was told of once, with
\* inserts between the batches, lost acknowledgements and deletes past their deadline.
THEOREM RetentionHolds == Spec => []RetentionExact
<1>1. Init => RetentionInv
  BY RetentionInitially DEF Init
<1>2. QED
  BY <1>1, RetentionInvExact, RetentionNext, PTL DEF Spec

(***************************************************************************)
(* Pages.  A walk's cursor separates what it has got from what it has still *)
(* to get: all rows got lie at or above it, and a row that was there when   *)
(* the walk began was got, lies below it, or was removed for good (a row    *)
(* inserted later has a later created_at, though it may have the same id).  *)
(***************************************************************************)

Row == [id : Nat \ {0}, at : Nat]

WalkTypes ==
  /\ rows \in [Kind -> SUBSET Row] /\ lastId \in [Kind -> Nat]
  /\ walk \in [kind : Kind, cursor : Nat, limit : Nat \ {0}, got : Seq(SUBSET Row),
               begun : SUBSET Row, on : {"no", "yes", "reading", "done"}]

Gone(k) == {d.row : d \in removed[k]}

Got(r) == \E i \in 1..Len(walk.got) : r \in walk.got[i]

\* The pages lie below one another and above the cursor.
WalkOrder ==
  /\ \A i, j \in 1..Len(walk.got) :
       i < j => \A r \in walk.got[i], s \in walk.got[j] : r.id > s.id
  /\ walk.on # "done" /\ walk.cursor = 0 => walk.got = <<>>
  /\ walk.on # "done" /\ walk.cursor # 0 => \A r \in Row : Got(r) => r.id >= walk.cursor

\* No row that was there is passed over.
WalkSeen ==
  /\ walk.on = "no" => walk.cursor = 0
  /\ \A r \in walk.begun :
       \/ r \in Gone(walk.kind) \/ Got(r)
       \/ /\ walk.on # "done" /\ r \in rows[walk.kind]
          /\ walk.cursor = 0 \/ r.id < walk.cursor

WalkInv == RetentionInv /\ WalkTypes /\ WalkOrder /\ WalkSeen

\* A non-empty set of numbers has a least one.
LEMMA LeastNumber ==
  ASSUME NEW S, S \subseteq Nat, S # {}
  PROVE  Min(S) \in S /\ \A k \in S : Min(S) <= k
<1> DEFINE R == OpToRel(<, Nat)
<1>1. IsWellFoundedOn(R, Nat)
  BY NatLessThanWellFounded
<1>2. \A x, y \in Nat : x < y => <<x, y>> \in R
  BY DEF OpToRel
<1> HIDE DEF R
<1>3. PICK m \in S : \A k \in S : ~(<<k, m>> \in R)
  BY <1>1, WFMin
<1>4. \A k \in S : m <= k
  <2> TAKE k \in S
  <2>1. k \in Nat /\ m \in Nat
    OBVIOUS
  <2>2. ~(k < m)
    BY <1>2, <1>3, <2>1
  <2>3. QED
    BY <2>1, <2>2
<1>5. QED
  BY <1>3, <1>4 DEF Min

\* A smaller part of a finite set has fewer members.
LEMMA FewerMembers ==
  ASSUME NEW S, IsFiniteSet(S), NEW T, T \subseteq S
  PROVE  /\ IsFiniteSet(T) /\ Cardinality(T) \in Nat /\ Cardinality(S) \in Nat
         /\ Cardinality(T) <= Cardinality(S)
         /\ T # S => Cardinality(T) < Cardinality(S)
<1>1. IsFiniteSet(T) /\ Cardinality(T) <= Cardinality(S)
      /\ (Cardinality(S) = Cardinality(T) => S = T)
  BY FS_Subset
<1>2. Cardinality(T) \in Nat /\ Cardinality(S) \in Nat
  BY <1>1, FS_CardinalityType
<1>3. QED
  BY <1>1, <1>2

\* A non-empty finite set of rows has one with none above it.
LEMMA TopRow ==
  ASSUME NEW S, IsFiniteSet(S), S # {}, S \subseteq Row
  PROVE  \E r \in S : \A s \in S : s.id <= r.id
<1> DEFINE Above(r) == {s \in S : s.id > r.id}
           Ns == {Cardinality(Above(r)) : r \in S}
<1>1. \A r \in S : r.id \in Nat
  BY DEF Row
<1>2. \A r \in S : IsFiniteSet(Above(r)) /\ Cardinality(Above(r)) \in Nat
  <2> TAKE r \in S
  <2>1. Above(r) \subseteq S
    OBVIOUS
  <2>2. QED
    BY <2>1, FewerMembers
<1>3. Ns \subseteq Nat /\ Ns # {}
  BY <1>2
<1>4. PICK r \in S : \A s \in S : Cardinality(Above(r)) <= Cardinality(Above(s))
  <2>1. Min(Ns) \in Ns /\ \A n \in Ns : Min(Ns) <= n
    BY <1>3, LeastNumber
  <2>2. PICK r \in S : Min(Ns) = Cardinality(Above(r))
    BY <2>1
  <2>3. \A s \in S : Cardinality(Above(s)) \in Ns
    OBVIOUS
  <2> HIDE DEF Ns
  <2>4. QED
    BY <2>1, <2>2, <2>3
<1>5. ASSUME NEW s \in S, ~(s.id <= r.id) PROVE FALSE
  <2>1. s.id > r.id /\ s \in Above(r) /\ s \notin Above(s)
    BY <1>1, <1>5
  <2>2. Above(s) \subseteq Above(r) /\ Above(s) # Above(r)
    BY <1>1, <2>1
  <2>3. Cardinality(Above(s)) < Cardinality(Above(r))
    <3>1. IsFiniteSet(Above(r))
      BY <1>2
    <3> HIDE DEF Above
    <3>2. QED
      BY <2>2, <3>1, FewerMembers
  <2>4. Cardinality(Above(s)) \in Nat /\ Cardinality(Above(r)) \in Nat
    BY <1>2
  <2>5. Cardinality(Above(r)) <= Cardinality(Above(s))
    BY <1>4
  <2> HIDE DEF Above
  <2>6. QED
    BY <2>3, <2>4, <2>5
<1>6. QED
  BY <1>5

\* What a step may do to the tables: a row stays, or it is gone for good.
RowsMove ==
  /\ rows' \in [Kind -> SUBSET Row] /\ lastId' \in [Kind -> Nat]
  /\ \A k \in Kind :
       Gone(k) \subseteq Gone(k)' /\ \A r \in rows[k] : r \in rows'[k] \/ r \in Gone(k)'

\* The id of the next row.
LEMMA NextIdType ==
  ASSUME RetentionInv, WalkTypes, NEW k \in Kind
  PROVE  NextId(k) \in Nat \ {0}
<1>1. rows[k] \subseteq Row /\ IsFiniteSet(rows[k]) /\ lastId[k] \in Nat
  BY DEF RetentionInv, RetentionTypes, WalkTypes
<1>2. CASE setup.sequence \/ rows[k] = {}
  BY <1>1, <1>2 DEF NextId
<1>3. CASE ~setup.sequence /\ rows[k] # {}
  <2>1. PICK r \in rows[k] : \A s \in rows[k] : s.id <= r.id
    BY <1>1, <1>3, TopRow
  <2> DEFINE S == {s.id : s \in rows[k]}
  <2>2. S \subseteq Nat /\ \A x \in S : x \in Nat
    BY <1>1 DEF Row
  <2>3. r.id \in S /\ \A y \in S : r.id >= y
    BY <2>1, <2>2
  <2>4. NextId(k) = Max(S) + 1
    BY <1>3 DEF NextId
  <2> HIDE DEF S
  <2>5. Max(S) \in S
    BY <2>3 DEF Max
  <2>6. PICK m \in Nat : m = Max(S)
    BY <2>2, <2>5
  <2>7. QED
    BY <2>4, <2>6
<1>4. QED
  BY <1>2, <1>3

\* Inserting a row.
LEMMA InsertMoves ==
  ASSUME RetentionInv, WalkTypes, NEW k \in Kind, Insert(k)
  PROVE  RowsMove
<1>1. now \in Nat /\ NextId(k) \in Nat \ {0}
  BY NextIdType DEF RetentionInv, RetentionTypes
<1>2. PICK r \in Row : r = [id |-> NextId(k), at |-> now]
  BY <1>1 DEF Row
<1>3. /\ rows' = [rows EXCEPT ![k] = rows[k] \cup {r}]
      /\ lastId' = [lastId EXCEPT ![k] = lastId[k] + 1] /\ removed' = removed
  BY <1>2 DEF Insert, prunerVars
<1>4. lastId' \in [Kind -> Nat]
  BY <1>3 DEF WalkTypes
<1>5. rows' \in [Kind -> SUBSET Row] /\ \A j \in Kind : rows[j] \subseteq rows'[j]
  BY <1>3 DEF WalkTypes
<1>6. QED
  BY <1>3, <1>4, <1>5 DEF RowsMove, Gone

\* Deleting a batch.
LEMMA DeleteMoves ==
  ASSUME RetentionInv, WalkTypes, NEW limit, NEW gone \in BatchesOf(limit), NEW told,
         Delete(gone, told), lastId' = lastId
  PROVE  RowsMove
<1>1. rows' \in [Kind -> SUBSET Row]
  BY DEF Delete, WalkTypes
<1>2. ASSUME NEW k \in Kind
      PROVE  Gone(k) \subseteq Gone(k)' /\ \A r \in rows[k] : r \in rows'[k] \/ r \in Gone(k)'
  <2>1. rows'[k] = rows[k] \ gone[k]
    BY DEF Delete
  <2>2. removed'[k] = removed[k] \cup {[row |-> r, at |-> now, told |-> told] : r \in gone[k]}
    BY DEF Delete
  <2>3. ASSUME NEW r \in gone[k] PROVE r \in {d.row : d \in removed'[k]}
    <3>1. [row |-> r, at |-> now, told |-> told] \in removed'[k]
      BY <2>2
    <3>2. [row |-> r, at |-> now, told |-> told].row = r
      OBVIOUS
    <3>3. QED
      BY <3>1, <3>2
  <2>4. {d.row : d \in removed[k]} \subseteq {d.row : d \in removed'[k]}
    BY <2>2
  <2>5. QED
    BY <2>1, <2>3, <2>4 DEF Gone
<1>3. QED
  BY <1>1, <1>2 DEF RowsMove, WalkTypes

\* Any step.
LEMMA RowsStep ==
  ASSUME RetentionInv, WalkTypes, [Next]_vars
  PROVE  RowsMove
<1>1. CASE UNCHANGED <<rows, removed, lastId>>
  BY <1>1 DEF RowsMove, WalkTypes, Gone
<1>2. CASE Inserts
  BY <1>2, InsertMoves DEF Inserts
<1>3. CASE PrunerStep
  <2>1. CASE PruneBegins \/ BetweenBatches \/ PrunerWakes
    BY <1>1, <2>1 DEF PruneBegins, BetweenBatches, PrunerWakes, tableVars
  <2>2. CASE PruneOneBatch
    BY <2>2, DeleteMoves DEF PruneOneBatch
  <2>3. CASE PruneFails
    BY <1>1, <2>3, DeleteMoves DEF PruneFails
  <2>4. QED
    BY <1>3, <2>1, <2>2, <2>3 DEF PrunerStep
<1>4. CASE LateDelete
  BY <1>1, <1>4, DeleteMoves DEF LateDelete
<1>5. CASE UNCHANGED retentionVars
  BY <1>1, <1>5 DEF retentionVars, tableVars, prunerVars
<1>6. CASE Tick \/ StopBegins
  BY <1>1, <1>6 DEF Tick, StopBegins, tableVars, prunerVars
<1>7. CASE \/ \E c \in Client, authenticated \in BOOLEAN : OtherRequest(c, authenticated)
           \/ \E limit \in PageSizes : PageBegins(Walker, limit)
           \/ PageEnds \/ HealthChanges \/ PipelineDies \/ Terminate
           \/ ShutDownForRestart \/ PrunerAwaited \/ Dispose
  BY <1>5, <1>7 DEF OtherRequest, PageBegins, PageEnds, HealthChanges, PipelineDies,
     Terminate, ShutDownForRestart, Terminated, PrunerAwaited, Dispose
<1>8. CASE \E p \in Prober : ReadyRequest(p) \/ ProbeStep(p)
  BY <1>5, <1>8 DEF ReadyRequest, ProbeStep, ProbeCached, ProbeBegins, ProbeEnds
<1>9. CASE UNCHANGED vars
  BY <1>5, <1>9 DEF vars
<1>10. QED
  BY <1>2, <1>3, <1>4, <1>6, <1>7, <1>8, <1>9 DEF Next, Shutdown, Exited

\* While the client waits, rows come and go beside its walk.
LEMMA WalkWaits ==
  ASSUME WalkInv, RowsMove, walk' = walk
  PROVE  WalkTypes' /\ WalkOrder' /\ WalkSeen'
<1>1. WalkTypes'
  BY DEF WalkInv, WalkTypes, RowsMove
<1>2. \A r : Got(r)' <=> Got(r)
  BY DEF Got
<1>3. WalkOrder'
  BY <1>2 DEF WalkInv, WalkOrder
<1>4. WalkSeen'
  <2>1. walk.kind \in Kind
    BY DEF WalkInv, WalkTypes
  <2>2. PICK k \in Kind : k = walk.kind
    BY <2>1
  <2>3. Gone(walk.kind)' = Gone(k)'
    BY <2>2 DEF Gone
  <2>4. QED
    BY <1>2, <2>2, <2>3 DEF WalkInv, WalkSeen, RowsMove
<1>5. QED
  BY <1>1, <1>3, <1>4

\* An admitted request for a page: the first one fixes which rows the walk owes.
LEMMA WalkAsks ==
  ASSUME WalkInv, NEW limit \in PageSizes, PageBegins(Walker, limit)
  PROVE  WalkTypes' /\ WalkOrder' /\ WalkSeen'
<1>1. UNCHANGED <<rows, removed, lastId>>
  BY DEF PageBegins, retentionVars, tableVars, prunerVars
<1>2. CASE walk' = walk
  <2>1. RowsMove
    BY <1>1 DEF RowsMove, WalkInv, WalkTypes, Gone
  <2>2. QED
    BY <1>2, <2>1, WalkWaits
<1>3. CASE walk' # walk
  <2>1. /\ walk.on \in {"no", "yes"}
        /\ walk' = [walk EXCEPT !.limit = limit, !.on = "reading",
                      !.begun = IF walk.on = "no" THEN rows[walk.kind] ELSE @]
    BY <1>3 DEF PageBegins
  <2>2. /\ walk \in [kind : Kind, cursor : Nat, limit : Nat \ {0}, got : Seq(SUBSET Row),
                     begun : SUBSET Row, on : {"no", "yes", "reading", "done"}]
        /\ rows \in [Kind -> SUBSET Row]
    BY DEF WalkInv, WalkTypes
  <2>3. limit \in Nat \ {0}
    BY PageAssumption
  <2>4. PICK b \in SUBSET Row : b = IF walk.on = "no" THEN rows[walk.kind] ELSE walk.begun
    BY <2>2
  <2>5. walk' = [walk EXCEPT !.limit = limit, !.on = "reading", !.begun = b]
    BY <2>1, <2>4
  <2>6. /\ walk'.kind = walk.kind /\ walk'.cursor = walk.cursor /\ walk'.limit = limit
        /\ walk'.got = walk.got /\ walk'.begun = b /\ walk'.on = "reading"
        /\ walk' \in [kind : Kind, cursor : Nat, limit : Nat \ {0}, got : Seq(SUBSET Row),
                      begun : SUBSET Row, on : {"no", "yes", "reading", "done"}]
    BY <2>2, <2>3, <2>5
  <2>7. WalkTypes'
    BY <1>1, <2>6 DEF WalkInv, WalkTypes
  <2>8. \A r : Got(r)' <=> Got(r)
    BY <2>6 DEF Got
  <2>9. WalkOrder'
    BY <2>1, <2>6, <2>8 DEF WalkInv, WalkOrder
  <2>10. WalkSeen'
    <3>1. Gone(walk.kind)' = Gone(walk.kind)
      BY <1>1, <2>6 DEF Gone
    <3>2. CASE walk.on = "no"
      BY <1>1, <2>4, <2>6, <3>2 DEF WalkInv, WalkSeen
    <3>3. CASE walk.on = "yes"
      BY <1>1, <2>4, <2>6, <2>8, <3>1, <3>3 DEF WalkInv, WalkSeen
    <3>4. QED
      BY <2>1, <3>2, <3>3
  <2>11. QED
    BY <2>7, <2>9, <2>10
<1>4. QED
  BY <1>2, <1>3

\* Rows the query may return: those below the cursor.
Below(k, before) == {r \in rows[k] : before = 0 \/ r.id < before}

\* list_events and list_alerts: the rows of a page have only rows of the page above them,
\* a page that is not full has them all, and one of n > 0 rows is not empty if there are any.
LEMMA PageRows ==
  ASSUME RetentionInv, WalkTypes, NEW k \in Kind, NEW n \in Nat \ {0}, NEW before \in Nat
  PROVE  /\ ListRows(k, n, before) \subseteq Below(k, before)
         /\ \A r \in ListRows(k, n, before), s \in Below(k, before) :
              s.id >= r.id => s \in ListRows(k, n, before)
         /\ Cardinality(ListRows(k, n + 1, before)) <= n =>
              ListRows(k, n, before) = Below(k, before)
         /\ Below(k, before) # {} => ListRows(k, n, before) # {}
<1> DEFINE B == Below(k, before)
           Above(r) == {s \in B : s.id > r.id}
<1>1. /\ IsFiniteSet(B) /\ B \subseteq Row
  <2>1. IsFiniteSet(rows[k]) /\ rows[k] \subseteq Row /\ B \subseteq rows[k]
    BY DEF RetentionInv, RetentionTypes, WalkTypes, Below
  <2>2. QED
    BY <2>1, FS_Subset
<1>2. \A m : ListRows(k, m, before) = {r \in B : Cardinality(Above(r)) < m}
  BY DEF ListRows, Below
<1> HIDE DEF B
<1>3. ASSUME NEW r \in B
      PROVE  IsFiniteSet(Above(r)) /\ Cardinality(Above(r)) \in Nat
  <2>1. Above(r) \subseteq B
    OBVIOUS
  <2> HIDE DEF Above
  <2>2. QED
    BY <1>1, <2>1, FewerMembers
<1>4. \A r \in B : r.id \in Nat
  BY <1>1 DEF Row
<1>5. ASSUME NEW r \in B, NEW s \in B, s.id >= r.id
      PROVE  Cardinality(Above(s)) <= Cardinality(Above(r))
  <2>1. Above(s) \subseteq Above(r)
    BY <1>4, <1>5
  <2>2. IsFiniteSet(Above(r))
    BY <1>3
  <2> HIDE DEF Above
  <2>3. QED
    BY <2>1, <2>2, FewerMembers
<1>6. ASSUME NEW r \in ListRows(k, n, before), NEW s \in B, s.id >= r.id
      PROVE  s \in ListRows(k, n, before)
  <2>1. r \in B /\ Cardinality(Above(r)) < n
    BY <1>2
  <2>2. Cardinality(Above(s)) <= Cardinality(Above(r))
    BY <1>5, <1>6, <2>1
  <2>3. Cardinality(Above(s)) \in Nat /\ Cardinality(Above(r)) \in Nat
    BY <1>3, <2>1
  <2>4. Cardinality(Above(s)) < n
    <3> HIDE DEF Above
    <3>1. QED
      BY <2>1, <2>2, <2>3
  <2>5. QED
    BY <1>2, <2>4
<1>7. ASSUME B # {} PROVE ListRows(k, n, before) # {}
  <2>1. PICK r \in B : \A s \in B : s.id <= r.id
    BY <1>1, <1>7, TopRow
  <2>2. Above(r) = {}
    BY <1>4, <2>1
  <2>3. Cardinality(Above(r)) = 0
    BY <2>2, FS_EmptySet
  <2>4. QED
    BY <1>2, <2>3
<1>8. ASSUME Cardinality(ListRows(k, n + 1, before)) <= n
      PROVE  ListRows(k, n, before) = B
  <2> DEFINE Rest == {s \in B : ~(Cardinality(Above(s)) < n)}
             More == ListRows(k, n + 1, before)
  <2> SUFFICES ASSUME Rest # {} PROVE FALSE
    BY <1>2
  <2>1. PICK r \in Rest : \A s \in Rest : s.id <= r.id
    <3>1. IsFiniteSet(Rest) /\ Rest \subseteq Row
      <4>1. Rest \subseteq B
        OBVIOUS
      <4> HIDE DEF Rest
      <4>2. QED
        BY <1>1, <4>1, FS_Subset
    <3> HIDE DEF Rest
    <3>2. QED
      BY <3>1, TopRow
  <2>2. r \in B /\ IsFiniteSet(Above(r)) /\ Cardinality(Above(r)) \in Nat
        /\ Cardinality(Above(r)) >= n
    BY <1>3
  <2>3. \A m \in Nat : m < n => m < n + 1
    OBVIOUS
  <2>4. Above(r) \subseteq More
    <3> SUFFICES ASSUME NEW s \in Above(r) PROVE s \in More
      OBVIOUS
    <3>1. s \in B /\ s.id > r.id
      OBVIOUS
    <3>2. s \notin Rest
      BY <1>4, <2>1, <2>2, <3>1
    <3>3. Cardinality(Above(s)) < n /\ Cardinality(Above(s)) \in Nat
      BY <1>3, <3>1, <3>2
    <3>4. Cardinality(Above(s)) < n + 1
      BY <2>3, <3>3
    <3>5. QED
      BY <1>2, <3>1, <3>4
  <2>5. IsFiniteSet(More) /\ Cardinality(More) \in Nat
    <3>1. More \subseteq B
      BY <1>2
    <3> HIDE DEF More
    <3>2. QED
      BY <1>1, <3>1, FewerMembers
  <2>6. r \notin Above(r) /\ (Cardinality(Above(r)) < n + 1 => r \in More)
    BY <1>2, <1>4, <2>2
  <2>7. Cardinality(More) <= n
    BY <1>8
  <2> HIDE DEF Above, More, Rest
  <2>8. Cardinality(Above(r)) <= Cardinality(More)
    BY <2>4, <2>5, FewerMembers
  <2>9. Cardinality(Above(r)) = n /\ r \in More
    BY <2>2, <2>5, <2>6, <2>7, <2>8
  <2>10. Cardinality(Above(r)) < Cardinality(More)
    BY <2>4, <2>5, <2>6, <2>9, FewerMembers
  <2>11. QED
    BY <2>5, <2>7, <2>9, <2>10
<1>9. QED
  BY <1>2, <1>6, <1>7, <1>8 DEF B

\* A page is answered: its rows lie below all those before it, and what it leaves out lies
\* below the next cursor.
LEMMA WalkGets ==
  ASSUME WalkInv, PageEnds
  PROVE  WalkTypes' /\ WalkOrder' /\ WalkSeen'
<1>1. UNCHANGED <<rows, removed, lastId>> /\ walk.on = "reading"
  BY DEF PageEnds, retentionVars, tableVars, prunerVars
<1>2. /\ RetentionInv /\ WalkTypes
      /\ walk \in [kind : Kind, cursor : Nat, limit : Nat \ {0}, got : Seq(SUBSET Row),
                   begun : SUBSET Row, on : {"no", "yes", "reading", "done"}]
  BY DEF WalkInv, WalkTypes
<1>3. PICK k \in Kind, n \in Nat \ {0}, c \in Nat :
        k = walk.kind /\ n = walk.limit /\ c = walk.cursor
  BY <1>2
<1>4. CASE db = "down"
  <2>1. walk' = [walk EXCEPT !.on = "yes"]
    BY <1>4 DEF PageEnds
  <2>2. /\ walk'.kind = walk.kind /\ walk'.cursor = walk.cursor
        /\ walk'.got = walk.got /\ walk'.begun = walk.begun /\ walk'.on = "yes"
        /\ walk' \in [kind : Kind, cursor : Nat, limit : Nat \ {0}, got : Seq(SUBSET Row),
                      begun : SUBSET Row, on : {"no", "yes", "reading", "done"}]
    BY <1>2, <2>1
  <2>3. (\A r : Got(r)' <=> Got(r)) /\ Gone(walk.kind)' = Gone(walk.kind)
    BY <1>1, <2>2 DEF Got, Gone
  <2>4. QED
    BY <1>1, <2>2, <2>3 DEF WalkInv, WalkTypes, WalkOrder, WalkSeen
<1>5. CASE db # "down"
  <2> DEFINE data == ListRows(k, n, c)
             read == ListRows(k, n + 1, c)
             more == Cardinality(read) > n
             least == NextCursor(read, data)
             B == Below(k, c)
  <2>1. walk' = [walk EXCEPT !.got = Append(@, data),
                   !.cursor = IF more THEN least ELSE @,
                   !.on = IF more THEN "yes" ELSE "done"]
    BY <1>3, <1>5 DEF PageEnds
  <2>2. /\ data \subseteq B /\ B \subseteq rows[k] /\ rows[k] \subseteq Row
        /\ \A r \in data, s \in B : s.id >= r.id => s \in data
        /\ Cardinality(read) <= n => data = B
        /\ B # {} => data # {}
        /\ \A r \in B : c = 0 \/ r.id < c
        /\ \A r \in rows[k] : c = 0 \/ r.id < c => r \in B
    BY <1>2, PageRows DEF WalkTypes, Below
  <2>3. Cardinality(read) \in Nat /\ (more => B # {})
    <3>1. read \subseteq B /\ IsFiniteSet(B)
      <4>1. IsFiniteSet(rows[k]) /\ B \subseteq rows[k]
        BY <1>2 DEF RetentionInv, RetentionTypes, Below
      <4>2. IsFiniteSet(B)
        BY <4>1, FS_Subset
      <4>3. QED
        BY <4>2 DEF ListRows, Below
    <3> HIDE DEF read, B
    <3>2. Cardinality(read) \in Nat /\ Cardinality(read) <= Cardinality(B)
      BY <3>1, FewerMembers
    <3>3. B = {} => Cardinality(B) = 0
      BY FS_EmptySet
    <3>4. QED
      BY <3>2, <3>3
  <2> HIDE DEF data, read, B
  <2>4. ASSUME more
        PROVE  /\ least \in Nat \ {0}
               /\ \A r \in data : r.id >= least
               /\ \E r \in data : r.id = least
    <3> DEFINE ids == {r.id : r \in data}
    <3>1. ids \subseteq Nat \ {0} /\ ids # {}
      BY <2>2, <2>3, <2>4 DEF Row
    <3>2. least = Min(ids)
      BY DEF NextCursor
    <3> HIDE DEF ids, least
    <3>3. ids \subseteq Nat
      BY <3>1
    <3>4. least \in ids /\ \A x \in ids : least <= x
      BY <3>1, <3>2, <3>3, LeastNumber
    <3>5. \A x \in ids : x \in Nat
      BY <3>1
    <3>6. \A x \in ids : x >= least
      BY <3>4, <3>5
    <3>7. QED
      BY <3>1, <3>4, <3>6 DEF ids
  <2> HIDE DEF least
  <2>5. PICK d \in Nat : d = IF more THEN least ELSE c
    BY <2>4
  <2> HIDE DEF more
  <2>6. PICK g \in Seq(SUBSET Row) : g = Append(walk.got, data)
    <3>1. PICK S : S = SUBSET Row
      OBVIOUS
    <3>2. PICK w : w = walk.got
      OBVIOUS
    <3>3. data \in S
      BY <2>2, <3>1
    <3>4. w \in Seq(S)
      BY <1>2, <3>1, <3>2
    <3>5. Append(w, data) \in Seq(S)
      BY <3>3, <3>4
    <3>6. QED
      BY <3>1, <3>2, <3>5
  <2>7. /\ walk'.kind = k /\ walk'.cursor = d /\ walk'.got = g /\ walk'.begun = walk.begun
        /\ walk'.on = (IF more THEN "yes" ELSE "done")
        /\ walk' \in [kind : Kind, cursor : Nat, limit : Nat \ {0}, got : Seq(SUBSET Row),
                      begun : SUBSET Row, on : {"no", "yes", "reading", "done"}]
    <3>1. walk' = [walk EXCEPT !.got = g, !.cursor = d, !.on = IF more THEN "yes" ELSE "done"]
      BY <1>3, <2>1, <2>5, <2>6
    <3>2. PICK o \in {"yes", "done"} : o = IF more THEN "yes" ELSE "done"
      OBVIOUS
    <3>3. walk' = [walk EXCEPT !.got = g, !.cursor = d, !.on = o]
      BY <3>1, <3>2
    <3>4. QED
      BY <1>2, <1>3, <3>2, <3>3
  <2>8. WalkTypes'
    BY <1>1, <1>2, <2>7 DEF WalkTypes
  <2>9. /\ Len(walk.got) \in Nat /\ Len(g) = Len(walk.got) + 1
        /\ \A i \in 1..Len(walk.got) : g[i] = walk.got[i]
        /\ g[Len(walk.got) + 1] = data
    BY <1>2, <2>2, <2>6
  <2>10. \A r : Got(r)' <=> Got(r) \/ r \in data
    <3>1. PICK w \in Nat : w = Len(walk.got)
      BY <2>9
    <3>2. \A i : i \in 1..(w + 1) <=> i \in 1..w \/ i = w + 1
      OBVIOUS
    <3>3. \A r : Got(r)' <=> \E i \in 1..(w + 1) : r \in g[i]
      BY <2>7, <2>9, <3>1 DEF Got
    <3>4. \A r : Got(r) <=> \E i \in 1..w : r \in g[i]
      BY <2>9, <3>1 DEF Got
    <3>5. g[w + 1] = data
      BY <2>9, <3>1
    <3>6. QED
      BY <3>2, <3>3, <3>4, <3>5
  <2>11. c # 0 => \A r \in Row : Got(r) => r.id >= c
    BY <1>1, <1>3 DEF WalkInv, WalkOrder
  <2>12. c = 0 => Len(walk.got) = 0
    BY <1>1, <1>3 DEF WalkInv, WalkOrder
  <2>13. ASSUME NEW r \in Row, NEW s \in data, Got(r) PROVE r.id > s.id
    <3>1. Len(walk.got) # 0
      BY <2>9, <2>13 DEF Got
    <3>2. r.id >= c /\ s.id < c /\ r.id \in Nat /\ s.id \in Nat
      BY <2>2, <2>11, <2>12, <2>13, <3>1 DEF Row
    <3>3. QED
      BY <3>2
  <2>14. WalkOrder'
    <3>1. ASSUME NEW i \in 1..Len(g), NEW j \in 1..Len(g), i < j,
                 NEW r \in g[i], NEW s \in g[j]
          PROVE  r.id > s.id
      <4>1. i \in 1..Len(walk.got) /\ r \in walk.got[i]
        BY <2>9, <3>1
      <4>2. CASE j \in 1..Len(walk.got)
        BY <2>9, <3>1, <4>1, <4>2 DEF WalkInv, WalkOrder
      <4>3. CASE j = Len(walk.got) + 1
        <5>1. Got(r) /\ s \in data
          BY <2>9, <4>1, <4>3 DEF Got
        <5>2. r \in Row
          BY <1>2, <4>1
        <5>3. QED
          BY <2>13, <5>1, <5>2
      <4>4. QED
        BY <2>9, <4>2, <4>3
    <3>2. CASE ~more
      BY <2>7, <3>1, <3>2 DEF WalkOrder
    <3>3. CASE more
      <4>1. d = least /\ d # 0
        BY <2>4, <2>5, <3>3
      <4>2. ASSUME NEW r \in Row, Got(r) \/ r \in data PROVE r.id >= d
        <5>1. PICK s \in data : s.id = d
          BY <2>4, <3>3, <4>1
        <5>2. CASE r \in data
          BY <2>4, <3>3, <4>1, <5>2
        <5>3. CASE Got(r)
          <6>1. r.id > s.id /\ r.id \in Nat
            BY <2>13, <5>3 DEF Row
          <6>2. QED
            BY <5>1, <6>1
        <5>4. QED
          BY <4>2, <5>2, <5>3
      <4>3. QED
        BY <2>7, <2>10, <3>1, <4>1, <4>2 DEF WalkOrder
    <3>4. QED
      BY <3>2, <3>3
  <2>15. WalkSeen'
    <3>1. Gone(walk.kind)' = Gone(k)
      BY <1>1, <2>7 DEF Gone
    <3>2. ASSUME NEW r \in walk.begun
          PROVE  \/ r \in Gone(k) \/ Got(r) \/ r \in data
                 \/ more /\ r \in rows[k] /\ r.id < d
      <4>1. r \in Gone(k) \/ Got(r) \/ (r \in rows[k] /\ (c = 0 \/ r.id < c))
        BY <1>1, <1>3 DEF WalkInv, WalkSeen
      <4>2. SUFFICES ASSUME r \in B, r \in rows[k], r \notin data PROVE more /\ r.id < d
        BY <2>2, <4>1
      <4>3. more
        BY <2>2, <2>3, <4>2 DEF more
      <4>4. PICK s \in data : s.id = d
        BY <2>4, <2>5, <4>3
      <4>5. ~(r.id >= s.id) /\ r.id \in Nat /\ s.id \in Nat
        BY <2>2, <4>2 DEF Row
      <4>6. QED
        BY <4>3, <4>4, <4>5
    <3>3. QED
      BY <1>1, <2>7, <2>10, <3>1, <3>2 DEF WalkSeen
  <2>16. QED
    BY <2>8, <2>14, <2>15
<1>6. QED
  BY <1>4, <1>5

\* Following the cursors of /events and /alerts while rows are inserted and deleted, and
\* SQLite hands ids out again: no row comes twice, the ids fall from page to page, and a walk
\* that ends has returned every row that was there all along, for every table and page size.
THEOREM WalksAreExact == Spec => []WalkExact
<1>1. Init => WalkInv
  <2> SUFFICES ASSUME Init PROVE WalkInv
    OBVIOUS
  <2>1. RetentionInv
    BY RetentionInitially DEF Init
  <2>2. setup.walked \in Kind
    BY PageAssumption DEF Init, RetentionInit
  <2>3. /\ walk = [kind |-> setup.walked, cursor |-> 0, limit |-> 1,
                   got |-> <<>>, begun |-> {}, on |-> "no"]
        /\ rows = [k \in Kind |-> {}] /\ lastId = [k \in Kind |-> 0]
    BY DEF Init, RetentionInit, NoRows
  <2>4. <<>> \in Seq(SUBSET Row) /\ Len(<<>>) = 0
    OBVIOUS
  <2>5. WalkTypes
    BY <2>2, <2>3, <2>4 DEF WalkTypes
  <2>6. WalkOrder /\ WalkSeen
    BY <2>3, <2>4 DEF WalkOrder, WalkSeen, Got
  <2>7. QED
    BY <2>1, <2>5, <2>6 DEF WalkInv
<1>2. ASSUME WalkInv, [Next]_vars PROVE WalkInv'
  <2>1. RetentionInv'
    BY <1>2, RetentionNext DEF WalkInv
  <2>2. CASE walk' = walk
    BY <1>2, <2>1, <2>2, RowsStep, WalkWaits DEF WalkInv
  <2>3. CASE \E limit \in PageSizes : PageBegins(Walker, limit)
    BY <1>2, <2>1, <2>3, WalkAsks DEF WalkInv
  <2>4. CASE PageEnds
    BY <1>2, <2>1, <2>4, WalkGets DEF WalkInv
  <2>5. CASE \E p \in Prober : ReadyRequest(p) \/ ProbeStep(p)
    BY <2>2, <2>5 DEF ReadyRequest, ProbeStep, ProbeCached, ProbeBegins, ProbeEnds
  <2>6. QED
    BY <1>2, <2>2, <2>3, <2>4, <2>5
       DEF Next, OtherRequest, HealthChanges, Tick, PipelineDies, Terminate, Shutdown,
           ShutDownForRestart, Terminated, StopBegins, PrunerAwaited, Dispose, Exited, vars, apiVars
<1>3. WalkInv => WalkExact
  <2> SUFFICES ASSUME WalkInv PROVE WalkExact
    OBVIOUS
  <2>1. DOMAIN walk.got = 1..Len(walk.got) /\ walk.kind \in Kind
    BY DEF WalkInv, WalkTypes
  <2>2. \A r \in Gone(walk.kind) : r \notin rows[walk.kind]
    BY <2>1 DEF WalkInv, RetentionInv, TableAges, Gone
  <2>3. QED
    BY <2>1, <2>2 DEF WalkInv, WalkOrder, WalkSeen, WalkExact, Got
<1>4. QED
  BY <1>1, <1>2, <1>3, PTL DEF Spec

(***************************************************************************)
(* The rate limiter.  A window keeps times, and the table that holds it may *)
(* evict it; what makes the length of a window exact is that its times are  *)
(* those of distinct admissions of its caller, and that every admission not *)
(* followed by an eviction of the caller has its place in it.               *)
(***************************************************************************)

Owner == {"key", "anon"} \X (Client \cup {Walker})
Noted == [who : Owner, at : Nat, verdict : {"admitted", "limited", "evicted"}]
Window == [bucket : Owner, hits : Seq(Nat)]

AdmittedTo(notes, j, b) == notes[j].verdict = "admitted" /\ notes[j].who = b

\* Admitted, and the caller's window not evicted up to the end of the log.
Standing(notes, j, b) ==
  /\ AdmittedTo(notes, j, b)
  /\ \A e \in j..Len(notes) : ~(notes[e].verdict = "evicted" /\ notes[e].who = b)

\* f gives the times of b's window their admissions, and the standing admissions since
\* `since` their places.
Assigns(f, notes, b, times, since) ==
  /\ f \in [1..Len(times) -> 1..Len(notes)]
  /\ \A x, y \in 1..Len(times) : f[x] = f[y] => x = y
  /\ \A x \in 1..Len(times) : AdmittedTo(notes, f[x], b) /\ notes[f[x]].at = times[x]
  /\ \A j \in 1..Len(notes) :
       Standing(notes, j, b) /\ notes[j].at >= since => \E x \in 1..Len(times) : f[x] = j

Ascending(times) == \A x, y \in 1..Len(times) : x <= y => times[x] <= times[y]

Placed(notes, b, times, since) ==
  Ascending(times) /\ \E f : Assigns(f, notes, b, times, since)

\* Admissions of i's caller in the window that ends at i, as Recent has it for the log;
\* those of them the table has not forgotten; and LimitExact for one request.
RecentIn(notes, i) ==
  {j \in 1..i : AdmittedTo(notes, j, notes[i].who) /\ notes[j].at >= notes[i].at - RateWindow}
KeptIn(notes, i) ==
  {j \in RecentIn(notes, i) :
     \A e \in j..i : ~(notes[e].verdict = "evicted" /\ notes[e].who = notes[i].who)}
ExactAt(notes, i) ==
  /\ notes[i].verdict = "limited" => Cardinality(RecentIn(notes, i)) >= RateLimit
  /\ notes[i].verdict = "admitted" => Cardinality(KeptIn(notes, i)) <= RateLimit

LimitOf(notes, table, t) ==
  /\ notes \in Seq(Noted) /\ table \in Seq(Window) /\ t \in Nat
  /\ \A j \in 1..Len(notes) : notes[j].at <= t
  /\ \A p, q \in 1..Len(table) : table[p].bucket = table[q].bucket => p = q
  /\ \A p \in 1..Len(table) : Placed(notes, table[p].bucket, table[p].hits, t - RateWindow)
  /\ \A j \in 1..Len(notes), b \in Owner :
       Standing(notes, j, b) => \E p \in 1..Len(table) : table[p].bucket = b
  /\ \A i \in 1..Len(notes) : ExactAt(notes, i)

\* One entry more at the end of the log.
Grown(notes, more, e) ==
  /\ notes \in Seq(Noted) /\ more \in Seq(Noted) /\ e \in Noted
  /\ Len(notes) \in Nat /\ Len(more) = Len(notes) + 1
  /\ \A j \in 1..Len(notes) : more[j] = notes[j]
  /\ more[Len(notes) + 1] = e

\* Append is such a log.
LEMMA AppendGrows ==
  ASSUME NEW notes \in Seq(Noted), NEW e \in Noted
  PROVE  Grown(notes, Append(notes, e), e)
<1>1. PICK S : S = Noted
  OBVIOUS
<1>2. notes \in Seq(S) /\ e \in S
  BY <1>1
<1>3. /\ Append(notes, e) \in Seq(S) /\ Len(notes) \in Nat
      /\ Len(Append(notes, e)) = Len(notes) + 1
      /\ \A j \in 1..Len(notes) : Append(notes, e)[j] = notes[j]
      /\ Append(notes, e)[Len(notes) + 1] = e
  BY <1>2
<1>4. QED
  BY <1>1, <1>3 DEF Grown

\* An admission that stands in the longer log stood in the shorter one.
LEMMA StoodBefore ==
  ASSUME NEW notes, NEW more, NEW e, Grown(notes, more, e),
         NEW j \in 1..Len(notes), NEW b, Standing(more, j, b)
  PROVE  Standing(notes, j, b)
<1>1. \A x \in j..Len(notes) : x \in j..Len(more) /\ more[x] = notes[x]
  BY DEF Grown
<1>2. more[j] = notes[j]
  BY DEF Grown
<1>3. QED
  BY <1>1, <1>2 DEF Standing, AdmittedTo

\* A request refused, an eviction, or another caller's admission leaves b's window right.
LEMMA PlacedOther ==
  ASSUME NEW notes, NEW more, NEW e, Grown(notes, more, e), NEW b, NEW times, NEW since,
         Placed(notes, b, times, since), ~(e.verdict = "admitted" /\ e.who = b)
  PROVE  Placed(more, b, times, since)
<1>1. PICK f : Assigns(f, notes, b, times, since)
  BY DEF Placed
<1>2. /\ Len(notes) \in Nat /\ Len(more) = Len(notes) + 1
      /\ \A j \in 1..Len(notes) : more[j] = notes[j]
  BY DEF Grown
<1>3. f \in [1..Len(times) -> 1..Len(more)]
  BY <1>1, <1>2 DEF Assigns
<1>4. \A x \in 1..Len(times) : f[x] \in 1..Len(notes)
  BY <1>1 DEF Assigns
<1>5. \A x \in 1..Len(times) : AdmittedTo(more, f[x], b) /\ more[f[x]].at = times[x]
  BY <1>1, <1>2, <1>4 DEF Assigns, AdmittedTo
<1>6. ASSUME NEW j \in 1..Len(more), Standing(more, j, b), more[j].at >= since
      PROVE  \E x \in 1..Len(times) : f[x] = j
  <2>1. j # Len(notes) + 1
    BY <1>6 DEF Standing, AdmittedTo, Grown
  <2>2. j \in 1..Len(notes)
    BY <1>2, <2>1
  <2>3. Standing(notes, j, b) /\ notes[j].at >= since
    BY <1>2, <1>6, <2>2, StoodBefore
  <2>4. QED
    BY <1>1, <2>2, <2>3 DEF Assigns
<1>7. Assigns(f, more, b, times, since)
  BY <1>1, <1>3, <1>5, <1>6 DEF Assigns
<1>8. QED
  BY <1>7 DEF Placed

\* Charging an admitted request: its time goes to the end of its caller's window.
LEMMA PlacedAdmit ==
  ASSUME NEW notes, NEW more, NEW e, Grown(notes, more, e), NEW b, NEW times \in Seq(Nat),
         NEW since, NEW t \in Nat, e.verdict = "admitted", e.who = b, e.at = t,
         \A j \in 1..Len(notes) : notes[j].at <= t,
         Placed(notes, b, times, since)
  PROVE  Placed(more, b, Append(times, t), since)
<1>1. PICK f : Assigns(f, notes, b, times, since)
  BY DEF Placed
<1>2. /\ Len(notes) \in Nat /\ Len(more) = Len(notes) + 1
      /\ \A j \in 1..Len(notes) : more[j] = notes[j]
      /\ more[Len(notes) + 1] = e
  BY DEF Grown
<1>3. PICK m \in Nat : m = Len(times)
  OBVIOUS
<1>4. PICK n \in Nat : n = Len(notes)
  BY <1>2
<1>5. PICK longer \in Seq(Nat) : longer = Append(times, t)
  <2>1. Append(times, t) \in Seq(Nat)
    OBVIOUS
  <2>2. QED
    BY <2>1
<1>6. /\ Len(longer) = m + 1 /\ \A x \in 1..m : longer[x] = times[x] /\ times[x] \in Nat
      /\ longer[m + 1] = t
  BY <1>3, <1>5
<1>7. \A x \in 1..(m + 1) : x \in 1..m \/ x = m + 1
  OBVIOUS
<1>8. m + 1 \in 1..(m + 1) /\ n + 1 \in 1..(n + 1) /\ ~(m + 1 \in 1..m) /\ ~(n + 1 \in 1..n)
  OBVIOUS
<1>9. \A x \in 1..m : x \in 1..(m + 1) /\ x # m + 1
  OBVIOUS
<1>10. \A j \in 1..(n + 1) : j \in 1..n \/ j = n + 1
  OBVIOUS
<1>11. \A j \in 1..n : j \in 1..(n + 1) /\ j # n + 1
  OBVIOUS
<1>12. /\ f \in [1..m -> 1..n]
       /\ \A x, y \in 1..m : f[x] = f[y] => x = y
       /\ \A x \in 1..m : AdmittedTo(notes, f[x], b) /\ notes[f[x]].at = times[x]
       /\ \A j \in 1..n : Standing(notes, j, b) /\ notes[j].at >= since => \E x \in 1..m : f[x] = j
  BY <1>1, <1>3, <1>4 DEF Assigns
<1> DEFINE g == [x \in 1..(m + 1) |-> IF x = m + 1 THEN n + 1 ELSE f[x]]
<1>13. \A x \in 1..m : g[x] = f[x] /\ g[x] \in 1..n
  BY <1>9, <1>12
<1>14. g[m + 1] = n + 1
  BY <1>8
<1>15. g \in [1..(m + 1) -> 1..(n + 1)]
  BY <1>7, <1>8, <1>11, <1>12
<1> HIDE DEF g
<1>16. ASSUME NEW x \in 1..(m + 1), NEW y \in 1..(m + 1), g[x] = g[y] PROVE x = y
  <2>1. CASE x \in 1..m /\ y \in 1..m
    BY <1>12, <1>13, <1>16, <2>1
  <2>2. CASE x = m + 1 /\ y \in 1..m
    BY <1>8, <1>13, <1>14, <1>16, <2>2
  <2>3. CASE x \in 1..m /\ y = m + 1
    BY <1>8, <1>13, <1>14, <1>16, <2>3
  <2>4. QED
    BY <1>7, <2>1, <2>2, <2>3
<1>17. ASSUME NEW x \in 1..(m + 1) PROVE AdmittedTo(more, g[x], b) /\ more[g[x]].at = longer[x]
  <2>1. CASE x \in 1..m
    BY <1>2, <1>4, <1>6, <1>12, <1>13, <2>1 DEF AdmittedTo
  <2>2. CASE x = m + 1
    BY <1>2, <1>4, <1>6, <1>14, <2>2 DEF AdmittedTo
  <2>3. QED
    BY <1>7, <2>1, <2>2
<1>18. ASSUME NEW j \in 1..(n + 1), Standing(more, j, b), more[j].at >= since
       PROVE  \E x \in 1..(m + 1) : g[x] = j
  <2>1. CASE j = n + 1
    BY <1>8, <1>14, <2>1
  <2>2. CASE j \in 1..n
    <3>1. Standing(notes, j, b) /\ notes[j].at >= since
      BY <1>2, <1>4, <1>18, <2>2, StoodBefore
    <3>2. PICK x \in 1..m : f[x] = j
      BY <1>12, <2>2, <3>1
    <3>3. QED
      BY <1>9, <1>13, <3>2
  <2>3. QED
    BY <1>10, <2>1, <2>2
<1>19. Assigns(g, more, b, longer, since)
  BY <1>2, <1>4, <1>6, <1>15, <1>16, <1>17, <1>18 DEF Assigns
<1>20. Ascending(longer)
  <2>1. ASSUME NEW x \in 1..(m + 1), NEW y \in 1..(m + 1), x <= y PROVE longer[x] <= longer[y]
    <3>1. CASE y \in 1..m
      <4>1. x \in 1..m /\ times[x] <= times[y]
        BY <1>3, <2>1, <3>1 DEF Placed, Ascending
      <4>2. QED
        BY <1>6, <3>1, <4>1
    <3>2. CASE y = m + 1 /\ x \in 1..m
      <4>1. times[x] <= t
        BY <1>4, <1>12, <3>2
      <4>2. QED
        BY <1>6, <3>2, <4>1
    <3>3. CASE y = m + 1 /\ x = m + 1
      BY <1>6, <3>3
    <3>4. QED
      BY <1>7, <3>1, <3>2, <3>3
  <2>2. QED
    BY <1>6, <2>1 DEF Ascending
<1>21. QED
  BY <1>5, <1>19, <1>20 DEF Placed

\* The `while` of dispatch ends: it pops the leading hits before the window, and no more.
LEMMA PoppedProperties ==
  ASSUME NEW times \in Seq(Nat), NEW t \in Nat
  PROVE  /\ Popped(times, t) \in 0..Len(times)
         /\ \A x \in 1..Popped(times, t) : times[x] < t - RateWindow
         /\ Popped(times, t) < Len(times) => times[Popped(times, t) + 1] >= t - RateWindow
<1> DEFINE since == t - RateWindow
           P(n) == /\ \A i \in 1..n : times[i] < since
                   /\ n < Len(times) => times[n + 1] >= since
           Late == {i \in 1..Len(times) : times[i] >= since}
<1>1. since \in Int
  BY LimiterAssumption
<1>2. Len(times) \in Nat /\ \A i \in 1..Len(times) : times[i] \in Nat
  OBVIOUS
<1>3. Popped(times, t) = CHOOSE n \in 0..Len(times) : P(n)
  BY DEF Popped
<1> HIDE DEF since
<1>4. \E n \in 0..Len(times) : P(n)
  <2>1. CASE Late = {}
    <3>1. P(Len(times))
      BY <1>1, <1>2, <2>1
    <3>2. QED
      BY <1>2, <3>1
  <2>2. CASE Late # {}
    <3>1. Late \subseteq Nat
      BY <1>2
    <3> HIDE DEF P
    <3>2. PICK m \in Late : \A k \in Late : m <= k
      <4> HIDE DEF Late
      <4>1. Min(Late) \in Late /\ \A x \in Late : Min(Late) <= x
        BY <2>2, <3>1, LeastNumber
      <4>2. QED
        BY <4>1
    <3>3. m \in 1..Len(times) /\ times[m] >= since
      BY <3>2
    <3>4. \A i \in 1..(m - 1) : times[i] < since
      <4> TAKE i \in 1..(m - 1)
      <4>1. i \in 1..Len(times) /\ ~(m <= i)
        BY <1>2, <3>3
      <4>2. i \notin Late
        BY <3>2, <4>1
      <4>3. QED
        BY <1>1, <1>2, <4>1, <4>2
    <3>5. m - 1 \in 0..Len(times) /\ (m - 1) + 1 = m
      BY <1>2, <3>3
    <3>6. P(m - 1)
      BY <3>3, <3>4, <3>5 DEF P
    <3>7. QED
      BY <3>5, <3>6
  <2>3. QED
    BY <2>1, <2>2
<1> HIDE DEF P
<1>5. Popped(times, t) \in 0..Len(times) /\ P(Popped(times, t))
  BY <1>3, <1>4
<1>6. QED
  BY <1>5 DEF P, since

\* What dispatch keeps of a window: all of it within the window of time, and nothing of
\* that lost.
LEMMA PlacedLive ==
  ASSUME NEW notes, NEW b, NEW times \in Seq(Nat), NEW t \in Nat,
         Placed(notes, b, times, t - RateWindow)
  PROVE  /\ Live(times, t) \in Seq(Nat)
         /\ \A x \in 1..Len(Live(times, t)) : Live(times, t)[x] >= t - RateWindow
         /\ Placed(notes, b, Live(times, t), t - RateWindow)
<1>1. PICK since \in Int : since = t - RateWindow
  BY LimiterAssumption
<1>2. PICK m \in Nat : m = Len(times)
  OBVIOUS
<1>3. PICK d \in 0..m : d = Popped(times, t)
  BY <1>2, PoppedProperties
<1>4. /\ \A x \in 1..d : times[x] < since
      /\ d < m => times[d + 1] >= since
  BY <1>1, <1>2, <1>3, PoppedProperties
<1>5. \A x \in 1..m : times[x] \in Nat
  BY <1>2
<1>6. \A x, y \in 1..m : x <= y => times[x] <= times[y]
  BY <1>2 DEF Placed, Ascending
<1>7. PICK live : live = Live(times, t)
  OBVIOUS
<1>8. /\ live \in Seq(Nat) /\ Len(live) = m - d
      /\ \A x \in 1..(m - d) : live[x] = times[x + d]
  <2>1. live = SubSeq(times, d + 1, m)
    BY <1>2, <1>3, <1>7 DEF Live
  <2>2. \A x \in (d + 1)..m : times[x] \in Nat
    BY <1>5
  <2>3. QED
    BY <1>2, <2>1, <2>2
<1>9. PICK k \in Nat : k = m - d
  OBVIOUS
<1>10. \A x \in 1..k : x + d \in 1..m /\ d + 1 <= x + d /\ d < m /\ d + 1 \in 1..m
  BY <1>9
<1>11. \A x \in 1..k : live[x] >= since
  <2> TAKE x \in 1..k
  <2>1. live[x] = times[x + d] /\ times[d + 1] >= since /\ times[d + 1] <= times[x + d]
    BY <1>4, <1>6, <1>8, <1>9, <1>10
  <2>2. times[x + d] \in Nat /\ times[d + 1] \in Nat
    BY <1>5, <1>10
  <2>3. QED
    BY <2>1, <2>2
<1>12. Ascending(live)
  <2>1. ASSUME NEW x \in 1..k, NEW y \in 1..k, x <= y PROVE live[x] <= live[y]
    <3>1. x + d \in 1..m /\ y + d \in 1..m /\ x + d <= y + d
      BY <1>10, <2>1
    <3>2. QED
      BY <1>6, <1>8, <1>9, <3>1
  <2>2. QED
    BY <1>8, <1>9, <2>1 DEF Ascending
<1>13. PICK f : Assigns(f, notes, b, times, since)
  BY <1>1 DEF Placed
<1>14. /\ f \in [1..m -> 1..Len(notes)]
       /\ \A x, y \in 1..m : f[x] = f[y] => x = y
       /\ \A x \in 1..m : AdmittedTo(notes, f[x], b) /\ notes[f[x]].at = times[x]
       /\ \A j \in 1..Len(notes) :
            Standing(notes, j, b) /\ notes[j].at >= since => \E x \in 1..m : f[x] = j
  BY <1>2, <1>13 DEF Assigns
<1> DEFINE g == [x \in 1..k |-> f[x + d]]
<1>15. g \in [1..k -> 1..Len(notes)]
  BY <1>10, <1>14
<1>16. \A x \in 1..k : g[x] = f[x + d]
  OBVIOUS
<1> HIDE DEF g
<1>17. ASSUME NEW x \in 1..k, NEW y \in 1..k, g[x] = g[y] PROVE x = y
  <2>1. PICK u \in 1..m : u = x + d
    BY <1>10
  <2>2. PICK v \in 1..m : v = y + d
    BY <1>10
  <2>3. f[u] = f[v]
    BY <1>16, <1>17, <2>1, <2>2
  <2>4. u = v
    BY <1>14, <2>3
  <2>5. QED
    BY <2>1, <2>2, <2>4
<1>18. \A x \in 1..k : AdmittedTo(notes, g[x], b) /\ notes[g[x]].at = live[x]
  BY <1>8, <1>9, <1>10, <1>14, <1>16
<1>19. ASSUME NEW j \in 1..Len(notes), Standing(notes, j, b), notes[j].at >= since
       PROVE  \E x \in 1..k : g[x] = j
  <2>1. PICK x \in 1..m : f[x] = j
    BY <1>14, <1>19
  <2>2. times[x] >= since /\ times[x] \in Nat
    BY <1>5, <1>14, <1>19, <2>1
  <2>3. ~(x \in 1..d)
    BY <1>4, <2>2
  <2>4. x - d \in 1..k /\ (x - d) + d = x
    BY <1>9, <2>3
  <2>5. QED
    BY <1>16, <2>1, <2>4
<1>20. Assigns(g, notes, b, live, since)
  BY <1>8, <1>9, <1>15, <1>17, <1>18, <1>19 DEF Assigns
<1>21. Placed(notes, b, live, since)
  BY <1>12, <1>20 DEF Placed
<1>22. QED
  BY <1>1, <1>7, <1>8, <1>9, <1>11, <1>21

\* A window counts at least the admissions that stand, and at most those there were.
LEMMA PlacedCounts ==
  ASSUME NEW notes, Len(notes) \in Nat, NEW b, NEW times \in Seq(Nat), NEW since \in Int,
         Placed(notes, b, times, since), NEW Fresh, NEW Kept,
         \A j : j \in Fresh <=>
           j \in 1..Len(notes) /\ AdmittedTo(notes, j, b) /\ notes[j].at >= since,
         \A j : j \in Kept <=>
           j \in 1..Len(notes) /\ Standing(notes, j, b) /\ notes[j].at >= since
  PROVE  /\ Cardinality(Kept) \in Nat /\ Cardinality(Fresh) \in Nat
         /\ Cardinality(Kept) <= Len(times)
         /\ (\A x \in 1..Len(times) : times[x] >= since) => Len(times) <= Cardinality(Fresh)
<1>1. PICK f : Assigns(f, notes, b, times, since)
  BY DEF Placed
<1>2. PICK m \in Nat : m = Len(times)
  OBVIOUS
<1>3. PICK n \in Nat : n = Len(notes)
  OBVIOUS
<1>4. /\ f \in [1..m -> 1..n]
      /\ \A x, y \in 1..m : f[x] = f[y] => x = y
      /\ \A x \in 1..m : AdmittedTo(notes, f[x], b) /\ notes[f[x]].at = times[x]
      /\ \A j \in Kept : \E x \in 1..m : f[x] = j
  BY <1>1, <1>2, <1>3 DEF Assigns
<1>5. PICK T : T = {f[x] : x \in 1..m}
  OBVIOUS
<1>6. Kept \subseteq T /\ T \subseteq 1..n /\ Fresh \subseteq 1..n
  BY <1>3, <1>4, <1>5
<1>7. f \in Bijection(1..m, T)
  <2>1. f \in [1..m -> T]
    BY <1>4, <1>5
  <2>2. f \in Injection(1..m, T)
    BY <1>4, <2>1 DEF Injection, IsInjective
  <2>3. f \in Surjection(1..m, T)
    BY <1>5, <2>1 DEF Surjection
  <2>4. QED
    BY <2>2, <2>3 DEF Bijection
<1>8. IsFiniteSet(1..n)
  BY FS_Interval
<1>9. IsFiniteSet(T) /\ Cardinality(T) = m
  <2>1. ExistsBijection(1..m, T)
    BY <1>7 DEF ExistsBijection
  <2>2. QED
    BY <2>1, FS_NatBijection, FS_CountingElements
<1>10. /\ IsFiniteSet(Kept) /\ Cardinality(Kept) <= Cardinality(T)
       /\ IsFiniteSet(Fresh)
  BY <1>6, <1>8, <1>9, FS_Subset
<1>11. Cardinality(Kept) \in Nat /\ Cardinality(Fresh) \in Nat /\ Cardinality(T) \in Nat
  BY <1>9, <1>10, FS_CardinalityType
<1>12. ASSUME \A x \in 1..m : times[x] >= since PROVE m <= Cardinality(Fresh)
  <2>1. T \subseteq Fresh
    <3>1. ASSUME NEW x \in 1..m PROVE f[x] \in Fresh
      <4>1. f[x] \in 1..Len(notes) /\ AdmittedTo(notes, f[x], b) /\ notes[f[x]].at >= since
        BY <1>3, <1>4, <1>12
      <4>2. QED
        BY <4>1
    <3>2. QED
      BY <1>5, <3>1
  <2>2. Cardinality(T) <= Cardinality(Fresh)
    BY <1>10, <2>1, FS_Subset
  <2>3. QED
    BY <1>9, <2>2
<1>13. QED
  BY <1>2, <1>9, <1>10, <1>11, <1>12

\* What was exact of a request stays so: it only looks back.
LEMMA ExactBefore ==
  ASSUME NEW notes, NEW more, NEW e, Grown(notes, more, e), NEW i \in 1..Len(notes),
         ExactAt(notes, i)
  PROVE  ExactAt(more, i)
<1>1. \A j \in 1..i : more[j] = notes[j]
  BY DEF Grown
<1>2. more[i] = notes[i]
  BY DEF Grown
<1>3. RecentIn(more, i) = RecentIn(notes, i)
  BY <1>1, <1>2 DEF RecentIn, AdmittedTo
<1>4. \A j \in RecentIn(notes, i) : \A x \in j..i : x \in 1..i
  BY DEF RecentIn
<1>5. KeptIn(more, i) = KeptIn(notes, i)
  BY <1>1, <1>2, <1>3, <1>4 DEF KeptIn
<1>6. QED
  BY <1>2, <1>3, <1>5 DEF ExactAt

\* _window_for at the cap: the window tracked first goes, and the log says whose it was.
LEMMA EvictOldest ==
  ASSUME NEW notes, NEW table, NEW t, LimitOf(notes, table, t), NEW n \in Nat \ {0},
         Len(table) = n, NEW more, NEW e, Grown(notes, more, e),
         e.verdict = "evicted", e.who = table[1].bucket, e.at = t
  PROVE  LimitOf(more, Tail(table), t)
<1>1. /\ table \in Seq(Window) /\ t \in Nat
      /\ \A j \in 1..Len(notes) : notes[j].at <= t
      /\ \A p, q \in 1..n : table[p].bucket = table[q].bucket => p = q
      /\ \A p \in 1..n : Placed(notes, table[p].bucket, table[p].hits, t - RateWindow)
      /\ \A j \in 1..Len(notes), b \in Owner :
           Standing(notes, j, b) => \E p \in 1..n : table[p].bucket = b
      /\ \A i \in 1..Len(notes) : ExactAt(notes, i)
  BY DEF LimitOf
<1>2. PICK rest : rest = Tail(table)
  OBVIOUS
<1>3. /\ rest \in Seq(Window) /\ Len(rest) = n - 1
      /\ \A p \in 1..(n - 1) : rest[p] = table[p + 1] /\ p + 1 \in 1..n
  <2>1. PICK S : S = Window
    OBVIOUS
  <2>2. table \in Seq(S) /\ table # <<>>
    BY <1>1, <2>1
  <2>3. /\ rest \in Seq(S) /\ Len(rest) = n - 1
        /\ \A p \in 1..(n - 1) : rest[p] = table[p + 1]
    BY <1>2, <2>2, HeadTailProperties
  <2>4. \A p \in 1..(n - 1) : p + 1 \in 1..n
    OBVIOUS
  <2>5. QED
    BY <2>1, <2>3, <2>4
<1>4. /\ Len(notes) \in Nat /\ Len(more) = Len(notes) + 1 /\ more \in Seq(Noted)
      /\ \A j \in 1..Len(notes) : more[j] = notes[j]
      /\ more[Len(notes) + 1] = e
  BY DEF Grown
<1>5. \A j \in 1..Len(more) : j \in 1..Len(notes) \/ j = Len(notes) + 1
  BY <1>4
<1>6. \A j \in 1..Len(more) : more[j].at <= t
  BY <1>1, <1>4, <1>5
<1>7. ASSUME NEW p \in 1..(n - 1), NEW q \in 1..(n - 1), rest[p].bucket = rest[q].bucket
      PROVE  p = q
  <2>1. p + 1 = q + 1
    BY <1>1, <1>3, <1>7
  <2>2. QED
    BY <2>1
<1>8. ASSUME NEW p \in 1..(n - 1)
      PROVE  Placed(more, rest[p].bucket, rest[p].hits, t - RateWindow)
  <2>1. Placed(notes, rest[p].bucket, rest[p].hits, t - RateWindow)
    BY <1>1, <1>3
  <2>2. QED
    BY <2>1, PlacedOther
<1>9. ASSUME NEW j \in 1..Len(more), NEW b \in Owner, Standing(more, j, b)
      PROVE  \E p \in 1..(n - 1) : rest[p].bucket = b
  <2>1. j # Len(notes) + 1
    BY <1>4, <1>9 DEF Standing, AdmittedTo
  <2>2. j \in 1..Len(notes) /\ Len(notes) + 1 \in j..Len(more)
    BY <1>4, <1>5, <2>1
  <2>3. Standing(notes, j, b)
    BY <1>9, <2>2, StoodBefore
  <2>4. PICK p \in 1..n : table[p].bucket = b
    BY <1>1, <2>2, <2>3
  <2>5. b # table[1].bucket
    BY <1>4, <1>9, <2>2 DEF Standing
  <2>6. p - 1 \in 1..(n - 1) /\ (p - 1) + 1 = p
    BY <2>4, <2>5
  <2>7. QED
    BY <1>3, <2>4, <2>6
<1>10. ASSUME NEW i \in 1..Len(more) PROVE ExactAt(more, i)
  <2>1. CASE i \in 1..Len(notes)
    BY <1>1, <2>1, ExactBefore
  <2>2. CASE i = Len(notes) + 1
    BY <1>4, <2>2 DEF ExactAt
  <2>3. QED
    BY <1>5, <2>1, <2>2
<1>11. LimitOf(more, rest, t)
  BY <1>1, <1>3, <1>4, <1>6, <1>7, <1>8, <1>9, <1>10 DEF LimitOf
<1>12. QED
  BY <1>2, <1>11

\* A caller the table does not know gets an empty window: nothing of it still stands.
LEMMA TrackNewcomer ==
  ASSUME NEW notes, NEW table, NEW t, LimitOf(notes, table, t), NEW b \in Owner,
         \A p \in 1..Len(table) : table[p].bucket # b
  PROVE  LimitOf(notes, Append(table, [bucket |-> b, hits |-> <<>>]), t)
<1>1. /\ table \in Seq(Window) /\ t \in Nat /\ notes \in Seq(Noted)
      /\ \A j \in 1..Len(notes) : notes[j].at <= t
      /\ \A p, q \in 1..Len(table) : table[p].bucket = table[q].bucket => p = q
      /\ \A p \in 1..Len(table) : Placed(notes, table[p].bucket, table[p].hits, t - RateWindow)
      /\ \A j \in 1..Len(notes), c \in Owner :
           Standing(notes, j, c) => \E p \in 1..Len(table) : table[p].bucket = c
      /\ \A i \in 1..Len(notes) : ExactAt(notes, i)
  BY DEF LimitOf
<1>2. PICK w \in Window : w = [bucket |-> b, hits |-> <<>>]
  <2>1. <<>> \in Seq(Nat)
    OBVIOUS
  <2>2. QED
    BY <2>1 DEF Window
<1>3. PICK more : more = Append(table, w)
  OBVIOUS
<1>4. PICK n \in Nat : n = Len(table)
  BY <1>1
<1>5. /\ more \in Seq(Window) /\ Len(more) = n + 1
      /\ \A p \in 1..n : more[p] = table[p]
      /\ more[n + 1] = w
  <2>1. PICK S : S = Window
    OBVIOUS
  <2>2. table \in Seq(S) /\ w \in S
    BY <1>1, <2>1
  <2>3. QED
    BY <1>3, <1>4, <2>1, <2>2
<1>6. \A p \in 1..(n + 1) : p \in 1..n \/ p = n + 1
  OBVIOUS
<1>7. ASSUME NEW p \in 1..(n + 1), NEW q \in 1..(n + 1), more[p].bucket = more[q].bucket
      PROVE  p = q
  <2>1. \A x \in 1..n : more[x].bucket # b
    BY <1>4, <1>5
  <2>2. more[n + 1].bucket = b
    BY <1>2, <1>5
  <2>3. CASE p \in 1..n /\ q \in 1..n
    BY <1>1, <1>4, <1>5, <1>7, <2>3
  <2>4. QED
    BY <1>6, <1>7, <2>1, <2>2, <2>3
<1>8. Placed(notes, b, <<>>, t - RateWindow)
  <2>1. \A j \in 1..Len(notes) : ~Standing(notes, j, b)
    BY <1>1
  <2>2. PICK none : none = <<>>
    OBVIOUS
  <2>3. Len(none) = 0 /\ 1..Len(none) = {}
    BY <2>2
  <2>4. none \in [1..Len(none) -> 1..Len(notes)]
    BY <2>2, <2>3
  <2>5. Assigns(none, notes, b, none, t - RateWindow)
    BY <2>1, <2>3, <2>4 DEF Assigns
  <2>6. QED
    BY <2>2, <2>3, <2>5 DEF Placed, Ascending
<1>9. ASSUME NEW p \in 1..(n + 1)
      PROVE  Placed(notes, more[p].bucket, more[p].hits, t - RateWindow)
  <2>1. CASE p \in 1..n
    BY <1>1, <1>4, <1>5, <2>1
  <2>2. CASE p = n + 1
    BY <1>2, <1>5, <1>8, <2>2
  <2>3. QED
    BY <1>6, <2>1, <2>2
<1>10. ASSUME NEW j \in 1..Len(notes), NEW c \in Owner, Standing(notes, j, c)
       PROVE  \E p \in 1..(n + 1) : more[p].bucket = c
  <2>1. PICK p \in 1..n : table[p].bucket = c
    BY <1>1, <1>4, <1>10
  <2>2. p \in 1..(n + 1) /\ more[p].bucket = c
    BY <1>5, <2>1
  <2>3. QED
    BY <2>2
<1>11. LimitOf(notes, more, t)
  BY <1>1, <1>5, <1>7, <1>9, <1>10 DEF LimitOf
<1>12. QED
  BY <1>2, <1>3, <1>11

\* The verdict on the last request is exact when its caller's window is right.
LEMMA VerdictExact ==
  ASSUME NEW notes \in Seq(Noted), NEW last \in Nat \ {0}, last = Len(notes),
         NEW times \in Seq(Nat), NEW since \in Int, since = notes[last].at - RateWindow,
         Placed(notes, notes[last].who, times, since),
         notes[last].verdict = "admitted" => Len(times) <= RateLimit,
         notes[last].verdict = "limited" =>
           Len(times) >= RateLimit /\ \A x \in 1..Len(times) : times[x] >= since
  PROVE  ExactAt(notes, last)
<1>1. PICK b : b = notes[last].who
  OBVIOUS
<1>2. PICK Fresh : Fresh = {j \in 1..Len(notes) : AdmittedTo(notes, j, b) /\ notes[j].at >= since}
  OBVIOUS
<1>3. PICK Kept : Kept = {j \in 1..Len(notes) : Standing(notes, j, b) /\ notes[j].at >= since}
  OBVIOUS
<1>4. RecentIn(notes, last) = Fresh
  BY <1>1, <1>2 DEF RecentIn
<1>5. KeptIn(notes, last) = Kept
  BY <1>1, <1>2, <1>3, <1>4 DEF KeptIn, Standing
<1>6. /\ Cardinality(Kept) \in Nat /\ Cardinality(Fresh) \in Nat
      /\ Cardinality(Kept) <= Len(times)
      /\ (\A x \in 1..Len(times) : times[x] >= since) => Len(times) <= Cardinality(Fresh)
  <2>1. Placed(notes, b, times, since) /\ Len(notes) \in Nat
    BY <1>1
  <2>2. \A j : j \in Fresh <=>
          j \in 1..Len(notes) /\ AdmittedTo(notes, j, b) /\ notes[j].at >= since
    BY <1>2
  <2>3. \A j : j \in Kept <=>
          j \in 1..Len(notes) /\ Standing(notes, j, b) /\ notes[j].at >= since
    BY <1>3
  <2>4. QED
    BY <2>1, <2>2, <2>3, PlacedCounts
<1>7. PICK m \in Nat : m = Len(times)
  OBVIOUS
<1>8. CASE notes[last].verdict = "admitted"
  <2>1. Cardinality(Kept) <= RateLimit
    BY <1>6, <1>7, <1>8, LimiterAssumption
  <2>2. QED
    BY <1>5, <1>8, <2>1 DEF ExactAt
<1>9. CASE notes[last].verdict = "limited"
  <2>1. m >= RateLimit /\ m <= Cardinality(Fresh)
    BY <1>6, <1>7, <1>9
  <2>2. Cardinality(Fresh) >= RateLimit
    BY <1>6, <2>1, LimiterAssumption
  <2>3. QED
    BY <1>4, <1>9, <2>2 DEF ExactAt
<1>10. QED
  BY <1>8, <1>9 DEF ExactAt

\* What dispatch does to the window at o, its caller's: the hits it keeps, the verdict e
\* and the table it leaves.
Charges(table, o, t, hits, e, next) ==
  LET live == Live(table[o].hits, t)
  IN  /\ e.who = table[o].bucket /\ e.at = t
      /\ Len(live) < RateLimit => hits = Append(live, t) /\ e.verdict = "admitted"
      /\ ~(Len(live) < RateLimit) => hits = live /\ e.verdict = "limited"
      /\ Len(next) = Len(table) /\ (hits \in Seq(Nat) => next \in Seq(Window))
      /\ \A p \in 1..Len(table) :
           IF table[p].bucket = table[o].bucket
           THEN next[p].bucket = table[o].bucket /\ next[p].hits = hits
           ELSE next[p] = table[p]

\* dispatch on a tracked caller: the verdict it logs is exact, and so is what it charges.
LEMMA ChargeCaller ==
  ASSUME NEW notes, NEW table, NEW t, LimitOf(notes, table, t), NEW o \in 1..Len(table),
         NEW more, NEW e, Grown(notes, more, e), NEW hits, NEW next,
         Charges(table, o, t, hits, e, next)
  PROVE  LimitOf(more, next, t)
<1> DEFINE b == table[o].bucket
           live == Live(table[o].hits, t)
<1>0. /\ e.who = b /\ e.at = t
      /\ Len(live) < RateLimit => hits = Append(live, t) /\ e.verdict = "admitted"
      /\ ~(Len(live) < RateLimit) => hits = live /\ e.verdict = "limited"
      /\ Len(next) = Len(table) /\ (hits \in Seq(Nat) => next \in Seq(Window))
      /\ \A p \in 1..Len(table) :
           IF table[p].bucket = b THEN next[p].bucket = b /\ next[p].hits = hits
           ELSE next[p] = table[p]
  BY DEF Charges
<1>1. /\ table \in Seq(Window) /\ t \in Nat /\ notes \in Seq(Noted)
      /\ \A j \in 1..Len(notes) : notes[j].at <= t
      /\ \A p, q \in 1..Len(table) : table[p].bucket = table[q].bucket => p = q
      /\ \A p \in 1..Len(table) : Placed(notes, table[p].bucket, table[p].hits, t - RateWindow)
      /\ \A j \in 1..Len(notes), c \in Owner :
           Standing(notes, j, c) => \E p \in 1..Len(table) : table[p].bucket = c
      /\ \A i \in 1..Len(notes) : ExactAt(notes, i)
  BY DEF LimitOf
<1> HIDE DEF live
<1>2. PICK n \in Nat : n = Len(table)
  BY <1>1
<1>3. \A p \in 1..n : table[p].bucket = b <=> p = o
  BY <1>1, <1>2
<1>4. PICK since \in Int : since = t - RateWindow
  BY <1>1, LimiterAssumption
<1>5. PICK k \in Nat : k = Len(notes)
  BY <1>1
<1>6. /\ Len(more) = k + 1 /\ more \in Seq(Noted)
      /\ \A j \in 1..k : more[j] = notes[j]
      /\ more[k + 1] = e
  BY <1>5 DEF Grown
<1>7. \A j \in 1..(k + 1) : j \in 1..k \/ j = k + 1
  OBVIOUS
<1>8. /\ live \in Seq(Nat) /\ Len(live) \in Nat
      /\ \A x \in 1..Len(live) : live[x] >= since
      /\ Placed(notes, b, live, since)
  <2>1. PICK times \in Seq(Nat) : times = table[o].hits
    <3>1. table[o] \in Window
      BY <1>1
    <3>2. QED
      BY <3>1 DEF Window
  <2>2. Placed(notes, b, times, t - RateWindow)
    BY <1>1, <2>1
  <2>3. /\ Live(times, t) \in Seq(Nat)
        /\ \A x \in 1..Len(Live(times, t)) : Live(times, t)[x] >= t - RateWindow
        /\ Placed(notes, b, Live(times, t), t - RateWindow)
    BY <1>1, <2>2, PlacedLive
  <2>4. live = Live(times, t)
    BY <2>1 DEF live
  <2>5. live \in Seq(Nat)
    BY <2>3, <2>4
  <2>6. Len(live) \in Nat
    BY <2>5
  <2>7. \A x \in 1..Len(live) : live[x] >= since
    BY <1>4, <2>3, <2>4
  <2>8. Placed(notes, b, live, since)
    BY <1>4, <2>3, <2>4
  <2>9. QED
    BY <2>5, <2>6, <2>7, <2>8
<1>9. /\ hits \in Seq(Nat) /\ Placed(more, b, hits, since)
      /\ e.verdict = "admitted" => Len(hits) <= RateLimit
      /\ e.verdict = "limited" =>
           Len(hits) >= RateLimit /\ \A x \in 1..Len(hits) : hits[x] >= since
  <2>1. CASE Len(live) < RateLimit
    <3>1. hits = Append(live, t) /\ e.verdict = "admitted"
      BY <1>0, <2>1
    <3>2. Append(live, t) \in Seq(Nat) /\ Len(Append(live, t)) = Len(live) + 1
      BY <1>1, <1>8
    <3>3. Placed(more, b, Append(live, t), since)
      <4>1. live \in Seq(Nat) /\ t \in Nat /\ Placed(notes, b, live, since)
        BY <1>1, <1>8
      <4>2. \A j \in 1..Len(notes) : notes[j].at <= t
        BY <1>1
      <4>3. e.verdict = "admitted" /\ e.who = b /\ e.at = t
        BY <1>0, <3>1
      <4>4. QED
        BY <4>1, <4>2, <4>3, PlacedAdmit, Zenon
    <3>4. Len(hits) <= RateLimit
      BY <1>8, <2>1, <3>1, <3>2, LimiterAssumption
    <3>5. QED
      BY <3>1, <3>2, <3>3, <3>4
  <2>2. CASE ~(Len(live) < RateLimit)
    <3>1. hits = live /\ e.verdict = "limited"
      BY <1>0, <2>2
    <3>2. Placed(more, b, live, since)
      BY <1>8, <3>1, PlacedOther
    <3>3. Len(live) >= RateLimit
      BY <1>8, <2>2, LimiterAssumption
    <3>4. QED
      BY <1>8, <3>1, <3>2, <3>3
  <2>3. QED
    BY <2>1, <2>2
<1>10. ExactAt(more, k + 1)
  <2>1. PICK last \in Nat \ {0} : last = k + 1
    OBVIOUS
  <2>2. PICK final \in Seq(Noted) : final = more
    BY <1>6
  <2>3. final[last] = e /\ last = Len(final) /\ since = final[last].at - RateWindow
    BY <1>0, <1>4, <1>6, <2>1, <2>2
  <2>4. Placed(final, final[last].who, hits, since)
    BY <1>0, <1>9, <2>2, <2>3
  <2>5. ExactAt(final, last)
    BY <1>9, <2>3, <2>4, VerdictExact
  <2>6. QED
    BY <2>1, <2>2, <2>5
<1>11. next \in Seq(Window) /\ Len(next) = n
  BY <1>0, <1>2, <1>9
<1>12. \A p \in 1..n : /\ next[p].bucket = table[p].bucket
                       /\ p = o => next[p].hits = hits
                       /\ p # o => next[p] = table[p]
  BY <1>0, <1>2, <1>3
<1>13. \A j \in 1..(k + 1) : more[j].at <= t
  BY <1>0, <1>1, <1>5, <1>6, <1>7
<1>14. ASSUME NEW p \in 1..n PROVE Placed(more, next[p].bucket, next[p].hits, since)
  <2>1. CASE p = o
    BY <1>9, <1>12, <2>1
  <2>2. CASE p # o
    <3>1. next[p] = table[p] /\ table[p].bucket # b
      BY <1>3, <1>12, <2>2
    <3>2. Placed(notes, table[p].bucket, table[p].hits, since)
      BY <1>1, <1>2, <1>4
    <3>3. Placed(more, table[p].bucket, table[p].hits, since)
      BY <1>0, <3>1, <3>2, PlacedOther
    <3>4. QED
      BY <3>1, <3>3
  <2>3. QED
    BY <2>1, <2>2
<1>15. ASSUME NEW j \in 1..(k + 1), NEW c \in Owner, Standing(more, j, c)
       PROVE  \E p \in 1..n : next[p].bucket = c
  <2>1. CASE j \in 1..k
    <3>1. Standing(notes, j, c)
      BY <1>5, <1>15, <2>1, StoodBefore
    <3>2. QED
      BY <1>1, <1>2, <1>5, <1>12, <2>1, <3>1
  <2>2. CASE j = k + 1
    <3>1. c = b
      BY <1>0, <1>6, <1>15, <2>2 DEF Standing, AdmittedTo
    <3>2. QED
      BY <1>2, <1>12, <3>1
  <2>3. QED
    BY <1>7, <2>1, <2>2
<1>16. ASSUME NEW i \in 1..(k + 1) PROVE ExactAt(more, i)
  <2>1. CASE i \in 1..k
    BY <1>1, <1>5, <2>1, ExactBefore
  <2>2. QED
    BY <1>7, <1>10, <2>1
<1>17. \A p, q \in 1..n : next[p].bucket = next[q].bucket => p = q
  BY <1>1, <1>2, <1>12
<1>18. QED
  BY <1>1, <1>4, <1>6, <1>11, <1>13, <1>14, <1>15, <1>16, <1>17 DEF LimitOf

\* The whole of dispatch, its eviction included.
LEMMA DispatchExact ==
  ASSUME LimitOf(log, windows, now), NEW c \in Client \cup {Walker}, NEW a \in BOOLEAN,
         Dispatch(c, a)
  PROVE  LimitOf(log', windows', now)
<1>1. PICK b \in Owner : b = Bucket(c, a)
  BY DEF Bucket, Owner
<1>2. PICK t \in Nat : t = now
  BY DEF LimitOf
<1>3. PICK notes \in Seq(Noted) : notes = log
  BY DEF LimitOf
<1>4. PICK table \in Seq(Window) : table = windows
  BY DEF LimitOf
<1>5. LimitOf(notes, table, t)
  BY <1>2, <1>3, <1>4
<1>6. PICK n \in Nat : n = Len(table) /\ DOMAIN table = 1..n
  OBVIOUS
<1>7. PICK gone : gone = [who |-> table[1].bucket, at |-> t, verdict |-> "evicted"]
  OBVIOUS
<1>8. PICK evicted : evicted = IF Evicts(table, b) THEN <<gone>> ELSE <<>>
  OBVIOUS
<1>9. PICK kept : kept = WindowFor(table, b)
  OBVIOUS
<1>10. /\ windows' = Charged(table, b, t)
       /\ log' = Append(notes \o evicted, [who |-> b, at |-> t,
                   verdict |-> IF Admits(table, b, t) THEN "admitted" ELSE "limited"])
  BY <1>1, <1>2, <1>3, <1>4, <1>7, <1>8 DEF Dispatch, Bucket
<1>11. PICK before : before = notes \o evicted
  OBVIOUS
<1>12. LimitOf(before, kept, t) /\ \E o \in 1..Len(kept) : kept[o].bucket = b
  <2>1. CASE Tracked(table, b)
    <3>1. before = notes /\ kept = table
      BY <1>8, <1>9, <1>11, <2>1 DEF Evicts, WindowFor
    <3>2. QED
      BY <1>5, <1>6, <2>1, <3>1 DEF Tracked
  <2>2. CASE ~Tracked(table, b)
    <3>1. \A p \in 1..n : table[p].bucket # b
      BY <1>6, <2>2 DEF Tracked
    <3>2. PICK rest : rest = IF Evicts(table, b) THEN Tail(table) ELSE table
      OBVIOUS
    <3>3. kept = Append(rest, [bucket |-> b, hits |-> <<>>])
      BY <1>9, <2>2, <3>2 DEF WindowFor
    <3>4. LimitOf(before, rest, t) /\ \A p \in 1..Len(rest) : rest[p].bucket # b
      <4>1. CASE ~Evicts(table, b)
        BY <1>5, <1>6, <1>8, <1>11, <3>1, <3>2, <4>1
      <4>2. CASE Evicts(table, b)
        <5>1. n \in Nat \ {0}
          BY <1>6, <4>2, LimiterAssumption DEF Evicts
        <5>2. gone \in Noted /\ gone.who = table[1].bucket /\ gone.at = t
              /\ gone.verdict = "evicted"
          <6>1. table[1] \in Window
            BY <1>6, <5>1
          <6>2. QED
            BY <1>7, <6>1 DEF Window, Noted
        <5>3. before = Append(notes, gone)
          <6>1. PICK S : S = Noted
            OBVIOUS
          <6>2. notes \in Seq(S) /\ gone \in S
            BY <5>2, <6>1
          <6>3. notes \o <<gone>> = Append(notes, gone)
            BY <6>2
          <6>4. QED
            BY <1>8, <1>11, <4>2, <6>3
        <5>4. Grown(notes, before, gone)
          BY <5>2, <5>3, AppendGrows
        <5>5. LimitOf(before, Tail(table), t)
          BY <1>5, <1>6, <5>1, <5>2, <5>4, EvictOldest
        <5>6. Len(Tail(table)) = n - 1 /\ \A p \in 1..(n - 1) : Tail(table)[p] = table[p + 1]
          <6>1. PICK S : S = Window
            OBVIOUS
          <6>2. table \in Seq(S) /\ table # <<>>
            BY <1>6, <5>1, <6>1
          <6>3. QED
            BY <1>6, <6>2, HeadTailProperties
        <5>7. \A p \in 1..(n - 1) : p + 1 \in 1..n
          OBVIOUS
        <5>8. QED
          BY <3>1, <3>2, <4>2, <5>5, <5>6, <5>7
      <4>3. QED
        BY <4>1, <4>2
    <3>5. LimitOf(before, kept, t)
      BY <3>3, <3>4, TrackNewcomer
    <3>6. \E o \in 1..Len(kept) : kept[o].bucket = b
      <4>1. PICK w : w = [bucket |-> b, hits |-> <<>>]
        OBVIOUS
      <4>2. rest \in Seq(Window) /\ Len(rest) \in Nat
        BY <3>4 DEF LimitOf
      <4>3. PICK S : S = Window
        OBVIOUS
      <4>4. w \in S
        BY <4>1, <4>3 DEF Window
      <4>5. rest \in Seq(S) /\ kept = Append(rest, w)
        BY <3>3, <4>1, <4>2, <4>3
      <4>6. Len(kept) = Len(rest) + 1 /\ kept[Len(rest) + 1] = w
        BY <4>4, <4>5
      <4>7. Len(rest) + 1 \in 1..Len(kept) /\ w.bucket = b
        BY <4>1, <4>2, <4>6
      <4>8. QED
        BY <4>6, <4>7
    <3>7. QED
      BY <3>5, <3>6
  <2>3. QED
    BY <2>1, <2>2
<1>13. kept \in Seq(Window) /\ DOMAIN kept = 1..Len(kept) /\ Len(kept) \in Nat
  <2>1. kept \in Seq(Window)
    BY <1>12 DEF LimitOf
  <2>2. PICK S : S = Window
    OBVIOUS
  <2>3. QED
    BY <2>1, <2>2
<1>14. PICK o \in 1..Len(kept) :
         /\ kept[o].bucket = b
         /\ o = CHOOSE p \in DOMAIN kept : kept[p].bucket = b
  BY <1>12, <1>13
<1>15. PICK live : live = Live(kept[o].hits, t)
  OBVIOUS
<1>16. live = Live(HitsOf(WindowFor(table, b), b), t)
  BY <1>9, <1>14, <1>15 DEF HitsOf
<1>17. PICK hits : hits = IF Len(live) < RateLimit THEN Append(live, t) ELSE live
  OBVIOUS
<1>18. PICK w : w = [bucket |-> b, hits |-> hits]
  OBVIOUS
<1>19. Admits(table, b, t) <=> Len(live) < RateLimit
  BY <1>16 DEF Admits
<1>20. hits = IF Admits(table, b, t)
              THEN Append(Live(HitsOf(WindowFor(table, b), b), t), t)
              ELSE Live(HitsOf(WindowFor(table, b), b), t)
  BY <1>16, <1>17, <1>19
<1>21. windows' = [p \in 1..Len(kept) |-> IF kept[p].bucket = b THEN w ELSE kept[p]]
  <2>1. Charged(table, b, t) = [p \in DOMAIN kept |-> IF kept[p].bucket = b THEN w ELSE kept[p]]
    BY <1>9, <1>18, <1>20 DEF Charged
  <2>2. QED
    BY <1>10, <1>13, <2>1
<1>22. PICK e : e = [who |-> b, at |-> t,
                     verdict |-> IF Len(live) < RateLimit THEN "admitted" ELSE "limited"]
  OBVIOUS
<1>23. e \in Noted
  BY <1>22 DEF Noted
<1>24. log' = Append(before, e)
  BY <1>10, <1>11, <1>19, <1>22
<1>25. Grown(before, log', e)
  <2>1. before \in Seq(Noted)
    BY <1>12 DEF LimitOf
  <2>2. QED
    BY <1>23, <1>24, <2>1, AppendGrows
<1>26. PICK more, next : more = log' /\ next = windows'
  OBVIOUS
<1>27. LimitOf(more, next, t)
  <2>1. LimitOf(before, kept, t) /\ kept[o].bucket = b /\ live = Live(kept[o].hits, t)
    BY <1>12, <1>14, <1>15
  <2>2. Grown(before, more, e)
    BY <1>25, <1>26
  <2>3. e.who = b /\ e.at = t
    BY <1>22
  <2>4. /\ Len(live) < RateLimit => hits = Append(live, t) /\ e.verdict = "admitted"
        /\ ~(Len(live) < RateLimit) => hits = live /\ e.verdict = "limited"
    BY <1>17, <1>22
  <2>5. next = [p \in 1..Len(kept) |-> IF kept[p].bucket = b THEN w ELSE kept[p]]
    BY <1>21, <1>26
  <2>6. \A p \in 1..Len(kept) :
          IF kept[p].bucket = b THEN next[p].bucket = b /\ next[p].hits = hits
          ELSE next[p] = kept[p]
    BY <1>18, <2>5
  <2>7. Len(next) = Len(kept) /\ (hits \in Seq(Nat) => next \in Seq(Window))
    <3>1. PICK S : S = Window
      OBVIOUS
    <3>2. PICK n2 \in Nat : n2 = Len(kept)
      BY <1>13
    <3>3. \A p \in 1..n2 : kept[p] \in S
      BY <1>13, <3>1, <3>2
    <3>4. DOMAIN next = 1..n2 /\ next = [p \in 1..n2 |-> next[p]]
      BY <2>5, <3>2
    <3>5. Len(next) = n2
      BY <3>4
    <3>6. ASSUME hits \in Seq(Nat) PROVE next \in Seq(S)
      <4>1. w \in S
        BY <1>18, <3>1, <3>6 DEF Window
      <4>2. next \in [1..n2 -> S]
        BY <2>5, <3>2, <3>3, <4>1
      <4>3. QED
        BY <4>2
    <3>7. QED
      BY <3>1, <3>2, <3>5, <3>6
  <2>8. Charges(kept, o, t, hits, e, next)
    BY <2>1, <2>3, <2>4, <2>6, <2>7 DEF Charges
  <2>9. QED
    BY <2>1, <2>2, <2>8, ChargeCaller
<1>28. QED
  BY <1>2, <1>26, <1>27

\* Time passing takes admissions out of the window and puts none in.
LEMMA TickExact ==
  ASSUME NEW notes, NEW table, NEW t, NEW u \in Nat, t <= u, LimitOf(notes, table, t)
  PROVE  LimitOf(notes, table, u)
<1>1. /\ notes \in Seq(Noted) /\ t \in Nat
      /\ \A j \in 1..Len(notes) : notes[j].at <= t
  BY DEF LimitOf
<1>2. \A j \in 1..Len(notes) : notes[j].at \in Nat
  <2>1. \A j \in 1..Len(notes) : notes[j] \in Noted
    BY <1>1
  <2>2. QED
    BY <2>1 DEF Noted
<1>3. \A j \in 1..Len(notes) : notes[j].at <= u
  BY <1>1, <1>2
<1>4. \A j \in 1..Len(notes) : notes[j].at >= u - RateWindow => notes[j].at >= t - RateWindow
  BY <1>1, <1>2, LimiterAssumption
<1>5. ASSUME NEW b, NEW times, Placed(notes, b, times, t - RateWindow)
      PROVE  Placed(notes, b, times, u - RateWindow)
  <2>1. PICK f : Assigns(f, notes, b, times, t - RateWindow)
    BY <1>5 DEF Placed
  <2>2. Assigns(f, notes, b, times, u - RateWindow)
    BY <1>4, <2>1 DEF Assigns
  <2>3. QED
    BY <1>5, <2>2 DEF Placed
<1>6. QED
  BY <1>3, <1>5 DEF LimitOf

\* Every request on a limited path gets the verdict its own caller's admissions call for:
\* refused only when that caller spent the limit within the window, admitted past it only
\* if the bounded table had evicted its window, for every limit, window and table size.
THEOREM LimitsAreExact == Spec => []LimitExact
<1> DEFINE Inv == LimitOf(log, windows, now)
<1>1. Init => Inv
  <2> SUFFICES ASSUME Init PROVE Inv
    OBVIOUS
  <2>1. log = <<>> /\ windows = <<>> /\ now \in Nat
    BY RetentionAssumption DEF Init, RetentionInit
  <2>2. Len(log) = 0 /\ Len(windows) = 0
    BY <2>1
  <2>3. log \in Seq(Noted) /\ windows \in Seq(Window)
    BY <2>1
  <2>4. QED
    BY <2>1, <2>2, <2>3 DEF LimitOf
<1>2. ASSUME Inv, [Next]_vars PROVE Inv'
  <2>1. CASE UNCHANGED <<log, windows, now>>
    BY <1>2, <2>1
  <2>2. CASE \E c \in Client, authenticated \in BOOLEAN : OtherRequest(c, authenticated)
    <3>1. PICK c \in Client, a \in BOOLEAN : OtherRequest(c, a)
      BY <2>2
    <3>2. Dispatch(c, a) /\ now' = now /\ c \in Client \cup {Walker}
      BY <3>1 DEF OtherRequest, retentionVars
    <3>3. QED
      BY <1>2, <3>2, DispatchExact
  <2>3. CASE \E limit \in PageSizes : PageBegins(Walker, limit)
    <3>1. Dispatch(Walker, TRUE) /\ now' = now /\ Walker \in Client \cup {Walker}
      BY <2>3 DEF PageBegins, retentionVars
    <3>2. QED
      BY <1>2, <3>1, DispatchExact
  <2>4. CASE Tick
    <3>1. UNCHANGED <<log, windows>> /\ now' = now + 1
      BY <2>4 DEF Tick, limitVars, apiVars
    <3>2. now \in Nat
      BY <1>2 DEF LimitOf
    <3>3. PICK u \in Nat : u = now' /\ now <= u
      BY <3>1, <3>2
    <3>4. LimitOf(log, windows, u)
      BY <1>2, <3>3, TickExact
    <3>5. QED
      BY <3>1, <3>3, <3>4
  <2>5. CASE (Inserts /\ UNCHANGED apiVars) \/ (PrunerStep /\ UNCHANGED apiVars)
             \/ (LateDelete /\ UNCHANGED apiVars)
    <3>1. now' = now
      BY <2>5 DEF Inserts, Insert, PrunerStep, PruneBegins, PruneOneBatch, BetweenBatches,
                  PruneFails, PrunerWakes, LateDelete
    <3>2. QED
      BY <2>1, <2>5, <3>1 DEF apiVars, limitVars
  <2>6. CASE \E p \in Prober : ReadyRequest(p) \/ ProbeStep(p)
    BY <2>1, <2>6 DEF ReadyRequest, ProbeStep, ProbeCached, ProbeBegins, ProbeEnds,
                      limitVars, retentionVars
  <2>7. QED
    BY <1>2, <2>1, <2>2, <2>3, <2>4, <2>5, <2>6
       DEF Next, PageEnds, HealthChanges, PipelineDies, Terminate, Shutdown,
           ShutDownForRestart, Terminated, StopBegins, PrunerAwaited, Dispose, Exited, vars,
           apiVars, limitVars, retentionVars
<1>3. Inv => LimitExact
  <2> SUFFICES ASSUME Inv PROVE LimitExact
    OBVIOUS
  <2>1. DOMAIN log = 1..Len(log)
    BY DEF LimitOf
  <2>2. ASSUME NEW i \in 1..Len(log)
        PROVE  /\ log[i].verdict = "limited" => Cardinality(Recent(i)) >= RateLimit
               /\ log[i].verdict = "admitted" =>
                    Cardinality({j \in Recent(i) :
                      \A e \in j..i : ~(log[e].verdict = "evicted" /\ Same(e, i))}) <= RateLimit
    <3>1. ExactAt(log, i)
      BY DEF LimitOf
    <3>2. Recent(i) = RecentIn(log, i)
      BY DEF Recent, RecentIn, AdmittedTo, Same
    <3>3. {j \in Recent(i) : \A e \in j..i : ~(log[e].verdict = "evicted" /\ Same(e, i))}
            = KeptIn(log, i)
      BY <3>2 DEF KeptIn, Same
    <3>4. QED
      BY <3>1, <3>2, <3>3 DEF ExactAt
  <2>3. QED
    BY <2>1, <2>2 DEF LimitExact
<1> HIDE DEF Inv
<1>4. QED
  BY <1>1, <1>2, <1>3, PTL DEF Spec
=============================================================================
