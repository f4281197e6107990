------------------------- MODULE WriteBehindProofs -------------------------
(***************************************************************************)
(* Theorems about WriteBehind, for every buffer size, batch size, number of *)
(* events and alerts, and every fault the database may have.                *)
(***************************************************************************)
EXTENDS WriteBehind, SequenceTheorems, FiniteSetTheorems, TLAPS

(***************************************************************************)
(* Sequences of write ids.  A buffer holds its records in the order they    *)
(* were made, so what the code does to it by position (trim, concatenate,   *)
(* take the next row) is what it does to a set of ids by age.               *)
(***************************************************************************)

Increasing(s) == \A i, j \in 1..Len(s) : i < j => s[i] < s[j]

\* The range of a sequence, by position.
LEMMA RangeOf ==
  ASSUME NEW S, NEW s \in Seq(S)
  PROVE  /\ Range(s) \subseteq S
         /\ \A x : x \in Range(s) <=> \E i \in 1..Len(s) : x = s[i]
         /\ Range(s) = {} <=> s = <<>>
<1>1. DOMAIN s = 1..Len(s) /\ Len(s) \in Nat /\ \A i \in 1..Len(s) : s[i] \in S
  OBVIOUS
<1>2. \A x : x \in Range(s) <=> \E i \in 1..Len(s) : x = s[i]
  BY <1>1 DEF Range
<1>3. Range(s) = {} => s = <<>>
  <2> SUFFICES ASSUME s # <<>> PROVE Range(s) # {}
    OBVIOUS
  <2>1. 1 \in 1..Len(s)
    OBVIOUS
  <2>2. QED
    BY <1>2, <2>1
<1>4. s = <<>> => Range(s) = {}
  <2> SUFFICES ASSUME s = <<>> PROVE Range(s) = {}
    OBVIOUS
  <2>1. Len(s) = 0
    OBVIOUS
  <2>2. QED
    BY <1>2, <2>1
<1>5. QED
  BY <1>1, <1>2, <1>3, <1>4

\* _trim_pending on an ordered buffer: the newest records stay, in order, the older
\* ones go, and as many are counted as go.
LEMMA Trimmed ==
  ASSUME NEW S \in SUBSET Nat, NEW s \in Seq(S), Increasing(s)
  PROVE  /\ Newest(s) \in Seq(S) /\ Increasing(Newest(s))
         /\ Range(Newest(s)) \subseteq Range(s)
         /\ Oldest(s) = Range(s) \ Range(Newest(s))
         /\ IsFiniteSet(Oldest(s)) /\ Cardinality(Oldest(s)) = Excess(s)
<1>1. /\ Len(s) \in Nat /\ MaxBuffered \in Nat \ {0}
      /\ \A i \in 1..Len(s) : s[i] \in Nat /\ s[i] \in S
  <2>1. Len(s) \in Nat /\ \A i \in 1..Len(s) : s[i] \in S
    OBVIOUS
  <2>2. \A x \in S : x \in Nat
    OBVIOUS
  <2>3. MaxBuffered \in Nat \ {0}
    BY WriteBehindAssumption
  <2>4. QED
    BY <2>1, <2>2, <2>3
<1>2. CASE ~(Len(s) > MaxBuffered)
  <2>1. Newest(s) = s /\ Excess(s) = 0
    BY <1>2 DEF Newest, Excess
  <2>2. 1..(Len(s) - MaxBuffered) = {}
    BY <1>1, <1>2
  <2>3. Oldest(s) = {}
    BY <2>2 DEF Oldest
  <2>4. QED
    BY <2>1, <2>3, FS_EmptySet
<1>3. CASE Len(s) > MaxBuffered
  <2> DEFINE d == Len(s) - MaxBuffered
             t == SubSeq(s, d + 1, Len(s))
  <2>1. Newest(s) = t /\ Excess(s) = d /\ d \in Nat /\ d < Len(s)
    BY <1>1, <1>3 DEF Newest, Excess
  <2>2. \A i \in (d + 1)..Len(s) : s[i] \in S
    BY <1>1, <2>1
  <2>3. /\ t \in Seq(S) /\ Len(t) = Len(s) - d
        /\ \A i \in 1..(Len(s) - d) : t[i] = s[i + d]
    BY <1>1, <2>1, <2>2, SubSeqProperties
  <2> HIDE DEF t
  <2>4. Oldest(s) = {s[i] : i \in 1..d}
    BY DEF Oldest
  <2> HIDE DEF d
  <2>5. Increasing(t)
    <3> SUFFICES ASSUME NEW i \in 1..Len(t), NEW j \in 1..Len(t), i < j
                 PROVE  t[i] < t[j]
      BY DEF Increasing
    <3>1. i + d \in 1..Len(s) /\ j + d \in 1..Len(s) /\ i + d < j + d
      BY <1>1, <2>1, <2>3
    <3>2. QED
      BY <2>3, <3>1 DEF Increasing
  <2>6. \A x : x \in Range(t) <=> \E i \in (d + 1)..Len(s) : x = s[i]
    <3>1. \A i \in 1..Len(t) : i + d \in (d + 1)..Len(s) /\ t[i] = s[i + d]
      BY <1>1, <2>1, <2>3
    <3>2. \A i \in (d + 1)..Len(s) : i - d \in 1..Len(t) /\ t[i - d] = s[i]
      BY <1>1, <2>1, <2>3
    <3>3. \A x : x \in Range(t) <=> \E i \in 1..Len(t) : x = t[i]
      BY <2>3, RangeOf
    <3>4. ASSUME NEW x, NEW i \in 1..Len(t), x = t[i]
          PROVE  \E k \in (d + 1)..Len(s) : x = s[k]
      BY <3>1, <3>4
    <3>5. ASSUME NEW x, NEW i \in (d + 1)..Len(s), x = s[i]
          PROVE  \E k \in 1..Len(t) : x = t[k]
      BY <3>2, <3>5
    <3>6. QED
      BY <3>3, <3>4, <3>5
  <2>7. \A x : x \in Range(s) <=> \E i \in 1..Len(s) : x = s[i]
    BY RangeOf
  <2>8. Range(t) \subseteq Range(s)
    BY <1>1, <2>1, <2>6, <2>7
  <2>9. Oldest(s) = Range(s) \ Range(t)
    <3>1. ASSUME NEW x \in Oldest(s) PROVE x \in Range(s) /\ x \notin Range(t)
      <4>1. PICK i \in 1..d : x = s[i]
        BY <2>4, <3>1
      <4>2. i \in 1..Len(s)
        BY <1>1, <2>1
      <4>3. ASSUME NEW j \in (d + 1)..Len(s) PROVE s[j] # x
        <5>1. j \in 1..Len(s) /\ i < j
          BY <1>1, <2>1
        <5>2. s[i] < s[j] /\ s[i] \in Nat /\ s[j] \in Nat
          BY <1>1, <4>2, <5>1 DEF Increasing
        <5>3. QED
          BY <4>1, <5>2
      <4>4. QED
        BY <2>6, <2>7, <4>1, <4>2, <4>3
    <3>2. ASSUME NEW x \in Range(s), x \notin Range(t) PROVE x \in Oldest(s)
      <4>1. PICK i \in 1..Len(s) : x = s[i]
        BY <2>7, <3>2
      <4>2. i \notin (d + 1)..Len(s)
        BY <2>6, <3>2, <4>1
      <4>3. i \in 1..d
        BY <1>1, <2>1, <4>2
      <4>4. QED
        BY <2>4, <4>1, <4>3
    <3>3. QED
      BY <3>1, <3>2
  <2>10. IsFiniteSet(Oldest(s)) /\ Cardinality(Oldest(s)) = d
    <3> DEFINE f == [i \in 1..d |-> s[i]]
    <3>1. f \in [1..d -> Oldest(s)] /\ \A x \in Oldest(s) : \E i \in 1..d : f[i] = x
      BY <2>4
    <3>2. \A i, j \in 1..d : f[i] = f[j] => i = j
      <4> SUFFICES ASSUME NEW i \in 1..d, NEW j \in 1..d, i < j PROVE s[i] # s[j]
        BY <2>1
      <4>1. i \in 1..Len(s) /\ j \in 1..Len(s)
        BY <1>1, <2>1
      <4>2. s[i] < s[j] /\ s[i] \in Nat /\ s[j] \in Nat
        BY <1>1, <4>1 DEF Increasing
      <4>3. QED
        BY <4>2
    <3> HIDE DEF f
    <3>3. f \in Bijection(1..d, Oldest(s))
      BY <3>1, <3>2 DEF Bijection, Injection, Surjection, IsInjective
    <3>4. ExistsBijection(1..d, Oldest(s))
      BY <3>3 DEF ExistsBijection
    <3>5. QED
      BY <2>1, <3>4, FS_NatBijection, FS_CountingElements
  <2>11. QED
    BY <2>1, <2>3, <2>5, <2>8, <2>9, <2>10
<1>4. QED
  BY <1>2, <1>3

\* One ordered buffer put before another whose records are all younger.
LEMMA Joined ==
  ASSUME NEW S \in SUBSET Nat, NEW s \in Seq(S), NEW t \in Seq(S),
         Increasing(s), Increasing(t), \A x \in Range(s), y \in Range(t) : x < y
  PROVE  /\ s \o t \in Seq(S) /\ Increasing(s \o t)
         /\ Range(s \o t) = Range(s) \cup Range(t)
         /\ Len(s \o t) = Len(s) + Len(t)
<1> DEFINE u == s \o t
<1>1. /\ u \in Seq(S) /\ Len(u) = Len(s) + Len(t) /\ Len(s) \in Nat /\ Len(t) \in Nat
      /\ \A i \in 1..Len(s) + Len(t) : u[i] = IF i <= Len(s) THEN s[i] ELSE t[i - Len(s)]
  BY ConcatProperties
<1>2. Range(u) = Range(s) \cup Range(t)
  BY RangeConcatenation
<1> HIDE DEF u
<1>3. Increasing(u)
  <2> SUFFICES ASSUME NEW i \in 1..Len(u), NEW j \in 1..Len(u), i < j
               PROVE  u[i] < u[j]
    BY DEF Increasing
  <2>1. CASE j <= Len(s)
    BY <1>1, <2>1 DEF Increasing
  <2>2. CASE i <= Len(s) /\ ~(j <= Len(s))
    <3>1. u[i] = s[i] /\ i \in 1..Len(s) /\ u[j] = t[j - Len(s)] /\ j - Len(s) \in 1..Len(t)
      BY <1>1, <2>2
    <3>2. u[i] \in Range(s) /\ u[j] \in Range(t)
      BY <3>1, RangeOf
    <3>3. QED
      BY <3>2
  <2>3. CASE ~(i <= Len(s))
    <3>1. /\ u[i] = t[i - Len(s)] /\ i - Len(s) \in 1..Len(t)
          /\ u[j] = t[j - Len(s)] /\ j - Len(s) \in 1..Len(t) /\ i - Len(s) < j - Len(s)
      BY <1>1, <2>3
    <3>2. QED
      BY <3>1 DEF Increasing
  <2>4. QED
    BY <2>1, <2>2, <2>3
<1>4. QED
  BY <1>1, <1>2, <1>3 DEF u

\* The ids the generator hands out next.
LEMMA FreshIds ==
  ASSUME NEW S \in SUBSET Nat, NEW m \in Nat, NEW n \in Nat, (m + 1)..(m + n) \subseteq S
  PROVE  LET new == [i \in 1..n |-> m + i]
         IN  new \in Seq(S) /\ Increasing(new) /\ Range(new) = (m + 1)..(m + n)
<1> DEFINE new == [i \in 1..n |-> m + i]
<1>1. \A i \in 1..n : m + i \in S
  OBVIOUS
<1>2. new \in Seq(S) /\ Len(new) = n
  BY <1>1
<1>3. Increasing(new)
  BY <1>2 DEF Increasing
<1>4. \A x : x \in Range(new) <=> \E i \in 1..n : x = m + i
  BY DEF Range
<1>5. \A x \in (m + 1)..(m + n) : x - m \in 1..n /\ x = m + (x - m)
  OBVIOUS
<1>6. Range(new) = (m + 1)..(m + n)
  <2> HIDE DEF new
  <2>1. \A i \in 1..n : m + i \in (m + 1)..(m + n)
    OBVIOUS
  <2>2. \A x \in Range(new) : x \in (m + 1)..(m + n)
    BY <1>4, <2>1
  <2>3. \A x \in (m + 1)..(m + n) : x \in Range(new)
    BY <1>4, <1>5
  <2>4. QED
    BY <2>2, <2>3
<1>7. QED
  BY <1>2, <1>3, <1>6

\* The next row of an ordered batch is its oldest record.
LEMMA NextRow ==
  ASSUME NEW S \in SUBSET Nat, NEW s \in Seq(S), s # <<>>, Increasing(s)
  PROVE  /\ Head(s) \in S /\ Tail(s) \in Seq(S) /\ Increasing(Tail(s))
         /\ Range(s) = {Head(s)} \cup Range(Tail(s))
         /\ \A y \in Range(Tail(s)) : Head(s) < y
<1> DEFINE t == Tail(s)
<1>1. /\ Head(s) \in S /\ t \in Seq(S) /\ Len(t) = Len(s) - 1
      /\ \A i \in 1..Len(t) : t[i] = s[i + 1]
  BY HeadTailProperties
<1>2. Len(s) \in Nat /\ Len(s) >= 1 /\ Head(s) = s[1]
  OBVIOUS
<1> HIDE DEF t
<1>3. \A x : x \in Range(t) <=> \E i \in 1..Len(t) : x = t[i]
  BY <1>1, RangeOf
<1>4. \A x : x \in Range(s) <=> \E i \in 1..Len(s) : x = s[i]
  BY RangeOf
<1>5. Increasing(t)
  BY <1>1, <1>2 DEF Increasing
<1>6. \A i \in 1..Len(t) : i + 1 \in 1..Len(s)
  BY <1>1, <1>2
<1>7. \A i \in 1..Len(s) : i = 1 \/ (i - 1 \in 1..Len(t) /\ t[i - 1] = s[i])
  BY <1>1, <1>2
<1>8. Range(s) = {Head(s)} \cup Range(t)
  BY <1>1, <1>2, <1>3, <1>4, <1>6, <1>7
<1>9. \A y \in Range(t) : Head(s) < y
  <2> TAKE y \in Range(t)
  <2>1. PICK i \in 1..Len(t) : y = s[i + 1]
    BY <1>1, <1>3
  <2>2. 1 \in 1..Len(s) /\ i + 1 \in 1..Len(s) /\ 1 < i + 1
    BY <1>2, <1>6
  <2>3. QED
    BY <1>2, <2>1, <2>2 DEF Increasing
<1>10. QED
  BY <1>1, <1>5, <1>8, <1>9 DEF t

(***************************************************************************)
(* Typing, with what the positions of the tasks say about one another: who  *)
(* holds the lock, what a flush has in hand, and that stop()'s last flush   *)
(* finds a buffer nobody adds to any more.                                  *)
(***************************************************************************)

MadeBounded == made["event"] <= MaxEvents /\ made["alert"] <= MaxAlerts * made["event"]

Tasks ==
  /\ lock = "none" <=> phase = "idle"
  /\ lock = "flusher" <=> flusher = "flush"
  /\ lock = "stop" <=> stopPc = "flush"
  /\ stopPc \in {"flush", "closed"} => flusher = "done" /\ pending = Empty
  /\ phase = "idle" => batch = Empty
  /\ phase # "idle" => ~IsEmpty(batch)
  /\ phase # "rows" => rejected = [k \in Kind |-> {}]

TypeInv == TypeOK /\ MadeBounded /\ Tasks

\* Write ids are natural numbers, and there are finitely many.
LEMMA IdFacts ==
  /\ Id \subseteq Nat /\ IsFiniteSet(Id)
  /\ \A X \in SUBSET Id : IsFiniteSet(X) /\ Cardinality(X) \in Nat
<1> DEFINE N == MaxEvents * (MaxAlerts + 1)
<1>1. N \in Nat
  BY WriteBehindAssumption
<1>2. Id = 1..N
  BY DEF Id
<1> HIDE DEF N
<1>3. Id \subseteq Nat /\ IsFiniteSet(Id)
  BY <1>1, <1>2, FS_Interval
<1>4. QED
  BY <1>3, FS_Subset, FS_CardinalityType

\* The generator never runs out of ids.
LEMMA FreshInId ==
  ASSUME made \in [Kind -> Nat], MadeBounded, made["event"] < MaxEvents,
         NEW n \in 0..MaxAlerts
  PROVE  /\ made["event"] + 1 \in Id /\ made["event"] + 1 <= MaxEvents
         /\ (made["alert"] + 1)..(made["alert"] + n) \subseteq Id
         /\ made["alert"] + n <= MaxAlerts * (made["event"] + 1)
<1> DEFINE e == made["event"]
           a == made["alert"]
<1>1. /\ e \in Nat /\ a \in Nat /\ n \in Nat /\ n <= MaxAlerts
      /\ MaxAlerts \in Nat /\ MaxEvents \in Nat
  BY WriteBehindAssumption DEF Kind
<1>2. e < MaxEvents /\ a <= MaxAlerts * e
  BY DEF MadeBounded
<1> HIDE DEF e, a
<1>3. a + n <= MaxAlerts * (e + 1)
  BY <1>1, <1>2
<1>4. MaxAlerts * (e + 1) <= MaxAlerts * MaxEvents
  BY <1>1, <1>2
<1>5. MaxEvents * (MaxAlerts + 1) = MaxAlerts * MaxEvents + MaxEvents
  BY <1>1
<1>6. MaxAlerts * MaxEvents \in Nat /\ MaxAlerts * (e + 1) \in Nat
  BY <1>1
<1>7. e + 1 \in Id
  BY <1>1, <1>2, <1>5, <1>6 DEF Id
<1>8. (a + 1)..(a + n) \subseteq Id
  BY <1>1, <1>3, <1>4, <1>5, <1>6 DEF Id
<1>9. QED
  BY <1>1, <1>2, <1>3, <1>7, <1>8 DEF e, a

\* What the buffer operators return, in or out of order.
LEMMA BufferOperatorTypes ==
  ASSUME NEW s \in Seq(Id)
  PROVE  Newest(s) \in Seq(Id) /\ Excess(s) \in Nat /\ Oldest(s) \subseteq Id
         /\ Range(s) \subseteq Id /\ Len(s) \in Nat
<1>1. Len(s) \in Nat /\ MaxBuffered \in Nat \ {0} /\ \A i \in 1..Len(s) : s[i] \in Id
  BY WriteBehindAssumption
<1>2. Newest(s) \in Seq(Id)
  BY <1>1 DEF Newest
<1>3. Oldest(s) \subseteq Id /\ Excess(s) \in Nat
  BY <1>1 DEF Oldest, Excess
<1>4. QED
  BY <1>1, <1>2, <1>3, RangeOf

\* Replacing the buffer and counting what that drops.
LEMMA KeepTypes ==
  ASSUME BufferTypes, NEW buffer \in [Kind -> Seq(Id)], NEW extra \in [Kind -> SUBSET Id],
         Keep(buffer, extra)
  PROVE  /\ pending' \in [Kind -> Seq(Id)] /\ unpersisted' \in [Kind -> Nat]
         /\ counted' \in [Kind -> SUBSET Id]
<1>1. ASSUME NEW k \in Kind
      PROVE  /\ Newest(buffer[k]) \in Seq(Id) /\ Excess(buffer[k]) \in Nat
             /\ Oldest(buffer[k]) \subseteq Id /\ Cardinality(extra[k]) \in Nat
             /\ unpersisted[k] \in Nat /\ counted[k] \subseteq Id /\ extra[k] \subseteq Id
  <2>1. buffer[k] \in Seq(Id) /\ extra[k] \in SUBSET Id
    OBVIOUS
  <2>2. QED
    BY <2>1, BufferOperatorTypes, IdFacts DEF BufferTypes
<1>2. pending' \in [Kind -> Seq(Id)]
  BY <1>1 DEF Keep
<1>3. unpersisted' \in [Kind -> Nat]
  BY <1>1 DEF Keep
<1>4. counted' \in [Kind -> SUBSET Id]
  BY <1>1 DEF Keep
<1>5. QED
  BY <1>2, <1>3, <1>4

\* What stop() and _requeue leave in the buffer: nothing when the last flush failed.
LEMMA RequeueTypes ==
  ASSUME TypeInv, Requeue(batch)
  PROVE  /\ pending' \in [Kind -> Seq(Id)] /\ unpersisted' \in [Kind -> Nat]
         /\ counted' \in [Kind -> SUBSET Id]
         /\ lock = "stop" => pending' = Empty
<1> DEFINE front == [k \in Kind |-> batch[k] \o pending[k]]
<1>1. BufferTypes /\ FlushTypes
  BY DEF TypeInv, TypeOK
<1>2. front \in [Kind -> Seq(Id)] /\ rejected \in [Kind -> SUBSET Id]
  BY <1>1 DEF BufferTypes, FlushTypes
<1>3. CASE lock # "stop"
  <2>1. Keep(front, rejected)
    BY <1>3 DEF Requeue
  <2> HIDE DEF front
  <2>2. QED
    BY <1>1, <1>2, <1>3, <2>1, KeepTypes
<1>4. CASE lock = "stop"
  <2>1. /\ pending' = Empty
        /\ unpersisted' = [k \in Kind |->
             unpersisted[k] + Cardinality(rejected[k]) + Len(front[k])]
        /\ counted' = [k \in Kind |-> counted[k] \cup rejected[k] \cup Range(front[k])]
    BY <1>4 DEF Requeue
  <2> HIDE DEF front
  <2>2. ASSUME NEW k \in Kind
        PROVE  /\ Len(front[k]) \in Nat /\ Range(front[k]) \subseteq Id
               /\ Cardinality(rejected[k]) \in Nat /\ rejected[k] \subseteq Id
               /\ unpersisted[k] \in Nat /\ counted[k] \subseteq Id
    <3>1. front[k] \in Seq(Id) /\ rejected[k] \in SUBSET Id
      BY <1>2
    <3>2. QED
      BY <1>1, <3>1, BufferOperatorTypes, IdFacts DEF BufferTypes
  <2>3. Empty \in [Kind -> Seq(Id)]
    BY DEF Empty
  <2>4. unpersisted' \in [Kind -> Nat]
    BY <2>1, <2>2
  <2>5. counted' \in [Kind -> SUBSET Id]
    BY <2>1, <2>2
  <2>6. QED
    BY <2>1, <2>3, <2>4, <2>5
<1>5. QED
  BY <1>3, <1>4

\* flush() returns: the lock is free, nothing is in hand, and its caller goes on.
LEMMA ReturnTypes ==
  ASSUME TypeInv, NEW written \in BOOLEAN, Return(written), UNCHANGED stopFlushing,
         lock = "stop" => pending' = Empty
  PROVE  FlushTypes' /\ TaskTypes' /\ Tasks'
<1> USE DEF TypeInv, TypeOK
<1>1. batch' = Empty /\ Empty \in [Kind -> Seq(Id)]
  BY DEF Return, Empty
<1>2. rejected' = [k \in Kind |-> {}] /\ [k \in Kind |-> {}] \in [Kind -> SUBSET Id]
  BY DEF Return
<1>3. lock' = "none" /\ phase' = "idle" /\ failing' \in BOOLEAN
  BY DEF Return
<1>4. FlushTypes'
  BY <1>1, <1>2, <1>3 DEF FlushTypes
<1>5. CASE lock = "flusher"
  <2>1. /\ flusher' = (IF written THEN FlusherLoop ELSE "backoff") /\ stopPc' = stopPc
        /\ FlusherLoop \in {"wait", "done"}
    BY <1>5 DEF Return, FlusherLoop
  <2>2. stopPc' \notin {"flush", "closed"} /\ flusher' # "flush"
    BY <1>5, <2>1 DEF Tasks
  <2>3. QED
    BY <1>1, <1>2, <1>3, <1>4, <2>1, <2>2 DEF Tasks, TaskTypes
<1>6. CASE lock = "stop"
  <2>1. flusher' = flusher /\ stopPc' = "closed" /\ flusher = "done" /\ pending' = Empty
    BY <1>6 DEF Return, Tasks
  <2>2. QED
    BY <1>1, <1>2, <1>3, <1>4, <2>1 DEF Tasks, TaskTypes
<1>7. QED
  BY <1>5, <1>6 DEF Return

\* A commit keeps the tables well typed ...
LEMMA InsertTypes ==
  ASSUME stored \in [Kind -> [Id -> Nat]], NEW ids, InsertOnce(ids)
  PROVE  stored' \in [Kind -> [Id -> Nat]]
<1>1. \A k \in Kind : [i \in Id |-> IF i \in ids[k] /\ stored[k][i] = 0
                                    THEN 1 ELSE stored[k][i]] \in [Id -> Nat]
  OBVIOUS
<1>2. QED
  BY <1>1 DEF InsertOnce

\* ... and so does a save that fails.
LEMMA SaveFailsTypes ==
  ASSUME DbTypes, NEW ids \in [Kind -> SUBSET Id], SaveFails(ids)
  PROVE  DbTypes'
<1>1. faults' \in Nat
  BY DEF SaveFails, DbTypes
<1>2. CASE UNCHANGED <<stored, abandoned>>
  BY <1>1, <1>2 DEF DbTypes
<1>3. CASE InsertOnce(ids) /\ UNCHANGED abandoned
  BY <1>1, <1>3, InsertTypes DEF DbTypes
<1>4. CASE abandoned' = abandoned \cup {ids} /\ UNCHANGED stored
  BY <1>1, <1>4 DEF DbTypes
<1>5. QED
  BY <1>2, <1>3, <1>4 DEF SaveFails

\* The row a row-by-row write has in hand, and the rows it leaves.
LEMMA RowTypes ==
  ASSUME TypeInv, phase = "rows"
  PROVE  /\ RowKind \in Kind /\ batch[RowKind] # <<>>
         /\ Row \in [Kind -> SUBSET Id] /\ RowsLeft \in [Kind -> Seq(Id)]
<1>1. batch \in [Kind -> Seq(Id)] /\ ~IsEmpty(batch)
  BY DEF TypeInv, TypeOK, FlushTypes, Tasks
<1>2. RowKind \in Kind /\ batch[RowKind] # <<>>
  BY <1>1 DEF RowKind, IsEmpty, Kind
<1>3. \A k \in Kind : batch[k] # <<>> => Head(batch[k]) \in Id /\ Tail(batch[k]) \in Seq(Id)
  BY <1>1, HeadTailProperties
<1>4. Row \in [Kind -> SUBSET Id]
  BY <1>2, <1>3 DEF Row
<1>5. RowsLeft \in [Kind -> Seq(Id)]
  BY <1>1, <1>2, <1>3 DEF RowsLeft
<1>6. QED
  BY <1>2, <1>4, <1>5

\* The row is done, and with it, if it was the last, the flush.
LEMMA AfterRowTypes ==
  ASSUME TypeInv, phase = "rows", NEW turnedDown \in [Kind -> SUBSET Id],
         AfterRow(turnedDown), UNCHANGED <<pending, flushWanted, stopFlushing>>
  PROVE  BufferTypes' /\ FlushTypes' /\ TaskTypes' /\ Tasks'
<1> USE DEF TypeInv, TypeOK
<1>1. CASE IsEmpty(RowsLeft)
  <2>1. /\ unpersisted' = [k \in Kind |-> unpersisted[k] + Cardinality(turnedDown[k])]
        /\ counted' = [k \in Kind |-> counted[k] \cup turnedDown[k]]
        /\ Return(TRUE)
    BY <1>1 DEF AfterRow
  <2>2. \A k \in Kind : /\ Cardinality(turnedDown[k]) \in Nat /\ turnedDown[k] \subseteq Id
                        /\ unpersisted[k] \in Nat /\ counted[k] \subseteq Id
    BY IdFacts DEF BufferTypes
  <2>3. BufferTypes'
    BY <2>1, <2>2 DEF BufferTypes
  <2>4. lock = "stop" => pending' = Empty
    BY DEF Tasks
  <2>5. QED
    BY <2>1, <2>3, <2>4, ReturnTypes
<1>2. CASE ~IsEmpty(RowsLeft)
  <2>1. /\ batch' = RowsLeft /\ rejected' = turnedDown
        /\ UNCHANGED <<lock, phase, failing, unpersisted, counted, flusher, stopPc>>
    BY <1>2 DEF AfterRow
  <2>2. BufferTypes' /\ FlushTypes' /\ TaskTypes'
    BY <2>1, RowTypes DEF BufferTypes, FlushTypes, TaskTypes
  <2>3. ~IsEmpty(batch')
    BY <1>2, <2>1
  <2>4. QED
    BY <2>1, <2>2, <2>3 DEF Tasks, IsEmpty
<1>3. QED
  BY <1>1, <1>2

\* A consumed event: its write ids are fresh, and the cap holds the buffer.
LEMMA ConsumeTypes ==
  ASSUME TypeInv, Consume
  PROVE  TypeInv'
<1> USE DEF TypeInv, TypeOK
<1>1. PICK n \in 0..MaxAlerts :
       /\ made' = [made EXCEPT !["event"] = @ + 1, !["alert"] = @ + n]
       /\ \E bad \in SUBSET {made["event"] + 1},
             badAlerts \in SUBSET ((made["alert"] + 1)..(made["alert"] + n)) :
            refused' = [refused EXCEPT !["event"] = @ \cup bad, !["alert"] = @ \cup badAlerts]
       /\ IF Len(Grown(n)["event"]) > MaxBuffered
          THEN Keep(Grown(n), [k \in Kind |-> {}])
          ELSE pending' = Grown(n) /\ UNCHANGED <<unpersisted, counted>>
  BY DEF Consume
<1>2. n \in Nat /\ MaxAlerts \in Nat
  BY WriteBehindAssumption
<1>3. /\ made["event"] + 1 \in Id /\ made["event"] + 1 <= MaxEvents
      /\ (made["alert"] + 1)..(made["alert"] + n) \subseteq Id
      /\ made["alert"] + n <= MaxAlerts * (made["event"] + 1)
  BY FreshInId DEF Consume
<1>4. made' \in [Kind -> Nat]
  BY <1>1, <1>2 DEF Kind
<1>5. MadeBounded'
  BY <1>1, <1>3 DEF MadeBounded, Kind
<1>6. refused' \in [Kind -> SUBSET Id]
  BY <1>1, <1>3 DEF Kind
<1>7. Grown(n) \in [Kind -> Seq(Id)]
  <2>1. [i \in 1..n |-> made["alert"] + i] \in Seq(Id)
    <3>1. Id \in SUBSET Nat /\ made["alert"] \in Nat
      BY IdFacts DEF Kind
    <3>2. QED
      BY <1>2, <1>3, <3>1, FreshIds
  <2>2. pending["alert"] \o [i \in 1..n |-> made["alert"] + i] \in Seq(Id)
    <3> DEFINE new == [i \in 1..n |-> made["alert"] + i]
    <3>1. pending["alert"] \in Seq(Id)
      BY DEF BufferTypes, Kind
    <3> HIDE DEF new
    <3>2. pending["alert"] \o new \in Seq(Id)
      BY <2>1, <3>1 DEF new
    <3>3. QED
      BY <3>2 DEF new
  <2>3. Append(pending["event"], made["event"] + 1) \in Seq(Id)
    BY <1>3 DEF BufferTypes, Kind
  <2>4. QED
    BY <2>2, <2>3 DEF Grown, BufferTypes, Kind
<1>8. BufferTypes'
  <2>1. flushWanted' \in BOOLEAN
    BY DEF Consume
  <2>2. [k \in Kind |-> {}] \in [Kind -> SUBSET Id]
    OBVIOUS
  <2>3. /\ pending' \in [Kind -> Seq(Id)] /\ unpersisted' \in [Kind -> Nat]
        /\ counted' \in [Kind -> SUBSET Id]
    <3>1. CASE Keep(Grown(n), [k \in Kind |-> {}])
      BY <1>7, <2>2, <3>1, KeepTypes
    <3>2. CASE pending' = Grown(n) /\ UNCHANGED <<unpersisted, counted>>
      BY <1>7, <3>2 DEF BufferTypes
    <3>3. QED
      BY <1>1, <3>1, <3>2
  <2>4. QED
    BY <2>1, <2>3 DEF BufferTypes
<1>9. UNCHANGED <<flushVars, dbVars, taskVars>> /\ stopPc \in {"none", "draining"}
  BY DEF Consume
<1>10. FlushTypes' /\ DbTypes' /\ TaskTypes'
  BY <1>9 DEF FlushTypes, DbTypes, TaskTypes, flushVars, dbVars, taskVars
<1>11. Tasks'
  BY <1>9 DEF Tasks, IsEmpty, flushVars, taskVars
<1>12. QED
  BY <1>4, <1>5, <1>6, <1>8, <1>10, <1>11

\* flush() starts, for the flusher or for stop().
LEMMA BeginFlushTypes ==
  ASSUME TypeInv, NEW owner \in {"flusher", "stop"}, BeginFlush(owner)
  PROVE  /\ FlushTypes' /\ phase' # "idle" /\ ~IsEmpty(batch')
         /\ pending' = Empty /\ pending' \in [Kind -> Seq(Id)]
         /\ lock = "none" /\ lock' = owner
         /\ rejected' = [k \in Kind |-> {}]
<1> USE DEF TypeInv, TypeOK
<1>1. /\ lock = "none" /\ lock' = owner /\ phase' = "batch" /\ batch' = pending
      /\ pending' = Empty /\ ~IsEmpty(pending) /\ UNCHANGED <<rejected, failing>>
  BY DEF BeginFlush
<1>2. phase = "idle" /\ rejected = [k \in Kind |-> {}]
  BY <1>1 DEF Tasks
<1>3. Empty \in [Kind -> Seq(Id)]
  BY DEF Empty
<1>4. FlushTypes'
  BY <1>1 DEF FlushTypes, BufferTypes
<1>5. ~IsEmpty(batch')
  BY <1>1
<1>6. QED
  BY <1>1, <1>2, <1>3, <1>4, <1>5

\* The type invariant holds at the start.
LEMMA TypeInvInit == Init => TypeInv
<1> SUFFICES ASSUME Init PROVE TypeInv
  OBVIOUS
<1>1. Empty \in [Kind -> Seq(Id)] /\ Zero \in [Kind -> Nat]
  BY DEF Empty, Zero
<1>2. [k \in Kind |-> {}] \in [Kind -> SUBSET Id]
  OBVIOUS
<1>3. [k \in Kind |-> [i \in Id |-> 0]] \in [Kind -> [Id -> Nat]]
  OBVIOUS
<1>4. BufferTypes /\ FlushTypes
  BY <1>1, <1>2 DEF Init, BufferTypes, FlushTypes
<1>5. DbTypes /\ TaskTypes
  BY <1>3 DEF Init, DbTypes, TaskTypes
<1>6. made \in [Kind -> Nat] /\ refused \in [Kind -> SUBSET Id]
  BY <1>1, <1>2 DEF Init
<1>7. MadeBounded
  <2>1. made["event"] = 0 /\ made["alert"] = 0 /\ MaxEvents \in Nat /\ MaxAlerts \in Nat
    BY WriteBehindAssumption DEF Init, Zero, Kind
  <2>2. QED
    BY <2>1 DEF MadeBounded
<1>8. Tasks
  BY DEF Init, Tasks
<1>9. QED
  BY <1>4, <1>5, <1>6, <1>7, <1>8 DEF TypeInv, TypeOK

\* Every step keeps the type invariant.
LEMMA TypeInvNext == TypeInv /\ [Next]_vars => TypeInv'
<1> SUFFICES ASSUME TypeInv, [Next]_vars PROVE TypeInv'
  OBVIOUS
<1> USE DEF TypeInv, TypeOK
<1>ids. IdsOf(batch) \in [Kind -> SUBSET Id]
  <2>1. \A k \in Kind : Range(batch[k]) \subseteq Id
    BY RangeOf DEF FlushTypes
  <2>2. QED
    BY <2>1 DEF IdsOf
<1>a. CASE Consume
  BY <1>a, ConsumeTypes
<1>b. CASE SaveBatch
  <2>1. /\ InsertOnce(IdsOf(batch)) /\ Return(TRUE)
        /\ UNCHANGED <<bufferVars, abandoned, faults, stopFlushing, made, refused>>
        /\ phase = "batch"
    BY <1>b DEF SaveBatch
  <2>2. BufferTypes' /\ (lock = "stop" => pending' = Empty)
    BY <2>1 DEF BufferTypes, bufferVars, Tasks
  <2>3. DbTypes'
    BY <2>1, InsertTypes DEF DbTypes
  <2>4. FlushTypes' /\ TaskTypes' /\ Tasks'
    BY <2>1, <2>2, ReturnTypes
  <2>5. QED
    BY <2>1, <2>2, <2>3, <2>4 DEF MadeBounded
<1>c. CASE BatchRejected
  <2>1. /\ phase = "batch" /\ phase' = "rows"
        /\ UNCHANGED <<bufferVars, dbVars, taskVars, lock, batch, rejected, failing,
                       made, refused>>
    BY <1>c DEF BatchRejected
  <2>2. BufferTypes' /\ FlushTypes' /\ DbTypes' /\ TaskTypes' /\ MadeBounded'
    BY <2>1 DEF BufferTypes, FlushTypes, DbTypes, TaskTypes, MadeBounded, bufferVars,
                dbVars, taskVars
  <2>3. Tasks'
    BY <2>1 DEF Tasks, IsEmpty, bufferVars, taskVars
  <2>4. QED
    BY <2>1, <2>2, <2>3
<1>d. CASE BatchFails \/ RowFails
  <2>1. PICK ids \in [Kind -> SUBSET Id] : SaveFails(ids)
    BY <1>d, <1>ids, RowTypes DEF BatchFails, RowFails
  <2>2. /\ Requeue(batch) /\ Return(FALSE)
        /\ UNCHANGED <<flushWanted, stopFlushing, made, refused>>
    BY <1>d DEF BatchFails, RowFails
  <2>3. DbTypes'
    BY <2>1, SaveFailsTypes
  <2>4. BufferTypes' /\ (lock = "stop" => pending' = Empty)
    BY <2>2, RequeueTypes DEF BufferTypes
  <2>5. FlushTypes' /\ TaskTypes' /\ Tasks'
    BY <2>2, <2>4, ReturnTypes
  <2>6. QED
    BY <2>2, <2>3, <2>4, <2>5 DEF MadeBounded
<1>e. CASE SaveRow
  <2>1. /\ phase = "rows" /\ InsertOnce(Row) /\ AfterRow(rejected)
        /\ UNCHANGED <<pending, flushWanted, abandoned, faults, stopFlushing, made, refused>>
    BY <1>e DEF SaveRow
  <2>2. DbTypes'
    BY <2>1, InsertTypes DEF DbTypes
  <2>3. rejected \in [Kind -> SUBSET Id]
    BY DEF FlushTypes
  <2>4. BufferTypes' /\ FlushTypes' /\ TaskTypes' /\ Tasks'
    BY <2>1, <2>3, AfterRowTypes
  <2>5. QED
    BY <2>1, <2>2, <2>4 DEF MadeBounded
<1>f. CASE RowRejected
  <2> DEFINE down == [k \in Kind |-> rejected[k] \cup Row[k]]
  <2>1. /\ phase = "rows" /\ AfterRow(down)
        /\ UNCHANGED <<pending, flushWanted, dbVars, stopFlushing, made, refused>>
    BY <1>f DEF RowRejected
  <2>2. down \in [Kind -> SUBSET Id]
    BY <2>1, RowTypes DEF FlushTypes
  <2> HIDE DEF down
  <2>3. BufferTypes' /\ FlushTypes' /\ TaskTypes' /\ Tasks'
    BY <2>1, <2>2, AfterRowTypes
  <2>4. QED
    BY <2>1, <2>3 DEF MadeBounded, DbTypes, dbVars
<1>g. CASE AbandonedEnds
  <2>1. PICK ids \in abandoned :
          /\ abandoned' = abandoned \ {ids}
          /\ InsertOnce(ids) \/ UNCHANGED stored
    BY <1>g DEF AbandonedEnds
  <2>2. UNCHANGED <<bufferVars, flushVars, taskVars, faults, made, refused>>
    BY <1>g DEF AbandonedEnds
  <2>3. stored' \in [Kind -> [Id -> Nat]]
    BY <2>1, InsertTypes DEF DbTypes
  <2>4. DbTypes'
    BY <2>1, <2>2, <2>3 DEF DbTypes
  <2>5. BufferTypes' /\ FlushTypes' /\ TaskTypes' /\ MadeBounded'
    BY <2>2 DEF BufferTypes, FlushTypes, TaskTypes, MadeBounded, bufferVars, flushVars, taskVars
  <2>6. Tasks'
    BY <2>2 DEF Tasks, IsEmpty, bufferVars, flushVars, taskVars
  <2>7. QED
    BY <2>2, <2>4, <2>5, <2>6
<1>h. CASE FlusherWakes
  <2>1. /\ flusher = "wait" /\ flushWanted' = FALSE
        /\ UNCHANGED <<dbVars, stopPc, stopFlushing, made, refused>>
        /\ FlusherLoop \in {"wait", "done"}
    BY <1>h DEF FlusherWakes, FlusherLoop
  <2>2. DbTypes' /\ MadeBounded'
    BY <2>1 DEF DbTypes, MadeBounded, dbVars
  <2>3. stopPc \notin {"flush", "closed"}
    BY <2>1 DEF Tasks
  <2>4. CASE BeginFlush("flusher") /\ flusher' = "flush"
    <3>1. UNCHANGED <<unpersisted, counted>>
      BY <2>4 DEF BeginFlush
    <3>2. /\ FlushTypes' /\ phase' # "idle" /\ ~IsEmpty(batch')
          /\ pending' = Empty /\ pending' \in [Kind -> Seq(Id)]
          /\ lock' = "flusher" /\ rejected' = [k \in Kind |-> {}]
      BY <2>4, BeginFlushTypes
    <3>3. BufferTypes' /\ TaskTypes'
      BY <2>1, <2>4, <3>1, <3>2 DEF BufferTypes, TaskTypes
    <3>4. Tasks'
      BY <2>1, <2>3, <2>4, <3>2 DEF Tasks, IsEmpty
    <3>5. QED
      BY <2>1, <2>2, <3>2, <3>3, <3>4
  <2>5. CASE EmptyFlush /\ flusher' = FlusherLoop
    <3>1. UNCHANGED <<flushVars, pending, unpersisted, counted>>
      BY <2>5 DEF EmptyFlush
    <3>2. BufferTypes' /\ FlushTypes' /\ TaskTypes'
      BY <2>1, <2>5, <3>1 DEF BufferTypes, FlushTypes, TaskTypes, flushVars
    <3>3. Tasks'
      BY <2>1, <2>3, <2>5, <3>1 DEF Tasks, IsEmpty, flushVars
    <3>4. QED
      BY <2>1, <2>2, <3>2, <3>3
  <2>6. QED
    BY <1>h, <2>4, <2>5 DEF FlusherWakes
<1>i. CASE BackoffEnds
  <2>1. /\ flusher = "backoff" /\ flusher' = FlusherLoop /\ FlusherLoop \in {"wait", "done"}
        /\ UNCHANGED <<bufferVars, flushVars, dbVars, stopPc, stopFlushing, made, refused>>
    BY <1>i DEF BackoffEnds, FlusherLoop
  <2>2. BufferTypes' /\ FlushTypes' /\ DbTypes' /\ TaskTypes' /\ MadeBounded'
    BY <2>1 DEF BufferTypes, FlushTypes, DbTypes, TaskTypes, MadeBounded, bufferVars, flushVars,
                dbVars
  <2>3. Tasks'
    BY <2>1 DEF Tasks, IsEmpty, bufferVars, flushVars
  <2>4. QED
    BY <2>1, <2>2, <2>3
<1>j. CASE StopBegins \/ StopFlusher
  <2>1. /\ stopPc' \in {"draining", "flusher"} /\ stopPc \in {"none", "draining"}
        /\ flushWanted' \in BOOLEAN /\ stopFlushing' \in BOOLEAN
        /\ UNCHANGED <<pending, unpersisted, counted, flushVars, dbVars, flusher, made, refused>>
    BY <1>j DEF StopBegins, StopFlusher, bufferVars, BufferTypes, TaskTypes
  <2>2. BufferTypes' /\ FlushTypes' /\ DbTypes' /\ TaskTypes' /\ MadeBounded'
    BY <2>1 DEF BufferTypes, FlushTypes, DbTypes, TaskTypes, MadeBounded, flushVars, dbVars
  <2>3. Tasks'
    BY <2>1 DEF Tasks, IsEmpty, flushVars
  <2>4. QED
    BY <2>1, <2>2, <2>3
<1>k. CASE StopFlush
  <2>1. /\ stopPc = "flusher" /\ flusher = "done"
        /\ UNCHANGED <<flushWanted, dbVars, flusher, stopFlushing, made, refused>>
    BY <1>k DEF StopFlush
  <2>2. DbTypes' /\ MadeBounded'
    BY <2>1 DEF DbTypes, MadeBounded, dbVars
  <2>3. CASE BeginFlush("stop") /\ stopPc' = "flush"
    <3>1. UNCHANGED <<unpersisted, counted>>
      BY <2>3 DEF BeginFlush
    <3>2. /\ FlushTypes' /\ phase' # "idle" /\ ~IsEmpty(batch')
          /\ pending' = Empty /\ pending' \in [Kind -> Seq(Id)]
          /\ lock' = "stop" /\ rejected' = [k \in Kind |-> {}]
      BY <2>3, BeginFlushTypes
    <3>3. BufferTypes' /\ TaskTypes'
      BY <2>1, <2>3, <3>1, <3>2 DEF BufferTypes, TaskTypes
    <3>4. Tasks'
      BY <2>1, <2>3, <3>2 DEF Tasks, IsEmpty
    <3>5. QED
      BY <2>1, <2>2, <3>2, <3>3, <3>4
  <2>4. CASE EmptyFlush /\ stopPc' = "closed"
    <3>1. UNCHANGED <<flushVars, pending, unpersisted, counted>> /\ IsEmpty(pending)
      BY <2>4 DEF EmptyFlush
    <3>2. BufferTypes' /\ FlushTypes' /\ TaskTypes'
      BY <2>1, <2>4, <3>1 DEF BufferTypes, FlushTypes, TaskTypes, flushVars
    <3>3. pending = Empty
      BY <3>1 DEF IsEmpty, Empty, BufferTypes
    <3>4. Tasks'
      BY <2>1, <2>4, <3>1, <3>3 DEF Tasks, IsEmpty, flushVars
    <3>5. QED
      BY <2>1, <2>2, <3>2, <3>4
  <2>5. QED
    BY <1>k, <2>3, <2>4 DEF StopFlush
<1>l. CASE Closed \/ UNCHANGED vars
  <2>1. UNCHANGED vars
    BY <1>l DEF Closed
  <2>2. BufferTypes' /\ FlushTypes' /\ DbTypes' /\ TaskTypes' /\ MadeBounded'
    BY <2>1 DEF BufferTypes, FlushTypes, DbTypes, TaskTypes, MadeBounded, vars, bufferVars,
                flushVars, dbVars, taskVars
  <2>3. Tasks'
    BY <2>1 DEF Tasks, IsEmpty, vars, bufferVars, flushVars, dbVars, taskVars
  <2>4. QED
    BY <2>1, <2>2, <2>3 DEF vars
<1>z. QED
  BY <1>a, <1>b, <1>c, <1>d, <1>e, <1>f, <1>g, <1>h, <1>i, <1>j, <1>k, <1>l DEF Next, SaveEnds

\* Every variable of the write-behind path keeps the type the code gives it.
THEOREM TypeCorrect == Spec => []TypeOK
<1>1. TypeInv => TypeOK
  BY DEF TypeInv
<1>2. QED
  BY <1>1, TypeInvInit, TypeInvNext, PTL DEF Spec

(***************************************************************************)
(* The books.  Whether a record is lost, stored twice or counted twice      *)
(* hangs on the order of the buffers: a batch is older than what arrives    *)
(* while it is written, the rejected rows are older than the ones left, and *)
(* whatever has been committed, or may still be by a transaction given up   *)
(* at its deadline, is a run of the oldest records that are left.           *)
(***************************************************************************)

Alive(k) == Range(batch[k]) \cup Range(pending[k])

OrderedBuffer(k) ==
  /\ Increasing(batch[k]) /\ Increasing(pending[k])
  /\ \A x \in Range(batch[k]), y \in Range(pending[k]) : x < y
  /\ \A x \in rejected[k], y \in Alive(k) : x < y

KnownIds(k) == InBuffer(k) \subseteq 1..made[k] /\ counted[k] \subseteq 1..made[k]

\* A set of records with every record that is older and still to be written.
OldestFirst(ids, k) ==
  ids \subseteq 1..made[k] /\ \A i \in Alive(k), j \in ids : i < j => i \in ids

CommitOrder ==
  \A k \in Kind :
    /\ OldestFirst(Persisted(k), k)
    /\ \A ids \in abandoned : OldestFirst(ids[k], k)

Books ==
  /\ \A k \in Kind : OrderedBuffer(k) /\ KnownIds(k)
  /\ CommitOrder
  /\ RecordsAccounted

\* What every step but Consume does to the books of one kind.
Settled(k) ==
  /\ made'[k] = made[k]
  /\ Persisted(k) \subseteq Persisted(k)' /\ Persisted(k)' \subseteq 1..made[k]
  /\ counted[k] \subseteq counted'[k] /\ counted'[k] \ counted[k] \subseteq InBuffer(k)
  /\ InBuffer(k)' \subseteq InBuffer(k) /\ InBuffer(k)' \cap counted'[k] = {}
  /\ InBuffer(k) \subseteq InBuffer(k)' \cup Persisted(k)' \cup counted'[k]

\* The types the books are made of.
LEMMA BookTypes ==
  ASSUME TypeInv, NEW k \in Kind
  PROVE  /\ pending[k] \in Seq(Id) /\ batch[k] \in Seq(Id)
         /\ Range(pending[k]) \subseteq Id /\ Range(batch[k]) \subseteq Id
         /\ rejected[k] \subseteq Id /\ counted[k] \subseteq Id
         /\ unpersisted[k] \in Nat /\ made[k] \in Nat
         /\ IsFiniteSet(rejected[k]) /\ IsFiniteSet(counted[k])
         /\ Persisted(k) \subseteq Id
<1>1. /\ pending[k] \in Seq(Id) /\ batch[k] \in Seq(Id)
      /\ rejected[k] \in SUBSET Id /\ counted[k] \in SUBSET Id
      /\ unpersisted[k] \in Nat /\ made[k] \in Nat
  BY DEF TypeInv, TypeOK, BufferTypes, FlushTypes
<1>2. Range(pending[k]) \subseteq Id /\ Range(batch[k]) \subseteq Id
  BY <1>1, RangeOf
<1>3. IsFiniteSet(rejected[k]) /\ IsFiniteSet(counted[k])
  BY <1>1, IdFacts
<1>4. Persisted(k) \subseteq Id
  BY DEF Persisted
<1>5. QED
  BY <1>1, <1>2, <1>3, <1>4

\* The empty buffer.
LEMMA NothingBuffered == Range(<<>>) = {} /\ Increasing(<<>>)
<1>1. DOMAIN <<>> = {} /\ 1..Len(<<>>) = {}
  OBVIOUS
<1>2. QED
  BY <1>1 DEF Range, Increasing

\* An ordered buffer holds as many records as it is long.
LEMMA LengthIsSize ==
  ASSUME NEW S \in SUBSET Nat, NEW s \in Seq(S), Increasing(s)
  PROVE  IsFiniteSet(Range(s)) /\ Cardinality(Range(s)) = Len(s)
<1>1. Len(s) \in Nat /\ \A i \in 1..Len(s) : s[i] \in Nat
  <2>1. Len(s) \in Nat /\ \A i \in 1..Len(s) : s[i] \in S
    OBVIOUS
  <2>2. \A x \in S : x \in Nat
    OBVIOUS
  <2>3. QED
    BY <2>1, <2>2
<1>2. \A x : x \in Range(s) <=> \E i \in 1..Len(s) : x = s[i]
  BY RangeOf
<1> DEFINE f == [i \in 1..Len(s) |-> s[i]]
<1>3. f \in [1..Len(s) -> Range(s)] /\ \A x \in Range(s) : \E i \in 1..Len(s) : f[i] = x
  BY <1>2
<1>4. \A i, j \in 1..Len(s) : f[i] = f[j] => i = j
  <2> SUFFICES ASSUME NEW i \in 1..Len(s), NEW j \in 1..Len(s), i < j PROVE s[i] # s[j]
    BY <1>1
  <2>1. s[i] < s[j] /\ s[i] \in Nat /\ s[j] \in Nat
    BY <1>1 DEF Increasing
  <2>2. QED
    BY <2>1
<1> HIDE DEF f
<1>5. f \in Bijection(1..Len(s), Range(s))
  BY <1>3, <1>4 DEF Bijection, Injection, Surjection, IsInjective
<1>6. ExistsBijection(1..Len(s), Range(s))
  BY <1>5 DEF ExistsBijection
<1>7. QED
  BY <1>1, <1>6, FS_NatBijection, FS_CountingElements

\* The size of a union of sets that have nothing in common.
LEMMA DisjointSizes ==
  ASSUME NEW A, NEW B, IsFiniteSet(A), IsFiniteSet(B), A \cap B = {}
  PROVE  /\ IsFiniteSet(A \cup B) /\ Cardinality(A) \in Nat /\ Cardinality(B) \in Nat
         /\ Cardinality(A \cup B) = Cardinality(A) + Cardinality(B)
<1>1. /\ IsFiniteSet(A \cup B)
      /\ Cardinality(A \cup B) = Cardinality(A) + Cardinality(B) - Cardinality(A \cap B)
  BY FS_Union
<1>2. Cardinality(A \cap B) = 0 /\ Cardinality(A) \in Nat /\ Cardinality(B) \in Nat
  BY FS_EmptySet, FS_CardinalityType
<1>3. QED
  BY <1>1, <1>2

\* A transaction stores each of its records, and none a second time (the ON CONFLICT
\* clause of save_batch).
LEMMA Commit ==
  ASSUME TypeInv, StoredAtMostOnce, NEW ids \in [Kind -> SUBSET Id], InsertOnce(ids)
  PROVE  /\ StoredAtMostOnce'
         /\ \A k \in Kind : Persisted(k)' = Persisted(k) \cup ids[k]
<1>1. \A k \in Kind : \A i \in Id :
        /\ stored[k][i] \in Nat /\ stored[k][i] <= 1
        /\ stored'[k][i] = IF i \in ids[k] /\ stored[k][i] = 0 THEN 1 ELSE stored[k][i]
  BY DEF TypeInv, TypeOK, DbTypes, StoredAtMostOnce, InsertOnce
<1>2. StoredAtMostOnce'
  BY <1>1 DEF StoredAtMostOnce
<1>3. ASSUME NEW k \in Kind PROVE Persisted(k)' = Persisted(k) \cup ids[k]
  <2>1. \A i \in Id : stored'[k][i] > 0 <=> stored[k][i] > 0 \/ i \in ids[k]
    BY <1>1
  <2>2. ids[k] \subseteq Id
    OBVIOUS
  <2>3. QED
    BY <2>1, <2>2 DEF Persisted
<1>4. QED
  BY <1>2, <1>3

\* Trimming the buffer counts the records it drops, each once.
LEMMA KeepBooks ==
  ASSUME TypeInv, NEW k \in Kind, unpersisted[k] = Cardinality(counted[k]),
         NEW buffer \in [Kind -> Seq(Id)], NEW extra \in [Kind -> SUBSET Id],
         Keep(buffer, extra), Increasing(buffer[k]),
         extra[k] \cap counted[k] = {}, Range(buffer[k]) \cap counted[k] = {},
         extra[k] \cap Range(buffer[k]) = {}
  PROVE  /\ Increasing(pending'[k]) /\ Range(pending'[k]) \subseteq Range(buffer[k])
         /\ counted'[k] = counted[k] \cup extra[k] \cup (Range(buffer[k]) \ Range(pending'[k]))
         /\ unpersisted'[k] = Cardinality(counted'[k])
<1> DEFINE s == buffer[k]
<1>1. /\ pending'[k] = Newest(s)
      /\ unpersisted'[k] = unpersisted[k] + Excess(s) + Cardinality(extra[k])
      /\ counted'[k] = (counted[k] \cup Oldest(s)) \cup extra[k]
  BY DEF Keep
<1>2. Id \in SUBSET Nat /\ s \in Seq(Id) /\ extra[k] \in SUBSET Id /\ IsFiniteSet(extra[k])
  BY IdFacts
<1>3. /\ Increasing(Newest(s)) /\ Range(Newest(s)) \subseteq Range(s)
      /\ Oldest(s) = Range(s) \ Range(Newest(s))
      /\ IsFiniteSet(Oldest(s)) /\ Cardinality(Oldest(s)) = Excess(s)
  BY <1>2, Trimmed
<1>4. IsFiniteSet(counted[k])
  BY BookTypes
<1> HIDE DEF s
<1>5. counted[k] \cap Oldest(s) = {} /\ (counted[k] \cup Oldest(s)) \cap extra[k] = {}
  BY <1>3 DEF s
<1>6. /\ IsFiniteSet(counted[k] \cup Oldest(s))
      /\ Cardinality(counted[k] \cup Oldest(s)) = Cardinality(counted[k]) + Cardinality(Oldest(s))
  BY <1>3, <1>4, <1>5, DisjointSizes
<1>7. Cardinality((counted[k] \cup Oldest(s)) \cup extra[k])
        = Cardinality(counted[k] \cup Oldest(s)) + Cardinality(extra[k])
  BY <1>2, <1>5, <1>6, DisjointSizes
<1>8. unpersisted'[k] = Cardinality(counted'[k])
  BY <1>1, <1>3, <1>6, <1>7
<1>9. counted'[k] = counted[k] \cup extra[k] \cup (Range(buffer[k]) \ Range(pending'[k]))
  BY <1>1, <1>3 DEF s
<1>10. QED
  BY <1>1, <1>3, <1>8, <1>9 DEF s

\* What a flush writes, the batch or its next row, is the oldest that is left.
LEMMA WritesOldest ==
  ASSUME TypeInv, Books, NEW k \in Kind
  PROVE  /\ OldestFirst(Range(batch[k]), k)
         /\ phase = "rows" =>
              /\ OldestFirst(Row[k], k) /\ Row[k] \subseteq Range(batch[k])
              /\ Increasing(RowsLeft[k]) /\ Range(RowsLeft[k]) = Range(batch[k]) \ Row[k]
              /\ \A x \in Row[k], y \in Range(RowsLeft[k]) \cup Range(pending[k]) : x < y
<1>1. OrderedBuffer(k) /\ InBuffer(k) \subseteq 1..made[k]
  BY DEF Books, KnownIds
<1>2. /\ batch[k] \in Seq(Id) /\ Range(batch[k]) \subseteq Nat /\ Range(pending[k]) \subseteq Nat
      /\ Id \in SUBSET Nat
  BY BookTypes, IdFacts
<1>3. OldestFirst(Range(batch[k]), k)
  <2>1. ASSUME NEW i \in Alive(k), NEW j \in Range(batch[k]), i < j PROVE i \in Range(batch[k])
    <3>1. CASE i \in Range(pending[k])
      <4>1. j < i /\ i \in Nat /\ j \in Nat
        BY <1>1, <1>2, <3>1 DEF OrderedBuffer
      <4>2. QED
        BY <2>1, <4>1
    <3>2. QED
      BY <3>1 DEF Alive
  <2>2. QED
    BY <1>1, <2>1 DEF OldestFirst, InBuffer
<1>4. ASSUME phase = "rows", k = RowKind
      PROVE  /\ OldestFirst(Row[k], k) /\ Row[k] \subseteq Range(batch[k])
             /\ Increasing(RowsLeft[k]) /\ Range(RowsLeft[k]) = Range(batch[k]) \ Row[k]
             /\ \A x \in Row[k], y \in Range(RowsLeft[k]) \cup Range(pending[k]) : x < y
  <2>1. batch[k] # <<>> /\ Row[k] = {Head(batch[k])} /\ RowsLeft[k] = Tail(batch[k])
    BY <1>4, RowTypes DEF Row, RowsLeft, TypeInv, TypeOK, FlushTypes
  <2>2. /\ Increasing(Tail(batch[k])) /\ Head(batch[k]) \in Id
        /\ Range(batch[k]) = {Head(batch[k])} \cup Range(Tail(batch[k]))
        /\ \A y \in Range(Tail(batch[k])) : Head(batch[k]) < y
    BY <1>1, <1>2, <2>1, NextRow DEF OrderedBuffer
  <2>3. \A y \in Range(pending[k]) : Head(batch[k]) < y
    BY <1>1, <2>2 DEF OrderedBuffer
  <2>4. \A y \in Alive(k) : y = Head(batch[k]) \/ Head(batch[k]) < y
    BY <2>2, <2>3 DEF Alive
  <2>5. Head(batch[k]) \notin Range(Tail(batch[k]))
    <3>1. Head(batch[k]) \in Nat
      BY <1>2, <2>2
    <3>2. ~(Head(batch[k]) < Head(batch[k]))
      BY <3>1
    <3>3. QED
      BY <2>2, <3>2
  <2>6. OldestFirst(Row[k], k)
    <3>1. Head(batch[k]) \in 1..made[k]
      BY <1>1, <2>2 DEF InBuffer
    <3>2. \A y \in Alive(k) : y \in Nat
      BY <1>2 DEF Alive
    <3>3. \A y \in Alive(k) : y < Head(batch[k]) => y = Head(batch[k])
      BY <2>4, <3>1, <3>2
    <3>4. QED
      BY <2>1, <3>1, <3>3 DEF OldestFirst
  <2>7. Range(Tail(batch[k])) = Range(batch[k]) \ {Head(batch[k])}
    BY <2>2, <2>5
  <2>8. QED
    BY <2>1, <2>2, <2>3, <2>6, <2>7
<1>5. ASSUME phase = "rows", k # RowKind
      PROVE  /\ OldestFirst(Row[k], k) /\ Row[k] \subseteq Range(batch[k])
             /\ Increasing(RowsLeft[k]) /\ Range(RowsLeft[k]) = Range(batch[k]) \ Row[k]
             /\ \A x \in Row[k], y \in Range(RowsLeft[k]) \cup Range(pending[k]) : x < y
  <2>1. Row[k] = {} /\ RowsLeft[k] = batch[k]
    BY <1>5 DEF Row, RowsLeft, TypeInv, TypeOK, FlushTypes
  <2>2. QED
    BY <1>1, <2>1 DEF OldestFirst, OrderedBuffer
<1>6. QED
  BY <1>3, <1>4, <1>5

\* A commit of the oldest records, now or by a transaction given up at its deadline,
\* leaves the commits in order.
LEMMA TablesKept ==
  ASSUME TypeInv, Books, UNCHANGED made, \A k \in Kind : Alive(k)' \subseteq Alive(k),
         NEW ids \in [Kind -> SUBSET Id], \A k \in Kind : OldestFirst(ids[k], k),
         InsertOnce(ids) \/ UNCHANGED stored, abandoned' \subseteq abandoned \cup {ids}
  PROVE  /\ CommitOrder' /\ StoredAtMostOnce'
         /\ \A k \in Kind : /\ Persisted(k) \subseteq Persisted(k)'
                            /\ Persisted(k)' \subseteq Persisted(k) \cup ids[k]
                            /\ InsertOnce(ids) => ids[k] \subseteq Persisted(k)'
<1>1. CommitOrder /\ StoredAtMostOnce
  BY DEF Books, RecordsAccounted
<1>2. /\ StoredAtMostOnce'
      /\ \A k \in Kind : Persisted(k)' = Persisted(k) \/ Persisted(k)' = Persisted(k) \cup ids[k]
      /\ InsertOnce(ids) => \A k \in Kind : ids[k] \subseteq Persisted(k)'
  <2>1. CASE InsertOnce(ids)
    BY <1>1, <2>1, Commit
  <2>2. CASE UNCHANGED stored /\ ~InsertOnce(ids)
    BY <1>1, <2>2 DEF StoredAtMostOnce, Persisted
  <2>3. QED
    BY <2>1, <2>2
<1>3. ASSUME NEW k \in Kind, NEW X, OldestFirst(X, k) PROVE OldestFirst(X, k)'
  BY <1>3 DEF OldestFirst
<1>4. ASSUME NEW k \in Kind PROVE OldestFirst(Persisted(k), k)'
  <2>1. OldestFirst(Persisted(k), k) /\ OldestFirst(ids[k], k)
    BY <1>1 DEF CommitOrder
  <2>2. OldestFirst(Persisted(k) \cup ids[k], k)
    BY <2>1 DEF OldestFirst
  <2>3. PICK X : X = Persisted(k)' /\ OldestFirst(X, k)
    BY <1>2, <2>1, <2>2
  <2>4. OldestFirst(X, k)'
    BY <1>3, <2>3
  <2>5. QED
    BY <2>3, <2>4 DEF OldestFirst
<1>5. ASSUME NEW k \in Kind, NEW a \in abandoned' PROVE OldestFirst(a[k], k)'
  <2>1. OldestFirst(a[k], k)
    BY <1>1 DEF CommitOrder
  <2>2. QED
    BY <1>3, <2>1
<1>6. CommitOrder'
  BY <1>4, <1>5 DEF CommitOrder
<1>7. QED
  BY <1>2, <1>6

\* _requeue and _discard_pending: the unwritten records go back in front of the newer ones,
\* and what does not fit, or is given up at shutdown, is counted with the rejected rows.
LEMMA RequeueBooks ==
  ASSUME TypeInv, Books, Requeue(batch), NEW k \in Kind
  PROVE  /\ Increasing(pending'[k]) /\ Range(pending'[k]) \subseteq Alive(k)
         /\ counted'[k] = counted[k] \cup rejected[k] \cup (Alive(k) \ Range(pending'[k]))
         /\ unpersisted'[k] = Cardinality(counted'[k])
<1> DEFINE front == [q \in Kind |-> batch[q] \o pending[q]]
<1>1. /\ OrderedBuffer(k) /\ unpersisted[k] = Cardinality(counted[k])
      /\ counted[k] \cap InBuffer(k) = {}
  BY DEF Books, RecordsAccounted, CountedOnce
<1>2. front \in [Kind -> Seq(Id)] /\ rejected \in [Kind -> SUBSET Id]
  BY DEF TypeInv, TypeOK, BufferTypes, FlushTypes
<1>3. front[k] = batch[k] \o pending[k]
  OBVIOUS
<1>4. Id \in SUBSET Nat /\ batch[k] \in Seq(Id) /\ pending[k] \in Seq(Id)
  BY BookTypes, IdFacts
<1>5. Increasing(front[k]) /\ Range(front[k]) = Alive(k)
  BY <1>1, <1>3, <1>4, Joined DEF OrderedBuffer, Alive
<1>6. /\ rejected[k] \cap counted[k] = {} /\ Range(front[k]) \cap counted[k] = {}
  BY <1>1, <1>5 DEF InBuffer, Alive
<1>7. rejected[k] \cap Range(front[k]) = {}
  <2>1. \A x \in rejected[k] : x \in Nat
    BY <1>4, BookTypes
  <2>2. \A x \in rejected[k] : ~(x < x)
    BY <2>1
  <2>3. QED
    BY <1>1, <1>5, <2>2 DEF OrderedBuffer
<1>8. CASE lock # "stop"
  <2>1. Keep(front, rejected)
    BY <1>8 DEF Requeue
  <2> HIDE DEF front
  <2>2. /\ Increasing(pending'[k]) /\ Range(pending'[k]) \subseteq Range(front[k])
        /\ counted'[k] = counted[k] \cup rejected[k] \cup (Range(front[k]) \ Range(pending'[k]))
        /\ unpersisted'[k] = Cardinality(counted'[k])
    BY <1>1, <1>2, <1>5, <1>6, <1>7, <2>1, KeepBooks
  <2>3. QED
    BY <1>5, <2>2
<1>9. CASE lock = "stop"
  <2>1. /\ pending' = Empty
        /\ unpersisted'[k] = unpersisted[k] + Cardinality(rejected[k]) + Len(front[k])
        /\ counted'[k] = (counted[k] \cup rejected[k]) \cup Range(front[k])
    BY <1>9 DEF Requeue
  <2> HIDE DEF front
  <2>2. pending'[k] = <<>> /\ Range(pending'[k]) = {} /\ Increasing(pending'[k])
    <3>1. pending'[k] = <<>>
      BY <2>1 DEF Empty
    <3>2. QED
      BY <3>1, NothingBuffered
  <2>3. IsFiniteSet(Range(front[k])) /\ Cardinality(Range(front[k])) = Len(front[k])
    <3>1. front[k] \in Seq(Id)
      BY <1>2
    <3>2. QED
      BY <1>4, <1>5, <3>1, LengthIsSize
  <2>4. IsFiniteSet(counted[k]) /\ IsFiniteSet(rejected[k])
    BY BookTypes
  <2>5. /\ IsFiniteSet(counted[k] \cup rejected[k])
        /\ Cardinality(counted[k] \cup rejected[k])
             = Cardinality(counted[k]) + Cardinality(rejected[k])
    BY <1>6, <2>4, DisjointSizes
  <2>6. (counted[k] \cup rejected[k]) \cap Range(front[k]) = {}
    BY <1>6, <1>7
  <2>7. Cardinality((counted[k] \cup rejected[k]) \cup Range(front[k]))
          = Cardinality(counted[k] \cup rejected[k]) + Cardinality(Range(front[k]))
    BY <2>3, <2>5, <2>6, DisjointSizes
  <2>8. unpersisted'[k] = Cardinality(counted'[k])
    BY <1>1, <2>1, <2>3, <2>5, <2>7
  <2>9. QED
    BY <1>5, <2>1, <2>2, <2>8
<1>10. QED
  BY <1>8, <1>9

\* The row loop goes on, or counts what the database turned down and ends.
LEMMA AfterRowBooks ==
  ASSUME TypeInv, Books, phase = "rows", NEW k \in Kind,
         NEW turnedDown \in [Kind -> SUBSET Id], AfterRow(turnedDown), UNCHANGED pending,
         rejected[k] \subseteq turnedDown[k], turnedDown[k] \subseteq rejected[k] \cup Row[k]
  PROVE  /\ OrderedBuffer(k)' /\ unpersisted'[k] = Cardinality(counted'[k])
         /\ Range(batch'[k]) = Range(batch[k]) \ Row[k]
         /\ counted[k] \subseteq counted'[k]
         /\ counted'[k] \cup rejected'[k] = counted[k] \cup turnedDown[k]
         /\ counted'[k] \cap InBuffer(k)' = {}
<1>1. /\ OrderedBuffer(k) /\ unpersisted[k] = Cardinality(counted[k])
      /\ counted[k] \cap InBuffer(k) = {}
  BY DEF Books, RecordsAccounted, CountedOnce
<1>2. /\ Row[k] \subseteq Range(batch[k])
      /\ Increasing(RowsLeft[k]) /\ Range(RowsLeft[k]) = Range(batch[k]) \ Row[k]
      /\ \A x \in Row[k], y \in Range(RowsLeft[k]) \cup Range(pending[k]) : x < y
  BY WritesOldest
<1>3. pending'[k] = pending[k]
  OBVIOUS
<1>4. \A x \in turnedDown[k], y \in Range(RowsLeft[k]) \cup Range(pending[k]) : x < y
  BY <1>1, <1>2 DEF OrderedBuffer, Alive
<1>5. turnedDown[k] \subseteq InBuffer(k)
  BY <1>2 DEF InBuffer
<1>6. turnedDown[k] \cap (Range(RowsLeft[k]) \cup Range(pending[k])) = {}
  <2>1. \A x \in turnedDown[k] : x \in Nat
    BY IdFacts
  <2>2. \A x \in turnedDown[k] : ~(x < x)
    BY <2>1
  <2>3. QED
    BY <1>4, <2>2
<1>7. CASE ~IsEmpty(RowsLeft)
  <2>1. /\ batch' = RowsLeft /\ rejected'[k] = turnedDown[k]
        /\ UNCHANGED <<unpersisted, counted>>
    BY <1>7 DEF AfterRow
  <2>2. OrderedBuffer(k)'
    BY <1>1, <1>2, <1>3, <1>4, <2>1 DEF OrderedBuffer, Alive
  <2>3. counted'[k] \cap InBuffer(k)' = {}
    BY <1>1, <1>2, <1>3, <1>5, <2>1 DEF InBuffer
  <2>4. QED
    BY <1>1, <1>2, <2>1, <2>2, <2>3
<1>8. CASE IsEmpty(RowsLeft)
  <2>1. /\ unpersisted'[k] = unpersisted[k] + Cardinality(turnedDown[k])
        /\ counted'[k] = counted[k] \cup turnedDown[k]
        /\ batch'[k] = <<>> /\ rejected'[k] = {}
    BY <1>8 DEF AfterRow, Return, Empty
  <2>2. Range(RowsLeft[k]) = {} /\ Range(batch'[k]) = {} /\ Increasing(batch'[k])
    BY <1>8, <2>1, NothingBuffered DEF IsEmpty
  <2>3. OrderedBuffer(k)'
    BY <1>1, <1>3, <2>1, <2>2 DEF OrderedBuffer, Alive
  <2>4. IsFiniteSet(counted[k]) /\ IsFiniteSet(turnedDown[k])
    <3>1. turnedDown[k] \in SUBSET Id
      OBVIOUS
    <3>2. QED
      BY <3>1, BookTypes, IdFacts
  <2>5. counted[k] \cap turnedDown[k] = {}
    BY <1>1, <1>5
  <2>6. unpersisted'[k] = Cardinality(counted'[k])
    <3>1. Cardinality(counted[k] \cup turnedDown[k])
            = Cardinality(counted[k]) + Cardinality(turnedDown[k])
      BY <2>4, <2>5, DisjointSizes
    <3>2. QED
      BY <1>1, <2>1, <3>1
  <2>7. counted'[k] \cap InBuffer(k)' = {}
    BY <1>1, <1>3, <1>6, <2>1, <2>2 DEF InBuffer
  <2>8. QED
    BY <1>2, <2>1, <2>2, <2>3, <2>6, <2>7
<1>9. QED
  BY <1>7, <1>8

\* The effect of every step but Consume: the books of each kind are settled, the buffers
\* and the commits stay in order, and what a flush newly stores was still to be written.
SettlingStep ==
  /\ CommitOrder' /\ StoredAtMostOnce'
  /\ \A k \in Kind :
       /\ Settled(k) /\ OrderedBuffer(k)' /\ unpersisted'[k] = Cardinality(counted'[k])
       /\ batch' # batch => Persisted(k)' \subseteq Persisted(k) \cup Alive(k)

\* A failed save, of a batch or of a row.
LEMMA FailedSaveSettles ==
  ASSUME TypeInv, Books, BatchFails \/ RowFails
  PROVE  SettlingStep
<1>1. /\ Requeue(batch) /\ Return(FALSE) /\ made' = made
  BY DEF BatchFails, RowFails
<1>2. /\ batch' = Empty /\ rejected' = [k \in Kind |-> {}]
  BY <1>1 DEF Return
<1>3. ASSUME NEW k \in Kind
      PROVE  /\ Increasing(pending'[k]) /\ Range(pending'[k]) \subseteq Alive(k)
             /\ counted'[k] = counted[k] \cup rejected[k] \cup (Alive(k) \ Range(pending'[k]))
             /\ unpersisted'[k] = Cardinality(counted'[k])
             /\ Increasing(batch'[k]) /\ Range(batch'[k]) = {} /\ rejected'[k] = {}
  BY <1>1, <1>2, RequeueBooks, NothingBuffered DEF Empty
<1>4. PICK ids \in [Kind -> SUBSET Id] :
        /\ SaveFails(ids)
        /\ \A k \in Kind : OldestFirst(ids[k], k) /\ ids[k] \subseteq Range(batch[k])
  <2>1. CASE BatchFails
    <3>1. IdsOf(batch) \in [Kind -> SUBSET Id] /\ \A k \in Kind : IdsOf(batch)[k] = Range(batch[k])
      BY BookTypes DEF IdsOf
    <3>2. QED
      BY <2>1, <3>1, WritesOldest DEF BatchFails
  <2>2. CASE RowFails
    <3>1. phase = "rows" /\ SaveFails(Row)
      BY <2>2 DEF RowFails
    <3>2. QED
      BY <3>1, RowTypes, WritesOldest
  <2>3. QED
    BY <2>1, <2>2
<1>5. \A k \in Kind : Alive(k)' \subseteq Alive(k)
  BY <1>3 DEF Alive
<1>6. (InsertOnce(ids) \/ UNCHANGED stored) /\ abandoned' \subseteq abandoned \cup {ids}
  BY <1>4 DEF SaveFails
<1>7. /\ CommitOrder' /\ StoredAtMostOnce'
      /\ \A k \in Kind : /\ Persisted(k) \subseteq Persisted(k)'
                         /\ Persisted(k)' \subseteq Persisted(k) \cup ids[k]
  BY <1>1, <1>4, <1>5, <1>6, TablesKept
<1>8. ASSUME NEW k \in Kind
      PROVE  /\ Settled(k) /\ OrderedBuffer(k)'
             /\ Persisted(k)' \subseteq Persisted(k) \cup Alive(k)
  <2>1. OrderedBuffer(k)'
    BY <1>3 DEF OrderedBuffer
  <2>2. InBuffer(k)' = Range(pending'[k]) /\ InBuffer(k) = Alive(k) \cup rejected[k]
    BY <1>3 DEF InBuffer, Alive
  <2>3. rejected[k] \cap Alive(k) = {}
    <3>1. \A x \in rejected[k] : x \in Nat
      BY BookTypes, IdFacts
    <3>2. \A x \in rejected[k] : ~(x < x)
      BY <3>1
    <3>3. QED
      BY <3>2 DEF Books, OrderedBuffer
  <2>4. counted[k] \cap InBuffer(k) = {}
    BY DEF Books, RecordsAccounted, CountedOnce
  <2>5. Persisted(k) \subseteq 1..made[k] /\ ids[k] \subseteq 1..made[k]
    BY <1>4 DEF Books, CommitOrder, OldestFirst
  <2>6. Settled(k)
    BY <1>1, <1>3, <1>7, <2>2, <2>3, <2>4, <2>5 DEF Settled
  <2>7. QED
    BY <1>4, <1>7, <2>1, <2>6 DEF Alive
<1>9. QED
  BY <1>3, <1>7, <1>8 DEF SettlingStep

\* The batch commits.
LEMMA SaveBatchSettles ==
  ASSUME TypeInv, Books, SaveBatch
  PROVE  SettlingStep
<1>1. /\ phase = "batch" /\ InsertOnce(IdsOf(batch)) /\ batch' = Empty
      /\ rejected' = [k \in Kind |-> {}]
      /\ UNCHANGED <<pending, unpersisted, counted, abandoned, made>>
  BY DEF SaveBatch, Return, bufferVars
<1>2. rejected = [k \in Kind |-> {}]
  BY <1>1 DEF TypeInv, Tasks
<1>3. IdsOf(batch) \in [Kind -> SUBSET Id] /\ \A k \in Kind : IdsOf(batch)[k] = Range(batch[k])
  BY BookTypes DEF IdsOf
<1>4. ASSUME NEW k \in Kind
      PROVE  Increasing(batch'[k]) /\ Range(batch'[k]) = {} /\ rejected'[k] = {} /\ rejected[k] = {}
  BY <1>1, <1>2, NothingBuffered DEF Empty
<1>5. \A k \in Kind : Alive(k)' \subseteq Alive(k)
  BY <1>1, <1>4 DEF Alive
<1>6. \A k \in Kind : OldestFirst(IdsOf(batch)[k], k)
  BY <1>3, WritesOldest
<1>7. /\ CommitOrder' /\ StoredAtMostOnce'
      /\ \A k \in Kind : /\ Persisted(k) \subseteq Persisted(k)'
                         /\ Persisted(k)' \subseteq Persisted(k) \cup Range(batch[k])
                         /\ Range(batch[k]) \subseteq Persisted(k)'
  <2> DEFINE ids == IdsOf(batch)
  <2>1. /\ CommitOrder' /\ StoredAtMostOnce'
        /\ \A k \in Kind : /\ Persisted(k) \subseteq Persisted(k)'
                           /\ Persisted(k)' \subseteq Persisted(k) \cup ids[k]
                           /\ InsertOnce(ids) => ids[k] \subseteq Persisted(k)'
    <3> HIDE DEF ids
    <3>1. /\ ids \in [Kind -> SUBSET Id] /\ InsertOnce(ids)
          /\ abandoned' \subseteq abandoned \cup {ids}
          /\ \A k \in Kind : OldestFirst(ids[k], k)
      BY <1>1, <1>3, <1>6 DEF ids
    <3>2. PICK set \in [Kind -> SUBSET Id] : set = ids
      BY <3>1
    <3>3. /\ InsertOnce(set) /\ abandoned' \subseteq abandoned \cup {set}
          /\ \A k \in Kind : OldestFirst(set[k], k)
      BY <3>1, <3>2
    <3>4. QED
      BY <1>1, <1>5, <3>2, <3>3, TablesKept
  <2>2. QED
    BY <1>1, <1>3, <2>1
<1>8. ASSUME NEW k \in Kind
      PROVE  /\ Settled(k) /\ OrderedBuffer(k)' /\ unpersisted'[k] = Cardinality(counted'[k])
             /\ Persisted(k)' \subseteq Persisted(k) \cup Alive(k)
  <2>1. /\ OrderedBuffer(k) /\ InBuffer(k) \subseteq 1..made[k]
        /\ counted[k] \cap InBuffer(k) = {} /\ unpersisted[k] = Cardinality(counted[k])
        /\ Persisted(k) \subseteq 1..made[k]
    BY DEF Books, KnownIds, RecordsAccounted, CountedOnce, CommitOrder, OldestFirst
  <2>2. OrderedBuffer(k)'
    BY <1>1, <1>4, <2>1 DEF OrderedBuffer
  <2>3. InBuffer(k)' = Range(pending[k]) /\ InBuffer(k) = Range(pending[k]) \cup Range(batch[k])
    BY <1>1, <1>4 DEF InBuffer
  <2>4. Settled(k)
    BY <1>1, <1>7, <2>1, <2>3 DEF Settled
  <2>5. QED
    BY <1>1, <1>7, <2>1, <2>2, <2>4 DEF Alive
<1>9. QED
  BY <1>7, <1>8 DEF SettlingStep

\* One row commits, or is turned down.
LEMMA RowSettles ==
  ASSUME TypeInv, Books, SaveRow \/ RowRejected
  PROVE  SettlingStep
<1>1. phase = "rows" /\ UNCHANGED <<pending, abandoned, made>>
  BY DEF SaveRow, RowRejected, dbVars
<1>2. PICK turnedDown \in [Kind -> SUBSET Id], ids \in [Kind -> SUBSET Id] :
        /\ AfterRow(turnedDown) /\ ids = Row
        /\ \/ turnedDown = rejected /\ InsertOnce(ids)
           \/ turnedDown = [k \in Kind |-> rejected[k] \cup Row[k]] /\ UNCHANGED stored
  <2>1. Row \in [Kind -> SUBSET Id] /\ rejected \in [Kind -> SUBSET Id]
    BY <1>1, RowTypes DEF TypeInv, TypeOK, FlushTypes
  <2>2. [k \in Kind |-> rejected[k] \cup Row[k]] \in [Kind -> SUBSET Id]
    BY <2>1
  <2>3. QED
    BY <2>1, <2>2 DEF SaveRow, RowRejected, dbVars
<1>3. ASSUME NEW k \in Kind
      PROVE  rejected[k] \subseteq turnedDown[k] /\ turnedDown[k] \subseteq rejected[k] \cup ids[k]
  BY <1>2
<1>4. ASSUME NEW k \in Kind
      PROVE  /\ OldestFirst(ids[k], k) /\ ids[k] \subseteq Range(batch[k])
  BY <1>1, <1>2, WritesOldest
<1>5. ASSUME NEW k \in Kind
      PROVE  /\ OrderedBuffer(k)' /\ unpersisted'[k] = Cardinality(counted'[k])
             /\ Range(batch'[k]) = Range(batch[k]) \ ids[k]
             /\ counted[k] \subseteq counted'[k]
             /\ counted'[k] \cup rejected'[k] = counted[k] \cup turnedDown[k]
             /\ counted'[k] \cap InBuffer(k)' = {}
  BY <1>1, <1>2, <1>3, AfterRowBooks
<1>6. \A k \in Kind : Alive(k)' \subseteq Alive(k)
  BY <1>1, <1>5 DEF Alive
<1>7. /\ CommitOrder' /\ StoredAtMostOnce'
      /\ \A k \in Kind : /\ Persisted(k) \subseteq Persisted(k)'
                         /\ Persisted(k)' \subseteq Persisted(k) \cup ids[k]
                         /\ InsertOnce(ids) => ids[k] \subseteq Persisted(k)'
  <2>1. abandoned' \subseteq abandoned \cup {ids}
    BY <1>1
  <2>2. InsertOnce(ids) \/ UNCHANGED stored
    BY <1>2
  <2>3. QED
    BY <1>1, <1>4, <1>6, <2>1, <2>2, TablesKept
<1>8. ASSUME NEW k \in Kind
      PROVE  Settled(k) /\ Persisted(k)' \subseteq Persisted(k) \cup Alive(k)
  <2>1. /\ InBuffer(k) \subseteq 1..made[k]
        /\ counted[k] \cap InBuffer(k) = {}
        /\ Persisted(k) \subseteq 1..made[k]
    BY DEF Books, KnownIds, RecordsAccounted, CountedOnce, CommitOrder, OldestFirst
  <2>2. /\ InBuffer(k) = Range(pending[k]) \cup Range(batch[k]) \cup rejected[k]
        /\ InBuffer(k)' = Range(pending[k]) \cup Range(batch'[k]) \cup rejected'[k]
    BY <1>1 DEF InBuffer
  <2>3. ids[k] \subseteq 1..made[k]
    BY <1>4 DEF OldestFirst
  <2>4. turnedDown[k] \subseteq InBuffer(k) /\ rejected[k] \subseteq turnedDown[k]
    BY <1>3, <1>4, <2>2
  <2>5. Range(batch[k]) \subseteq Range(batch'[k]) \cup Persisted(k)' \cup turnedDown[k]
    <3>1. CASE turnedDown = rejected /\ InsertOnce(ids)
      BY <1>5, <1>7, <3>1
    <3>2. CASE turnedDown = [q \in Kind |-> rejected[q] \cup Row[q]]
      <4>1. ids[k] \subseteq turnedDown[k]
        BY <1>2, <3>2
      <4>2. QED
        BY <1>5, <4>1
    <3>3. QED
      BY <1>2, <3>1, <3>2
  <2>6. turnedDown[k] \subseteq counted'[k] \cup rejected'[k]
    BY <1>5
  <2>7. /\ counted'[k] \ counted[k] \subseteq InBuffer(k)
        /\ InBuffer(k)' \subseteq InBuffer(k)
    <3>1. rejected'[k] \ counted[k] \subseteq InBuffer(k) /\ counted[k] \cap rejected'[k] = {}
      BY <1>5, <2>2, <2>4
    <3>2. QED
      BY <1>5, <2>2, <2>4, <3>1
  <2>8. InBuffer(k) \subseteq InBuffer(k)' \cup Persisted(k)' \cup counted'[k]
    BY <2>2, <2>4, <2>5, <2>6
  <2>9. Settled(k)
    BY <1>1, <1>5, <1>7, <2>1, <2>3, <2>7, <2>8 DEF Settled
  <2>10. QED
    BY <1>4, <1>7, <2>9 DEF Alive
<1>9. QED
  BY <1>5, <1>7, <1>8 DEF SettlingStep

\* A step that leaves the records where they are, whatever it does to the tables.
LEMMA BuffersKept ==
  ASSUME TypeInv, Books,
         UNCHANGED <<pending, batch, rejected, counted, unpersisted, made>>,
         NEW ids \in [Kind -> SUBSET Id], \A k \in Kind : OldestFirst(ids[k], k),
         InsertOnce(ids) \/ UNCHANGED stored, abandoned' \subseteq abandoned \cup {ids}
  PROVE  SettlingStep
<1>1. \A k \in Kind : Alive(k)' \subseteq Alive(k)
  BY DEF Alive
<1>2. /\ CommitOrder' /\ StoredAtMostOnce'
      /\ \A k \in Kind : /\ Persisted(k) \subseteq Persisted(k)'
                         /\ Persisted(k)' \subseteq Persisted(k) \cup ids[k]
  BY <1>1, TablesKept
<1>3. ASSUME NEW k \in Kind
      PROVE  Settled(k) /\ OrderedBuffer(k)' /\ unpersisted'[k] = Cardinality(counted'[k])
  <2>1. /\ OrderedBuffer(k) /\ unpersisted[k] = Cardinality(counted[k])
        /\ counted[k] \cap InBuffer(k) = {} /\ Persisted(k) \subseteq 1..made[k]
        /\ ids[k] \subseteq 1..made[k]
    BY DEF Books, RecordsAccounted, CountedOnce, CommitOrder, OldestFirst
  <2>2. OrderedBuffer(k)'
    BY <2>1 DEF OrderedBuffer, Alive
  <2>3. InBuffer(k)' = InBuffer(k)
    BY DEF InBuffer
  <2>4. QED
    BY <1>2, <2>1, <2>2, <2>3 DEF Settled
<1>4. QED
  BY <1>2, <1>3 DEF SettlingStep

\* flush() takes the buffer.
LEMMA BeginFlushSettles ==
  ASSUME TypeInv, Books, NEW owner, BeginFlush(owner), UNCHANGED <<stored, abandoned, made>>
  PROVE  SettlingStep
<1>1. /\ batch' = pending /\ pending' = Empty /\ lock = "none"
      /\ UNCHANGED <<rejected, unpersisted, counted>>
  BY DEF BeginFlush
<1>2. batch = Empty /\ rejected = [k \in Kind |-> {}]
  BY <1>1 DEF TypeInv, Tasks
<1>3. ASSUME NEW k \in Kind
      PROVE  /\ Range(batch[k]) = {} /\ Range(pending'[k]) = {} /\ Increasing(pending'[k])
             /\ batch'[k] = pending[k] /\ rejected[k] = {} /\ rejected'[k] = {}
  BY <1>1, <1>2, NothingBuffered DEF Empty
<1>4. \A k \in Kind : Alive(k)' = Alive(k) /\ InBuffer(k)' = InBuffer(k)
  BY <1>3 DEF Alive, InBuffer
<1>5. CommitOrder' /\ StoredAtMostOnce' /\ \A k \in Kind : Persisted(k)' = Persisted(k)
  BY <1>4 DEF Books, RecordsAccounted, CommitOrder, OldestFirst, StoredAtMostOnce, Persisted
<1>6. ASSUME NEW k \in Kind
      PROVE  Settled(k) /\ OrderedBuffer(k)' /\ unpersisted'[k] = Cardinality(counted'[k])
  <2>1. /\ OrderedBuffer(k) /\ unpersisted[k] = Cardinality(counted[k])
        /\ counted[k] \cap InBuffer(k) = {} /\ Persisted(k) \subseteq 1..made[k]
    BY DEF Books, RecordsAccounted, CountedOnce, CommitOrder, OldestFirst
  <2>2. OrderedBuffer(k)'
    BY <1>3, <2>1 DEF OrderedBuffer
  <2>3. QED
    BY <1>1, <1>4, <1>5, <2>1, <2>2 DEF Settled
<1>7. QED
  BY <1>5, <1>6 DEF SettlingStep

\* Every step but Consume settles the books.
LEMMA StepSettles ==
  ASSUME TypeInv, Books, [Next]_vars, ~Consume
  PROVE  SettlingStep
<1> DEFINE none == [k \in Kind |-> {}]
<1>0. none \in [Kind -> SUBSET Id] /\ \A k \in Kind : OldestFirst(none[k], k)
  BY DEF OldestFirst
<1> HIDE DEF none
<1>1. CASE SaveBatch
  BY <1>1, SaveBatchSettles
<1>2. CASE BatchFails \/ RowFails
  BY <1>2, FailedSaveSettles
<1>3. CASE SaveRow \/ RowRejected
  BY <1>3, RowSettles
<1>4. CASE AbandonedEnds
  <2>1. PICK ids \in abandoned :
          /\ abandoned' = abandoned \ {ids}
          /\ InsertOnce(ids) \/ UNCHANGED stored
    BY <1>4 DEF AbandonedEnds
  <2>2. UNCHANGED <<pending, batch, rejected, counted, unpersisted, made>>
    BY <1>4 DEF AbandonedEnds, bufferVars, flushVars
  <2>3. ids \in [Kind -> SUBSET Id]
    BY DEF TypeInv, TypeOK, DbTypes
  <2>4. \A k \in Kind : OldestFirst(ids[k], k)
    BY DEF Books, CommitOrder
  <2>5. QED
    BY <2>1, <2>2, <2>3, <2>4, BuffersKept
<1>5. CASE \E owner \in {"flusher", "stop"} :
             BeginFlush(owner) /\ UNCHANGED <<stored, abandoned, made>>
  BY <1>5, BeginFlushSettles
<1>6. CASE UNCHANGED <<pending, batch, rejected, counted, unpersisted, made, stored, abandoned>>
  BY <1>0, <1>6, BuffersKept
<1>7. BatchRejected \/ BackoffEnds \/ StopBegins \/ StopFlusher \/ Closed \/ UNCHANGED vars
        => UNCHANGED <<pending, batch, rejected, counted, unpersisted, made, stored, abandoned>>
  BY DEF BatchRejected, BackoffEnds, StopBegins, StopFlusher, Closed, vars, bufferVars, flushVars,
         dbVars
<1>8. FlusherWakes \/ StopFlush
        => \/ \E owner \in {"flusher", "stop"} :
                BeginFlush(owner) /\ UNCHANGED <<stored, abandoned, made>>
           \/ UNCHANGED <<pending, batch, rejected, counted, unpersisted, made, stored, abandoned>>
  BY DEF FlusherWakes, StopFlush, EmptyFlush, flushVars, dbVars
<1>9. QED
  BY <1>1, <1>2, <1>3, <1>4, <1>5, <1>6, <1>7, <1>8 DEF Next, SaveEnds

\* What Consume does to the books of one kind.
Arrived(k) ==
  LET new == (made[k] + 1)..made'[k]
  IN  /\ made'[k] \in Nat /\ made[k] <= made'[k]
      /\ Increasing(pending'[k]) /\ Range(pending'[k]) \subseteq Range(pending[k]) \cup new
      /\ counted'[k] = counted[k] \cup ((Range(pending[k]) \cup new) \ Range(pending'[k]))
      /\ unpersisted'[k] = Cardinality(counted'[k])

\* The buffer grows by the next write ids.
LEMMA GrownBooks ==
  ASSUME TypeInv, Books, made["event"] < MaxEvents, NEW n \in 0..MaxAlerts, NEW k \in Kind,
         made' = [made EXCEPT !["event"] = @ + 1, !["alert"] = @ + n]
  PROVE  /\ made'[k] \in Nat /\ made[k] <= made'[k]
         /\ Grown(n) \in [Kind -> Seq(Id)] /\ Increasing(Grown(n)[k])
         /\ Range(Grown(n)[k]) = Range(pending[k]) \cup ((made[k] + 1)..made'[k])
<1> DEFINE fresh(q) == [i \in 1..(IF q = "event" THEN 1 ELSE n) |-> made[q] + i]
<1>1. /\ made \in [Kind -> Nat] /\ made["event"] \in Nat /\ made["alert"] \in Nat /\ n \in Nat
      /\ pending \in [Kind -> Seq(Id)] /\ Id \in SUBSET Nat
  BY IdFacts, WriteBehindAssumption DEF TypeInv, TypeOK, BufferTypes, Kind
<1>2. \A q \in Kind : made'[q] = made[q] + (IF q = "event" THEN 1 ELSE n)
  BY <1>1 DEF Kind
<1>3. ASSUME NEW q \in Kind
      PROVE  /\ fresh(q) \in Seq(Id) /\ Increasing(fresh(q))
             /\ Range(fresh(q)) = (made[q] + 1)..made'[q]
  <2> DEFINE c == IF q = "event" THEN 1 ELSE n
             m == made[q]
  <2>1. c \in Nat /\ m \in Nat /\ (m + 1)..(m + c) \subseteq Id
    <3>1. /\ made["event"] + 1 \in Id /\ (made["alert"] + 1)..(made["alert"] + n) \subseteq Id
      BY <1>1, FreshInId DEF TypeInv, TypeOK
    <3>2. CASE q = "event"
      <4>1. (m + 1)..(m + c) = {made["event"] + 1}
        BY <1>1, <3>2
      <4>2. QED
        BY <1>1, <3>1, <3>2, <4>1
    <3>3. CASE q = "alert"
      BY <1>1, <3>1, <3>3
    <3>4. QED
      BY <3>2, <3>3 DEF Kind
  <2>2. m + c = made'[q]
    BY <1>2
  <2> HIDE DEF c, m
  <2>3. LET new == [i \in 1..c |-> m + i]
        IN  new \in Seq(Id) /\ Increasing(new) /\ Range(new) = (m + 1)..(m + c)
    BY <1>1, <2>1, FreshIds
  <2>4. QED
    BY <2>2, <2>3 DEF c, m
<1>4. \A q \in Kind : Grown(n)[q] = pending[q] \o fresh(q)
  <2>1. Grown(n)["alert"] = pending["alert"] \o fresh("alert")
    BY <1>1 DEF Grown, Kind
  <2>2. Grown(n)["event"] = Append(pending["event"], made["event"] + 1)
    BY <1>1 DEF Grown, Kind
  <2>3. fresh("event") = <<made["event"] + 1>>
    BY <1>1
  <2>4. pending["event"] \in Seq(Id)
    BY <1>1 DEF Kind
  <2>5. Append(pending["event"], made["event"] + 1) = pending["event"] \o <<made["event"] + 1>>
    <3>1. made["event"] + 1 \in Id
      BY <1>1, FreshInId DEF TypeInv, TypeOK
    <3>2. QED
      BY <2>4, <3>1, AppendIsConcat
  <2>6. QED
    BY <2>1, <2>2, <2>3, <2>5 DEF Kind
<1> HIDE DEF fresh
<1>5. ASSUME NEW q \in Kind
      PROVE  /\ Grown(n)[q] \in Seq(Id) /\ Increasing(Grown(n)[q])
             /\ Range(Grown(n)[q]) = Range(pending[q]) \cup ((made[q] + 1)..made'[q])
  <2>1. pending[q] \in Seq(Id) /\ Increasing(pending[q])
    BY <1>1 DEF Books, OrderedBuffer
  <2>2. \A x \in Range(pending[q]) : x \in 1..made[q]
    BY DEF Books, KnownIds, InBuffer
  <2>3. \A x \in Range(pending[q]), y \in Range(fresh(q)) : x < y
    <3>1. made[q] \in Nat /\ made'[q] \in Nat
      BY <1>1, <1>2 DEF Kind
    <3>2. QED
      BY <1>3, <2>2, <3>1
  <2>4. fresh(q) \in Seq(Id) /\ Increasing(fresh(q))
    BY <1>3
  <2>5. /\ pending[q] \o fresh(q) \in Seq(Id) /\ Increasing(pending[q] \o fresh(q))
        /\ Range(pending[q] \o fresh(q)) = Range(pending[q]) \cup Range(fresh(q))
    BY <1>1, <2>1, <2>3, <2>4, Joined
  <2>6. QED
    BY <1>3, <1>4, <2>5
<1>6. Grown(n) \in [Kind -> Seq(Id)]
  <2>1. DOMAIN Grown(n) = Kind /\ Grown(n) = [q \in Kind |-> Grown(n)[q]]
    BY <1>1 DEF Grown
  <2>2. QED
    BY <1>5, <2>1
<1>7. made'[k] \in Nat /\ made[k] <= made'[k]
  BY <1>1, <1>2 DEF Kind
<1>8. QED
  BY <1>5, <1>6, <1>7

\* Consume: what it drops for the new records it counts.
LEMMA ConsumeArrives ==
  ASSUME TypeInv, Books, Consume
  PROVE  /\ \A k \in Kind : Arrived(k)
         /\ made'["event"] = made["event"] + 1
         /\ UNCHANGED <<batch, rejected, stored, abandoned, stopPc>>
<1>1. PICK n \in 0..MaxAlerts :
       /\ made' = [made EXCEPT !["event"] = @ + 1, !["alert"] = @ + n]
       /\ IF Len(Grown(n)["event"]) > MaxBuffered
          THEN Keep(Grown(n), [k \in Kind |-> {}])
          ELSE pending' = Grown(n) /\ UNCHANGED <<unpersisted, counted>>
  BY DEF Consume
<1>2. UNCHANGED <<batch, rejected, stored, abandoned, stopPc>>
  BY DEF Consume, flushVars, dbVars, taskVars
<1>3. ASSUME NEW k \in Kind PROVE Arrived(k)
  <2>1. /\ made'[k] \in Nat /\ made[k] <= made'[k]
        /\ Grown(n) \in [Kind -> Seq(Id)] /\ Increasing(Grown(n)[k])
        /\ Range(Grown(n)[k]) = Range(pending[k]) \cup ((made[k] + 1)..made'[k])
    BY <1>1, GrownBooks DEF Consume
  <2>2. /\ unpersisted[k] = Cardinality(counted[k]) /\ counted[k] \cap InBuffer(k) = {}
        /\ counted[k] \subseteq 1..made[k] /\ made[k] \in Nat
    BY BookTypes DEF Books, RecordsAccounted, CountedOnce, KnownIds
  <2>3. Range(Grown(n)[k]) \cap counted[k] = {}
    <3>1. \A x \in (made[k] + 1)..made'[k] : x \notin 1..made[k]
      BY <2>1, <2>2
    <3>2. QED
      BY <2>1, <2>2, <3>1 DEF InBuffer
  <2>4. CASE Keep(Grown(n), [q \in Kind |-> {}])
    <3> DEFINE buffer == Grown(n)
               extra == [q \in Kind |-> {}]
    <3>1. extra \in [Kind -> SUBSET Id] /\ extra[k] = {}
      OBVIOUS
    <3>2. Keep(buffer, extra)
      BY <2>4
    <3> HIDE DEF buffer, extra
    <3>3. /\ Increasing(pending'[k]) /\ Range(pending'[k]) \subseteq Range(buffer[k])
          /\ counted'[k] = counted[k] \cup extra[k] \cup (Range(buffer[k]) \ Range(pending'[k]))
          /\ unpersisted'[k] = Cardinality(counted'[k])
      BY <2>1, <2>2, <2>3, <3>1, <3>2, KeepBooks DEF buffer
    <3>4. QED
      BY <2>1, <3>1, <3>3 DEF buffer, Arrived
  <2>5. CASE pending' = Grown(n) /\ UNCHANGED <<unpersisted, counted>>
    BY <2>1, <2>2, <2>5 DEF Arrived
  <2>6. QED
    BY <1>1, <2>4, <2>5
<1>4. made'["event"] = made["event"] + 1
  BY <1>1 DEF TypeInv, TypeOK, Kind
<1>5. QED
  BY <1>2, <1>3, <1>4

\* Consume keeps the books.
LEMMA ConsumeBooks ==
  ASSUME TypeInv, TypeInv', Books, Consume
  PROVE  Books'
<1>1. /\ \A k \in Kind : Arrived(k)
      /\ UNCHANGED <<batch, rejected, stored, abandoned, stopPc>>
  BY ConsumeArrives
<1>2. ASSUME NEW k \in Kind
      PROVE  /\ made[k] \in Nat /\ made'[k] \in Nat /\ made[k] <= made'[k]
             /\ 1..made[k] \subseteq 1..made'[k]
             /\ \A x \in (made[k] + 1)..made'[k] : x \in 1..made'[k] /\ x \notin 1..made[k]
             /\ \A x \in 1..made[k], y \in (made[k] + 1)..made'[k] : x < y
             /\ 1..made'[k] = 1..made[k] \cup ((made[k] + 1)..made'[k])
  <2>1. made[k] \in Nat /\ made'[k] \in Nat /\ made[k] <= made'[k]
    BY <1>1, BookTypes DEF Arrived
  <2>2. QED
    BY <2>1
<1>3. ASSUME NEW k \in Kind PROVE Alive(k)' \subseteq Alive(k) \cup ((made[k] + 1)..made'[k])
  BY <1>1 DEF Alive, Arrived
<1>4. ASSUME NEW k \in Kind PROVE OrderedBuffer(k)' /\ KnownIds(k)'
  <2>1. OrderedBuffer(k) /\ KnownIds(k)
    BY DEF Books
  <2>2. \A x \in InBuffer(k), y \in (made[k] + 1)..made'[k] : x < y
    BY <1>2, <2>1 DEF KnownIds
  <2>3. Range(batch[k]) \subseteq InBuffer(k) /\ rejected[k] \subseteq InBuffer(k)
    BY DEF InBuffer
  <2>4. \A x \in Range(batch[k]), y \in Range(pending'[k]) : x < y
    BY <1>1, <2>1, <2>2, <2>3 DEF OrderedBuffer, Arrived
  <2>5. \A x \in rejected[k], y \in Alive(k)' : x < y
    BY <1>3, <2>1, <2>2, <2>3 DEF OrderedBuffer
  <2>6. Increasing(pending'[k])
    BY <1>1 DEF Arrived
  <2>7. OrderedBuffer(k)'
    BY <1>1, <2>1, <2>4, <2>5, <2>6 DEF OrderedBuffer
  <2>8. InBuffer(k)' \subseteq InBuffer(k) \cup ((made[k] + 1)..made'[k])
    BY <1>1 DEF InBuffer, Arrived
  <2>9. counted'[k] \subseteq counted[k] \cup InBuffer(k) \cup ((made[k] + 1)..made'[k])
    BY <1>1 DEF InBuffer, Arrived
  <2>10. KnownIds(k)'
    BY <1>2, <2>1, <2>8, <2>9 DEF KnownIds
  <2>11. QED
    BY <2>7, <2>10
<1>5. CommitOrder'
  <2>1. ASSUME NEW k \in Kind, NEW X, OldestFirst(X, k) PROVE OldestFirst(X, k)'
    <3>1. X \subseteq 1..made[k] /\ \A i \in Alive(k), j \in X : i < j => i \in X
      BY <2>1 DEF OldestFirst
    <3>2. \A i \in (made[k] + 1)..made'[k], j \in X : ~(i < j)
      <4> TAKE i \in (made[k] + 1)..made'[k], j \in X
      <4>1. j \in 1..made[k]
        BY <3>1
      <4>2. QED
        BY <1>2, <4>1
    <3>3. QED
      BY <1>2, <1>3, <3>1, <3>2 DEF OldestFirst
  <2>2. ASSUME NEW k \in Kind PROVE OldestFirst(Persisted(k), k)'
    <3>1. PICK X : X = Persisted(k) /\ OldestFirst(X, k)
      BY DEF Books, CommitOrder
    <3>2. OldestFirst(X, k)' /\ Persisted(k)' = X
      BY <1>1, <2>1, <3>1 DEF Persisted
    <3>3. QED
      BY <3>2 DEF OldestFirst
  <2>3. ASSUME NEW k \in Kind, NEW a \in abandoned' PROVE OldestFirst(a[k], k)'
    <3>1. OldestFirst(a[k], k)
      BY <1>1 DEF Books, CommitOrder
    <3>2. QED
      BY <2>1, <3>1
  <2>4. QED
    BY <2>2, <2>3 DEF CommitOrder
<1>6. RecordsAccounted'
  <2>1. StoredAtMostOnce' /\ \A k \in Kind : Persisted(k)' = Persisted(k)
    BY <1>1 DEF Books, RecordsAccounted, StoredAtMostOnce, Persisted
  <2>2. ASSUME NEW k \in Kind
        PROVE  1..made'[k] \subseteq InBuffer(k)' \cup Persisted(k)' \cup counted'[k]
    <3>1. 1..made[k] \subseteq InBuffer(k) \cup Persisted(k) \cup counted[k]
      BY DEF Books, RecordsAccounted, NoSilentLoss
    <3>2. InBuffer(k) \cup ((made[k] + 1)..made'[k]) \subseteq InBuffer(k)' \cup counted'[k]
      BY <1>1 DEF InBuffer, Arrived
    <3>3. counted[k] \subseteq counted'[k]
      BY <1>1 DEF Arrived
    <3>4. QED
      BY <1>2, <2>1, <3>1, <3>2, <3>3
  <2>3. ASSUME NEW k \in Kind
        PROVE  unpersisted'[k] = Cardinality(counted'[k]) /\ counted'[k] \cap InBuffer(k)' = {}
    <3>1. counted[k] \cap InBuffer(k) = {} /\ KnownIds(k) /\ OrderedBuffer(k)
      BY DEF Books, RecordsAccounted, CountedOnce
    <3>2. counted[k] \cap ((made[k] + 1)..made'[k]) = {}
      BY <1>2, <3>1 DEF KnownIds
    <3>3. counted[k] \cap InBuffer(k)' = {}
      BY <1>1, <3>1, <3>2 DEF InBuffer, Arrived
    <3>4. (Range(pending[k]) \cup ((made[k] + 1)..made'[k])) \cap (Range(batch[k]) \cup rejected[k])
            = {}
      <4>1. \A x \in InBuffer(k) : x \in Nat
        BY BookTypes, IdFacts DEF InBuffer
      <4>2. \A x \in InBuffer(k) : ~(x < x)
        BY <4>1
      <4>3. Range(pending[k]) \cap (Range(batch[k]) \cup rejected[k]) = {}
        BY <3>1, <4>2 DEF OrderedBuffer, InBuffer, Alive
      <4>4. ((made[k] + 1)..made'[k]) \cap InBuffer(k) = {}
        BY <1>2, <3>1 DEF KnownIds
      <4>5. QED
        BY <4>3, <4>4 DEF InBuffer
    <3>5. QED
      BY <1>1, <3>3, <3>4 DEF InBuffer, Arrived
  <2>4. QED
    BY <2>1, <2>2, <2>3 DEF RecordsAccounted, NoSilentLoss, CountedOnce
<1>7. QED
  BY <1>4, <1>5, <1>6 DEF Books

\* A settling step keeps the books.
LEMMA SettlingBooks ==
  ASSUME TypeInv, Books, SettlingStep
  PROVE  Books'
<1>1. ASSUME NEW k \in Kind
      PROVE  /\ OrderedBuffer(k)' /\ KnownIds(k)'
             /\ 1..made'[k] \subseteq InBuffer(k)' \cup Persisted(k)' \cup counted'[k]
             /\ unpersisted'[k] = Cardinality(counted'[k]) /\ counted'[k] \cap InBuffer(k)' = {}
  <2>1. /\ Settled(k) /\ OrderedBuffer(k)' /\ unpersisted'[k] = Cardinality(counted'[k])
    BY DEF SettlingStep
  <2>2. KnownIds(k) /\ 1..made[k] \subseteq InBuffer(k) \cup Persisted(k) \cup counted[k]
    BY DEF Books, RecordsAccounted, NoSilentLoss
  <2>3. KnownIds(k)'
    BY <2>1, <2>2 DEF KnownIds, Settled
  <2>4. QED
    BY <2>1, <2>2, <2>3 DEF Settled
<1>2. RecordsAccounted' /\ CommitOrder'
  BY <1>1 DEF SettlingStep, RecordsAccounted, NoSilentLoss, CountedOnce
<1>3. QED
  BY <1>1, <1>2 DEF Books

\* The inductive invariant of the write-behind path.
WriteBehindInv == TypeInv /\ Books

\* It holds at the start ...
LEMMA BooksInit == Init => WriteBehindInv
<1> SUFFICES ASSUME Init PROVE Books
  BY TypeInvInit DEF WriteBehindInv
<1>1. ASSUME NEW k \in Kind
      PROVE  /\ batch[k] = <<>> /\ pending[k] = <<>> /\ rejected[k] = {} /\ counted[k] = {}
             /\ made[k] = 0 /\ unpersisted[k] = 0 /\ \A i \in Id : stored[k][i] = 0
  BY DEF Init, Empty, Zero
<1>2. abandoned = {}
  BY DEF Init
<1>3. ASSUME NEW k \in Kind
      PROVE  Alive(k) = {} /\ InBuffer(k) = {} /\ Persisted(k) = {} /\ 1..made[k] = {}
  BY <1>1, NothingBuffered DEF Alive, InBuffer, Persisted
<1>4. \A k \in Kind : OrderedBuffer(k) /\ KnownIds(k)
  BY <1>1, <1>3, NothingBuffered DEF OrderedBuffer, KnownIds
<1>5. CommitOrder
  BY <1>2, <1>3 DEF CommitOrder, OldestFirst
<1>6. StoredAtMostOnce /\ NoSilentLoss
  BY <1>1, <1>3 DEF StoredAtMostOnce, NoSilentLoss
<1>7. CountedOnce
  BY <1>1, FS_EmptySet DEF CountedOnce
<1>8. QED
  BY <1>4, <1>5, <1>6, <1>7 DEF Books, RecordsAccounted

\* ... and every step keeps it.
LEMMA BooksNext == WriteBehindInv /\ [Next]_vars => WriteBehindInv'
<1> SUFFICES ASSUME TypeInv, Books, [Next]_vars PROVE TypeInv' /\ Books'
  BY DEF WriteBehindInv
<1>1. TypeInv'
  BY TypeInvNext
<1>2. CASE Consume
  BY <1>1, <1>2, ConsumeBooks
<1>3. CASE ~Consume
  BY <1>1, <1>3, StepSettles, SettlingBooks
<1>4. QED
  BY <1>1, <1>2, <1>3

\* No record is lost without being counted, none is stored or counted twice, and none is
\* counted that may still be written: whatever fails, and however much (runtime.py).
THEOREM AllRecordsAccounted == Spec => []RecordsAccounted
<1>1. WriteBehindInv => RecordsAccounted
  BY DEF WriteBehindInv, Books
<1>2. QED
  BY <1>1, BooksInit, BooksNext, PTL DEF Spec

\* A flush never commits a record before an older one that is stored later by a flush:
\* what it newly stores was still to be written, and the stored records are the oldest.
THEOREM CommitsStayOrdered == Spec => FlushCommitsOrdered
<1> DEFINE Step == batch' # batch =>
             \A k \in Kind : \A i, j \in Id :
               stored[k][i] = 0 /\ stored'[k][i] > 0 /\ stored[k][j] > 0 => j < i
<1>1. WriteBehindInv /\ [Next]_vars => Step
  <2> SUFFICES ASSUME TypeInv, Books, [Next]_vars, batch' # batch, NEW k \in Kind,
                      NEW i \in Id, NEW j \in Id,
                      stored[k][i] = 0, stored'[k][i] > 0, stored[k][j] > 0
               PROVE  j < i
    BY DEF WriteBehindInv
  <2>1. ~Consume
    BY DEF Consume, flushVars
  <2>2. Persisted(k)' \subseteq Persisted(k) \cup Alive(k)
    BY <2>1, StepSettles DEF SettlingStep
  <2>3. i \notin Persisted(k) /\ i \in Persisted(k)' /\ j \in Persisted(k)
    BY DEF Persisted
  <2>4. OldestFirst(Persisted(k), k)
    BY DEF Books, CommitOrder
  <2>5. ~(i < j) /\ i # j
    BY <2>2, <2>3, <2>4 DEF OldestFirst
  <2>6. i \in Nat /\ j \in Nat
    BY IdFacts
  <2>7. QED
    BY <2>5, <2>6
<1>2. WriteBehindInv /\ [Next]_vars => [Step]_vars
  BY <1>1
<1> HIDE DEF Step
<1>3. Spec => [][Step]_vars
  BY <1>2, BooksInit, BooksNext, PTL DEF Spec
<1>4. QED
  BY <1>3 DEF FlushCommitsOrdered, Step

(***************************************************************************)
(* The refinement.  Liveness apart, WriteBehind implements RecordLedger:    *)
(* every step is a step of the ledger.                                      *)
(***************************************************************************)





\* Books of the ledger are sets of kinds and write ids, before a step ...
LEMMA LedgerBooks ==
  /\ \A x \in Owed \cup OnFile \cup GivenUp : \E k \in Kind : \E i : x = <<k, i>>
  /\ \A k \in Kind : \A i : /\ <<k, i>> \in Owed <=> i \in InBuffer(k)
                            /\ <<k, i>> \in OnFile <=> i \in Persisted(k)
                            /\ <<k, i>> \in GivenUp <=> i \in counted[k]
<1>1. /\ \A x \in Owed : \E k \in Kind : \E i : x = <<k, i>>
      /\ \A k \in Kind : \A i : <<k, i>> \in Owed <=> i \in InBuffer(k)
  BY DEF Owed, InBuffer
<1>2. /\ \A x \in OnFile : \E k \in Kind : \E i : x = <<k, i>>
      /\ \A k \in Kind : \A i : <<k, i>> \in OnFile <=> i \in Persisted(k)
  BY DEF OnFile, Persisted
<1>3. /\ \A x \in GivenUp : \E k \in Kind : \E i : x = <<k, i>>
      /\ \A k \in Kind : \A i : <<k, i>> \in GivenUp <=> i \in counted[k]
  BY DEF GivenUp
<1>4. QED
  BY <1>1, <1>2, <1>3

\* ... and after it.
LEMMA LedgerBooksAfter ==
  /\ \A x \in Owed' \cup OnFile' \cup GivenUp' : \E k \in Kind : \E i : x = <<k, i>>
  /\ \A k \in Kind : \A i : /\ <<k, i>> \in Owed' <=> i \in InBuffer(k)'
                            /\ <<k, i>> \in OnFile' <=> i \in Persisted(k)'
                            /\ <<k, i>> \in GivenUp' <=> i \in counted'[k]
<1>1. /\ \A x \in Owed' : \E k \in Kind : \E i : x = <<k, i>>
      /\ \A k \in Kind : \A i : <<k, i>> \in Owed' <=> i \in InBuffer(k)'
  BY DEF Owed, InBuffer
<1>2. /\ \A x \in OnFile' : \E k \in Kind : \E i : x = <<k, i>>
      /\ \A k \in Kind : \A i : <<k, i>> \in OnFile' <=> i \in Persisted(k)'
  BY DEF OnFile, Persisted
<1>3. /\ \A x \in GivenUp' : \E k \in Kind : \E i : x = <<k, i>>
      /\ \A k \in Kind : \A i : <<k, i>> \in GivenUp' <=> i \in counted'[k]
  BY DEF GivenUp
<1>4. QED
  BY <1>1, <1>2, <1>3

\* The books start empty.
LEMMA LedgerInit == Init => Ledger!Init
<1> SUFFICES ASSUME Init PROVE Ledger!Init
  OBVIOUS
<1>1. ASSUME NEW k \in Kind PROVE InBuffer(k) = {} /\ Persisted(k) = {} /\ counted[k] = {}
  BY NothingBuffered DEF Init, Empty, InBuffer, Persisted
<1>2. Owed = {} /\ OnFile = {} /\ GivenUp = {}
  BY <1>1, LedgerBooks
<1>3. QED
  BY <1>2 DEF Ledger!Init, Init

\* Closing is final, and finds nothing owed.
LEMMA ClosedForGood ==
  ASSUME TypeInv, TypeInv', [Next]_vars
  PROVE  /\ stopPc = "closed" => stopPc' = "closed"
         /\ stopPc' = "closed" => \A k \in Kind : InBuffer(k)' = {}
<1>1. ASSUME stopPc = "closed" PROVE stopPc' = "closed"
  <2>1. phase = "idle" /\ flusher = "done"
    BY <1>1 DEF TypeInv, TypeOK, Tasks, FlushTypes
  <2>2. QED
    BY <1>1, <2>1 DEF Next, Consume, SaveEnds, SaveBatch, BatchRejected, BatchFails, SaveRow,
       RowRejected, RowFails, AbandonedEnds, FlusherWakes, BackoffEnds, StopBegins, StopFlusher,
       StopFlush, Closed, taskVars, vars
<1>2. ASSUME stopPc' = "closed", NEW k \in Kind PROVE InBuffer(k)' = {}
  <2>1. phase' = "idle" /\ pending' = Empty
    BY <1>2 DEF TypeInv, TypeOK, Tasks, FlushTypes
  <2>2. pending'[k] = <<>> /\ batch'[k] = <<>> /\ rejected'[k] = {}
    BY <2>1 DEF TypeInv, Tasks, Empty
  <2>3. QED
    BY <2>2, NothingBuffered DEF InBuffer
<1>3. QED
  BY <1>1, <1>2

\* A settling step settles the ledger.
LEMMA LedgerSettles ==
  ASSUME Books, SettlingStep
  PROVE  Ledger!Settle(Owed)
<1>1. ASSUME NEW k \in Kind
      PROVE  Settled(k) /\ 1..made[k] \subseteq InBuffer(k) \cup Persisted(k) \cup counted[k]
  BY DEF SettlingStep, Books, RecordsAccounted, NoSilentLoss
<1>2. OnFile \subseteq OnFile' /\ OnFile' \ OnFile \subseteq Owed \cup GivenUp
  <2>1. \A k \in Kind : /\ Persisted(k) \subseteq Persisted(k)'
                        /\ Persisted(k)' \ Persisted(k) \subseteq InBuffer(k) \cup counted[k]
    BY <1>1 DEF Settled
  <2>2. QED
    BY <2>1, LedgerBooks, LedgerBooksAfter
<1>3. GivenUp \subseteq GivenUp' /\ GivenUp' \ GivenUp \subseteq Owed
  <2>1. \A k \in Kind :
          counted[k] \subseteq counted'[k] /\ counted'[k] \ counted[k] \subseteq InBuffer(k)
    BY <1>1 DEF Settled
  <2>2. QED
    BY <2>1, LedgerBooks, LedgerBooksAfter
<1>4. Owed' \subseteq Owed /\ Owed' \cap GivenUp' = {}
  <2>1. \A k \in Kind : InBuffer(k)' \subseteq InBuffer(k) /\ InBuffer(k)' \cap counted'[k] = {}
    BY <1>1 DEF Settled
  <2>2. QED
    BY <2>1, LedgerBooks, LedgerBooksAfter
<1>5. Owed \ Owed' \subseteq OnFile' \cup GivenUp'
  <2>1. \A k \in Kind : InBuffer(k) \subseteq InBuffer(k)' \cup Persisted(k)' \cup counted'[k]
    BY <1>1 DEF Settled
  <2>2. QED
    BY <2>1, LedgerBooks, LedgerBooksAfter
<1>6. QED
  BY <1>2, <1>3, <1>4, <1>5 DEF Ledger!Settle

\* New records enter the ledger.
LEMMA LedgerArrives ==
  ASSUME TypeInv, Books, Books', Consume
  PROVE  Ledger!Arrive
<1>1. /\ \A k \in Kind : Arrived(k)
      /\ made'["event"] = made["event"] + 1
      /\ UNCHANGED <<batch, rejected, stored, abandoned, stopPc>>
  BY ConsumeArrives
<1>2. stopPc # "closed" /\ UNCHANGED (stopPc = "closed")
  BY <1>1 DEF Consume
<1>3. ASSUME NEW k \in Kind PROVE Persisted(k)' = Persisted(k)
  BY <1>1 DEF Persisted
<1>4. ASSUME NEW k \in Kind
      PROVE  /\ InBuffer(k) \subseteq InBuffer(k)' \cup counted'[k]
             /\ counted[k] \subseteq counted'[k] /\ InBuffer(k)' \cap counted'[k] = {}
             /\ (made[k] + 1)..made'[k] \subseteq InBuffer(k)' \cup counted'[k]
             /\ (InBuffer(k)' \cup counted'[k]) \ (InBuffer(k) \cup counted[k])
                  \subseteq (made[k] + 1)..made'[k]
  <2>1. InBuffer(k)' \cap counted'[k] = {}
    BY DEF Books, RecordsAccounted, CountedOnce
  <2>2. /\ InBuffer(k) = Range(pending[k]) \cup Range(batch[k]) \cup rejected[k]
        /\ InBuffer(k)' = Range(pending'[k]) \cup Range(batch[k]) \cup rejected[k]
    BY <1>1 DEF InBuffer
  <2>3. QED
    BY <1>1, <2>1, <2>2 DEF Arrived
<1>5. ASSUME NEW k \in Kind
      PROVE  ((made[k] + 1)..made'[k]) \cap (InBuffer(k) \cup counted[k] \cup Persisted(k)) = {}
  <2>1. made[k] \in Nat /\ made'[k] \in Nat
    BY <1>1, BookTypes DEF Arrived
  <2>2. \A x \in (made[k] + 1)..made'[k] : x \notin 1..made[k]
    BY <2>1
  <2>3. InBuffer(k) \cup counted[k] \cup Persisted(k) \subseteq 1..made[k]
    BY DEF Books, KnownIds, CommitOrder, OldestFirst
  <2>4. QED
    BY <2>2, <2>3
<1>6. OnFile' = OnFile
  BY <1>3, LedgerBooks, LedgerBooksAfter
<1>7. GivenUp \subseteq GivenUp' /\ Owed' \cap GivenUp' = {} /\ Owed \subseteq Owed' \cup GivenUp'
  BY <1>4, LedgerBooks, LedgerBooksAfter
<1> DEFINE new == (Owed' \cup GivenUp') \ (Owed \cup GivenUp)
<1>8. new # {}
  <2>1. "event" \in Kind /\ made["event"] \in Nat
    BY BookTypes DEF Kind
  <2>2. made'["event"] \in (made["event"] + 1)..made'["event"]
    BY <1>1, <2>1
  <2>3. <<"event", made'["event"]>> \in Owed' \cup GivenUp'
    BY <1>4, <2>1, <2>2, LedgerBooksAfter
  <2>4. <<"event", made'["event"]>> \notin Owed \cup GivenUp
    BY <1>5, <2>1, <2>2, LedgerBooks
  <2>5. QED
    BY <2>3, <2>4
<1>9. new \cap OnFile = {}
  <2> SUFFICES ASSUME NEW x \in new PROVE x \notin OnFile
    OBVIOUS
  <2>1. PICK k \in Kind : \E i : x = <<k, i>>
    BY LedgerBooksAfter
  <2>2. PICK i : x = <<k, i>>
    BY <2>1
  <2>3. i \in (InBuffer(k)' \cup counted'[k]) \ (InBuffer(k) \cup counted[k])
    BY <2>2, LedgerBooks, LedgerBooksAfter
  <2>4. i \notin Persisted(k)
    BY <1>4, <1>5, <2>3
  <2>5. QED
    BY <2>2, <2>4, LedgerBooks
<1>10. Ledger!Settle(Owed \cup new)
  <2>1. /\ GivenUp' \ GivenUp \subseteq Owed \cup new /\ Owed' \subseteq Owed \cup new
        /\ (Owed \cup new) \ Owed' \subseteq OnFile' \cup GivenUp'
    BY <1>7
  <2> HIDE DEF new
  <2>2. QED
    BY <1>6, <1>7, <2>1 DEF Ledger!Settle
<1>11. QED
  BY <1>2, <1>6, <1>8, <1>9, <1>10 DEF Ledger!Arrive

\* Every step of the write-behind path is a step of the ledger.
LEMMA LedgerNext == WriteBehindInv /\ [Next]_vars => [Ledger!Next]_(Ledger!vars)
<1> SUFFICES ASSUME WriteBehindInv, [Next]_vars PROVE [Ledger!Next]_(Ledger!vars)
  OBVIOUS
<1>1. TypeInv /\ Books /\ TypeInv' /\ Books'
  BY BooksNext DEF WriteBehindInv
<1>2. CASE Consume
  BY <1>1, <1>2, LedgerArrives DEF Ledger!Next
<1>3. CASE ~Consume
  <2>1. Ledger!Settle(Owed)
    BY <1>1, <1>3, StepSettles, LedgerSettles
  <2>2. CASE (stopPc = "closed") = (stopPc' = "closed")
    <3>1. Ledger!Write
      BY <2>1, <2>2 DEF Ledger!Write
    <3>2. QED
      BY <3>1 DEF Ledger!Next
  <2>3. CASE (stopPc = "closed") # (stopPc' = "closed")
    <3>1. stopPc # "closed" /\ stopPc' = "closed" /\ \A k \in Kind : InBuffer(k)' = {}
      BY <1>1, <2>3, ClosedForGood
    <3>2. Owed' = {}
      BY <3>1, LedgerBooksAfter
    <3>3. Ledger!Close
      BY <2>1, <3>1, <3>2 DEF Ledger!Close
    <3>4. QED
      BY <3>3 DEF Ledger!Next
  <2>4. QED
    BY <2>2, <2>3
<1>4. QED
  BY <1>2, <1>3

\* The refinement, step by step: what write-behind persistence does to the records,
\* through faults, retries, late commits and shutdown, RecordLedger allows.
THEOREM LedgerStepByStep == Spec => Ledger!StepSpec
BY LedgerInit, LedgerNext, BooksInit, BooksNext, PTL DEF Spec, Ledger!StepSpec
=============================================================================
