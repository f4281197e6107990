-------------------------- MODULE PipelineProofs --------------------------
(***************************************************************************)
(* Theorems about Pipeline, for every set of collectors, queue size, policy *)
(* and dedup configuration.                                                 *)
(***************************************************************************)
EXTENDS Pipeline, FiniteSetTheorems, SequenceTheorems, WellFoundedInduction, TLAPS

\* Any non-empty set of positions has a first one: what `for ... break` finds.
LEMMA FirstPosition ==
  ASSUME NEW S, S \subseteq Nat, S # {}
  PROVE  \E m \in S : \A k \in S : m <= k
<1> DEFINE R == OpToRel(<, Nat)
<1>1. IsWellFoundedOn(R, Nat)
  BY NatLessThanWellFounded
<1>2. \A x, y \in Nat : x < y => <<x, y>> \in R
  BY DEF OpToRel
<1> HIDE DEF R
<1>3. PICK m \in S : \A k \in S : ~(<<k, m>> \in R)
  BY <1>1, WFMin
<1>4. \A k \in S : m <= k
  <2> TAKE k \in S
  <2>1. k \in Nat /\ m \in Nat
    OBVIOUS
  <2>2. ~(k < m)
    BY <1>2, <1>3, <2>1
  <2>3. QED
    BY <2>1, <2>2
<1>5. QED
  BY <1>4

\* There are n - m things numbered m + 1 to n of one owner.
LEMMA CountNumbered ==
  ASSUME NEW c, NEW m \in Nat, NEW n \in Nat, m <= n
  PROVE  IsFiniteSet({c} \X ((m + 1)..n)) /\ Cardinality({c} \X ((m + 1)..n)) = n - m
<1> DEFINE I == (m + 1)..n
<1>1. IsFiniteSet(I) /\ Cardinality(I) = n - m
  <2>1. PICK k \in Int : k = m + 1
    OBVIOUS
  <2>2. IsFiniteSet(k..n) /\ Cardinality(k..n) = IF k > n THEN 0 ELSE n - k + 1
    BY FS_Interval
  <2>3. QED
    BY <2>1, <2>2
<1>2. IsFiniteSet({c}) /\ Cardinality({c}) = 1
  BY FS_Singleton
<1> HIDE DEF I
<1>3. /\ IsFiniteSet({c} \X I)
      /\ Cardinality({c} \X I) = Cardinality({c}) * Cardinality(I)
  BY <1>1, <1>2, FS_Product
<1>4. QED
  BY <1>1, <1>2, <1>3 DEF I

\* Two disjoint sets are counted one after the other.
LEMMA CountDisjoint ==
  ASSUME NEW A, IsFiniteSet(A), NEW D, IsFiniteSet(D), A \cap D = {}
  PROVE  /\ IsFiniteSet(A \cup D)
         /\ Cardinality(A \cup D) = Cardinality(A) + Cardinality(D)
         /\ Cardinality(A) \in Nat
<1>1. /\ IsFiniteSet(A \cup D)
      /\ Cardinality(A \cup D) = Cardinality(A) + Cardinality(D) - Cardinality(A \cap D)
  BY FS_Union
<1>2. Cardinality(A) \in Nat /\ Cardinality(D) \in Nat /\ Cardinality(A \cap D) = 0
  BY FS_EmptySet, FS_CardinalityType
<1>3. QED
  BY <1>1, <1>2

(***************************************************************************)
(* The operators of DedupWindow, for every window, clock, ttl and cap.      *)
(***************************************************************************)

\* Entries are kept in the order they expire.
Ascending(held) ==
  \A i, j \in 1..Len(held) : i < j => held[i].expiry <= held[j].expiry

\* The walk of _evict_expired ends: it collects a prefix of expired entries and
\* the entry after it, if any, is live.
LEMMA StaleProperties ==
  ASSUME NEW K, NEW held \in Seq(Entries(K)), NEW clock \in Nat
  PROVE  /\ Stale(held, clock) \in 0..Len(held)
         /\ \A i \in 1..Stale(held, clock) : held[i].expiry <= clock
         /\ Stale(held, clock) < Len(held) => held[Stale(held, clock) + 1].expiry > clock
<1> DEFINE P(n) == /\ \A i \in 1..n : held[i].expiry <= clock
                   /\ n < Len(held) => held[n + 1].expiry > clock
           Live == {i \in 1..Len(held) : held[i].expiry > clock}
<1>1. /\ Len(held) \in Nat
      /\ \A i \in 1..Len(held) : held[i] \in Entries(K)
  OBVIOUS
<1>2. \A i \in 1..Len(held) : held[i].expiry \in Nat
  BY <1>1 DEF Entries
<1>3. \E n \in 0..Len(held) : P(n)
  <2>1. CASE Live = {}
    <3>1. P(Len(held))
      BY <1>1, <1>2, <2>1
    <3>2. QED
      BY <1>1, <3>1
  <2>2. CASE Live # {}
    <3>1. Live \subseteq Nat
      BY <1>1
    <3>2. PICK m \in Live : \A k \in Live : m <= k
      BY <2>2, <3>1, FirstPosition
    <3>3. m \in 1..Len(held) /\ held[m].expiry > clock
      BY <3>2
    <3>4. \A i \in 1..(m - 1) : held[i].expiry <= clock
      <4> TAKE i \in 1..(m - 1)
      <4>1. i \in 1..Len(held) /\ ~(m <= i)
        BY <1>1, <3>3
      <4>2. i \notin Live
        BY <3>2, <4>1
      <4>3. QED
        BY <1>2, <4>1, <4>2
    <3>5. m - 1 \in 0..Len(held) /\ (m - 1) + 1 = m
      BY <1>1, <3>3
    <3>6. P(m - 1)
      BY <3>3, <3>4, <3>5
    <3>7. QED
      BY <3>5, <3>6
  <2>3. QED
    BY <2>1, <2>2
<1>4. Stale(held, clock) = CHOOSE n \in 0..Len(held) : P(n)
  BY DEF Stale
<1> HIDE DEF P
<1>5. Stale(held, clock) \in 0..Len(held) /\ P(Stale(held, clock))
  BY <1>3, <1>4
<1>6. QED
  BY <1>5 DEF P

\* Eviction keeps a suffix of the window.
LEMMA EvictExpiredProperties ==
  ASSUME NEW K, NEW held \in Seq(Entries(K)), NEW clock \in Nat
  PROVE  /\ EvictExpired(held, clock) \in Seq(Entries(K))
         /\ Len(EvictExpired(held, clock)) = Len(held) - Stale(held, clock)
         /\ \A i \in 1..Len(EvictExpired(held, clock)) :
              EvictExpired(held, clock)[i] = held[i + Stale(held, clock)]
<1> DEFINE n == Stale(held, clock)
<1>1. n \in 0..Len(held) /\ Len(held) \in Nat
  BY StaleProperties
<1>2. EvictExpired(held, clock) = SubSeq(held, n + 1, Len(held))
  BY DEF EvictExpired
<1> HIDE DEF n
<1>3. \A i \in (n + 1)..Len(held) : held[i] \in Entries(K)
  BY <1>1
<1>4. /\ SubSeq(held, n + 1, Len(held)) \in Seq(Entries(K))
      /\ Len(SubSeq(held, n + 1, Len(held))) = Len(held) - n
      /\ \A i \in 1..(Len(held) - n) :
           SubSeq(held, n + 1, Len(held))[i] = held[i + n]
  BY <1>1, <1>3
<1>5. QED
  BY <1>1, <1>2, <1>4 DEF n

\* Making room drops at most the oldest entry and leaves a free slot.
LEMMA EvictToCapProperties ==
  ASSUME NEW K, NEW live \in Seq(Entries(K)), NEW cap \in Nat \ {0}, Len(live) <= cap
  PROVE  /\ EvictToCap(live, cap) \in Seq(Entries(K))
         /\ Len(EvictToCap(live, cap)) < cap
         /\ \E d \in {0, 1} :
              /\ Len(EvictToCap(live, cap)) = Len(live) - d
              /\ d = 1 => Len(live) >= cap
              /\ \A i \in 1..Len(EvictToCap(live, cap)) :
                   EvictToCap(live, cap)[i] = live[i + d]
<1>1. CASE Len(live) >= cap
  <2>1. live # <<>> /\ EvictToCap(live, cap) = Tail(live)
    BY <1>1 DEF EvictToCap
  <2>2. /\ Tail(live) \in Seq(Entries(K)) /\ Len(Tail(live)) = Len(live) - 1
        /\ \A i \in 1..Len(Tail(live)) : Tail(live)[i] = live[i + 1]
    BY <2>1
  <2>3. Len(live) \in Nat /\ Len(Tail(live)) < cap
    BY <2>2
  <2>4. QED
    BY <1>1, <2>1, <2>2, <2>3
<1>2. CASE ~(Len(live) >= cap)
  <2>1. EvictToCap(live, cap) = live
    BY <1>2 DEF EvictToCap
  <2>2. Len(live) \in Nat /\ \A i \in 1..Len(live) : i + 0 = i
    OBVIOUS
  <2>3. QED
    BY <1>2, <2>1, <2>2
<1>3. QED
  BY <1>1, <1>2

\* What seen() leaves behind: a suffix of the window, by dropping its first d
\* entries, followed by the new entry unless the key was there.  What it drops has
\* expired, but for the one entry that makes room in a full window.
LEMMA AfterSeenShape ==
  ASSUME NEW K, NEW held \in Seq(Entries(K)), NEW key \in K, NEW clock \in Nat,
         NEW ttl \in Nat, NEW cap \in Nat \ {0}, Len(held) <= cap
  PROVE  LET after == AfterSeen(held, key, clock, ttl, cap)
         IN  /\ after \in Seq(Entries(K))
             /\ Len(after) <= cap
             /\ \E d \in 0..Len(held) :
                  /\ \A i \in 1..(Len(held) - d) : after[i] = held[i + d]
                  /\ \A i \in 1..d : held[i].expiry <= clock \/ (i = d /\ Len(after) >= cap)
                  /\ \/ Seen(held, key, clock) /\ Len(after) = Len(held) - d
                     \/ /\ ~Seen(held, key, clock)
                        /\ Len(after) = Len(held) - d + 1
                        /\ after[Len(held) - d + 1] = Entry(key, clock + ttl)
<1> DEFINE live == EvictExpired(held, clock)
           kept == EvictToCap(live, cap)
           n == Stale(held, clock)
           after == AfterSeen(held, key, clock, ttl, cap)
           new == Entry(key, clock + ttl)
<1>1. /\ live \in Seq(Entries(K))
      /\ Len(live) = Len(held) - n
      /\ \A i \in 1..Len(live) : live[i] = held[i + n]
      /\ n \in 0..Len(held) /\ Len(held) \in Nat
      /\ \A i \in 1..n : held[i].expiry <= clock
  <2>1. n \in 0..Len(held) /\ \A i \in 1..n : held[i].expiry <= clock
    BY StaleProperties, Zenon
  <2>2. Len(held) \in Nat
    OBVIOUS
  <2>3. QED
    BY <2>1, <2>2, EvictExpiredProperties
<1>2. Seen(held, key, clock) <=> key \in Keys(live)
  BY DEF Seen
<1>3. after = IF key \in Keys(live) THEN live ELSE Append(kept, new)
  BY DEF AfterSeen
<1>4. new \in Entries(K)
  BY DEF Entry, Entries
<1> HIDE DEF live, n, after, new
<1>5. CASE key \in Keys(live)
  <2>1. after = live
    BY <1>3, <1>5
  <2>2. Len(live) <= cap
    BY <1>1
  <2>3. \A i \in 1..(Len(held) - n) : after[i] = held[i + n]
    BY <1>1, <2>1
  <2>4. QED
    BY <1>1, <1>2, <1>5, <2>1, <2>2, <2>3 DEF after
<1>6. CASE key \notin Keys(live)
  <2>1. after = Append(kept, new)
    BY <1>3, <1>6
  <2>2. Len(live) <= cap
    BY <1>1
  <2>3. kept \in Seq(Entries(K)) /\ Len(kept) < cap /\ Len(kept) \in Nat
    BY <1>1, <2>2, EvictToCapProperties
  <2>4. PICK e \in {0, 1} : /\ Len(kept) = Len(live) - e
                            /\ e = 1 => Len(live) >= cap
                            /\ \A i \in 1..Len(kept) : kept[i] = live[i + e]
    BY <1>1, <2>2, EvictToCapProperties
  <2> HIDE DEF kept
  <2>5. /\ after \in Seq(Entries(K)) /\ Len(after) = Len(kept) + 1
        /\ \A i \in 1..Len(kept) : after[i] = kept[i]
        /\ after[Len(kept) + 1] = new
    BY <1>4, <2>1, <2>3
  <2>6. n + e \in 0..Len(held) /\ Len(kept) = Len(held) - (n + e)
    BY <1>1, <2>3, <2>4
  <2>7. \A i \in 1..(Len(held) - (n + e)) : after[i] = held[i + (n + e)]
    <3> TAKE i \in 1..(Len(held) - (n + e))
    <3>1. i \in 1..Len(kept) /\ i + e \in 1..Len(live) /\ (i + e) + n = i + (n + e)
      BY <1>1, <2>4, <2>6
    <3>2. QED
      BY <1>1, <2>4, <2>5, <3>1
  <2>8. Len(after) <= cap
    BY <2>3, <2>5
  <2>9. \A i \in 1..(n + e) : held[i].expiry <= clock \/ (i = n + e /\ Len(after) >= cap)
    BY <1>1, <2>3, <2>4, <2>5
  <2>10. QED
    BY <1>2, <1>6, <2>5, <2>6, <2>7, <2>8, <2>9 DEF after, new
<1>7. QED
  BY <1>5, <1>6

\* A key whose entry has not expired is seen: the walk drops no live entry.
LEMMA LiveMeansSeen ==
  ASSUME NEW K, NEW held \in Seq(Entries(K)), NEW clock \in Nat,
         NEW m \in 1..Len(held), held[m].expiry > clock
  PROVE  Seen(held, held[m].key, clock)
<1> DEFINE live == EvictExpired(held, clock)
           n == Stale(held, clock)
<1>1. /\ n \in 0..Len(held) /\ Len(held) \in Nat
      /\ \A i \in 1..n : held[i].expiry <= clock
  <2>1. Len(held) \in Nat
    OBVIOUS
  <2>2. /\ Stale(held, clock) \in 0..Len(held)
        /\ \A i \in 1..Stale(held, clock) : held[i].expiry <= clock
    BY StaleProperties
  <2>3. QED
    BY <2>1, <2>2
<1>2. /\ live \in Seq(Entries(K))
      /\ Len(live) = Len(held) - n
      /\ \A i \in 1..Len(live) : live[i] = held[i + n]
  BY EvictExpiredProperties
<1>3. held[m] \in Entries(K)
  OBVIOUS
<1>4. held[m].expiry \in Nat
  BY <1>3 DEF Entries
<1> HIDE DEF live, n
<1>5. m - n \in 1..Len(live) /\ (m - n) + n = m
  BY <1>1, <1>2, <1>4
<1>6. live[m - n] = held[m]
  BY <1>2, <1>5
<1>7. held[m].key \in Keys(live)
  BY <1>2, <1>5, <1>6 DEF Keys
<1>8. QED
  BY <1>7 DEF Seen, live

\* When seen() answers True, an unexpired entry of the window holds the key.  The
\* entries' expiries must ascend: the walk stops at the first live one.
LEMMA SeenMeansLive ==
  ASSUME NEW K, NEW held \in Seq(Entries(K)), NEW key \in K, NEW clock \in Nat,
         Ascending(held), Seen(held, key, clock)
  PROVE  \E i \in 1..Len(held) : held[i].key = key /\ held[i].expiry > clock
<1> DEFINE live == EvictExpired(held, clock)
           n == Stale(held, clock)
<1>1. n \in 0..Len(held) /\ Len(held) \in Nat
  BY StaleProperties
<1>2. /\ live \in Seq(Entries(K))
      /\ Len(live) = Len(held) - n
      /\ \A i \in 1..Len(live) : live[i] = held[i + n]
  BY EvictExpiredProperties
<1>3. n < Len(held) => held[n + 1].expiry > clock
  BY StaleProperties
<1>4. \A i \in 1..Len(held) : held[i] \in Entries(K)
  OBVIOUS
<1>5. \A i \in 1..Len(held) : held[i].expiry \in Nat
  BY <1>4 DEF Entries
<1>6. key \in Keys(live)
  BY DEF Seen
<1> HIDE DEF live, n
<1>7. PICK i \in 1..Len(live) : live[i].key = key
  BY <1>1, <1>2, <1>6 DEF Keys
<1>8. i + n \in 1..Len(held) /\ n + 1 \in 1..Len(held) /\ n < Len(held)
  BY <1>1, <1>2, <1>7
<1>9. held[i + n].key = key
  BY <1>1, <1>2, <1>7
<1>10. held[i + n].expiry > clock
  <2>1. held[n + 1].expiry <= held[i + n].expiry
    BY <1>1, <1>2, <1>5, <1>7, <1>8 DEF Ascending
  <2>2. QED
    BY <1>3, <1>5, <1>8, <2>1
<1>11. QED
  BY <1>8, <1>9, <1>10

(***************************************************************************)
(* Typing.  The counter join() waits on only stays a natural number because *)
(* it counts exactly the events not finished with, so TypeOK is proved      *)
(* together with AcceptedAccounted and facts about the tasks it rests on.   *)
(***************************************************************************)

TaskShape ==
  /\ run = "scheduled" => consumer = "none" /\ stopPc \in {"none", "done"}
  /\ \A c \in Source :
       /\ left[c] <= read[c]
       /\ col[c] = "put" => hand[c] \in Event

TypeInv == TypeOK /\ AcceptedAccounted /\ TaskShape

\* What every installation provides.
LEMMA SetupFacts ==
  ASSUME TypeInv
  PROVE  /\ QueueMaxsize \in Nat \ {0} /\ setup.reads \in Nat
         /\ setup.sources \subseteq Source /\ setup.keys \subseteq Key
<1>1. setup \in Setups
  BY DEF TypeInv, TypeOK, QueueTypes
<1>2. QED
  BY <1>1, PipelineAssumption DEF QueueMaxsize

\* The length of a queue and of a queue with one event added or taken.
LEMMA QueueLengths ==
  ASSUME NEW S, NEW q \in Seq(S)
  PROVE  /\ Len(q) \in Nat
         /\ \A e \in S : Append(q, e) \in Seq(S) /\ Len(Append(q, e)) = Len(q) + 1
         /\ q # <<>> => /\ Head(q) \in S /\ Tail(q) \in Seq(S)
                        /\ Len(Tail(q)) = Len(q) - 1 /\ Len(q) > 0
OBVIOUS

\* The initial state satisfies the typing invariant.
LEMMA TypeInvInit == Init => TypeInv
<1> SUFFICES ASSUME Init PROVE TypeInv
  OBVIOUS
<1> USE DEF Init
<1>1. StopTypes
  BY DEF StopTypes
<1>2. CollectorTypes
  BY DEF CollectorTypes, CollectorPc
<1>3. QueueTypes
  BY PipelineAssumption DEF QueueTypes, QueueMaxsize
<1>4. ConsumerTypes
  BY PipelineAssumption DEF ConsumerTypes
<1>5. AcceptedAccounted /\ TaskShape /\ now \in Nat
  BY DEF AcceptedAccounted, TaskShape, InFlight
<1>6. QED
  BY <1>1, <1>2, <1>3, <1>4, <1>5 DEF TypeInv, TypeOK

\* A step of run() preserves the typing invariant.
LEMMA TypeInvRun ==
  ASSUME TypeInv, Run \/ RunExit
  PROVE  TypeInv'
<1> USE DEF TypeInv, TypeOK
<1>1. StopTypes'
  BY DEF StopTypes, Run, RunExit
<1>2. CollectorTypes'
  BY DEF CollectorTypes, CollectorPc, Run, Spawn, RunExit, colVars
<1>3. QueueTypes'
  BY DEF QueueTypes, QueueMaxsize, Run, RunExit, queueVars
<1>4. ConsumerTypes'
  BY DEF ConsumerTypes, Run, Spawn, RunExit, consumerVars
<1>5. AcceptedAccounted'
  BY DEF AcceptedAccounted, TaskShape, InFlight, Run, Spawn, RunExit, queueVars, consumerVars
<1>6. TaskShape' /\ now' \in Nat
  BY DEF TaskShape, Run, Spawn, RunExit, colVars, consumerVars
<1>7. QED
  BY <1>1, <1>2, <1>3, <1>4, <1>5, <1>6

\* A step of stop() preserves the typing invariant.
LEMMA TypeInvStop ==
  ASSUME TypeInv, StopBeforeRun \/ StopSignal \/ Stop
  PROVE  TypeInv'
<1> USE DEF TypeInv, TypeOK, StopBeforeRun, StopSignal, Stop, StopGather, StopJoin
<1>1. StopTypes'
  BY DEF StopTypes
<1>2. CollectorTypes'
  BY DEF CollectorTypes, colVars
<1>3. QueueTypes'
  BY DEF QueueTypes, QueueMaxsize, queueVars
<1>4. ConsumerTypes'
  BY DEF ConsumerTypes, consumerVars
<1>5. AcceptedAccounted'
  <2>1. Len(queue) \in Nat
    BY DEF QueueTypes, QueueMaxsize
  <2>2. QED
    BY <2>1 DEF AcceptedAccounted, InFlight, queueVars, consumerVars
<1>6. TaskShape' /\ now' \in Nat
  BY DEF TaskShape, colVars, consumerVars
<1>7. QED
  BY <1>1, <1>2, <1>3, <1>4, <1>5, <1>6

\* A step of the consumer preserves the typing invariant.
LEMMA TypeInvConsumer ==
  ASSUME TypeInv, Consumer
  PROVE  TypeInv'
<1> USE DEF TypeInv, TypeOK
<1>1. StopTypes' /\ CollectorTypes' /\ now' \in Nat
  BY DEF StopTypes, CollectorTypes, Consumer, GetFresh, GetDuplicate, CallbackEnds,
     stopVars, colVars
<1>2. CASE GetFresh \/ GetDuplicate
  <2> DEFINE ev == Head(queue)
             w == AfterSeen(window, ev.key, now, Ttl, MaxEntries)
  <2>1. queue \in Seq(Event) /\ queue # <<>>
    BY <1>2 DEF QueueTypes, QueueMaxsize, GetFresh, GetDuplicate
  <2>2. /\ ev \in Event /\ Tail(queue) \in Seq(Event) /\ Len(queue) \in Nat
        /\ Len(Tail(queue)) = Len(queue) - 1 /\ Len(queue) > 0
    BY <2>1, QueueLengths
  <2>3. ev.key \in Key
    BY <2>2 DEF Event
  <2>4. w \in Seq(Entries(Key)) /\ Len(w) <= MaxEntries
    BY <2>3, AfterSeenShape, PipelineAssumption DEF ConsumerTypes
  <2>5. \A f \in BOOLEAN : [ev |-> ev, at |-> now, fresh |-> f] \in Taken
    BY <2>2 DEF Taken
  <2>6. \A t \in Taken : Append(taken, t) \in Seq(Taken)
    BY QueueLengths DEF ConsumerTypes
  <2>7. taken' \in Seq(Taken)
    BY <1>2, <2>5, <2>6 DEF GetFresh, GetDuplicate, Take
  <2>8. window' = w /\ queue' = Tail(queue) /\ inflight' \in {inflight, ev}
    BY <1>2 DEF GetFresh, GetDuplicate
  <2> HIDE DEF w, ev
  <2>9. CASE GetFresh
    <3>1. ConsumerTypes'
      BY <2>2, <2>4, <2>7, <2>8, <2>9 DEF ConsumerTypes, GetFresh
    <3>2. QueueTypes' /\ AcceptedAccounted'
      BY <2>2, <2>8, <2>9, PipelineAssumption
         DEF QueueTypes, QueueMaxsize, AcceptedAccounted, InFlight, GetFresh, ConsumerTypes
    <3>3. TaskShape'
      BY <2>9 DEF TaskShape, GetFresh, colVars, stopVars
    <3>4. QED
      BY <1>1, <3>1, <3>2, <3>3
  <2>10. CASE GetDuplicate
    <3>1. ConsumerTypes'
      BY <2>2, <2>4, <2>7, <2>8, <2>10 DEF ConsumerTypes, GetDuplicate
    <3>2. QueueTypes' /\ AcceptedAccounted'
      BY <2>2, <2>8, <2>10, PipelineAssumption
         DEF QueueTypes, QueueMaxsize, AcceptedAccounted, InFlight, GetDuplicate, ConsumerTypes
    <3>3. TaskShape'
      BY <2>10 DEF TaskShape, GetDuplicate, colVars, stopVars
    <3>4. QED
      BY <1>1, <3>1, <3>2, <3>3
  <2>11. QED
    BY <1>2, <2>9, <2>10
<1>3. CASE CallbackEnds
  <2>1. Len(queue) \in Nat
    BY DEF QueueTypes, QueueMaxsize
  <2>2. ConsumerTypes' /\ TaskShape'
    BY <1>3 DEF ConsumerTypes, TaskShape, CallbackEnds, colVars, stopVars
  <2>3. AcceptedAccounted' /\ unfinished' \in Nat
    <3>1. /\ unfinished = Len(queue) + 1
          /\ accepted = Len(queue) + 1 + processed + deduped + consumerErrors
          /\ unfinished \in Nat /\ accepted \in Nat /\ processed \in Nat
          /\ deduped \in Nat /\ consumerErrors \in Nat
      BY <1>3 DEF QueueTypes, QueueMaxsize, AcceptedAccounted, InFlight, CallbackEnds, ConsumerTypes
    <3>2. /\ queue' = queue /\ accepted' = accepted /\ deduped' = deduped
          /\ unfinished' = unfinished - 1 /\ InFlight' = 0
          /\ \/ processed' = processed + 1 /\ consumerErrors' = consumerErrors
             \/ processed' = processed /\ consumerErrors' = consumerErrors + 1
      BY <1>3 DEF CallbackEnds, InFlight
    <3>3. unfinished' = Len(queue') /\ unfinished' \in Nat
      BY <2>1, <3>1, <3>2
    <3>4. accepted' = Len(queue') + processed' + deduped' + consumerErrors'
      BY <2>1, <3>1, <3>2
    <3>5. Len(queue') \in Nat /\ processed' \in Nat
      BY <2>1, <3>1, <3>2
    <3>6. QED
      BY <3>2, <3>3, <3>4, <3>5 DEF AcceptedAccounted
  <2>4. QueueTypes'
    BY <1>3, <2>3 DEF QueueTypes, QueueMaxsize, CallbackEnds
  <2>5. QED
    BY <1>1, <2>2, <2>3, <2>4
<1>4. QED
  BY <1>2, <1>3 DEF Consumer

\* A put, counted or refused, keeps the queue within its size and in step with
\* its counters.
LEMMA PutTypes ==
  ASSUME TypeInv, NEW c \in Source, NEW ev \in Event, Put(c, ev), setup' = setup
  PROVE  /\ QueueTypes'
         /\ Len(queue) \in Nat /\ Len(queue') \in Nat
         /\ unfinished' = unfinished + Len(queue') - Len(queue)
         /\ accepted' = accepted + Len(queue') - Len(queue)
         /\ col' \in [Source -> CollectorPc]
         /\ hand' \in [Source -> Event \cup {NoEvent}]
         /\ \A d \in Source : col'[d] = "put" => hand'[d] \in Event
<1> USE DEF TypeInv, TypeOK
<1>1. /\ Len(queue) \in Nat /\ Append(queue, ev) \in Seq(Event)
      /\ Len(Append(queue, ev)) = Len(queue) + 1
  BY QueueLengths DEF QueueTypes, QueueMaxsize
<1>2. CASE Len(queue) < QueueMaxsize /\ Enqueue(ev) /\ UNCHANGED <<col, hand>>
  BY <1>1, <1>2, PipelineAssumption DEF Enqueue, QueueTypes, QueueMaxsize, CollectorTypes, TaskShape
<1>3. CASE Goto(c, "put") /\ hand' = [hand EXCEPT ![c] = ev] /\ UNCHANGED queueVars
  <2>1. col' \in [Source -> CollectorPc] /\ hand' \in [Source -> Event \cup {NoEvent}]
    BY <1>3 DEF Goto, CollectorTypes, CollectorPc
  <2>2. \A d \in Source : col'[d] = "put" => hand'[d] \in Event
    BY <1>3 DEF Goto, CollectorTypes, TaskShape
  <2>3. QED
    BY <1>1, <1>3, <2>1, <2>2 DEF queueVars, QueueTypes, QueueMaxsize
<1>4. CASE dropped' = dropped + 1 /\ UNCHANGED <<queue, unfinished, accepted, col, hand>>
  BY <1>1, <1>4 DEF QueueTypes, QueueMaxsize, CollectorTypes, TaskShape
<1>5. QED
  BY <1>2, <1>3, <1>4 DEF Put

\* Emitting one record preserves the typing invariant.
LEMMA TypeInvEmit ==
  ASSUME TypeInv, NEW c \in Source, Emit(c)
  PROVE  TypeInv'
<1> USE DEF TypeInv, TypeOK
<1>1. StopTypes' /\ ConsumerTypes' /\ now' \in Nat
  BY DEF Emit, StopTypes, ConsumerTypes, consumerVars, stopVars
<1>2. left' \in [Source -> Nat] /\ \A d \in Source : left'[d] <= read'[d]
  BY DEF Emit, CollectorTypes, TaskShape
<1>3. CASE \E key \in setup.keys : Put(c, NextEvent(c, key)) /\ UNCHANGED unmapped
  <2>1. PICK key \in setup.keys : Put(c, NextEvent(c, key)) /\ UNCHANGED unmapped
    BY <1>3
  <2>2. NextEvent(c, key) \in Event
    BY SetupFacts DEF NextEvent, Event, CollectorTypes, TaskShape
  <2>3. /\ QueueTypes'
        /\ Len(queue) \in Nat /\ Len(queue') \in Nat
        /\ unfinished' = unfinished + Len(queue') - Len(queue)
        /\ accepted' = accepted + Len(queue') - Len(queue)
        /\ col' \in [Source -> CollectorPc]
        /\ hand' \in [Source -> Event \cup {NoEvent}]
        /\ \A d \in Source : col'[d] = "put" => hand'[d] \in Event
    BY <2>1, <2>2, PutTypes DEF Emit
  <2>4. CollectorTypes' /\ TaskShape'
    BY <1>2, <2>1, <2>3 DEF Emit, CollectorTypes, TaskShape, consumerVars, stopVars
  <2>5. AcceptedAccounted'
    BY <2>3
       DEF Emit, AcceptedAccounted, InFlight, QueueTypes, QueueMaxsize, ConsumerTypes,
           consumerVars
  <2>6. QED
    BY <1>1, <2>3, <2>4, <2>5
<1>4. CASE unmapped' = unmapped + 1 /\ UNCHANGED <<queueVars, col, hand>>
  <2>1. CollectorTypes' /\ TaskShape'
    BY <1>2, <1>4 DEF Emit, CollectorTypes, TaskShape, consumerVars, stopVars
  <2>2. QueueTypes' /\ AcceptedAccounted'
    BY <1>4 DEF Emit, AcceptedAccounted, InFlight, QueueTypes, QueueMaxsize, queueVars, consumerVars
  <2>3. QED
    BY <1>1, <2>1, <2>2
<1>5. QED
  BY <1>3, <1>4 DEF Emit

\* Every step of a collector preserves the typing invariant.
LEMMA TypeInvCollector ==
  ASSUME TypeInv, NEW c \in Source, Collector(c) \/ Crash(c)
  PROVE  TypeInv'
<1>1. CASE Emit(c)
  BY <1>1, TypeInvEmit
<1>2. CASE PutResume(c)
  <2> USE <1>2 DEF PutResume, Enqueue, TypeInv, TypeOK
  <2>1. hand[c] \in Event
    BY DEF TaskShape
  <2>2. /\ Len(queue) \in Nat /\ queue' \in Seq(Event) /\ Len(queue') = Len(queue) + 1
    BY <2>1, QueueLengths DEF QueueTypes, QueueMaxsize
  <2>3. QueueTypes' /\ AcceptedAccounted'
    <3>1. QueueTypes'
      BY <2>2, PipelineAssumption DEF QueueTypes, QueueMaxsize
    <3>2. InFlight' = InFlight /\ InFlight \in {0, 1}
      BY DEF InFlight, consumerVars
    <3>3. AcceptedAccounted'
      BY <2>2, <3>2 DEF QueueTypes, QueueMaxsize, ConsumerTypes, AcceptedAccounted, consumerVars
    <3>4. QED
      BY <3>1, <3>3
  <2>4. StopTypes' /\ ConsumerTypes' /\ now' \in Nat
    BY DEF StopTypes, ConsumerTypes, consumerVars, stopVars
  <2>5. CollectorTypes' /\ TaskShape'
    BY DEF CollectorTypes, CollectorPc, TaskShape, Goto, consumerVars, stopVars
  <2>6. QED
    BY <2>3, <2>4, <2>5
<1>3. CASE ScanDone(c)
  <2> USE <1>3 DEF ScanDone, TypeInv, TypeOK
  <2>1. StopTypes' /\ ConsumerTypes' /\ QueueTypes' /\ AcceptedAccounted' /\ now' \in Nat
    BY DEF StopTypes, ConsumerTypes, QueueTypes, QueueMaxsize, AcceptedAccounted, InFlight,
       queueVars, consumerVars, stopVars
  <2>2. PICK k \in 0..(setup.reads - read[c]) : /\ left' = [left EXCEPT ![c] = k]
                                            /\ read' = [read EXCEPT ![c] = @ + k]
    OBVIOUS
  <2>3. k \in Nat
    BY PipelineAssumption DEF CollectorTypes
  <2>4. CollectorTypes' /\ TaskShape'
    BY <2>2, <2>3 DEF CollectorTypes, CollectorPc, TaskShape, Goto, consumerVars, stopVars
  <2>5. QED
    BY <2>1, <2>4
<1>4. CASE \/ LoopHead(c) \/ PassDone(c) \/ WaitTimeout(c) \/ WaitStopped(c)
           \/ BackoffExpires(c) \/ BackoffStopped(c) \/ Crash(c)
  <2> USE <1>4 DEF LoopHead, PassDone, WaitTimeout, WaitStopped, BackoffExpires,
                   BackoffStopped, Crash, TypeInv, TypeOK
  <2>1. StopTypes' /\ ConsumerTypes' /\ QueueTypes' /\ AcceptedAccounted' /\ now' \in Nat
    <3>1. StopTypes' /\ now' \in Nat
      BY DEF StopTypes, stopVars
    <3>2. ConsumerTypes'
      BY DEF ConsumerTypes, consumerVars
    <3>3. QueueTypes'
      BY DEF QueueTypes, QueueMaxsize, queueVars
    <3>4. AcceptedAccounted'
      BY DEF AcceptedAccounted, InFlight, queueVars, consumerVars
    <3>5. QED
      BY <3>1, <3>2, <3>3, <3>4
  <2>2. CollectorTypes'
    <3>1. col' \in [Source -> CollectorPc]
      BY DEF CollectorTypes, CollectorPc, Goto
    <3>2. final' \in [Source -> BOOLEAN]
      BY DEF CollectorTypes, StopTypes
    <3>3. /\ left' \in [Source -> Nat] /\ restarts' \in [Source -> Nat]
          /\ lost' \in Nat /\ unmapped' \in Nat
          /\ UNCHANGED <<hand, read>>
      BY DEF CollectorTypes
    <3>4. QED
      BY <3>1, <3>2, <3>3 DEF CollectorTypes
  <2>3. TaskShape'
    BY DEF CollectorTypes, TaskShape, Goto, consumerVars, stopVars
  <2>4. QED
    BY <2>1, <2>2, <2>3
<1>5. QED
  BY <1>1, <1>2, <1>3, <1>4 DEF Collector

\* The typing invariant is inductive.
LEMMA TypeInvNext == TypeInv /\ [Next]_vars => TypeInv'
<1> SUFFICES ASSUME TypeInv, [Next]_vars PROVE TypeInv'
  OBVIOUS
<1>1. CASE Tick \/ UNCHANGED vars
  <2> USE <1>1 DEF Tick, TypeInv, TypeOK, vars, colVars, queueVars, consumerVars, stopVars
  <2>1. StopTypes' /\ ConsumerTypes'
    BY DEF StopTypes, ConsumerTypes
  <2>2. QueueTypes' /\ CollectorTypes' /\ now' \in Nat
    BY DEF QueueTypes, QueueMaxsize, CollectorTypes
  <2>3. AcceptedAccounted' /\ TaskShape'
    BY DEF AcceptedAccounted, TaskShape, InFlight
  <2>4. QED
    BY <2>1, <2>2, <2>3
<1>2. QED
  BY <1>1, TypeInvRun, TypeInvStop, TypeInvConsumer, TypeInvCollector DEF Next, Finished

\* The typing invariant holds in every reachable state.
THEOREM TypeInvariance == Spec => []TypeInv
<1>1. QED
  BY TypeInvInit, TypeInvNext, PTL DEF Spec

\* Every reachable state of the pipeline is type correct; in particular the
\* queue and the dedup window never exceed their configured sizes.
THEOREM TypeCorrect == Spec => []TypeOK
<1>1. TypeInv => TypeOK
  BY DEF TypeInv
<1>2. QED
  BY <1>1, TypeInvariance, PTL

\* The unfinished count join() waits on is exactly the events not finished with,
\* and no accepted event goes uncounted.
THEOREM AcceptedEventsAccounted == Spec => []AcceptedAccounted
<1>1. TypeInv => AcceptedAccounted
  BY DEF TypeInv
<1>2. QED
  BY <1>1, TypeInvariance, PTL

(***************************************************************************)
(* The graceful stop.  DrainedAtStop says nothing about the states before   *)
(* stop() returns; StopInv adds what the phases of stop() have established  *)
(* so far, and that nothing runs before run()'s first step.                 *)
(***************************************************************************)

Phases ==
  /\ run = "scheduled" => queue = <<>> /\ \A c \in Source : col[c] = "none"
  /\ stopPc = "join" => \A c \in Source : col[c] = "done"
  /\ stopPc # "none" => stopRequested

\* Work in hand belongs to a task that will finish it.
WorkOwned ==
  /\ \A c \in Source : left[c] # 0 => col[c] \in {"emit", "put"}
  /\ consumer # "call" => inflight = NoEvent

StopInv == Phases /\ WorkOwned /\ DrainedAtStop

\* The stop invariant holds initially.
LEMMA StopInvInit == Init => StopInv
BY DEF Init, StopInv, Phases, WorkOwned, DrainedAtStop

\* No collector steps before run() has begun, or once stop() has gathered them.
LEMMA CollectorNeedsTask ==
  ASSUME TypeInv, StopInv, NEW c \in Source, Collector(c) \/ Crash(c)
  PROVE  /\ col[c] \notin {"none", "done"}
         /\ run # "scheduled" /\ stopPc \notin {"join", "done"}
         /\ UNCHANGED <<run, stopRequested, stopPc, consumer, inflight>>
         /\ \A d \in Source \ {c} : left'[d] = left[d] /\ col'[d] = col[d]
<1>1. col[c] \notin {"none", "done"} /\ UNCHANGED <<stopVars, consumerVars>>
  BY DEF Collector, Crash, LoopHead, ScanDone, Emit, PutResume, PassDone, WaitTimeout,
     WaitStopped, BackoffExpires, BackoffStopped
<1>2. run # "scheduled" /\ stopPc \notin {"join", "done"}
  BY <1>1 DEF StopInv, Phases, DrainedAtStop
<1>3. \A d \in Source \ {c} : left'[d] = left[d] /\ col'[d] = col[d]
  BY DEF TypeInv, TypeOK, CollectorTypes, Collector, Crash, LoopHead, ScanDone, Emit, Put,
     Enqueue, PutResume, PassDone, WaitTimeout, WaitStopped, BackoffExpires, BackoffStopped,
     Goto
<1>4. QED
  BY <1>1, <1>2, <1>3 DEF stopVars, consumerVars

\* A collector keeps the rest of its pass in hand only while it is emitting.
LEMMA CollectorOwnsWork ==
  ASSUME TypeInv, StopInv, NEW c \in Source, Collector(c) \/ Crash(c)
  PROVE  left'[c] # 0 => col'[c] \in {"emit", "put"}
<1> USE DEF TypeInv, TypeOK, CollectorTypes, StopInv, WorkOwned, Goto
<1>1. CASE Emit(c)
  BY <1>1 DEF Emit, Put, Enqueue
<1>2. CASE ScanDone(c) \/ PutResume(c) \/ PassDone(c) \/ Crash(c)
  BY <1>2 DEF ScanDone, PutResume, PassDone, Crash
<1>3. CASE \/ LoopHead(c) \/ WaitTimeout(c) \/ WaitStopped(c)
           \/ BackoffExpires(c) \/ BackoffStopped(c)
  BY <1>3 DEF LoopHead, WaitTimeout, WaitStopped, BackoffExpires, BackoffStopped
<1>4. QED
  BY <1>1, <1>2, <1>3 DEF Collector

\* The stop invariant is inductive.
LEMMA StopInvNext == TypeInv /\ StopInv /\ [Next]_vars => StopInv'
<1> SUFFICES ASSUME TypeInv, StopInv, [Next]_vars PROVE StopInv'
  OBVIOUS
<1>1. ASSUME NEW c \in Source, Collector(c) \/ Crash(c) PROVE StopInv'
  <2>1. WorkOwned'
    BY <1>1, CollectorNeedsTask, CollectorOwnsWork DEF StopInv, WorkOwned
  <2>2. Phases' /\ DrainedAtStop'
    BY <1>1, CollectorNeedsTask DEF StopInv, Phases, DrainedAtStop
  <2>3. QED
    BY <2>1, <2>2 DEF StopInv
<1>2. CASE Run
  BY <1>2 DEF Run, StopInv, Phases, WorkOwned, DrainedAtStop, TypeInv, TaskShape, queueVars
<1>3. CASE RunExit
  BY <1>3 DEF RunExit, StopInv, Phases, WorkOwned, DrainedAtStop, colVars, queueVars,
     consumerVars
<1>4. CASE Consumer
  <2>1. consumer \notin {"none", "cancelled"}
    BY <1>4 DEF Consumer, GetFresh, GetDuplicate, CallbackEnds
  <2>2. run # "scheduled" /\ stopPc # "done"
    BY <2>1 DEF StopInv, DrainedAtStop, TypeInv, TaskShape
  <2>3. UNCHANGED <<colVars, stopVars>>
    BY <1>4 DEF Consumer, GetFresh, GetDuplicate, CallbackEnds
  <2>4. WorkOwned'
    BY <1>4, <2>3 DEF Consumer, GetFresh, GetDuplicate, CallbackEnds, StopInv, WorkOwned,
       colVars
  <2>5. QED
    BY <2>2, <2>3, <2>4 DEF StopInv, Phases, DrainedAtStop, colVars, stopVars
<1>5. CASE StopBeforeRun
  <2>1. /\ queue = <<>> /\ \A c \in Source : col[c] = "none" /\ left[c] = 0
        /\ consumer = "none" /\ inflight = NoEvent
    BY <1>5 DEF StopBeforeRun, StopInv, Phases, WorkOwned, TypeInv, TaskShape
  <2>2. unfinished = 0 /\ accepted = processed + deduped + consumerErrors
    BY <2>1 DEF TypeInv, TypeOK, ConsumerTypes, AcceptedAccounted, InFlight
  <2>3. QED
    BY <1>5, <2>1, <2>2 DEF StopBeforeRun, StopInv, Phases, WorkOwned, DrainedAtStop,
       colVars, queueVars, consumerVars
<1>6. CASE StopSignal \/ StopGather
  BY <1>6 DEF StopSignal, StopGather, StopInv, Phases, WorkOwned, DrainedAtStop,
     colVars, queueVars, consumerVars
<1>7. CASE StopJoin
  <2>1. \A c \in Source : col[c] = "done" /\ left[c] = 0
    BY <1>7 DEF StopJoin, StopInv, Phases, WorkOwned
  <2>2. queue \in Seq(Event) /\ Len(queue) \in Nat /\ Len(queue) + InFlight = 0
    BY <1>7 DEF StopJoin, TypeInv, TypeOK, QueueTypes, QueueMaxsize, AcceptedAccounted
  <2>3. queue = <<>> /\ consumer # "call"
    BY <2>2 DEF InFlight
  <2>4. inflight = NoEvent /\ run # "scheduled" /\ stopRequested
    BY <1>7, <2>3 DEF StopJoin, StopInv, Phases, WorkOwned, TypeInv, TaskShape
  <2>5. accepted = processed + deduped + consumerErrors
    BY <2>3 DEF TypeInv, TypeOK, ConsumerTypes, AcceptedAccounted, InFlight
  <2>6. QED
    BY <1>7, <2>1, <2>3, <2>4, <2>5 DEF StopJoin, StopInv, Phases, WorkOwned, DrainedAtStop,
       colVars, queueVars
<1>8. CASE Tick \/ UNCHANGED vars
  BY <1>8 DEF Tick, StopInv, Phases, WorkOwned, DrainedAtStop, vars, colVars, queueVars,
     consumerVars, stopVars
<1>9. QED
  BY <1>1, <1>2, <1>3, <1>4, <1>5, <1>6, <1>7, <1>8 DEF Next, Stop, Finished

\* When stop() has returned, every task is over, the queue is drained, no callback
\* was cut short and every accepted event is counted.
THEOREM StopDrains == Spec => []DrainedAtStop
<1>1. StopInv => DrainedAtStop
  BY DEF StopInv
<1>2. QED
  BY <1>1, StopInvInit, StopInvNext, TypeInvariance, PTL DEF Spec

(***************************************************************************)
(* Deduplication.  An entry of the window stands for a dispatch the         *)
(* consumer made a TTL before the entry expires, and entries expire in the  *)
(* order they were inserted, so the walk that stops at the first live entry *)
(* leaves no stale one behind to suppress a real event.                     *)
(***************************************************************************)

\* The dispatch number j of the consumer put this entry in the window.
Explains(j, entry) ==
  /\ taken[j].fresh
  /\ taken[j].ev.key = entry.key
  /\ taken[j].at + Ttl = entry.expiry

WindowExplained ==
  \A i \in 1..Len(window) :
    /\ window[i].expiry <= now + Ttl
    /\ \E j \in 1..Len(taken) : Explains(j, window[i])

DedupInv == Ascending(window) /\ WindowExplained /\ OnlyDuplicatesSuppressed

\* The dedup invariant holds initially.
LEMMA DedupInvInit == Init => DedupInv
BY DEF Init, DedupInv, Ascending, WindowExplained, OnlyDuplicatesSuppressed

\* Taking an event, fresh or not, preserves the dedup invariant.
LEMMA DedupInvTake ==
  ASSUME TypeInv, DedupInv, GetFresh \/ GetDuplicate
  PROVE  DedupInv'
<1> DEFINE ev == Head(queue)
           t == [ev |-> ev, at |-> now, fresh |-> ~Seen(window, ev.key, now)]
           L == Len(window)
           N == Len(taken)
<1>1. queue \in Seq(Event) /\ queue # <<>>
  BY DEF TypeInv, TypeOK, QueueTypes, QueueMaxsize, GetFresh, GetDuplicate
<1>2. ev \in Event
  BY <1>1, QueueLengths
<1>3. ev.key \in Key
  BY <1>2 DEF Event
<1>4. /\ window \in Seq(Entries(Key)) /\ L \in Nat /\ L <= MaxEntries
      /\ now \in Nat /\ Ttl \in Nat /\ MaxEntries \in Nat \ {0}
  BY PipelineAssumption DEF TypeInv, TypeOK, ConsumerTypes
<1>5. \A i \in 1..L : window[i].expiry \in Nat
  <2>1. \A i \in 1..L : window[i] \in Entries(Key)
    BY <1>4
  <2>2. QED
    BY <2>1 DEF Entries
<1>6. PICK d \in 0..L :
        /\ window' \in Seq(Entries(Key))
        /\ \A i \in 1..(L - d) : window'[i] = window[i + d]
        /\ \/ Seen(window, ev.key, now) /\ Len(window') = L - d
           \/ /\ ~Seen(window, ev.key, now)
              /\ Len(window') = L - d + 1
              /\ window'[L - d + 1] = Entry(ev.key, now + Ttl)
  <2> DEFINE w == AfterSeen(window, ev.key, now, Ttl, MaxEntries)
  <2>1. window' = w
    BY DEF GetFresh, GetDuplicate
  <2> HIDE DEF ev
  <2>2. /\ w \in Seq(Entries(Key))
        /\ \E d \in 0..Len(window) :
             /\ \A i \in 1..(Len(window) - d) : w[i] = window[i + d]
             /\ \/ Seen(window, ev.key, now) /\ Len(w) = Len(window) - d
                \/ /\ ~Seen(window, ev.key, now)
                   /\ Len(w) = Len(window) - d + 1
                   /\ w[Len(window) - d + 1] = Entry(ev.key, now + Ttl)
    BY <1>3, <1>4, AfterSeenShape
  <2> HIDE DEF w
  <2>3. QED
    BY <2>1, <2>2
<1>7. now' = now /\ taken' = Append(taken, t)
  BY DEF GetFresh, GetDuplicate, Take
<1>8. /\ N \in Nat /\ taken \in Seq(Taken)
      /\ \A j \in 1..N : taken[j] \in Taken
  BY DEF TypeInv, TypeOK, ConsumerTypes
<1>9. t \in Taken
  BY <1>2, <1>4 DEF Taken
<1> HIDE DEF t
<1>10. /\ taken' \in Seq(Taken) /\ Len(taken') = N + 1 /\ taken'[N + 1] = t
       /\ \A j \in 1..N : taken'[j] = taken[j]
  BY <1>7, <1>8, <1>9
<1>11. \A i \in 1..Len(window') :
         \/ i \in 1..(L - d) /\ i + d \in 1..L /\ window'[i] = window[i + d]
         \/ /\ ~Seen(window, ev.key, now) /\ i = L - d + 1
            /\ window'[i] = Entry(ev.key, now + Ttl)
  <2> HIDE DEF ev
  <2> TAKE i \in 1..Len(window')
  <2>1. CASE i \in 1..(L - d)
    BY <1>4, <1>6, <2>1
  <2>2. CASE i \notin 1..(L - d)
    <3>1. ~Seen(window, ev.key, now) /\ Len(window') = L - d + 1
      BY <1>4, <1>6, <2>2
    <3>2. i = L - d + 1
      <4>1. i \in 1..(L - d + 1) /\ L \in Nat
        BY <1>4, <3>1
      <4> HIDE DEF L
      <4>2. QED
        BY <2>2, <4>1
    <3>3. QED
      BY <1>6, <3>1, <3>2
  <2>3. QED
    BY <2>1, <2>2
<1>12. Entry(ev.key, now + Ttl).expiry = now + Ttl /\ Entry(ev.key, now + Ttl).key = ev.key
  BY DEF Entry
<1>13. \A i \in 1..L : window[i].expiry <= now + Ttl
  BY DEF DedupInv, WindowExplained
<1>14. Ascending(window)'
  <2> SUFFICES ASSUME NEW i \in 1..Len(window'), NEW j \in 1..Len(window'), i < j
               PROVE  window'[i].expiry <= window'[j].expiry
    BY DEF Ascending
  <2>1. i \in 1..(L - d) /\ i + d \in 1..L /\ window'[i] = window[i + d]
    BY <1>4, <1>6, <1>11
  <2>2. CASE j \in 1..(L - d) /\ j + d \in 1..L /\ window'[j] = window[j + d]
    BY <2>1, <2>2 DEF DedupInv, Ascending
  <2>3. CASE window'[j] = Entry(ev.key, now + Ttl)
    BY <1>12, <1>13, <2>1, <2>3
  <2>4. QED
    BY <1>11, <2>2, <2>3
<1>15. WindowExplained'
  <2> SUFFICES ASSUME NEW i \in 1..Len(window')
               PROVE  /\ window'[i].expiry <= now + Ttl
                      /\ \E j \in 1..(N + 1) :
                           /\ taken'[j].fresh
                           /\ taken'[j].ev.key = window'[i].key
                           /\ taken'[j].at + Ttl = window'[i].expiry
    BY <1>7, <1>10 DEF WindowExplained, Explains
  <2>1. CASE i \in 1..(L - d) /\ i + d \in 1..L /\ window'[i] = window[i + d]
    <3>1. PICK j \in 1..N : Explains(j, window[i + d])
      BY <2>1 DEF DedupInv, WindowExplained
    <3>2. j \in 1..(N + 1) /\ taken'[j] = taken[j]
      BY <1>8, <1>10
    <3>3. QED
      BY <1>13, <2>1, <3>1, <3>2 DEF Explains
  <2>2. CASE ~Seen(window, ev.key, now) /\ window'[i] = Entry(ev.key, now + Ttl)
    <3>1. t.fresh /\ t.ev.key = ev.key /\ t.at = now
      BY <2>2 DEF t
    <3>2. N + 1 \in 1..(N + 1)
      BY <1>8
    <3>3. now + Ttl <= now + Ttl
      BY <1>4
    <3>4. QED
      BY <1>10, <1>12, <2>2, <3>1, <3>2, <3>3
  <2>3. QED
    BY <1>11, <2>1, <2>2
<1>16. OnlyDuplicatesSuppressed'
  <2> SUFFICES ASSUME NEW j \in 1..(N + 1), ~taken'[j].fresh
               PROVE  \E i \in 1..(j - 1) :
                        /\ taken'[i].fresh
                        /\ taken'[i].ev.key = taken'[j].ev.key
                        /\ taken'[j].at < taken'[i].at + Ttl
    BY <1>8, <1>10 DEF OnlyDuplicatesSuppressed
  <2>1. CASE j \in 1..N
    <3>1. PICK i \in 1..(j - 1) : /\ taken[i].fresh
                                  /\ taken[i].ev.key = taken[j].ev.key
                                  /\ taken[j].at < taken[i].at + Ttl
      BY <1>8, <1>10, <2>1 DEF DedupInv, OnlyDuplicatesSuppressed
    <3>2. taken'[i] = taken[i] /\ taken'[j] = taken[j]
      BY <1>8, <1>10, <2>1
    <3>3. QED
      BY <3>1, <3>2
  <2>2. CASE j = N + 1
    <3>1. taken'[j] = t /\ Seen(window, ev.key, now) /\ t.ev.key = ev.key /\ t.at = now
      <4>1. taken'[j] = t /\ ~t.fresh
        BY <1>10, <2>2
      <4>2. t.ev.key = ev.key /\ t.at = now /\ (t.fresh <=> ~Seen(window, ev.key, now))
        BY DEF t
      <4>3. QED
        BY <4>1, <4>2
    <3>2. PICK m \in 1..L : window[m].key = ev.key /\ window[m].expiry > now
      BY <1>3, <1>4, <3>1, SeenMeansLive DEF DedupInv
    <3>3. PICK i \in 1..N : Explains(i, window[m])
      BY <3>2 DEF DedupInv, WindowExplained
    <3>4. i \in 1..(j - 1) /\ taken'[i] = taken[i]
      BY <1>8, <1>10, <2>2
    <3>5. QED
      BY <1>4, <1>5, <3>1, <3>2, <3>3, <3>4 DEF Explains
  <2>3. QED
    BY <1>8, <2>1, <2>2
<1>17. QED
  BY <1>14, <1>15, <1>16 DEF DedupInv

\* The dedup invariant is inductive.
LEMMA DedupInvNext == TypeInv /\ DedupInv /\ [Next]_vars => DedupInv'
<1> SUFFICES ASSUME TypeInv, DedupInv, [Next]_vars PROVE DedupInv'
  OBVIOUS
<1>1. CASE GetFresh \/ GetDuplicate
  BY <1>1, DedupInvTake
<1>2. CASE ~(GetFresh \/ GetDuplicate)
  <2>1. window' = window /\ taken' = taken /\ (now' = now \/ now' = now + 1)
    BY <1>2 DEF Next, Collector, Consumer, Stop, Finished, vars, consumerVars, Run, RunExit,
       LoopHead, ScanDone, Emit, PutResume, PassDone, WaitTimeout, WaitStopped,
       BackoffExpires, BackoffStopped, Crash, CallbackEnds, StopBeforeRun, StopSignal,
       StopGather, StopJoin, Tick
  <2>2. /\ window \in Seq(Entries(Key)) /\ now \in Nat /\ Ttl \in Nat
        /\ \A i \in 1..Len(window) : window[i] \in Entries(Key)
    BY PipelineAssumption DEF TypeInv, TypeOK, ConsumerTypes
  <2>3. \A i \in 1..Len(window) : window[i].expiry \in Nat
    BY <2>2 DEF Entries
  <2>4. WindowExplained'
    <3> SUFFICES ASSUME NEW i \in 1..Len(window)
                 PROVE  /\ window[i].expiry <= now' + Ttl
                        /\ \E j \in 1..Len(taken) : Explains(j, window[i])
      BY <2>1 DEF WindowExplained, Explains
    <3>1. /\ window[i].expiry <= now + Ttl
          /\ \E j \in 1..Len(taken) : Explains(j, window[i])
      BY DEF DedupInv, WindowExplained
    <3>2. QED
      BY <2>1, <2>2, <2>3, <3>1
  <2>5. QED
    BY <2>1, <2>4 DEF DedupInv, Ascending, OnlyDuplicatesSuppressed
<1>3. QED
  BY <1>1, <1>2

\* The consumer suppresses an event only if it dispatched the same key less than
\* a TTL before, whatever the sizes, the keys and the timing.
THEOREM NoFalseDuplicates == Spec => []OnlyDuplicatesSuppressed
<1>1. DedupInv => OnlyDuplicatesSuppressed
  BY DEF DedupInv
<1>2. QED
  BY <1>1, DedupInvInit, DedupInvNext, TypeInvariance, PTL DEF Spec

(***************************************************************************)
(* Exactly once.  The window may forget a dispatch only because it expired  *)
(* or because MaxEntries later dispatches pushed it out: a dispatch that is *)
(* neither still has its entry, and the entries behind that one count the   *)
(* dispatches made since.                                                   *)
(***************************************************************************)

FreshAfter(ts, j) == {k \in (j + 1)..Len(ts) : ts[k].fresh}

\* How the window w accounts for the dispatches among what was taken, at time t.
Remembered(ts, w, t) ==
  \A j \in 1..Len(ts) : ts[j].fresh =>
    \/ ts[j].at + Ttl <= t
    \/ Cardinality(FreshAfter(ts, j)) >= MaxEntries
    \/ \E m \in 1..Len(w) :
         /\ w[m].key = ts[j].ev.key /\ w[m].expiry = ts[j].at + Ttl
         /\ Cardinality(FreshAfter(ts, j)) >= Len(w) - m

OnceInv == Remembered(taken, window, now) /\ ExactlyOncePerWindow

\* Taking one more event adds one to the dispatches after j if it is dispatched.
LEMMA FreshGrows ==
  ASSUME NEW ts \in Seq(Taken), NEW t \in Taken, NEW j \in 1..Len(ts)
  PROVE  /\ Cardinality(FreshAfter(ts, j)) \in Nat
         /\ t.fresh => Cardinality(FreshAfter(Append(ts, t), j))
                         = Cardinality(FreshAfter(ts, j)) + 1
         /\ ~t.fresh => FreshAfter(Append(ts, t), j) = FreshAfter(ts, j)
<1> DEFINE F == FreshAfter(ts, j)
           N == Len(ts)
<1>1. N \in Nat /\ j \in Nat /\ j <= N
  OBVIOUS
<1>2. /\ Len(Append(ts, t)) = N + 1 /\ Append(ts, t)[N + 1] = t
      /\ \A k \in 1..N : Append(ts, t)[k] = ts[k]
  OBVIOUS
<1>3. IsFiniteSet(F)
  <2>1. F \subseteq Nat /\ \A k \in F : k <= N
    BY <1>1 DEF FreshAfter
  <2> HIDE DEF F, N
  <2>2. QED
    BY <1>1, <2>1, FS_BoundedSetOfNaturals
<1>4. N + 1 \notin F
  BY <1>1 DEF FreshAfter
<1>5. FreshAfter(Append(ts, t), j) = IF t.fresh THEN F \cup {N + 1} ELSE F
  <2>1. ASSUME NEW k \in (j + 1)..(N + 1)
        PROVE  Append(ts, t)[k].fresh <=> (k \in F \/ (k = N + 1 /\ t.fresh))
    <3>1. CASE k = N + 1
      BY <1>2, <1>4, <3>1
    <3>2. CASE k # N + 1
      <4>1. k \in 1..N /\ k \in (j + 1)..N /\ Append(ts, t)[k] = ts[k]
        BY <1>1, <1>2, <3>2
      <4>2. QED
        BY <3>2, <4>1 DEF FreshAfter
    <3>3. QED
      BY <3>1, <3>2
  <2>2. F \subseteq (j + 1)..(N + 1) /\ N + 1 \in (j + 1)..(N + 1)
    BY <1>1 DEF FreshAfter
  <2>3. FreshAfter(Append(ts, t), j) = {k \in (j + 1)..(N + 1) : Append(ts, t)[k].fresh}
    BY <1>2 DEF FreshAfter
  <2> HIDE DEF F, N
  <2>4. QED
    BY <2>1, <2>2, <2>3
<1> HIDE DEF F, N
<1>6. Cardinality(F) \in Nat /\ Cardinality(F \cup {N + 1}) = Cardinality(F) + 1
  BY <1>3, <1>4, FS_CardinalityType, FS_AddElement
<1>7. QED
  BY <1>5, <1>6 DEF F

\* The invariant holds initially.
LEMMA OnceInvInit == Init => OnceInv
BY DEF Init, OnceInv, Remembered, ExactlyOncePerWindow

\* Taking an event keeps every dispatch accounted for, and dispatches a key again only
\* when the window had forgotten it.
LEMMA OnceInvTake ==
  ASSUME TypeInv, OnceInv, GetFresh \/ GetDuplicate
  PROVE  OnceInv'
<1> DEFINE ev == Head(queue)
           t == [ev |-> ev, at |-> now, fresh |-> ~Seen(window, ev.key, now)]
           L == Len(window)
           N == Len(taken)
<1>1. queue \in Seq(Event) /\ queue # <<>>
  BY DEF TypeInv, TypeOK, QueueTypes, QueueMaxsize, GetFresh, GetDuplicate
<1>2. ev \in Event
  BY <1>1, QueueLengths
<1>3. ev.key \in Key
  BY <1>2 DEF Event
<1>4. /\ window \in Seq(Entries(Key)) /\ L \in Nat /\ L <= MaxEntries
      /\ now \in Nat /\ Ttl \in Nat /\ MaxEntries \in Nat \ {0}
  BY PipelineAssumption DEF TypeInv, TypeOK, ConsumerTypes
<1>5. \A i \in 1..L : window[i].expiry \in Nat
  <2>1. \A i \in 1..L : window[i] \in Entries(Key)
    BY <1>4
  <2>2. QED
    BY <2>1 DEF Entries
<1>6. now' = now /\ taken' = Append(taken, t)
  BY DEF GetFresh, GetDuplicate, Take
<1>7. /\ N \in Nat /\ taken \in Seq(Taken)
      /\ \A j \in 1..N : taken[j] \in Taken
  BY DEF TypeInv, TypeOK, ConsumerTypes
<1>8. /\ t \in Taken /\ t.at = now /\ t.ev = ev
      /\ t.fresh <=> ~Seen(window, ev.key, now)
  BY <1>2, <1>4 DEF Taken
<1>9. \A j \in 1..N : taken[j].at \in Nat
  BY <1>7 DEF Taken
<1> HIDE DEF t
<1>10. /\ taken' \in Seq(Taken) /\ Len(taken') = N + 1 /\ taken'[N + 1] = t
       /\ \A j \in 1..N : taken'[j] = taken[j]
  BY <1>6, <1>7, <1>8
<1>11. PICK d \in 0..L :
         /\ \A i \in 1..(L - d) : window'[i] = window[i + d]
         /\ \A i \in 1..d : window[i].expiry <= now \/ (i = d /\ Len(window') >= MaxEntries)
         /\ \/ ~t.fresh /\ Len(window') = L - d
            \/ /\ t.fresh /\ Len(window') = L - d + 1
               /\ window'[L - d + 1] = Entry(ev.key, now + Ttl)
  <2> DEFINE w == AfterSeen(window, ev.key, now, Ttl, MaxEntries)
  <2>1. window' = w
    BY DEF GetFresh, GetDuplicate
  <2> HIDE DEF ev
  <2>2. /\ w \in Seq(Entries(Key)) /\ Len(w) <= MaxEntries
        /\ \E d \in 0..Len(window) :
             /\ \A i \in 1..(Len(window) - d) : w[i] = window[i + d]
             /\ \A i \in 1..d : window[i].expiry <= now \/ (i = d /\ Len(w) >= MaxEntries)
             /\ \/ Seen(window, ev.key, now) /\ Len(w) = Len(window) - d
                \/ /\ ~Seen(window, ev.key, now)
                   /\ Len(w) = Len(window) - d + 1
                   /\ w[Len(window) - d + 1] = Entry(ev.key, now + Ttl)
    <3>1. Len(window) <= MaxEntries
      BY <1>4
    <3>2. PICK k \in Key : k = ev.key
      BY <1>3
    <3> DEFINE a == AfterSeen(window, k, now, Ttl, MaxEntries)
    <3>3. /\ a \in Seq(Entries(Key)) /\ Len(a) <= MaxEntries
          /\ \E d \in 0..Len(window) :
             /\ \A i \in 1..(Len(window) - d) : a[i] = window[i + d]
             /\ \A i \in 1..d : window[i].expiry <= now \/ (i = d /\ Len(a) >= MaxEntries)
             /\ \/ Seen(window, k, now) /\ Len(a) = Len(window) - d
                \/ /\ ~Seen(window, k, now)
                   /\ Len(a) = Len(window) - d + 1
                   /\ a[Len(window) - d + 1] = Entry(k, now + Ttl)
      BY <1>4, <3>1, AfterSeenShape, SMTT(60)
    <3>4. QED
      BY <3>2, <3>3
  <2> HIDE DEF w
  <2>3. QED
    BY <1>8, <2>1, <2>2
<1> HIDE DEF ev
<1>12. Entry(ev.key, now + Ttl).expiry = now + Ttl /\ Entry(ev.key, now + Ttl).key = ev.key
  BY DEF Entry
<1>13. ASSUME NEW j \in 1..N
       PROVE  /\ Cardinality(FreshAfter(taken, j)) \in Nat
              /\ t.fresh => Cardinality(FreshAfter(taken', j))
                              = Cardinality(FreshAfter(taken, j)) + 1
              /\ ~t.fresh => FreshAfter(taken', j) = FreshAfter(taken, j)
  BY <1>6, <1>7, <1>8, FreshGrows
<1>14. Remembered(taken, window, now)'
  <2> SUFFICES ASSUME NEW j \in 1..(N + 1), taken'[j].fresh
               PROVE  \/ taken'[j].at + Ttl <= now
                      \/ Cardinality(FreshAfter(taken', j)) >= MaxEntries
                      \/ \E m \in 1..Len(window') :
                           /\ window'[m].key = taken'[j].ev.key
                           /\ window'[m].expiry = taken'[j].at + Ttl
                           /\ Cardinality(FreshAfter(taken', j)) >= Len(window') - m
    BY <1>6, <1>10 DEF Remembered
  <2>1. CASE j = N + 1
    <3>1. /\ t.fresh /\ taken'[j] = t /\ Len(window') = L - d + 1
          /\ window'[Len(window')] = Entry(ev.key, now + Ttl)
      BY <1>10, <1>11, <2>1
    <3>2. Len(window') \in 1..Len(window') /\ Len(window') - Len(window') = 0
      BY <1>4, <3>1
    <3>3. FreshAfter(taken', j) = {}
      <4>1. (j + 1)..Len(taken') = {}
        BY <1>7, <1>10, <2>1
      <4>2. QED
        BY <4>1 DEF FreshAfter
    <3>4. Cardinality(FreshAfter(taken', j)) >= Len(window') - Len(window')
      BY <3>2, <3>3, FS_EmptySet
    <3>5. QED
      BY <1>8, <1>12, <3>1, <3>2, <3>4
  <2>2. CASE j \in 1..N
    <3> DEFINE c == Cardinality(FreshAfter(taken, j))
               cc == Cardinality(FreshAfter(taken', j))
    <3>1. /\ c \in Nat /\ cc \in Nat /\ cc >= c /\ (t.fresh => cc = c + 1)
      BY <1>13, <2>2
    <3>2. taken'[j] = taken[j] /\ taken[j].fresh /\ taken[j].at \in Nat
      BY <1>9, <1>10, <2>2
    <3>3. \/ taken[j].at + Ttl <= now
          \/ c >= MaxEntries
          \/ \E m \in 1..L :
               /\ window[m].key = taken[j].ev.key
               /\ window[m].expiry = taken[j].at + Ttl
               /\ c >= L - m
      BY <2>2, <3>2 DEF OnceInv, Remembered
    <3> HIDE DEF c, cc
    <3>4. CASE taken[j].at + Ttl <= now
      BY <3>2, <3>4
    <3>5. CASE c >= MaxEntries
      <4>1. cc >= MaxEntries
        BY <1>4, <3>1, <3>5
      <4>2. QED
        BY <4>1 DEF cc
    <3>6. ASSUME NEW m \in 1..L, window[m].key = taken[j].ev.key,
                 window[m].expiry = taken[j].at + Ttl, c >= L - m
          PROVE  \/ taken'[j].at + Ttl <= now
                 \/ cc >= MaxEntries
                 \/ \E k \in 1..Len(window') :
                      /\ window'[k].key = taken'[j].ev.key
                      /\ window'[k].expiry = taken'[j].at + Ttl
                      /\ cc >= Len(window') - k
      <4> HIDE DEF L
      <4>1. CASE m <= d
        <5>1. m \in 1..d
          BY <1>4, <4>1
        <5>2. CASE window[m].expiry <= now
          BY <3>2, <3>6, <5>2
        <5>3. CASE m = d /\ Len(window') >= MaxEntries
          <6>1. t.fresh
            BY <1>4, <1>11, <3>6, <5>1, <5>3
          <6>2. cc >= MaxEntries
            BY <1>4, <1>11, <3>1, <3>6, <5>3, <6>1
          <6>3. QED
            BY <6>2
        <5>4. QED
          BY <1>11, <5>1, <5>2, <5>3
      <4>2. CASE m > d
        <5> DEFINE k == m - d
        <5>1. k \in 1..(L - d) /\ k + d = m
          BY <1>4, <4>2
        <5>2. window'[k] = window[m] /\ k \in 1..Len(window')
          BY <1>4, <1>11, <5>1
        <5>3. cc >= Len(window') - k
          BY <1>4, <1>11, <3>1, <3>6, <5>1
        <5>4. QED
          BY <3>2, <3>6, <5>2, <5>3
      <4>3. QED
        BY <1>4, <4>1, <4>2
    <3>7. QED
      BY <3>3, <3>4, <3>5, <3>6 DEF cc
  <2>3. QED
    BY <1>7, <2>1, <2>2
<1>15. ExactlyOncePerWindow'
  <2> SUFFICES ASSUME NEW i \in 1..(N + 1), NEW j \in 1..(N + 1), i < j,
                      taken'[i].fresh, taken'[j].fresh, taken'[i].ev.key = taken'[j].ev.key
               PROVE  \/ taken'[j].at >= taken'[i].at + Ttl
                      \/ Cardinality({k \in (i + 1)..(j - 1) : taken'[k].fresh}) >= MaxEntries
    <3>1. DOMAIN taken' = 1..(N + 1)
      BY <1>7, <1>10
    <3>2. QED
      BY <3>1 DEF ExactlyOncePerWindow
  <2>1. i \in 1..N /\ taken'[i] = taken[i]
    BY <1>7, <1>10
  <2>2. CASE j \in 1..N
    <3>1. taken'[j] = taken[j]
      BY <1>10, <2>2
    <3>2. {k \in (i + 1)..(j - 1) : taken'[k].fresh} = {k \in (i + 1)..(j - 1) : taken[k].fresh}
      <4>1. \A k \in (i + 1)..(j - 1) : taken'[k] = taken[k]
        BY <1>7, <1>10, <2>2
      <4>2. QED
        BY <4>1
    <3>3. i \in DOMAIN taken /\ j \in DOMAIN taken
      BY <1>7, <2>1, <2>2
    <3>4. QED
      BY <2>1, <3>1, <3>2, <3>3 DEF OnceInv, ExactlyOncePerWindow
  <2>3. CASE j = N + 1
    <3>1. taken'[j] = t /\ t.fresh /\ ev.key = taken[i].ev.key /\ taken'[j].at = now
      BY <1>8, <1>10, <2>1, <2>3
    <3>2. {k \in (i + 1)..(j - 1) : taken'[k].fresh} = FreshAfter(taken, i)
      <4>1. j - 1 = N /\ \A k \in (i + 1)..N : taken'[k] = taken[k]
        BY <1>7, <1>10, <2>1, <2>3
      <4>2. QED
        BY <4>1 DEF FreshAfter
    <3>3. ASSUME NEW m \in 1..L, window[m].key = ev.key, window[m].expiry = taken[i].at + Ttl
          PROVE  taken[i].at + Ttl <= now
      <4>1. ~Seen(window, window[m].key, now)
        BY <1>8, <3>1, <3>3
      <4>2. ~(window[m].expiry > now)
        BY <1>4, <4>1, LiveMeansSeen
      <4>3. QED
        BY <1>4, <1>5, <3>3, <4>2
    <3>4. \/ taken[i].at + Ttl <= now
          \/ Cardinality(FreshAfter(taken, i)) >= MaxEntries
      BY <2>1, <3>1, <3>3 DEF OnceInv, Remembered
    <3>5. QED
      BY <1>4, <1>9, <2>1, <3>1, <3>2, <3>4
  <2>4. QED
    BY <1>7, <2>2, <2>3
<1>16. QED
  BY <1>14, <1>15 DEF OnceInv

\* The invariant is inductive: steps that take nothing leave the window and the history
\* alone, and as time passes dispatches only expire.
LEMMA OnceInvNext == TypeInv /\ OnceInv /\ [Next]_vars => OnceInv'
<1> SUFFICES ASSUME TypeInv, OnceInv, [Next]_vars PROVE OnceInv'
  OBVIOUS
<1>1. CASE GetFresh \/ GetDuplicate
  BY <1>1, OnceInvTake
<1>2. CASE ~(GetFresh \/ GetDuplicate)
  <2>1. window' = window /\ taken' = taken /\ (now' = now \/ now' = now + 1)
    BY <1>2 DEF Next, Collector, Consumer, Stop, Finished, vars, consumerVars, Run, RunExit,
       LoopHead, ScanDone, Emit, PutResume, PassDone, WaitTimeout, WaitStopped,
       BackoffExpires, BackoffStopped, Crash, CallbackEnds, StopBeforeRun, StopSignal,
       StopGather, StopJoin, Tick
  <2>2. now \in Nat /\ Ttl \in Nat /\ \A j \in 1..Len(taken) : taken[j] \in Taken
    BY PipelineAssumption DEF TypeInv, TypeOK, ConsumerTypes
  <2>3. \A j \in 1..Len(taken) : taken[j].at \in Nat
    BY <2>2 DEF Taken
  <2>4. \A j \in 1..Len(taken) : taken[j].at + Ttl <= now => taken[j].at + Ttl <= now'
    BY <2>1, <2>2, <2>3
  <2>5. Remembered(taken, window, now)'
    BY <2>1, <2>4 DEF OnceInv, Remembered
  <2>6. QED
    BY <2>1, <2>5 DEF OnceInv, ExactlyOncePerWindow
<1>3. QED
  BY <1>1, <1>2

\* The callback is given a key at most once per window, for every TTL, cap and timing:
\* between two dispatches of a key the first expired or MaxEntries others pushed it out.
THEOREM OncePerWindow == Spec => []ExactlyOncePerWindow
<1>1. OnceInv => ExactlyOncePerWindow
  BY DEF OnceInv
<1>2. QED
  BY <1>1, OnceInvInit, OnceInvNext, TypeInvariance, PTL DEF Spec

(***************************************************************************)
(* The channel.  An accepted event is later than every earlier one of its   *)
(* source because the records of a pass are numbered as they are read and a *)
(* collector with a parked put makes no other: what was taken or queued of  *)
(* a source is older than its parked event, which is the last it made.      *)
(***************************************************************************)

\* The number of the last event collector c made.
Made(c) == read[c] - left[c]

ParkedLast ==
  \A c \in Source :
    col[c] = "put" => hand[c].src = c /\ hand[c].n = Made(c) /\ hand[c].n > 0

NumberedBelow ==
  \A c \in Source : \A n \in Numbers(taken, queue, c) :
    n <= IF col[c] = "put" THEN Made(c) - 1 ELSE Made(c)

ChannelInv == ParkedLast /\ NumberedBelow

\* The greatest number of a bounded set, 0 if there is none.
LEMMA MaxOfNumbers ==
  ASSUME NEW S \in SUBSET Nat, NEW b \in Nat, \A x \in S : x <= b
  PROVE  /\ Max({0} \cup S) \in {0} \cup S
         /\ \A x \in {0} \cup S : x <= Max({0} \cup S)
<1> DEFINE T == {0} \cup S
           D == {b - x : x \in T}
<1>1. \A x \in T : x \in Nat /\ x <= b
  OBVIOUS
<1>2. D \subseteq Nat /\ D # {}
  BY <1>1
<1>3. PICK m \in D : \A k \in D : m <= k
  BY <1>2, FirstPosition
<1>4. PICK x \in T : m = b - x
  BY <1>3
<1>5. \A y \in T : b - y \in D
  OBVIOUS
<1> HIDE DEF T, D
<1>6. \A y \in T : x >= y
  BY <1>1, <1>3, <1>4, <1>5
<1>7. Max(T) \in T /\ \A y \in T : Max(T) >= y
  BY <1>6 DEF Max
<1>8. \A y \in T : y <= Max(T)
  BY <1>1, <1>7
<1>9. QED
  BY <1>7, <1>8 DEF T

\* A number above all the others is the greatest once it is among them.
LEMMA MaxOfNewest ==
  ASSUME NEW S \in SUBSET Nat, NEW n \in Nat, \A x \in S : x < n
  PROVE  Max({0} \cup (S \cup {n})) = n
<1>1. S \cup {n} \in SUBSET Nat /\ \A x \in S \cup {n} : x <= n
  BY \A x \in S : x \in Nat
<1>2. /\ Max({0} \cup (S \cup {n})) \in {0} \cup (S \cup {n})
      /\ \A x \in {0} \cup (S \cup {n}) : x <= Max({0} \cup (S \cup {n}))
  BY <1>1, MaxOfNumbers
<1>3. PICK m : m = Max({0} \cup (S \cup {n}))
  OBVIOUS
<1>4. n <= m /\ m \in {0} \cup (S \cup {n})
  BY <1>2, <1>3
<1>5. m \in Nat /\ m <= n
  BY <1>1, <1>4
<1>6. QED
  BY <1>3, <1>4, <1>5

\* The numbers are those of the events, whichever of the two they are in.
LEMMA NumbersOfEvents ==
  ASSUME NEW ts \in Seq(Taken), NEW q \in Seq(Event), NEW c \in Source
  PROVE  /\ Numbers(ts, q, c) \in SUBSET Nat
         /\ \A e \in Event :
              Numbers(ts, Append(q, e), c)
                = Numbers(ts, q, c) \cup (IF e.src = c THEN {e.n} ELSE {})
         /\ \A t \in Taken : q # <<>> /\ t.ev = Head(q) =>
              Numbers(Append(ts, t), Tail(q), c) = Numbers(ts, q, c)
<1>1. /\ \A i \in 1..Len(ts) : ts[i] \in Taken
      /\ \A i \in 1..Len(q) : q[i] \in Event
      /\ Len(ts) \in Nat /\ Len(q) \in Nat
      /\ DOMAIN ts = 1..Len(ts) /\ DOMAIN q = 1..Len(q)
  OBVIOUS
<1>2. Numbers(ts, q, c) \in SUBSET Nat
  BY <1>1 DEF Numbers, Taken, Event
<1>3. ASSUME NEW e \in Event
      PROVE  Numbers(ts, Append(q, e), c)
               = Numbers(ts, q, c) \cup (IF e.src = c THEN {e.n} ELSE {})
  <2> DEFINE a == Append(q, e)
  <2>1. /\ DOMAIN a = 1..(Len(q) + 1) /\ a[Len(q) + 1] = e
        /\ \A i \in 1..Len(q) : a[i] = q[i]
    OBVIOUS
  <2> HIDE DEF a
  <2>2. \A i \in 1..(Len(q) + 1) : i \in 1..Len(q) \/ i = Len(q) + 1
    BY <1>1
  <2>3. 1..Len(q) \subseteq 1..(Len(q) + 1) /\ Len(q) + 1 \in 1..(Len(q) + 1)
    BY <1>1
  <2>4. {a[i].n : i \in {i \in DOMAIN a : a[i].src = c}}
          = {q[i].n : i \in {i \in DOMAIN q : q[i].src = c}}
            \cup (IF e.src = c THEN {e.n} ELSE {})
    BY <1>1, <2>1, <2>2, <2>3
  <2>5. QED
    BY <2>4 DEF Numbers, a
<1>4. ASSUME NEW t \in Taken, q # <<>>, t.ev = Head(q)
      PROVE  Numbers(Append(ts, t), Tail(q), c) = Numbers(ts, q, c)
  <2> DEFINE a == Append(ts, t)
             b == Tail(q)
  <2>1. /\ DOMAIN a = 1..(Len(ts) + 1) /\ a[Len(ts) + 1] = t
        /\ \A i \in 1..Len(ts) : a[i] = ts[i]
    OBVIOUS
  <2>2. /\ b \in Seq(Event) /\ Len(b) = Len(q) - 1 /\ Head(q) = q[1] /\ Len(q) > 0
        /\ \A i \in 1..Len(b) : b[i] = q[i + 1]
    BY <1>4
  <2>3. DOMAIN b = 1..(Len(q) - 1)
    BY <2>2
  <2> HIDE DEF a, b
  <2>4. \A i \in 1..(Len(ts) + 1) : i \in 1..Len(ts) \/ i = Len(ts) + 1
    BY <1>1
  <2>5. 1..Len(ts) \subseteq 1..(Len(ts) + 1) /\ Len(ts) + 1 \in 1..(Len(ts) + 1)
    BY <1>1
  <2>6. {a[i].ev.n : i \in {i \in DOMAIN a : a[i].ev.src = c}}
          = {ts[i].ev.n : i \in {i \in DOMAIN ts : ts[i].ev.src = c}}
            \cup (IF q[1].src = c THEN {q[1].n} ELSE {})
    BY <1>1, <1>4, <2>1, <2>2, <2>4, <2>5
  <2>7. {q[i].n : i \in {i \in DOMAIN q : q[i].src = c}}
          = {b[i].n : i \in {i \in DOMAIN b : b[i].src = c}}
            \cup (IF q[1].src = c THEN {q[1].n} ELSE {})
    <3>1. \A i \in 1..(Len(q) - 1) : i + 1 \in 1..Len(q) /\ b[i] = q[i + 1]
      BY <1>1, <2>2, <2>3
    <3>2. \A i \in 1..Len(q) : i = 1 \/ (i - 1 \in 1..(Len(q) - 1) /\ b[i - 1] = q[i])
      BY <1>1, <2>2, <2>3
    <3>3. 1 \in 1..Len(q)
      BY <1>1, <2>2
    <3> DEFINE head == IF q[1].src = c THEN {q[1].n} ELSE {}
               rest == {b[i].n : i \in {i \in DOMAIN b : b[i].src = c}}
    <3>4. ASSUME NEW i \in 1..Len(q), q[i].src = c PROVE q[i].n \in rest \cup head
      <4>1. CASE i = 1
        BY <3>4, <4>1
      <4>2. CASE i # 1
        <5>1. PICK k \in 1..(Len(q) - 1) : b[k] = q[i]
          BY <3>2, <4>2
        <5>2. QED
          BY <2>3, <3>4, <5>1
      <4>3. QED
        BY <4>1, <4>2
    <3>5. ASSUME NEW k \in 1..(Len(q) - 1), b[k].src = c
          PROVE  \E i \in 1..Len(q) : q[i].src = c /\ q[i].n = b[k].n
      BY <3>1, <3>5
    <3> DEFINE all == {q[i].n : i \in {i \in DOMAIN q : q[i].src = c}}
    <3>6. all \subseteq rest \cup head
      <4> HIDE DEF rest, head
      <4>1. QED
        BY <1>1, <3>4
    <3>7. head \subseteq all
      BY <1>1, <3>3
    <3>8. rest \subseteq all
      BY <1>1, <2>3, <3>5
    <3> HIDE DEF all, rest, head
    <3>9. all = rest \cup head
      BY <3>6, <3>7, <3>8
    <3>10. QED
      BY <3>9 DEF all, rest, head
  <2>8. QED
    BY <2>6, <2>7 DEF Numbers, a, b
<1>5. QED
  BY <1>2, <1>3, <1>4

\* Initially nothing has been made or taken, and the channel is open and empty.
LEMMA ChannelInitially == Init => ChannelInv /\ Channel!Init
<1> SUFFICES ASSUME Init PROVE ChannelInv /\ Channel!Init
  OBVIOUS
<1>1. \A c \in Source : Numbers(taken, queue, c) = {}
  BY DEF Init, Numbers
<1>2. ChannelInv
  BY <1>1 DEF Init, ChannelInv, ParkedLast, NumberedBelow
<1>3. Latest = [c \in Source |-> 0]
  <2>1. Max({0} \cup {}) = 0
    BY MaxOfNumbers
  <2>2. QED
    BY <1>1, <2>1 DEF Latest
<1>4. Backlog = <<>> /\ processed + deduped + consumerErrors = 0 /\ stopPc # "done"
  BY DEF Init, Backlog
<1>5. QED
  BY <1>2, <1>3, <1>4 DEF Channel!Init

\* A step that leaves the queue, the consumer and stop() alone is no step of the channel.
LEMMA ChannelStutters ==
  ASSUME UNCHANGED <<queue, taken, consumer, inflight, processed, deduped, consumerErrors>>,
         (stopPc' = "done") = (stopPc = "done")
  PROVE  UNCHANGED Channel!vars
<1>1. Backlog' = Backlog
  BY DEF Backlog
<1>2. Latest' = Latest
  BY DEF Latest, Numbers
<1>3. QED
  BY <1>1, <1>2 DEF Channel!vars

\* A put that gets a slot is the channel's Accept, if the event is its source's newest.
LEMMA EnqueueAccepts ==
  ASSUME TypeInv, stopPc # "done", NEW e \in Event, e.n > 0,
         \A n \in Numbers(taken, queue, e.src) : n < e.n,
         Enqueue(e), UNCHANGED <<consumerVars, stopVars>>
  PROVE  /\ Channel!Accept
         /\ \A c \in Source :
              Numbers(taken', queue', c)
                = Numbers(taken, queue, c) \cup (IF e.src = c THEN {e.n} ELSE {})
<1>1. /\ taken \in Seq(Taken) /\ queue \in Seq(Event)
      /\ inflight \in Event \cup {NoEvent} /\ e.src \in Source /\ e.n \in Nat
  BY DEF TypeInv, TypeOK, QueueTypes, QueueMaxsize, ConsumerTypes, Event
<1>2. queue' = Append(queue, e) /\ taken' = taken
  BY DEF Enqueue, consumerVars
<1>3. \A c \in Source :
        Numbers(taken', queue', c)
          = Numbers(taken, queue, c) \cup (IF e.src = c THEN {e.n} ELSE {})
  BY <1>1, <1>2, NumbersOfEvents
<1>4. /\ Backlog \in Seq(Event \cup {NoEvent}) /\ Backlog' = Append(Backlog, e)
  <2> DEFINE E == Event \cup {NoEvent}
             pre == IF consumer = "call" THEN <<inflight>> ELSE <<>>
  <2>1. pre \in Seq(E) /\ queue \in Seq(E) /\ e \in E
    <3>1. inflight \in E /\ e \in E /\ \A i \in 1..Len(queue) : queue[i] \in E
      BY <1>1
    <3>2. queue = [i \in 1..Len(queue) |-> queue[i]] /\ Len(queue) \in Nat
      BY <1>1
    <3> HIDE DEF E
    <3>3. queue \in Seq(E)
      BY <3>1, <3>2
    <3>4. <<inflight>> \in Seq(E) /\ <<>> \in Seq(E)
      BY <3>1
    <3>5. QED
      BY <3>1, <3>3, <3>4
  <2>2. Backlog = pre \o queue /\ Backlog' = pre \o Append(queue, e)
    BY <1>2 DEF Backlog, consumerVars
  <2> HIDE DEF E, pre
  <2>3. pre \o queue \in Seq(E) /\ pre \o Append(queue, e) = Append(pre \o queue, e)
    BY <2>1
  <2>4. QED
    BY <2>2, <2>3 DEF E
<1>5. /\ Len(Backlog') = Len(Backlog) + 1 /\ SubSeq(Backlog', 1, Len(Backlog)) = Backlog
      /\ Backlog'[Len(Backlog')] = e
  <2>1. PICK b \in Seq(Event \cup {NoEvent}) : b = Backlog
    BY <1>4
  <2>2. e \in Event \cup {NoEvent}
    OBVIOUS
  <2>3. /\ Len(Append(b, e)) = Len(b) + 1 /\ SubSeq(Append(b, e), 1, Len(b)) = b
        /\ Append(b, e)[Len(b) + 1] = e
    BY <2>2, AppendProperties, SubSeqProperties
  <2>4. QED
    BY <1>4, <2>1, <2>3
<1>6. e.n > Latest[e.src]
  <2> DEFINE S == Numbers(taken, queue, e.src)
  <2>1. S \in SUBSET Nat
    BY <1>1, NumbersOfEvents
  <2>2. \A x \in S : x <= e.n
    BY <1>1, <2>1
  <2>3. Latest[e.src] = Max({0} \cup S)
    BY <1>1 DEF Latest
  <2> HIDE DEF S
  <2>4. Max({0} \cup S) \in {0} \cup S
    BY <1>1, <2>1, <2>2, MaxOfNumbers
  <2>5. QED
    BY <1>1, <2>3, <2>4 DEF S
<1>7. Latest' = [Latest EXCEPT ![e.src] = e.n]
  <2>1. ASSUME NEW c \in Source PROVE Latest'[c] = [Latest EXCEPT ![e.src] = e.n][c]
    <3>1. Latest'[c] = Max({0} \cup Numbers(taken', queue', c))
      BY DEF Latest
    <3>2. CASE c = e.src
      <4>1. Numbers(taken, queue, c) \in SUBSET Nat
        BY <1>1, NumbersOfEvents
      <4>2. Max({0} \cup (Numbers(taken, queue, c) \cup {e.n})) = e.n
        BY <1>1, <3>2, <4>1, MaxOfNewest
      <4>3. QED
        BY <1>1, <1>3, <3>1, <3>2, <4>2 DEF Latest
    <3>3. CASE c # e.src
      BY <1>3, <3>1, <3>3 DEF Latest
    <3>4. QED
      BY <3>2, <3>3
  <2>2. QED
    BY <2>1 DEF Latest
<1>8. UNCHANGED <<processed, deduped, consumerErrors, stopPc>>
  BY DEF consumerVars, stopVars
<1>9. Channel!Accept
  BY <1>5, <1>6, <1>7, <1>8 DEF Channel!Accept
<1>10. QED
  BY <1>3, <1>9

\* A step of collector c keeps the numbering of all sources if it keeps its own.
LEMMA NumberingKept ==
  ASSUME ChannelInv, NEW c \in Source,
         \A d \in Source \ {c} :
           /\ col'[d] = col[d] /\ left'[d] = left[d] /\ read'[d] = read[d] /\ hand'[d] = hand[d]
           /\ Numbers(taken', queue', d) = Numbers(taken, queue, d),
         col'[c] = "put" =>
           hand'[c].src = c /\ hand'[c].n = read'[c] - left'[c] /\ hand'[c].n > 0,
         \A n \in Numbers(taken', queue', c) :
           n <= IF col'[c] = "put" THEN read'[c] - left'[c] - 1 ELSE read'[c] - left'[c]
  PROVE  ChannelInv'
<1>1. ParkedLast'
  <2> SUFFICES ASSUME NEW d \in Source, col'[d] = "put"
               PROVE  hand'[d].src = d /\ hand'[d].n = read'[d] - left'[d] /\ hand'[d].n > 0
    BY DEF ParkedLast, Made
  <2>1. QED
    BY DEF ChannelInv, ParkedLast, Made
<1>2. NumberedBelow'
  <2> SUFFICES ASSUME NEW d \in Source, NEW n \in Numbers(taken', queue', d)
               PROVE  n <= IF col'[d] = "put" THEN read'[d] - left'[d] - 1
                           ELSE read'[d] - left'[d]
    BY DEF NumberedBelow, Made
  <2>1. QED
    BY DEF ChannelInv, NumberedBelow, Made
<1>3. QED
  BY <1>1, <1>2 DEF ChannelInv

\* A collector's step accepts its newest event or is no step of the channel.
LEMMA CollectorChannel ==
  ASSUME TypeInv, StopInv, ChannelInv, NEW c \in Source, Collector(c) \/ Crash(c)
  PROVE  ChannelInv' /\ (Channel!Accept \/ UNCHANGED Channel!vars)
<1>1. /\ col \in [Source -> CollectorPc] /\ left \in [Source -> Nat] /\ read \in [Source -> Nat]
      /\ hand \in [Source -> Event \cup {NoEvent}]
      /\ left[c] \in Nat /\ read[c] \in Nat /\ left[c] <= read[c]
      /\ taken \in Seq(Taken) /\ queue \in Seq(Event)
  BY DEF TypeInv, TypeOK, CollectorTypes, TaskShape, ConsumerTypes, QueueTypes, QueueMaxsize
<1>2. stopPc # "done" /\ UNCHANGED <<consumerVars, stopVars>>
  <2>1. UNCHANGED <<consumerVars, stopVars>>
    BY DEF Collector, Crash, LoopHead, ScanDone, Emit, PutResume, PassDone, WaitTimeout,
       WaitStopped, BackoffExpires, BackoffStopped
  <2>2. QED
    BY <2>1, CollectorNeedsTask
<1>3. /\ taken' = taken /\ stopPc' = stopPc
      /\ UNCHANGED <<consumer, inflight, processed, deduped, consumerErrors>>
  BY <1>2 DEF consumerVars, stopVars
<1>4. \A d \in Source \ {c} :
        /\ col'[d] = col[d] /\ left'[d] = left[d] /\ read'[d] = read[d] /\ hand'[d] = hand[d]
  BY <1>1 DEF Collector, Crash, LoopHead, ScanDone, Emit, Put, Enqueue, PutResume, PassDone,
     WaitTimeout, WaitStopped, BackoffExpires, BackoffStopped, Goto
<1>5. ASSUME NEW d \in Source PROVE Numbers(taken, queue, d) \in SUBSET Nat
  BY <1>1, NumbersOfEvents
<1>6. ASSUME queue' = queue,
             col'[c] = "put" =>
               hand'[c].src = c /\ hand'[c].n = read'[c] - left'[c] /\ hand'[c].n > 0,
             \A n \in Numbers(taken, queue, c) :
               n <= IF col'[c] = "put" THEN read'[c] - left'[c] - 1 ELSE read'[c] - left'[c]
      PROVE  ChannelInv' /\ UNCHANGED Channel!vars
  <2>1. UNCHANGED Channel!vars
    BY <1>3, <1>6, ChannelStutters
  <2>2. \A d \in Source : Numbers(taken', queue', d) = Numbers(taken, queue, d)
    BY <1>3, <1>6
  <2>3. ChannelInv'
    BY <1>4, <1>6, <2>2, NumberingKept
  <2>4. QED
    BY <2>1, <2>3
<1>7. ASSUME NEW e \in Event, e.src = c, e.n > 0, Enqueue(e), col'[c] # "put",
             e.n = read'[c] - left'[c], \A n \in Numbers(taken, queue, c) : n < e.n
      PROVE  ChannelInv' /\ Channel!Accept
  <2>1. /\ Channel!Accept
        /\ \A d \in Source :
             Numbers(taken', queue', d)
               = Numbers(taken, queue, d) \cup (IF e.src = d THEN {e.n} ELSE {})
    BY <1>2, <1>7, EnqueueAccepts
  <2>2. e.n \in Nat /\ \A n \in Numbers(taken, queue, c) : n \in Nat
    BY <1>5 DEF Event
  <2>3. \A n \in Numbers(taken', queue', c) : n <= e.n
    BY <1>7, <2>1, <2>2
  <2>4. \A d \in Source \ {c} : Numbers(taken', queue', d) = Numbers(taken, queue, d)
    BY <1>7, <2>1
  <2>5. ChannelInv'
    BY <1>4, <1>7, <2>3, <2>4, NumberingKept
  <2>6. QED
    BY <2>1, <2>5
<1>8. \A n \in Numbers(taken, queue, c) : n \in Nat /\
        n <= IF col[c] = "put" THEN read[c] - left[c] - 1 ELSE read[c] - left[c]
  BY <1>5 DEF ChannelInv, NumberedBelow, Made
<1>9. CASE Emit(c)
  <2>1. /\ col[c] = "emit" /\ left[c] > 0 /\ read' = read
        /\ left'[c] = left[c] - 1
    BY <1>1, <1>9 DEF Emit
  <2>2. CASE queue' = queue /\ col' = col
    BY <1>1, <1>6, <1>8, <2>1, <2>2
  <2>3. CASE \E key \in setup.keys : Put(c, NextEvent(c, key))
    <3>1. PICK key \in setup.keys : Put(c, NextEvent(c, key))
      BY <2>3
    <3> DEFINE e == NextEvent(c, key)
    <3>2. /\ e \in Event /\ e.src = c /\ e.n = read[c] - left[c] + 1
      BY <1>1, SetupFacts DEF NextEvent, Event
    <3>3. Put(c, e)
      BY <3>1
    <3> HIDE DEF e
    <3>4. e.n > 0 /\ e.n = read'[c] - left'[c] /\ \A n \in Numbers(taken, queue, c) : n < e.n
      BY <1>1, <1>8, <2>1, <3>2
    <3>5. CASE Enqueue(e) /\ UNCHANGED <<col, hand>>
      BY <1>7, <2>1, <3>2, <3>4, <3>5
    <3>6. CASE Goto(c, "put") /\ hand' = [hand EXCEPT ![c] = e] /\ UNCHANGED queueVars
      <4>1. queue' = queue /\ col'[c] = "put" /\ hand'[c] = e
        BY <1>1, <3>6 DEF Goto, queueVars
      <4>2. \A n \in Numbers(taken, queue, c) : n <= read'[c] - left'[c] - 1
        BY <1>1, <1>8, <2>1
      <4>3. QED
        BY <1>6, <3>2, <3>4, <4>1, <4>2
    <3>7. CASE UNCHANGED <<queue, col>>
      BY <2>2, <3>7
    <3>8. QED
      BY <3>3, <3>5, <3>6, <3>7 DEF Put
  <2>4. QED
    BY <1>9, <2>2, <2>3 DEF Emit, queueVars
<1>10. CASE PutResume(c)
  <2>1. /\ col[c] = "put" /\ Enqueue(hand[c]) /\ left' = left /\ read' = read
        /\ col'[c] = "emit"
    BY <1>1, <1>10 DEF PutResume, Goto
  <2>2. /\ hand[c] \in Event /\ hand[c].src = c /\ hand[c].n = read[c] - left[c]
        /\ hand[c].n > 0
    BY <2>1 DEF TypeInv, TaskShape, ChannelInv, ParkedLast, Made
  <2>3. \A n \in Numbers(taken, queue, c) : n < hand[c].n
    BY <1>1, <1>8, <2>1, <2>2
  <2>4. QED
    BY <1>7, <2>1, <2>2, <2>3
<1>11. CASE ScanDone(c)
  <2>1. PICK k \in 0..(setup.reads - read[c]) : /\ left' = [left EXCEPT ![c] = k]
                                            /\ read' = [read EXCEPT ![c] = @ + k]
    BY <1>11 DEF ScanDone
  <2>2. col[c] = "poll" /\ left[c] = 0 /\ col'[c] = "emit" /\ queue' = queue
    BY <1>1, <1>11 DEF ScanDone, Goto, queueVars, StopInv, WorkOwned
  <2>3. k \in Int /\ read'[c] - left'[c] = read[c] - left[c]
    BY <1>1, <2>1, <2>2
  <2>4. QED
    BY <1>6, <1>8, <2>2, <2>3
<1>12. CASE Crash(c)
  <2>1. col[c] # "put" /\ col'[c] = "backoff" /\ queue' = queue /\ left'[c] = 0 /\ read' = read
    BY <1>1, <1>12 DEF Crash, Goto, queueVars
  <2>2. \A n \in Numbers(taken, queue, c) : n <= read'[c] - left'[c]
    BY <1>1, <1>8, <2>1
  <2>3. QED
    BY <1>6, <2>1, <2>2
<1>13. CASE \/ LoopHead(c) \/ PassDone(c) \/ WaitTimeout(c) \/ WaitStopped(c)
            \/ BackoffExpires(c) \/ BackoffStopped(c)
  <2>1. col[c] # "put" /\ col'[c] # "put" /\ queue' = queue /\ left' = left /\ read' = read
    BY <1>1, <1>13 DEF LoopHead, PassDone, WaitTimeout, WaitStopped, BackoffExpires,
       BackoffStopped, Goto, queueVars
  <2>2. QED
    BY <1>6, <1>8, <2>1
<1>14. QED
  BY <1>9, <1>10, <1>11, <1>12, <1>13 DEF Collector

\* The consumer finishes with the oldest event, or moves it from the queue to the callback.
LEMMA ConsumerChannel ==
  ASSUME TypeInv, ChannelInv, Consumer
  PROVE  ChannelInv' /\ (Channel!Finish \/ UNCHANGED Channel!vars)
<1>1. /\ taken \in Seq(Taken) /\ queue \in Seq(Event) /\ now \in Nat
      /\ inflight \in Event \cup {NoEvent}
      /\ processed \in Nat /\ deduped \in Nat /\ consumerErrors \in Nat
  BY DEF TypeInv, TypeOK, QueueTypes, QueueMaxsize, ConsumerTypes
<1>2. UNCHANGED <<colVars, stopVars>>
  BY DEF Consumer, GetFresh, GetDuplicate, CallbackEnds
<1>3. ASSUME \A c \in Source : Numbers(taken', queue', c) = Numbers(taken, queue, c)
      PROVE  ChannelInv' /\ Latest' = Latest
  <2>1. ChannelInv'
    BY <1>2, <1>3 DEF ChannelInv, ParkedLast, NumberedBelow, Made, colVars
  <2>2. Latest' = Latest
    BY <1>3 DEF Latest
  <2>3. QED
    BY <2>1, <2>2
<1>4. CASE GetFresh \/ GetDuplicate
  <2>1. /\ queue # <<>> /\ consumer = "get" /\ queue' = Tail(queue)
        /\ \E f \in BOOLEAN : taken' = Append(taken, [ev |-> Head(queue), at |-> now, fresh |-> f])
    BY <1>4 DEF GetFresh, GetDuplicate, Take
  <2>2. Head(queue) \in Event
    BY <1>1, <2>1
  <2>3. PICK t \in Taken : taken' = Append(taken, t) /\ t.ev = Head(queue)
    BY <1>1, <2>1, <2>2 DEF Taken
  <2>4. \A c \in Source : Numbers(taken', queue', c) = Numbers(taken, queue, c)
    BY <1>1, <2>1, <2>3, NumbersOfEvents
  <2>5. Backlog = queue
    BY <1>1, <2>1 DEF Backlog
  <2>6. CASE GetFresh
    <3>1. consumer' = "call" /\ inflight' = Head(queue)
      BY <2>6 DEF GetFresh
    <3>2. Backlog' = <<Head(queue)>> \o Tail(queue)
      BY <2>1, <3>1 DEF Backlog
    <3>3. Backlog' = Backlog
      BY <1>1, <2>1, <2>5, <3>2
    <3>4. UNCHANGED <<processed, deduped, consumerErrors, stopPc>>
      BY <1>2, <2>6 DEF GetFresh, stopVars
    <3>5. QED
      BY <1>3, <2>4, <3>3, <3>4 DEF Channel!vars
  <2>7. CASE GetDuplicate
    <3>1. consumer' = "get" /\ deduped' = deduped + 1 /\ UNCHANGED <<processed, consumerErrors>>
      BY <2>1, <2>7 DEF GetDuplicate
    <3>2. Tail(queue) \in Seq(Event)
      BY <1>1, <2>1
    <3>3. Backlog' = Tail(queue)
      BY <2>1, <3>1, <3>2 DEF Backlog
    <3>4. processed' + deduped' + consumerErrors' = (processed + deduped + consumerErrors) + 1
      BY <1>1, <3>1
    <3>5. Channel!Finish
      BY <1>2, <1>3, <2>1, <2>4, <2>5, <3>3, <3>4 DEF Channel!Finish, stopVars
    <3>6. QED
      BY <1>3, <2>4, <3>5
  <2>8. QED
    BY <1>4, <2>6, <2>7
<1>5. CASE CallbackEnds
  <2>1. /\ consumer = "call" /\ consumer' = "get" /\ queue' = queue /\ taken' = taken
        /\ processed' + deduped' + consumerErrors' = (processed + deduped + consumerErrors) + 1
    BY <1>1, <1>5 DEF CallbackEnds
  <2>2. Backlog = <<inflight>> \o queue /\ Backlog' = <<>> \o queue
    BY <2>1 DEF Backlog
  <2>3. <<inflight>> \o queue # <<>> /\ Tail(<<inflight>> \o queue) = queue /\ <<>> \o queue = queue
    BY <1>1
  <2>4. Backlog # <<>> /\ Backlog' = Tail(Backlog)
    BY <2>2, <2>3
  <2>5. ChannelInv' /\ Latest' = Latest
    BY <1>3, <2>1
  <2>6. Channel!Finish
    BY <1>2, <2>1, <2>4, <2>5 DEF Channel!Finish, stopVars
  <2>7. QED
    BY <2>5, <2>6
<1>6. QED
  BY <1>4, <1>5 DEF Consumer

\* run(), stop() and the clock leave the channel alone, but for the end of stop(), which
\* closes an empty one.
LEMMA OtherChannel ==
  ASSUME TypeInv, StopInv, StopInv', ChannelInv,
         \/ Run \/ RunExit \/ StopBeforeRun \/ StopSignal \/ Stop \/ Tick \/ UNCHANGED vars
  PROVE  ChannelInv' /\ (Channel!Close \/ UNCHANGED Channel!vars)
<1>1. /\ UNCHANGED <<queue, taken, inflight, processed, deduped, consumerErrors>>
      /\ UNCHANGED <<left, hand, read>>
  BY DEF Run, RunExit, StopBeforeRun, StopSignal, Stop, StopGather, StopJoin, Tick, vars,
     queueVars, consumerVars, colVars
<1>2. ChannelInv'
  <2>1. \A c \in Source : col'[c] = "put" <=> col[c] = "put"
    <3>1. col' = col \/ (Run /\ ~stopRequested)
      BY DEF Run, RunExit, StopBeforeRun, StopSignal, Stop, StopGather, StopJoin, Tick, vars,
         colVars
    <3>2. ASSUME Run /\ ~stopRequested PROVE \A c \in Source : col'[c] # "put" /\ col[c] # "put"
      BY <3>2 DEF Run, Spawn, StopInv, Phases
    <3>3. QED
      BY <3>1, <3>2
  <2>2. \A c \in Source : Numbers(taken', queue', c) = Numbers(taken, queue, c)
    BY <1>1
  <2>3. ParkedLast'
    BY <1>1, <2>1 DEF ChannelInv, ParkedLast, Made
  <2>4. NumberedBelow'
    BY <1>1, <2>1, <2>2 DEF ChannelInv, NumberedBelow, Made
  <2>5. QED
    BY <2>3, <2>4 DEF ChannelInv
<1>3. (consumer' = "call") <=> (consumer = "call")
  <2>1. CASE Run
    BY <2>1 DEF Run, Spawn, TypeInv, TaskShape
  <2>2. CASE StopJoin
    <3>1. inflight' = NoEvent /\ consumer' = "cancelled" /\ unfinished = 0
      BY <2>2 DEF StopJoin, StopInv, DrainedAtStop
    <3>2. Len(queue) \in Nat /\ Len(queue) + InFlight = 0
      BY <3>1 DEF TypeInv, TypeOK, QueueTypes, QueueMaxsize, AcceptedAccounted
    <3>3. QED
      BY <3>1, <3>2 DEF InFlight
  <2>3. CASE ~Run /\ ~StopJoin
    BY <2>3 DEF RunExit, StopBeforeRun, StopSignal, Stop, StopGather, Tick, vars, consumerVars
  <2>4. QED
    BY <2>1, <2>2, <2>3
<1>4. Backlog' = Backlog
  BY <1>1, <1>3 DEF Backlog
<1>5. Latest' = Latest
  BY <1>1 DEF Latest
<1>6. CASE (stopPc' = "done") = (stopPc = "done")
  BY <1>1, <1>2, <1>4, <1>5, <1>6 DEF Channel!vars
<1>7. CASE (stopPc' = "done") # (stopPc = "done")
  <2>1. stopPc # "done" /\ stopPc' = "done"
    BY <1>7 DEF Run, RunExit, StopBeforeRun, StopSignal, Stop, StopGather, StopJoin, Tick, vars,
       stopVars
  <2>2. queue' = <<>> /\ consumer' # "call"
    BY <2>1 DEF StopInv, DrainedAtStop
  <2>3. Backlog' = <<>>
    BY <2>2 DEF Backlog
  <2>4. Channel!Close
    BY <1>1, <1>4, <1>5, <2>1, <2>3 DEF Channel!Close
  <2>5. QED
    BY <1>2, <2>4
<1>8. QED
  BY <1>6, <1>7

\* Every step of the pipeline is a step of the channel, and keeps the numbering.
LEMMA ChannelNext ==
  TypeInv /\ StopInv /\ StopInv' /\ ChannelInv /\ [Next]_vars
    => ChannelInv' /\ [Channel!Next]_(Channel!vars)
<1> SUFFICES ASSUME TypeInv, StopInv, StopInv', ChannelInv, [Next]_vars
             PROVE  ChannelInv' /\ [Channel!Next]_(Channel!vars)
  OBVIOUS
<1>1. ASSUME NEW c \in Source, Collector(c) \/ Crash(c)
      PROVE  ChannelInv' /\ (Channel!Accept \/ UNCHANGED Channel!vars)
  BY <1>1, CollectorChannel
<1>2. CASE Consumer
  BY <1>2, ConsumerChannel DEF Channel!Next
<1>3. CASE \/ Run \/ RunExit \/ StopBeforeRun \/ StopSignal \/ Stop \/ Tick \/ UNCHANGED vars
  BY <1>3, OtherChannel DEF Channel!Next
<1>4. QED
  BY <1>1, <1>2, <1>3 DEF Next, Finished, Channel!Next

\* The refinement, step by step: whatever tasks interleave, the queue and the consumer
\* accept each source's events in order and finish with every event once, oldest first, and
\* stop() returns on an empty channel.
THEOREM ChannelStepByStep == Spec => Channel!StepSpec
BY ChannelInitially, ChannelNext, StopInvInit, StopInvNext, TypeInvariance, PTL
   DEF Spec, Channel!StepSpec

(***************************************************************************)
(* Records.  A collector hands its records on one at a time, and a crash    *)
(* writes off the rest of its pass: every record that leaves a collector    *)
(* does so in a step that counts it.                                        *)
(***************************************************************************)

RecordInv ==
  /\ \A c \in Source : Released(c) \in Nat
  /\ IsFiniteSet(ReleasedRecords)
  /\ RecordsAccounted

\* Membership in the released records.
LEMMA ReleasedPairs ==
  ASSUME NEW p
  PROVE  p \in ReleasedRecords <=> \E c \in Source : p \in {c} \X (1..Released(c))
BY DEF ReleasedRecords

\* The initial state satisfies the record invariant: nothing was read.
LEMMA RecordInit == Init => RecordInv
<1> SUFFICES ASSUME Init PROVE RecordInv
  OBVIOUS
<1>1. \A c \in Source : Released(c) = 0
  BY DEF Init, Released
<1>2. ReleasedRecords = {}
  BY <1>1 DEF ReleasedRecords
<1>3. QED
  BY <1>1, <1>2, FS_EmptySet DEF RecordInv, RecordsAccounted, Init

\* A step that leaves the reading of every source and the counters as they are.
LEMMA RecordKept ==
  ASSUME RecordInv, \A c \in Source : Released(c)' = Released(c),
         accepted' + dropped' + unmapped' + lost' = accepted + dropped + unmapped + lost
  PROVE  RecordInv'
<1>1. ReleasedRecords' = ReleasedRecords
  BY DEF ReleasedRecords
<1>2. QED
  BY <1>1 DEF RecordInv, RecordsAccounted

\* A step by which k more records of one source leave its collector and are counted.
LEMMA RecordMore ==
  ASSUME TypeInv, TypeInv', RecordInv, NEW c \in Source, NEW k \in Nat,
         \A d \in Source \ {c} : Released(d)' = Released(d),
         Released(c)' = Released(c) + k,
         accepted' + dropped' + unmapped' + lost' = accepted + dropped + unmapped + lost + k
  PROVE  RecordInv'
<1>0. PICK m \in Nat, n \in Nat : m = Released(c) /\ n = Released(c)'
  BY DEF RecordInv
<1> DEFINE New == {c} \X ((m + 1)..n)
<1>1. m <= n /\ n - m = k
  BY <1>0
<1>2. 1..n = (1..m) \cup ((m + 1)..n) /\ (1..m) \cap ((m + 1)..n) = {}
  BY <1>1
<1>3. ReleasedRecords' = ReleasedRecords \cup New
  <2>1. \A d \in Source \ {c} : {d} \X (1..Released(d)') = {d} \X (1..Released(d))
    OBVIOUS
  <2>2. {c} \X (1..Released(c)') = ({c} \X (1..Released(c))) \cup New
    BY <1>0, <1>2
  <2>3. QED
    BY <2>1, <2>2 DEF ReleasedRecords
<1>4. ReleasedRecords \cap New = {}
  <2> SUFFICES ASSUME NEW p \in ReleasedRecords, p \in New PROVE FALSE
    OBVIOUS
  <2>1. PICK d \in Source : p \in {d} \X (1..Released(d))
    BY ReleasedPairs
  <2>2. p[1] = d /\ p[2] \in 1..Released(d) /\ p[1] = c /\ p[2] \in (m + 1)..n
    BY <2>1
  <2>3. p[2] \in 1..m
    BY <1>0, <2>2
  <2>4. QED
    BY <1>2, <2>2, <2>3
<1>5. IsFiniteSet(ReleasedRecords)
  BY DEF RecordInv
<1>6. IsFiniteSet(New) /\ Cardinality(New) = n - m
  BY <1>1, CountNumbered
<1> HIDE DEF New
<1>7. /\ IsFiniteSet(ReleasedRecords \cup New)
      /\ Cardinality(ReleasedRecords \cup New) = Cardinality(ReleasedRecords) + Cardinality(New)
  BY <1>4, <1>5, <1>6, CountDisjoint
<1>8. \A d \in Source : Released(d)' \in Nat
  BY <1>0 DEF RecordInv
<1>9. /\ accepted \in Nat /\ dropped \in Nat /\ unmapped \in Nat /\ lost \in Nat
      /\ accepted' \in Nat /\ dropped' \in Nat /\ unmapped' \in Nat /\ lost' \in Nat
  BY DEF TypeInv, TypeOK, QueueTypes, QueueMaxsize, CollectorTypes
<1>10. Cardinality(ReleasedRecords)' = accepted' + dropped' + unmapped' + lost'
  BY <1>1, <1>3, <1>6, <1>7, <1>9 DEF RecordInv, RecordsAccounted
<1>11. QED
  BY <1>3, <1>7, <1>8, <1>10 DEF RecordInv, RecordsAccounted

\* A collector's step accounts for each record that leaves it.
LEMMA RecordCollector ==
  ASSUME TypeInv, TypeInv', StopInv, RecordInv, NEW c \in Source, Collector(c) \/ Crash(c)
  PROVE  RecordInv'
<1>1. /\ col \in [Source -> CollectorPc] /\ left \in [Source -> Nat] /\ read \in [Source -> Nat]
      /\ accepted \in Nat /\ dropped \in Nat /\ unmapped \in Nat /\ lost \in Nat
  BY DEF TypeInv, TypeOK, CollectorTypes, QueueTypes, QueueMaxsize
<1>2. CASE LoopHead(c) \/ PassDone(c) \/ WaitTimeout(c) \/ WaitStopped(c) \/ BackoffExpires(c)
           \/ BackoffStopped(c)
  <2>1. /\ UNCHANGED <<left, read, accepted, dropped, unmapped, lost>>
        /\ \A d \in Source : col'[d] = "put" <=> col[d] = "put"
    BY <1>1, <1>2 DEF LoopHead, PassDone, WaitTimeout, WaitStopped, BackoffExpires,
       BackoffStopped, Goto, queueVars
  <2>2. \A d \in Source : Released(d)' = Released(d)
    BY <2>1 DEF Released
  <2>3. QED
    BY <2>1, <2>2, RecordKept
<1>3. CASE ScanDone(c)
  <2>1. PICK k \in 0..(setup.reads - read[c]) :
          left' = [left EXCEPT ![c] = k] /\ read' = [read EXCEPT ![c] = @ + k]
    BY <1>3 DEF ScanDone
  <2>2. k \in Nat
    BY <2>1
  <2>3. /\ col[c] = "poll" /\ col' = [col EXCEPT ![c] = "emit"]
        /\ UNCHANGED <<accepted, dropped, unmapped, lost>>
    BY <1>3 DEF ScanDone, Goto, queueVars
  <2>4. left[c] = 0
    BY <1>1, <2>3 DEF StopInv, WorkOwned
  <2>5. \A d \in Source \ {c} : Released(d)' = Released(d)
    BY <1>1, <2>1, <2>3 DEF Released
  <2>6. Released(c)' = Released(c)
    BY <1>1, <2>1, <2>2, <2>3, <2>4 DEF Released
  <2>7. QED
    BY <2>3, <2>5, <2>6, RecordKept
<1>4. CASE Emit(c)
  <2>1. /\ col[c] = "emit" /\ left[c] > 0 /\ left' = [left EXCEPT ![c] = @ - 1]
        /\ read' = read /\ lost' = lost
    BY <1>4 DEF Emit
  <2>2. CASE col' = [col EXCEPT ![c] = "put"]
             /\ UNCHANGED <<accepted, dropped, unmapped>>
    <3>1. \A d \in Source \ {c} : Released(d)' = Released(d)
      BY <1>1, <2>1, <2>2 DEF Released
    <3>2. Released(c)' = Released(c)
      BY <1>1, <2>1, <2>2 DEF Released
    <3>3. QED
      BY <2>1, <2>2, <3>1, <3>2, RecordKept
  <2>3. CASE /\ col' = col
             /\ \/ accepted' = accepted + 1 /\ UNCHANGED <<dropped, unmapped>>
                \/ dropped' = dropped + 1 /\ UNCHANGED <<accepted, unmapped>>
                \/ unmapped' = unmapped + 1 /\ UNCHANGED <<accepted, dropped>>
    <3>1. \A d \in Source \ {c} : Released(d)' = Released(d)
      BY <1>1, <2>1, <2>3 DEF Released
    <3>2. Released(c)' = Released(c) + 1
      BY <1>1, <2>1, <2>3 DEF Released
    <3>3. accepted' + dropped' + unmapped' + lost' = accepted + dropped + unmapped + lost + 1
      <4>1. CASE accepted' = accepted + 1 /\ UNCHANGED <<dropped, unmapped>>
        BY <1>1, <2>1, <4>1
      <4>2. CASE dropped' = dropped + 1 /\ UNCHANGED <<accepted, unmapped>>
        BY <1>1, <2>1, <4>2
      <4>3. CASE unmapped' = unmapped + 1 /\ UNCHANGED <<accepted, dropped>>
        BY <1>1, <2>1, <4>3
      <4>4. QED
        BY <2>3, <4>1, <4>2, <4>3
    <3>4. QED
      BY <3>1, <3>2, <3>3, RecordMore
  <2>4. ASSUME NEW key \in setup.keys, Put(c, NextEvent(c, key)), UNCHANGED unmapped
        PROVE  RecordInv'
    <3>1. CASE /\ Len(queue) >= QueueMaxsize /\ Policy = "block" /\ Goto(c, "put")
               /\ UNCHANGED queueVars
      BY <2>2, <2>4, <3>1 DEF Goto, queueVars
    <3>2. CASE accepted' = accepted + 1 /\ UNCHANGED <<dropped, col>>
      BY <1>1, <2>3, <2>4, <3>2
    <3>3. CASE dropped' = dropped + 1 /\ UNCHANGED <<accepted, col>>
      BY <1>1, <2>3, <2>4, <3>3
    <3>4. QED
      BY <2>4, <3>1, <3>2, <3>3 DEF Put, Enqueue
  <2>5. CASE unmapped' = unmapped + 1 /\ UNCHANGED <<queueVars, col, hand>>
    BY <1>1, <2>3, <2>5 DEF queueVars
  <2>6. QED
    BY <1>4, <2>4, <2>5 DEF Emit
<1>5. CASE PutResume(c)
  <2>1. /\ col[c] = "put" /\ col' = [col EXCEPT ![c] = "emit"] /\ accepted' = accepted + 1
        /\ UNCHANGED <<left, read, dropped, unmapped, lost>>
    BY <1>5 DEF PutResume, Enqueue, Goto
  <2>2. \A d \in Source \ {c} : Released(d)' = Released(d)
    BY <1>1, <2>1 DEF Released
  <2>3. Released(c)' = Released(c) + 1
    BY <1>1, <2>1 DEF Released
  <2>4. accepted' + dropped' + unmapped' + lost' = accepted + dropped + unmapped + lost + 1
    BY <1>1, <2>1
  <2>5. QED
    BY <2>2, <2>3, <2>4, RecordMore
<1>6. CASE Crash(c)
  <2>1. /\ col[c] # "put" /\ col' = [col EXCEPT ![c] = "backoff"] /\ lost' = lost + left[c]
        /\ left' = [left EXCEPT ![c] = 0] /\ UNCHANGED <<read, accepted, dropped, unmapped>>
    BY <1>6 DEF Crash, Goto, queueVars
  <2>2. \A d \in Source \ {c} : Released(d)' = Released(d)
    BY <1>1, <2>1 DEF Released
  <2>3. left[c] \in Nat /\ Released(c)' = Released(c) + left[c]
    BY <1>1, <2>1 DEF Released
  <2>4. accepted' + dropped' + unmapped' + lost'
          = accepted + dropped + unmapped + lost + left[c]
    BY <1>1, <2>1, <2>3
  <2>5. QED
    BY <2>2, <2>3, <2>4, RecordMore
<1>7. QED
  BY <1>2, <1>3, <1>4, <1>5, <1>6 DEF Collector

\* The record invariant is inductive.
LEMMA RecordNext == TypeInv /\ TypeInv' /\ StopInv /\ RecordInv /\ [Next]_vars => RecordInv'
<1> SUFFICES ASSUME TypeInv, TypeInv', StopInv, RecordInv, [Next]_vars PROVE RecordInv'
  OBVIOUS
<1>1. CASE \E c \in Source : Collector(c) \/ Crash(c)
  BY <1>1, RecordCollector
<1>2. CASE ~\E c \in Source : Collector(c) \/ Crash(c)
  <2>1. /\ UNCHANGED <<left, read, accepted, dropped, unmapped, lost>>
        /\ \/ UNCHANGED col
           \/ run = "scheduled" /\ \A c \in Source : col'[c] \in {"resume", "done"}
    BY <1>2 DEF Next, Run, Spawn, RunExit, Consumer, GetFresh, GetDuplicate, CallbackEnds,
       StopBeforeRun, StopSignal, Stop, StopGather, StopJoin, Tick, Finished, vars, colVars,
       queueVars, consumerVars, stopVars
  <2>2. \A c \in Source : col'[c] = "put" <=> col[c] = "put"
    BY <2>1 DEF StopInv, Phases
  <2>3. \A c \in Source : Released(c)' = Released(c)
    BY <2>1, <2>2 DEF Released
  <2>4. QED
    BY <2>1, <2>3, RecordKept
<1>3. QED
  BY <1>1, <1>2

\* Every record a source yielded is with its collector, was accepted, or is counted as
\* refused, unmappable or lost to a crash, for any number of collectors, crashes and records.
THEOREM RecordsAllAccounted == Spec => []RecordsAccounted
<1>1. RecordInv => RecordsAccounted
  BY DEF RecordInv
<1>2. QED
  BY <1>1, RecordInit, RecordNext, StopInvInit, StopInvNext, TypeInvariance, PTL DEF Spec

=============================================================================
