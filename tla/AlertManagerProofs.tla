------------------------- MODULE AlertManagerProofs -------------------------
(***************************************************************************)
(* Theorems about AlertManager, for every set of rules, sinks and events,   *)
(* every throttle, queue size and number of delivery attempts.              *)
(***************************************************************************)
EXTENDS AlertManager, FiniteSetTheorems, WellFoundedInduction, TLAPS

\* Any non-empty set of positions has a first one: what `for ... break` finds.
LEMMA FirstPosition ==
  ASSUME NEW S, S \subseteq Nat, S # {}
  PROVE  \E m \in S : \A k \in S : m <= k
<1> DEFINE R == OpToRel(<, Nat)
<1>1. IsWellFoundedOn(R, Nat)
  BY NatLessThanWellFounded
<1>2. \A x, y \in Nat : x < y => <<x, y>> \in R
  BY DEF OpToRel
<1> HIDE DEF R
<1>3. PICK m \in S : \A k \in S : ~(<<k, m>> \in R)
  BY <1>1, WFMin
<1>4. \A k \in S : m <= k
  <2> TAKE k \in S
  <2>1. k \in Nat /\ m \in Nat
    OBVIOUS
  <2>2. ~(k < m)
    BY <1>2, <1>3, <2>1
  <2>3. QED
    BY <2>1, <2>2
<1>5. QED
  BY <1>4

\* There are n - m things numbered m + 1 to n of one owner.
LEMMA CountNumbered ==
  ASSUME NEW c, NEW m \in Nat, NEW n \in Nat, m <= n
  PROVE  IsFiniteSet({c} \X ((m + 1)..n)) /\ Cardinality({c} \X ((m + 1)..n)) = n - m
<1> DEFINE I == (m + 1)..n
<1>1. IsFiniteSet(I) /\ Cardinality(I) = n - m
  <2>1. PICK k \in Int : k = m + 1
    OBVIOUS
  <2>2. IsFiniteSet(k..n) /\ Cardinality(k..n) = IF k > n THEN 0 ELSE n - k + 1
    BY FS_Interval
  <2>3. QED
    BY <2>1, <2>2
<1>2. IsFiniteSet({c}) /\ Cardinality({c}) = 1
  BY FS_Singleton
<1> HIDE DEF I
<1>3. /\ IsFiniteSet({c} \X I)
      /\ Cardinality({c} \X I) = Cardinality({c}) * Cardinality(I)
  BY <1>1, <1>2, FS_Product
<1>4. QED
  BY <1>1, <1>2, <1>3 DEF I

\* Two disjoint sets are counted one after the other.
LEMMA CountDisjoint ==
  ASSUME NEW A, IsFiniteSet(A), NEW D, IsFiniteSet(D), A \cap D = {}
  PROVE  /\ IsFiniteSet(A \cup D)
         /\ Cardinality(A \cup D) = Cardinality(A) + Cardinality(D)
         /\ Cardinality(A) \in Nat
<1>1. /\ IsFiniteSet(A \cup D)
      /\ Cardinality(A \cup D) = Cardinality(A) + Cardinality(D) - Cardinality(A \cap D)
  BY FS_Union
<1>2. Cardinality(A) \in Nat /\ Cardinality(D) \in Nat /\ Cardinality(A \cap D) = 0
  BY FS_EmptySet, FS_CardinalityType
<1>3. QED
  BY <1>1, <1>2

(***************************************************************************)
(* The throttle.  _rule_hits forgets a notification once it has left the    *)
(* window, and it keeps times, not notifications; what makes its length a   *)
(* bound on the notifications of the window is that each of those has a     *)
(* place in it.                                                             *)
(***************************************************************************)

Notification == [rule : Rule, at : Nat, note : Nat]

GateTypes ==
  /\ now \in Nat /\ setup \in Setups
  /\ hits \in [Rule -> Seq(Nat)] /\ withheld \in [Rule -> Nat]
  /\ notified \in Seq(Notification)
  /\ \A j \in 1..Len(notified) : notified[j].at <= now

\* Every notification of the rule since `since` has a place in the sequence of times,
\* and every place is that of a notification at its time.
Places(notes, r, times, since) ==
  \E f \in [1..Len(times) -> 1..Len(notes)] :
    /\ \A h \in 1..Len(times) : notes[f[h]].at = times[h]
    /\ \A j \in 1..Len(notes) :
         notes[j].rule = r /\ notes[j].at >= since => \E h \in 1..Len(times) : f[h] = j

ThrottleInv ==
  /\ GateTypes
  /\ \A r \in Rule : Places(notified, r, hits[r], now - Period[r])
  /\ ThrottleHolds

\* The `while` of _is_throttled ends: it pops the leading times before the window.
LEMMA ExpiredProperties ==
  ASSUME GateTypes, NEW r \in Rule
  PROVE  /\ Expired(r) \in 0..Len(hits[r])
         /\ \A i \in 1..Expired(r) : hits[r][i] < now - Period[r]
<1> DEFINE s == hits[r]
           since == now - Period[r]
           P(n) == /\ \A i \in 1..n : s[i] < since
                   /\ n < Len(s) => s[n + 1] >= since
           Late == {i \in 1..Len(s) : s[i] >= since}
<1>1. /\ s \in Seq(Nat) /\ since \in Int
  BY AlertManagerAssumption DEF GateTypes
<1>2. Len(s) \in Nat /\ \A i \in 1..Len(s) : s[i] \in Nat
  BY <1>1
<1>3. Expired(r) = CHOOSE n \in 0..Len(s) : P(n)
  BY DEF Expired
<1> HIDE DEF s, since
<1>4. \E n \in 0..Len(s) : P(n)
  <2>1. CASE Late = {}
    <3>1. P(Len(s))
      BY <1>1, <1>2, <2>1
    <3>2. QED
      BY <1>2, <3>1
  <2>2. CASE Late # {}
    <3>1. Late \subseteq Nat
      BY <1>2
    <3>2. PICK m \in Late : \A k \in Late : m <= k
      BY <2>2, <3>1, FirstPosition
    <3>3. m \in 1..Len(s) /\ s[m] >= since
      BY <3>2
    <3>4. \A i \in 1..(m - 1) : s[i] < since
      <4> TAKE i \in 1..(m - 1)
      <4>1. i \in 1..Len(s) /\ ~(m <= i)
        BY <1>2, <3>3
      <4>2. i \notin Late
        BY <3>2, <4>1
      <4>3. QED
        BY <1>1, <1>2, <4>1, <4>2
    <3>5. m - 1 \in 0..Len(s) /\ (m - 1) + 1 = m
      BY <1>2, <3>3
    <3>6. P(m - 1)
      BY <3>3, <3>4, <3>5
    <3>7. QED
      BY <3>5, <3>6
  <2>3. QED
    BY <2>1, <2>2
<1> HIDE DEF P
<1>5. Expired(r) \in 0..Len(s) /\ P(Expired(r))
  BY <1>3, <1>4
<1>6. QED
  BY <1>5 DEF P, s, since

\* What _is_throttled keeps: well typed, and every notification of the window has its
\* place in it.
LEMMA RecentProperties ==
  ASSUME GateTypes, NEW r \in Rule, Places(notified, r, hits[r], now - Period[r])
  PROVE  Recent(r) \in Seq(Nat) /\ Places(notified, r, Recent(r), now - Period[r])
<1> DEFINE s == hits[r]
           d == Expired(r)
           t == Recent(r)
           since == now - Period[r]
<1>1. s \in Seq(Nat) /\ Len(s) \in Nat /\ since \in Int
  BY AlertManagerAssumption DEF GateTypes
<1>2. d \in 0..Len(s) /\ \A i \in 1..d : s[i] < since
  BY ExpiredProperties
<1>3. t = SubSeq(s, d + 1, Len(s))
  BY DEF Recent
<1>4. PICK f \in [1..Len(s) -> 1..Len(notified)] :
        /\ \A h \in 1..Len(s) : notified[f[h]].at = s[h]
        /\ \A j \in 1..Len(notified) :
             notified[j].rule = r /\ notified[j].at >= since => \E h \in 1..Len(s) : f[h] = j
  BY DEF Places
<1> HIDE DEF s, d, t, since
<1>5. /\ t \in Seq(Nat) /\ Len(t) = Len(s) - d
      /\ \A i \in 1..(Len(s) - d) : t[i] = s[i + d]
  <2>1. \A i \in (d + 1)..Len(s) : s[i] \in Nat
    BY <1>1, <1>2
  <2>2. QED
    BY <1>1, <1>2, <1>3, <2>1
<1> DEFINE g == [h \in 1..Len(t) |-> f[h + d]]
<1>6. \A h \in 1..Len(t) : h + d \in 1..Len(s)
  BY <1>1, <1>2, <1>5
<1>7. g \in [1..Len(t) -> 1..Len(notified)]
  BY <1>6
<1>8. \A h \in 1..Len(t) : notified[g[h]].at = t[h]
  BY <1>4, <1>5, <1>6
<1>9. ASSUME NEW j \in 1..Len(notified), notified[j].rule = r, notified[j].at >= since
      PROVE  \E h \in 1..Len(t) : g[h] = j
  <2>1. PICK h \in 1..Len(s) : f[h] = j
    BY <1>4, <1>9
  <2>2. s[h] >= since /\ s[h] \in Nat
    BY <1>1, <1>4, <1>9, <2>1
  <2>3. ~(h \in 1..d)
    BY <1>1, <1>2, <2>2
  <2>4. h - d \in 1..Len(t) /\ (h - d) + d = h
    BY <1>1, <1>2, <1>5, <2>3
  <2>5. g[h - d] = j
    BY <2>1, <2>4
  <2>6. QED
    BY <2>4, <2>5
<1> HIDE DEF g
<1>10. Places(notified, r, t, since)
  BY <1>7, <1>8, <1>9 DEF Places
<1>11. QED
  BY <1>5, <1>10 DEF t, since

\* A set that m positions cover has at most m members.
LEMMA CoverBound ==
  ASSUME NEW m \in Nat, NEW n \in Nat, NEW f \in [1..m -> 1..n], NEW W,
         \A j \in W : \E h \in 1..m : f[h] = j
  PROVE  IsFiniteSet(W) /\ Cardinality(W) <= m
<1> DEFINE T == {f[h] : h \in 1..m}
<1>1. W \subseteq T
  OBVIOUS
<1>2. f \in Surjection(1..m, T)
  BY DEF Surjection
<1> HIDE DEF T
<1>3. ExistsSurjection(1..m, T)
  BY <1>2 DEF ExistsSurjection
<1>4. Cardinality(T) <= m
  BY <1>3, FS_SurjCardinalityBound
<1>5. IsFiniteSet(1..m)
  BY FS_Interval
<1>6. IsFiniteSet(T)
  BY <1>2, <1>5, FS_Surjection
<1>7. IsFiniteSet(W) /\ Cardinality(W) <= Cardinality(T)
  BY <1>1, <1>6, FS_Subset
<1>8. Cardinality(W) \in Nat /\ Cardinality(T) \in Nat
  BY <1>6, <1>7, FS_CardinalityType
<1>9. QED
  BY <1>4, <1>7, <1>8

\* The throttle's invariant holds at the start.
LEMMA ThrottleInit == Init => ThrottleInv
<1> SUFFICES ASSUME Init PROVE ThrottleInv
  OBVIOUS
<1>1. notified = <<>> /\ Len(notified) = 0 /\ 1..Len(notified) = {} /\ DOMAIN notified = {}
  BY DEF Init
<1>2. GateTypes
  BY <1>1 DEF Init, GateTypes, Zeros
<1>3. ASSUME NEW r \in Rule PROVE Places(notified, r, hits[r], now - Period[r])
  <2>1. hits[r] = <<>> /\ 1..Len(hits[r]) = {}
    BY DEF Init
  <2>2. <<>> \in [1..Len(hits[r]) -> 1..Len(notified)]
    BY <2>1
  <2>3. QED
    BY <1>1, <2>1, <2>2 DEF Places
<1>4. ThrottleHolds
  BY <1>1 DEF ThrottleHolds
<1>5. QED
  BY <1>2, <1>3, <1>4 DEF ThrottleInv

\* A notification past the throttle: the window it opens and the ones it falls into still
\* hold no more than the rule's limit.
LEMMA NotifyThrottle ==
  ASSUME ThrottleInv, NEW r \in Rule, NEW e, Notify(r, e)
  PROVE  ThrottleInv'
<1> DEFINE t == Recent(r)
           since == now - Period[r]
           n == Len(notified)
           new == [rule |-> r, at |-> now, note |-> withheld[r]]
<1>1. /\ now \in Nat /\ hits \in [Rule -> Seq(Nat)] /\ withheld \in [Rule -> Nat]
      /\ notified \in Seq(Notification) /\ n \in Nat /\ Limit[r] \in Nat
      /\ \A q \in Rule : Period[q] \in Nat
      /\ \A j \in 1..n : notified[j] \in Notification /\ notified[j].at <= now
  BY AlertManagerAssumption DEF ThrottleInv, GateTypes
<1>2. /\ hits' = [hits EXCEPT ![r] = Append(t, now)] /\ withheld' = [withheld EXCEPT ![r] = 0]
      /\ notified' = Append(notified, new) /\ now' = now /\ setup' = setup
      /\ ~(Len(t) >= Limit[r])
  BY DEF Notify, IsThrottled
<1>3. t \in Seq(Nat) /\ Places(notified, r, t, since) /\ Len(t) \in Nat
  BY RecentProperties DEF ThrottleInv
<1>4. new \in Notification /\ new.rule = r /\ new.at = now
  BY <1>1 DEF Notification
<1> HIDE DEF t, new
<1>5. /\ notified' \in Seq(Notification) /\ Len(notified') = n + 1
      /\ \A j \in 1..n : notified'[j] = notified[j]
      /\ notified'[n + 1] = new
      /\ DOMAIN notified' = 1..(n + 1) /\ DOMAIN notified = 1..n
  BY <1>1, <1>2, <1>4
<1>6. /\ Append(t, now) \in Seq(Nat) /\ Len(Append(t, now)) = Len(t) + 1
      /\ \A h \in 1..Len(t) : Append(t, now)[h] = t[h]
      /\ Append(t, now)[Len(t) + 1] = now
  BY <1>1, <1>3
<1> HIDE DEF n
<1>7. GateTypes'
  <2>1. hits' \in [Rule -> Seq(Nat)] /\ withheld' \in [Rule -> Nat]
    BY <1>1, <1>2, <1>6
  <2>2. \A j \in 1..(n + 1) : notified'[j].at <= now
    <3> TAKE j \in 1..(n + 1)
    <3>1. CASE j \in 1..n
      BY <1>1, <1>5, <3>1
    <3>2. CASE j = n + 1
      BY <1>1, <1>4, <1>5, <3>2
    <3>3. QED
      BY <1>1, <3>1, <3>2
  <2>3. QED
    BY <1>1, <1>2, <1>5, <2>1, <2>2 DEF GateTypes, ThrottleInv
<1>8. Places(notified', r, hits'[r], since)
  <2> DEFINE u == Append(t, now)
  <2>1. PICK f \in [1..Len(t) -> 1..n] :
          /\ \A h \in 1..Len(t) : notified[f[h]].at = t[h]
          /\ \A j \in 1..n :
               notified[j].rule = r /\ notified[j].at >= since => \E h \in 1..Len(t) : f[h] = j
    BY <1>3 DEF Places, n
  <2> DEFINE g == [h \in 1..(Len(t) + 1) |-> IF h = Len(t) + 1 THEN n + 1 ELSE f[h]]
  <2>2. \A h \in 1..(Len(t) + 1) : h = Len(t) + 1 \/ h \in 1..Len(t)
    BY <1>3
  <2>3. \A h \in 1..Len(t) : h \in 1..(Len(t) + 1) /\ h # Len(t) + 1
    BY <1>3
  <2>4. Len(t) + 1 \in 1..(Len(t) + 1) /\ n + 1 \in 1..(n + 1) /\ 1..n \subseteq 1..(n + 1)
    BY <1>1, <1>3
  <2>5. g \in [1..(Len(t) + 1) -> 1..(n + 1)]
    BY <2>2, <2>4
  <2>6. \A h \in 1..Len(t) : g[h] = f[h]
    BY <2>3
  <2>7. g[Len(t) + 1] = n + 1
    BY <2>4
  <2> HIDE DEF g
  <2>8. \A h \in 1..(Len(t) + 1) : notified'[g[h]].at = u[h]
    <3> TAKE h \in 1..(Len(t) + 1)
    <3>1. CASE h = Len(t) + 1
      <4>1. g[h] = n + 1
        BY <2>7, <3>1
      <4>2. notified'[n + 1].at = now
        BY <1>4, <1>5
      <4>3. u[h] = now
        BY <1>6, <3>1
      <4>4. QED
        BY <4>1, <4>2, <4>3
    <3>2. CASE h \in 1..Len(t)
      <4>1. g[h] = f[h] /\ f[h] \in 1..n /\ notified[f[h]].at = t[h]
        BY <2>1, <2>6, <3>2
      <4>2. notified'[f[h]] = notified[f[h]]
        BY <1>5, <4>1
      <4>3. u[h] = t[h]
        BY <1>6, <3>2
      <4>4. QED
        BY <4>1, <4>2, <4>3
    <3>3. QED
      BY <2>2, <3>1, <3>2
  <2>9. ASSUME NEW j \in 1..(n + 1), notified'[j].rule = r, notified'[j].at >= since
        PROVE  \E h \in 1..(Len(t) + 1) : g[h] = j
    <3>1. CASE j = n + 1
      BY <2>4, <2>7, <3>1
    <3>2. CASE j \in 1..n
      <4>1. PICK h \in 1..Len(t) : f[h] = j
        BY <1>5, <2>1, <2>9, <3>2
      <4>2. QED
        BY <2>3, <2>6, <4>1
    <3>3. QED
      BY <1>1, <3>1, <3>2
  <2>10. hits'[r] = u
    BY <1>1, <1>2
  <2> HIDE DEF u
  <2>11. Len(u) = Len(t) + 1
    BY <1>6 DEF u
  <2>12. PICK later : later = notified' /\ Len(later) = n + 1
    BY <1>5
  <2>13. Places(later, r, u, since)
    BY <2>5, <2>8, <2>9, <2>11, <2>12 DEF Places
  <2>14. QED
    BY <2>10, <2>12, <2>13
<1>9. ASSUME NEW q \in Rule, q # r PROVE Places(notified', q, hits'[q], now - Period[q])
  <2>1. PICK f \in [1..Len(hits[q]) -> 1..n] :
          /\ \A h \in 1..Len(hits[q]) : notified[f[h]].at = hits[q][h]
          /\ \A j \in 1..n : notified[j].rule = q /\ notified[j].at >= now - Period[q]
               => \E h \in 1..Len(hits[q]) : f[h] = j
    BY DEF ThrottleInv, Places, n
  <2>2. hits'[q] = hits[q]
    BY <1>1, <1>2, <1>9
  <2>3. f \in [1..Len(hits[q]) -> 1..(n + 1)]
    BY <1>1
  <2>4. \A h \in 1..Len(hits[q]) : notified'[f[h]].at = hits[q][h]
    BY <1>5, <2>1
  <2>5. ASSUME NEW j \in 1..(n + 1), notified'[j].rule = q, notified'[j].at >= now - Period[q]
        PROVE  \E h \in 1..Len(hits[q]) : f[h] = j
    <3>1. j # n + 1
      BY <1>4, <1>5, <1>9, <2>5
    <3>2. j \in 1..n
      BY <1>1, <3>1
    <3>3. QED
      BY <1>5, <2>1, <2>5, <3>2
  <2>6. PICK later : later = notified' /\ Len(later) = n + 1
    BY <1>5
  <2>7. PICK times : times = hits[q] /\ times = hits'[q]
    BY <2>2
  <2>8. Places(later, q, times, now - Period[q])
    BY <2>3, <2>4, <2>5, <2>6, <2>7 DEF Places
  <2>9. QED
    BY <2>6, <2>7, <2>8
<1>10. ThrottleHolds'
  <2> DEFINE In(i, q) == {j \in 1..n : /\ notified[j].rule = q
                                  /\ notified[j].at \in
                                       notified[i].at..(notified[i].at + Period[q])}
             InNext(i, q) == {j \in 1..(n + 1) : /\ notified'[j].rule = q
                                  /\ notified'[j].at \in
                                       notified'[i].at..(notified'[i].at + Period[q])}
             W == {j \in 1..(n + 1) : notified'[j].rule = r /\ notified'[j].at >= since}
  <2>1. IsFiniteSet(W) /\ Cardinality(W) <= Limit[r]
    <3> DEFINE m == Len(t) + 1
    <3>1. m \in Nat /\ m <= Limit[r] /\ n + 1 \in Nat /\ Len(hits'[r]) = m
      BY <1>1, <1>2, <1>3, <1>6
    <3>2. PICK f \in [1..Len(hits'[r]) -> 1..Len(notified')] :
            \A j \in 1..Len(notified') :
              notified'[j].rule = r /\ notified'[j].at >= since
                => \E h \in 1..Len(hits'[r]) : f[h] = j
      BY <1>8 DEF Places
    <3>3. f \in [1..m -> 1..(n + 1)] /\ \A j \in W : \E h \in 1..m : f[h] = j
      BY <1>5, <3>1, <3>2
    <3> HIDE DEF W, m
    <3>4. IsFiniteSet(W) /\ Cardinality(W) <= m
      BY <3>1, <3>3, CoverBound
    <3>5. Cardinality(W) \in Nat /\ Limit[r] \in Nat
      BY <1>1, <3>4, FS_CardinalityType
    <3>6. QED
      BY <3>1, <3>4, <3>5
  <2>2. ASSUME NEW i \in 1..n PROVE Cardinality(In(i, notified[i].rule)) <= Limit[notified[i].rule]
    BY <1>5 DEF ThrottleInv, ThrottleHolds
  <2>3. ASSUME NEW i \in 1..(n + 1)
        PROVE  Cardinality(InNext(i, notified'[i].rule)) <= Limit[notified'[i].rule]
    <3>1. /\ notified'[i].at \in Nat /\ notified'[i].rule \in Rule
          /\ \A j \in 1..(n + 1) : notified'[j].at \in Nat
      <4>1. \A j \in 1..(n + 1) : notified'[j] \in Notification
        BY <1>5
      <4>2. QED
        BY <4>1 DEF Notification
    <3>2. CASE notified'[i].rule = r /\ notified'[i].at >= since
      <4>1. InNext(i, r) \subseteq W
        <5>1. ASSUME NEW j \in 1..(n + 1),
                     notified'[j].at \in notified'[i].at..(notified'[i].at + Period[r])
              PROVE  notified'[j].at >= since
          <6>1. notified'[j].at \in Nat /\ notified'[i].at \in Nat /\ since \in Int
                /\ notified'[i].at <= notified'[j].at
            BY <1>1, <3>1, <5>1
          <6>2. QED
            BY <3>2, <6>1
        <5>2. QED
          BY <5>1
      <4> HIDE DEF W, InNext
      <4>2. Cardinality(InNext(i, r)) <= Cardinality(W) /\ IsFiniteSet(InNext(i, r))
        BY <2>1, <4>1, FS_Subset
      <4>3. Cardinality(InNext(i, r)) \in Nat /\ Cardinality(W) \in Nat
        BY <2>1, <4>2, FS_CardinalityType
      <4>4. QED
        BY <1>1, <2>1, <3>2, <4>2, <4>3
    <3>3. CASE ~(notified'[i].rule = r /\ notified'[i].at >= since)
      <4>1. i # n + 1
        <5>1. now >= since
          BY <1>1
        <5>2. notified'[n + 1].rule = r /\ notified'[n + 1].at = now
          BY <1>4, <1>5
        <5> HIDE DEF since
        <5>3. QED
          BY <3>3, <5>1, <5>2
      <4>2. i \in 1..n /\ notified'[i] = notified[i]
        BY <1>1, <1>5, <4>1
      <4>3. n + 1 \notin InNext(i, notified[i].rule)
        <5>1. SUFFICES ASSUME n + 1 \in InNext(i, notified[i].rule) PROVE FALSE
          OBVIOUS
        <5>2. notified'[n + 1].rule = r /\ notified'[n + 1].at = now
          BY <1>4, <1>5
        <5>3. /\ notified[i].rule = r
              /\ now \in notified'[i].at..(notified'[i].at + Period[r])
          BY <5>1, <5>2
        <5>4. notified'[i].at >= since
          BY <1>1, <3>1, <5>3
        <5> HIDE DEF since, InNext
        <5>5. QED
          BY <3>3, <4>2, <5>3, <5>4
      <4>4. \A j \in 1..(n + 1) : j = n + 1 \/ j \in 1..n
        BY <1>1
      <4>5. InNext(i, notified[i].rule) = In(i, notified[i].rule)
        <5>1. \A j \in 1..n : j \in InNext(i, notified[i].rule) <=> j \in In(i, notified[i].rule)
          <6> TAKE j \in 1..n
          <6>1. j \in 1..(n + 1)
            BY <1>1
          <6>2. notified'[j] = notified[j]
            BY <1>5
          <6>3. QED
            BY <4>2, <6>1, <6>2
        <5>2. /\ \A j \in InNext(i, notified[i].rule) : j \in 1..(n + 1)
              /\ \A j \in In(i, notified[i].rule) : j \in 1..n
          OBVIOUS
        <5> HIDE DEF In, InNext
        <5>3. QED
          BY <4>3, <4>4, <5>1, <5>2
      <4>6. QED
        BY <2>2, <4>2, <4>5
    <3>4. QED
      BY <3>2, <3>3
  <2>4. QED
    BY <1>5, <2>3 DEF ThrottleHolds
<1>11. QED
  BY <1>2, <1>7, <1>8, <1>9, <1>10 DEF ThrottleInv

\* Every step keeps the throttle's invariant.
LEMMA ThrottleNext == ThrottleInv /\ [Next]_vars => ThrottleInv'
<1> SUFFICES ASSUME ThrottleInv, [Next]_vars PROVE ThrottleInv'
  OBVIOUS
<1>1. ASSUME UNCHANGED <<hits, withheld, notified, now, setup>> PROVE ThrottleInv'
  BY <1>1 DEF ThrottleInv, GateTypes, ThrottleHolds
<1>2. CASE Tick
  <2>1. UNCHANGED <<hits, withheld, notified, setup>> /\ now' = now + 1
    BY <1>2 DEF Tick, gateVars
  <2>2. now \in Nat /\ \A j \in 1..Len(notified) : notified[j].at <= now
    BY DEF ThrottleInv, GateTypes
  <2>3. \A j \in 1..Len(notified) : notified[j] \in Notification
    BY DEF ThrottleInv, GateTypes
  <2>4. \A j \in 1..Len(notified) : notified[j].at \in Nat
    BY <2>3 DEF Notification
  <2>5. GateTypes'
    BY <2>1, <2>2, <2>4 DEF ThrottleInv, GateTypes
  <2>6. ASSUME NEW r \in Rule PROVE Places(notified', r, hits'[r], now' - Period[r])
    <3>1. PICK f \in [1..Len(hits[r]) -> 1..Len(notified)] :
            /\ \A h \in 1..Len(hits[r]) : notified[f[h]].at = hits[r][h]
            /\ \A j \in 1..Len(notified) : notified[j].rule = r /\ notified[j].at >= now - Period[r]
                 => \E h \in 1..Len(hits[r]) : f[h] = j
      BY DEF ThrottleInv, Places
    <3>2. \A j \in 1..Len(notified) :
            notified[j].at >= (now + 1) - Period[r] => notified[j].at >= now - Period[r]
      BY <2>2, <2>4, AlertManagerAssumption
    <3>3. \A j \in 1..Len(notified) :
            notified[j].rule = r /\ notified[j].at >= (now + 1) - Period[r]
                 => \E h \in 1..Len(hits[r]) : f[h] = j
      BY <3>1, <3>2
    <3>4. QED
      BY <2>1, <3>1, <3>3 DEF Places
  <2>7. ThrottleHolds'
    BY <2>1 DEF ThrottleInv, ThrottleHolds
  <2>8. QED
    BY <2>5, <2>6, <2>7 DEF ThrottleInv
<1>3. CASE \E r \in setup.rules, e \in setup.keys : Process(r, e)
  <2>1. PICK r \in setup.rules, e \in setup.keys : Process(r, e)
    BY <1>3
  <2>2. r \in Rule
    BY AlertManagerAssumption DEF ThrottleInv, GateTypes
  <2>3. CASE Suppress(r)
    BY <1>1, <2>3 DEF Suppress
  <2>4. CASE Dedup(r, e)
    BY <1>1, <2>4 DEF Dedup
  <2>5. CASE Throttle(r, e)
    <3>1. /\ hits' = [hits EXCEPT ![r] = Recent(r)] /\ withheld' = [withheld EXCEPT ![r] = @ + 1]
          /\ UNCHANGED <<notified, now, setup>>
      BY <2>5 DEF Throttle
    <3>2. Recent(r) \in Seq(Nat) /\ Places(notified, r, Recent(r), now - Period[r])
      BY <2>2, RecentProperties DEF ThrottleInv
    <3>3. GateTypes'
      BY <2>2, <3>1, <3>2 DEF ThrottleInv, GateTypes
    <3>4. \A q \in Rule : hits'[q] = IF q = r THEN Recent(r) ELSE hits[q]
      BY <3>1 DEF ThrottleInv, GateTypes
    <3>5. \A q \in Rule : Places(notified', q, hits'[q], now' - Period[q])
      BY <3>1, <3>2, <3>4 DEF ThrottleInv
    <3>6. ThrottleHolds'
      BY <3>1 DEF ThrottleInv, ThrottleHolds
    <3>7. QED
      BY <3>3, <3>5, <3>6 DEF ThrottleInv
  <2>6. CASE Notify(r, e)
    BY <2>2, <2>6, NotifyThrottle
  <2>7. QED
    BY <2>1, <2>3, <2>4, <2>5, <2>6 DEF Process
<1>4. CASE \/ \E s \in Sink : Worker(s)
           \/ Aclose \/ AcloseAgain \/ AcloseStep
           \/ Closed \/ UNCHANGED vars
  <2>1. UNCHANGED <<gateVars, now, setup>>
    BY <1>4 DEF Worker, WorkerGets, EmitFails, EmitRetries, EmitSucceeds, EmitEnds, Aclose,
       AcloseAgain, AcloseStep, StopLanes, CloseSinks, DrainEnds, StopLane, Closed, vars
  <2>2. QED
    BY <1>1, <2>1 DEF gateVars
<1>5. QED
  BY <1>2, <1>3, <1>4 DEF Next

\* No rule ever notifies more than Limit times in any stretch of its period, however the
\* detections, the ticks of the clock and the trimming of _rule_hits interleave.
THEOREM ThrottleNeverExceeded == Spec => []ThrottleHolds
<1>1. ThrottleInv => ThrottleHolds
  BY DEF ThrottleInv
<1>2. QED
  BY <1>1, ThrottleInit, ThrottleNext, PTL DEF Spec

(***************************************************************************)
(* The lanes.  A lane's counters only add up because stop() is called once  *)
(* per lane and aclose(), at most once more on a queue nobody reads or      *)
(* fills any longer; what reaches the destination is bounded through the    *)
(* attempts of the delivery at hand.                                        *)
(***************************************************************************)

LaneTypes ==
  /\ setup \in Setups
  /\ closing \in {"open", "draining", "stopping", "closed", "again", "reclosed"}
  /\ lanes \subseteq Sink /\ stopped \subseteq Sink
  /\ laneQueue \in [Sink -> Seq(Rule)] /\ worker \in [Sink -> {"none", "get", "emit"}]
  /\ attempt \in [Sink -> Nat] /\ delivered \in [Sink -> Nat] /\ errors \in [Sink -> Nat]
  /\ dropped \in [Sink -> Nat] /\ offered \in [Sink -> Nat] /\ cut \in [Sink -> Nat]
  /\ received \in [Sink -> Nat]

\* Which lanes stop() has been called on, by how far aclose() has got.
ClosePhase ==
  /\ closing \in {"open", "draining"} => stopped = {}
  /\ closing = "stopping" => stopped = setup.sinks \ lanes
  /\ closing \in {"closed", "again", "reclosed"} => stopped = setup.sinks
  /\ closing \in {"stopping", "again"} => lanes \subseteq setup.sinks
  /\ closing \in {"closed", "reclosed"} => lanes = {}

Emitting(s) == IF worker[s] = "emit" THEN 1 ELSE 0
Attempted(s) == delivered[s] + errors[s] + cut[s]
Recounted(s) ==
  IF closing \in {"again", "reclosed"} /\ s \in setup.sinks \ lanes THEN Len(laneQueue[s]) ELSE 0

LaneBalance(s) ==
  IF s \in stopped
  THEN /\ worker[s] = "none" /\ cut[s] <= 1 /\ Len(laneQueue[s]) <= dropped[s]
       /\ offered[s] + Recounted(s) = Attempted(s) + dropped[s]
  ELSE /\ cut[s] = 0
       /\ offered[s] = Attempted(s) + dropped[s] + Len(laneQueue[s]) + Emitting(s)

LaneArrivals(s) ==
  /\ delivered[s] <= received[s]
  /\ received[s] <= Attempted(s) * Retries[s] + attempt[s]
  /\ IF worker[s] = "emit" THEN attempt[s] < Retries[s] ELSE attempt[s] = 0

LaneInv == LaneTypes /\ ClosePhase /\ \A s \in Sink : LaneBalance(s) /\ LaneArrivals(s)

\* The numbers of one lane.
LEMMA LaneNumbers ==
  ASSUME LaneTypes, NEW s \in Sink
  PROVE  /\ delivered[s] \in Nat /\ errors[s] \in Nat /\ cut[s] \in Nat /\ dropped[s] \in Nat
         /\ offered[s] \in Nat /\ received[s] \in Nat /\ attempt[s] \in Nat
         /\ Len(laneQueue[s]) \in Nat /\ laneQueue[s] \in Seq(Rule)
         /\ Attempted(s) \in Nat /\ Retries[s] \in Nat \ {0}
         /\ Emitting(s) \in {0, 1} /\ Recounted(s) \in Nat
<1>1. laneQueue[s] \in Seq(Rule) /\ Len(laneQueue[s]) \in Nat
  BY DEF LaneTypes
<1>2. QED
  BY <1>1, AlertManagerAssumption DEF LaneTypes, Attempted, Emitting, Recounted

\* One more attempted delivery, in copies.
LEMMA OneMore ==
  ASSUME NEW a \in Nat, NEW b \in Nat, NEW r \in Nat
  PROVE  /\ a * r \in Nat /\ (a + 1) * r = a * r + r
         /\ a <= b => a * r <= b * r
OBVIOUS

\* What the lanes promise follows.
LEMMA LaneInvAccounts == LaneInv => LaneAccounted
<1> SUFFICES ASSUME LaneInv, NEW s \in Sink
             PROVE  LET waiting == Len(laneQueue[s]) + (IF worker[s] = "emit" THEN 1 ELSE 0)
                    IN  /\ closing \notin {"again", "reclosed"} =>
                             offered[s] = delivered[s] + errors[s] + dropped[s] + cut[s]
                                          + (IF s \in stopped THEN 0 ELSE waiting)
                        /\ cut[s] <= 1
                        /\ received[s] \in delivered[s]..(offered[s] * Retries[s])
  BY DEF LaneAccounted
<1> DEFINE w == Len(laneQueue[s]) + Emitting(s)
           a == Attempted(s)
           r == Retries[s]
<1>1. /\ delivered[s] \in Nat /\ errors[s] \in Nat /\ cut[s] \in Nat /\ dropped[s] \in Nat
      /\ offered[s] \in Nat /\ received[s] \in Nat /\ attempt[s] \in Nat
      /\ Len(laneQueue[s]) \in Nat /\ a \in Nat /\ r \in Nat \ {0}
      /\ Emitting(s) \in {0, 1} /\ Recounted(s) \in Nat
  BY LaneNumbers DEF LaneInv
<1>2. LaneBalance(s) /\ LaneArrivals(s) /\ ClosePhase
  BY DEF LaneInv
<1>3. a = delivered[s] + errors[s] + cut[s]
  BY DEF Attempted
<1>4. s \notin stopped => Recounted(s) = 0
  BY <1>2 DEF Recounted, ClosePhase
<1>5. /\ offered[s] + Recounted(s) = a + dropped[s] + (IF s \in stopped THEN 0 ELSE w)
      /\ cut[s] <= 1
  <2>1. CASE s \in stopped
    <3>1. cut[s] <= 1 /\ offered[s] + Recounted(s) = a + dropped[s]
      BY <1>2, <2>1 DEF LaneBalance
    <3> HIDE DEF a, w
    <3>2. QED
      BY <1>1, <2>1, <3>1
  <2>2. CASE s \notin stopped
    <3>1. cut[s] = 0 /\ offered[s] = a + dropped[s] + Len(laneQueue[s]) + Emitting(s)
      BY <1>2, <2>2 DEF LaneBalance
    <3> HIDE DEF a
    <3>2. QED
      BY <1>1, <1>4, <2>2, <3>1
  <2>3. QED
    BY <2>1, <2>2
<1>6. a + Emitting(s) <= offered[s]
  <2>1. CASE s \in stopped
    <3>1. Emitting(s) = 0 /\ Recounted(s) <= Len(laneQueue[s]) /\ Len(laneQueue[s]) <= dropped[s]
      BY <1>1, <1>2, <2>1 DEF LaneBalance, Emitting, Recounted
    <3>2. QED
      BY <1>1, <1>5, <2>1, <3>1
  <2>2. CASE s \notin stopped
    BY <1>1, <1>4, <1>5, <2>2
  <2>3. QED
    BY <2>1, <2>2
<1>7. received[s] <= offered[s] * r
  <2> HIDE DEF a, r
  <2>1. received[s] <= a * r + attempt[s]
    BY <1>2 DEF LaneArrivals, a, r
  <2>2. CASE Emitting(s) = 1
    <3>1. attempt[s] < r
      BY <1>2, <2>2 DEF LaneArrivals, Emitting, r
    <3>2. (a + 1) * r = a * r + r /\ a * r \in Nat
      BY <1>1, OneMore
    <3>3. (a + 1) * r <= offered[s] * r /\ offered[s] * r \in Nat
      <4>1. a + 1 \in Nat /\ a + 1 <= offered[s]
        BY <1>1, <1>6, <2>2
      <4>2. QED
        BY <1>1, <4>1, OneMore
    <3>4. QED
      BY <1>1, <2>1, <3>1, <3>2, <3>3
  <2>3. CASE Emitting(s) = 0
    <3>1. attempt[s] = 0
      BY <1>2, <2>3 DEF LaneArrivals, Emitting
    <3>2. a <= offered[s]
      BY <1>1, <1>6
    <3>3. a * r <= offered[s] * r /\ a * r \in Nat /\ offered[s] * r \in Nat
      BY <1>1, <3>2, OneMore
    <3>4. QED
      BY <1>1, <2>1, <3>1, <3>3
  <2>4. QED
    BY <1>1, <2>2, <2>3
<1>8. received[s] \in delivered[s]..(offered[s] * Retries[s])
  <2>1. offered[s] * r \in Nat
    BY <1>1, OneMore
  <2>2. received[s] \in Nat /\ delivered[s] \in Nat /\ delivered[s] <= received[s]
    BY <1>1, <1>2 DEF LaneArrivals
  <2>3. PICK z \in Nat : z = offered[s] * r
    BY <2>1
  <2>4. received[s] \in delivered[s]..z
    BY <1>7, <2>2, <2>3
  <2>5. QED
    BY <2>3, <2>4
<1>9. offered[s] + Recounted(s)
        = delivered[s] + errors[s] + dropped[s] + cut[s] + (IF s \in stopped THEN 0 ELSE w)
  <2>1. w \in Nat
    BY <1>1
  <2>2. PICK left \in Nat : left = IF s \in stopped THEN 0 ELSE w
    BY <2>1
  <2> HIDE DEF a, w
  <2>3. offered[s] + Recounted(s) = a + dropped[s] + left
    BY <1>5, <2>2
  <2>4. a + dropped[s] + left = delivered[s] + errors[s] + dropped[s] + cut[s] + left
    <3>1. PICK x \in Nat, y \in Nat, z \in Nat, v \in Nat :
            x = delivered[s] /\ y = errors[s] /\ z = cut[s] /\ v = dropped[s]
      BY <1>1
    <3>2. (x + y + z) + v + left = x + y + v + z + left
      OBVIOUS
    <3>3. QED
      BY <1>3, <3>1, <3>2
  <2>5. QED
    BY <2>2, <2>3, <2>4
<1>10. closing \notin {"again", "reclosed"} =>
         offered[s] = delivered[s] + errors[s] + dropped[s] + cut[s]
                      + (IF s \in stopped THEN 0 ELSE w)
  <2> SUFFICES ASSUME closing \notin {"again", "reclosed"}
               PROVE  offered[s] = delivered[s] + errors[s] + dropped[s] + cut[s]
                                   + (IF s \in stopped THEN 0 ELSE w)
    OBVIOUS
  <2>1. Recounted(s) = 0
    BY DEF Recounted
  <2>2. offered[s] + 0 = offered[s]
    BY <1>1
  <2>3. QED
    BY <1>9, <2>1, <2>2
<1>11. QED
  BY <1>5, <1>8, <1>10 DEF Emitting

\* A lane no step touches.
LEMMA LaneKept ==
  ASSUME LaneInv, NEW s \in Sink,
         /\ laneQueue'[s] = laneQueue[s] /\ worker'[s] = worker[s] /\ attempt'[s] = attempt[s]
         /\ delivered'[s] = delivered[s] /\ errors'[s] = errors[s] /\ dropped'[s] = dropped[s]
         /\ offered'[s] = offered[s] /\ cut'[s] = cut[s] /\ received'[s] = received[s],
         s \in stopped' <=> s \in stopped, Recounted(s)' = Recounted(s)
  PROVE  LaneBalance(s)' /\ LaneArrivals(s)'
<1>1. LaneBalance(s) /\ LaneArrivals(s)
  BY DEF LaneInv
<1>2. Attempted(s)' = Attempted(s) /\ Emitting(s)' = Emitting(s)
  BY DEF Attempted, Emitting
<1>3. LaneBalance(s)'
  BY <1>1, <1>2 DEF LaneBalance
<1>4. LaneArrivals(s)'
  BY <1>1, <1>2 DEF LaneArrivals
<1>5. QED
  BY <1>3, <1>4

\* The lanes start empty.
LEMMA LaneInit == Init => LaneInv
<1> SUFFICES ASSUME Init PROVE LaneInv
  OBVIOUS
<1>1. LaneTypes /\ ClosePhase
  BY DEF Init, LaneTypes, ClosePhase, Zeros
<1>2. ASSUME NEW s \in Sink PROVE LaneBalance(s) /\ LaneArrivals(s)
  <2>1. /\ delivered[s] = 0 /\ errors[s] = 0 /\ cut[s] = 0 /\ dropped[s] = 0 /\ offered[s] = 0
        /\ received[s] = 0 /\ attempt[s] = 0 /\ Len(laneQueue[s]) = 0 /\ worker[s] = "none"
        /\ stopped = {}
    BY DEF Init, Zeros
  <2>2. Attempted(s) = 0 /\ Emitting(s) = 0 /\ 0 * Retries[s] = 0
    BY <2>1, AlertManagerAssumption DEF Attempted, Emitting
  <2>3. QED
    BY <2>1, <2>2 DEF LaneBalance, LaneArrivals
<1>3. QED
  BY <1>1, <1>2 DEF LaneInv

\* A step that changes how far aclose() has got, and no lane.
LEMMA LanesKept ==
  ASSUME LaneInv, UNCHANGED laneVars, LaneTypes', ClosePhase',
         \A s \in Sink : Recounted(s)' = Recounted(s)
  PROVE  LaneInv'
<1>1. ASSUME NEW s \in Sink PROVE LaneBalance(s)' /\ LaneArrivals(s)'
  BY LaneKept DEF laneVars
<1>2. QED
  BY <1>1 DEF LaneInv

\* offer(): started, queued, or dropped and counted.
LEMMA OfferLanes ==
  ASSUME LaneInv, NEW r \in Rule, Offer(r), closing = "open", UNCHANGED <<closing, lanes, setup>>
  PROVE  LaneInv'
<1> DEFINE routed(s) == s \in setup.sinks /\ r \in Accepts[s]
           full(s)   == Len(laneQueue[s]) >= SinkQueueSize
<1>1. /\ worker' = [s \in Sink |->
            IF routed(s) /\ worker[s] = "none" THEN "get" ELSE worker[s]]
      /\ laneQueue' = [s \in Sink |->
            IF routed(s) /\ ~full(s) THEN Append(laneQueue[s], r) ELSE laneQueue[s]]
      /\ dropped' = [s \in Sink |->
            IF routed(s) /\ full(s) THEN dropped[s] + 1 ELSE dropped[s]]
      /\ offered' = [s \in Sink |-> IF routed(s) THEN offered[s] + 1 ELSE offered[s]]
      /\ UNCHANGED <<delivered, errors, cut, stopped, attempt, received>>
  BY DEF Offer
<1> HIDE DEF routed, full
<1>2. LaneTypes /\ ClosePhase /\ stopped = {}
  BY DEF LaneInv, ClosePhase
<1>3. \A s \in Sink : /\ laneQueue[s] \in Seq(Rule) /\ Append(laneQueue[s], r) \in Seq(Rule)
                      /\ Len(laneQueue[s]) \in Nat
                      /\ Len(Append(laneQueue[s], r)) = Len(laneQueue[s]) + 1
  BY <1>2, LaneNumbers
<1>4. LaneTypes'
  <2>1. laneQueue' \in [Sink -> Seq(Rule)]
    BY <1>1, <1>3
  <2>2. /\ worker' \in [Sink -> {"none", "get", "emit"}] /\ dropped' \in [Sink -> Nat]
        /\ offered' \in [Sink -> Nat]
    BY <1>1, <1>2 DEF LaneTypes
  <2>3. QED
    BY <1>1, <1>2, <2>1, <2>2 DEF LaneTypes
<1>5. ClosePhase'
  BY <1>1, <1>2 DEF ClosePhase
<1>6. ASSUME NEW s \in Sink PROVE LaneBalance(s)' /\ LaneArrivals(s)'
  <2>1. LaneBalance(s) /\ LaneArrivals(s)
    BY DEF LaneInv
  <2>2. Attempted(s)' = Attempted(s) /\ (worker'[s] = "emit" <=> worker[s] = "emit")
    BY <1>1 DEF Attempted
  <2>3. LaneArrivals(s)'
    BY <1>1, <2>1, <2>2 DEF LaneArrivals
  <2>4. Emitting(s)' = Emitting(s)
    BY <2>2 DEF Emitting
  <2>5. cut[s] = 0 /\ offered[s] = Attempted(s) + dropped[s] + Len(laneQueue[s]) + Emitting(s)
    BY <1>2, <2>1 DEF LaneBalance
  <2>6. /\ Attempted(s) \in Nat /\ dropped[s] \in Nat /\ Len(laneQueue[s]) \in Nat
        /\ Emitting(s) \in Nat
    BY <1>2, LaneNumbers
  <2>7. offered'[s] = Attempted(s) + dropped'[s] + Len(laneQueue'[s]) + Emitting(s)
    <3>1. CASE ~routed(s)
      <4>1. /\ offered'[s] = offered[s] /\ dropped'[s] = dropped[s]
            /\ laneQueue'[s] = laneQueue[s]
        BY <1>1, <3>1
      <4>2. QED
        BY <2>5, <4>1
    <3>2. CASE routed(s) /\ full(s)
      <4>1. /\ offered'[s] = offered[s] + 1 /\ dropped'[s] = dropped[s] + 1
            /\ laneQueue'[s] = laneQueue[s]
        BY <1>1, <3>2
      <4>2. QED
        BY <2>5, <2>6, <4>1
    <3>3. CASE routed(s) /\ ~full(s)
      <4>1. /\ offered'[s] = offered[s] + 1 /\ dropped'[s] = dropped[s]
            /\ Len(laneQueue'[s]) = Len(laneQueue[s]) + 1
        BY <1>1, <1>3, <3>3
      <4>2. PICK a, d, l, e \in Nat : /\ a = Attempted(s) /\ d = dropped[s]
                                     /\ l = Len(laneQueue[s]) /\ e = Emitting(s)
        BY <2>6
      <4>3. offered[s] = a + d + l + e
        BY <2>5, <4>2
      <4>4. (a + d + l + e) + 1 = a + d + (l + 1) + e
        OBVIOUS
      <4>5. QED
        BY <4>1, <4>2, <4>3, <4>4
    <3>4. QED
      BY <3>1, <3>2, <3>3
  <2>8. LaneBalance(s)'
    BY <1>1, <1>2, <2>2, <2>4, <2>5, <2>7 DEF LaneBalance
  <2>9. QED
    BY <2>3, <2>8
<1>7. QED
  BY <1>4, <1>5, <1>6 DEF LaneInv

\* The delivery worker: it takes a notification, tries it once more, or is done with it.
LEMMA WorkerLanes ==
  ASSUME LaneInv, NEW s \in Sink, Worker(s)
  PROVE  LaneInv'
<1>1. LaneTypes /\ ClosePhase /\ LaneBalance(s) /\ LaneArrivals(s)
  BY DEF LaneInv
<1>2. /\ UNCHANGED <<dropped, offered, cut, stopped, closing, lanes, setup>>
      /\ worker[s] \in {"get", "emit"}
  BY DEF Worker, WorkerGets, EmitFails, EmitRetries, EmitSucceeds, EmitEnds
<1>3. ClosePhase'
  BY <1>1, <1>2 DEF ClosePhase
<1>4. /\ delivered[s] \in Nat /\ errors[s] \in Nat /\ cut[s] \in Nat /\ dropped[s] \in Nat
      /\ offered[s] \in Nat /\ received[s] \in Nat /\ attempt[s] \in Nat
      /\ Len(laneQueue[s]) \in Nat /\ laneQueue[s] \in Seq(Rule)
      /\ Attempted(s) \in Nat /\ Retries[s] \in Nat \ {0}
  BY <1>1, LaneNumbers
<1>5. /\ s \notin stopped /\ cut[s] = 0
      /\ offered[s] = Attempted(s) + dropped[s] + Len(laneQueue[s]) + Emitting(s)
  BY <1>1, <1>2 DEF LaneBalance
<1>6. PICK a \in Nat : a = Attempted(s)
  BY <1>4
<1>7. PICK R \in Nat \ {0} : R = Retries[s]
  BY <1>4
<1>8. a * R \in Nat /\ (a + 1) * R = a * R + R
  BY OneMore
<1>9. received[s] <= a * R + attempt[s] /\ delivered[s] <= received[s]
  BY <1>1, <1>6, <1>7 DEF LaneArrivals
<1>10. ASSUME NEW t \in Sink, t # s, LaneTypes',
              /\ laneQueue'[t] = laneQueue[t] /\ worker'[t] = worker[t]
              /\ attempt'[t] = attempt[t] /\ received'[t] = received[t]
              /\ delivered'[t] = delivered[t] /\ errors'[t] = errors[t]
       PROVE  LaneBalance(t)' /\ LaneArrivals(t)'
  <2>1. Recounted(t)' = Recounted(t)
    BY <1>2, <1>10 DEF Recounted
  <2>2. QED
    BY <1>2, <1>10, <2>1, LaneKept
<1>11. CASE WorkerGets(s)
  <2>1. /\ worker[s] = "get" /\ laneQueue[s] # <<>>
        /\ worker' = [worker EXCEPT ![s] = "emit"]
        /\ laneQueue' = [laneQueue EXCEPT ![s] = Tail(@)]
        /\ UNCHANGED <<attempt, received, delivered, errors>>
    BY <1>11 DEF WorkerGets
  <2>2. Tail(laneQueue[s]) \in Seq(Rule) /\ Len(Tail(laneQueue[s])) = Len(laneQueue[s]) - 1
    BY <1>4, <2>1
  <2>3. LaneTypes'
    BY <1>1, <1>2, <2>1, <2>2 DEF LaneTypes
  <2>4. /\ worker'[s] = "emit" /\ laneQueue'[s] = Tail(laneQueue[s])
        /\ Emitting(s) = 0 /\ Emitting(s)' = 1 /\ Attempted(s)' = Attempted(s)
    BY <1>1, <1>2, <2>1 DEF LaneTypes, Emitting, Attempted
  <2>5. offered[s] = Attempted(s) + dropped[s] + Len(laneQueue'[s]) + 1
    BY <1>4, <1>5, <2>2, <2>4
  <2>6. LaneBalance(s)'
    BY <1>2, <1>5, <2>4, <2>5 DEF LaneBalance
  <2>7. LaneArrivals(s)'
    <3>1. attempt[s] = 0 /\ attempt[s] < Retries[s]
      BY <1>1, <1>4, <2>1 DEF LaneArrivals
    <3>2. QED
      BY <1>1, <2>1, <2>4, <3>1 DEF LaneArrivals
  <2>8. ASSUME NEW t \in Sink, t # s PROVE LaneBalance(t)' /\ LaneArrivals(t)'
    BY <1>1, <1>10, <2>1, <2>3, <2>8 DEF LaneTypes
  <2>9. QED
    BY <1>3, <2>3, <2>6, <2>7, <2>8 DEF LaneInv
<1>12. CASE EmitRetries(s)
  <2>1. /\ worker[s] = "emit" /\ attempt[s] < Retries[s] - 1
        /\ attempt' = [attempt EXCEPT ![s] = @ + 1]
        /\ UNCHANGED <<laneQueue, worker, delivered, errors>>
    BY <1>12 DEF EmitRetries
  <2>2. PICK n \in 0..1 : received' = [received EXCEPT ![s] = @ + n]
    BY <1>12 DEF EmitRetries, MaybeReceived
  <2>3. /\ attempt'[s] = attempt[s] + 1 /\ received'[s] = received[s] + n
        /\ Attempted(s)' = Attempted(s) /\ Emitting(s)' = Emitting(s)
    BY <1>1, <1>2, <2>1, <2>2 DEF LaneTypes, Attempted, Emitting
  <2>4. LaneTypes'
    <3>1. attempt' \in [Sink -> Nat] /\ received' \in [Sink -> Nat]
      BY <1>1, <2>1, <2>2 DEF LaneTypes
    <3>2. QED
      BY <1>1, <1>2, <2>1, <3>1 DEF LaneTypes
  <2>5. LaneBalance(s)'
    BY <1>2, <1>5, <2>1, <2>3 DEF LaneBalance
  <2>6. LaneArrivals(s)'
    <3>1. PICK p \in Nat : p = a * R
      BY <1>8
    <3>2. /\ received[s] <= p + attempt[s] /\ attempt[s] < R - 1 /\ delivered[s] <= received[s]
          /\ received[s] \in Nat /\ delivered[s] \in Nat /\ attempt[s] \in Nat
      BY <1>4, <1>7, <1>9, <2>1, <3>1
    <3>3. /\ delivered[s] <= received[s] + n /\ attempt[s] + 1 < R
          /\ received[s] + n <= p + (attempt[s] + 1)
      BY <3>2
    <3>4. QED
      BY <1>6, <1>7, <2>1, <2>3, <3>1, <3>3 DEF LaneArrivals
  <2>7. ASSUME NEW t \in Sink, t # s PROVE LaneBalance(t)' /\ LaneArrivals(t)'
    BY <1>1, <1>10, <2>1, <2>2, <2>4, <2>7 DEF LaneTypes
  <2>8. QED
    BY <1>3, <2>4, <2>5, <2>6, <2>7 DEF LaneInv
<1>13. CASE EmitFails(s) \/ EmitSucceeds(s)
  <2>1. /\ worker[s] = "emit" /\ worker' = [worker EXCEPT ![s] = "get"]
        /\ attempt' = [attempt EXCEPT ![s] = 0] /\ UNCHANGED laneQueue
    BY <1>13 DEF EmitFails, EmitSucceeds, EmitEnds
  <2>2. PICK d \in 0..1, n \in 0..1 :
          /\ d <= n /\ received' = [received EXCEPT ![s] = @ + n]
          /\ delivered' = [delivered EXCEPT ![s] = @ + d]
          /\ errors' = [errors EXCEPT ![s] = @ + (1 - d)]
    <3>1. CASE EmitFails(s)
      <4>1. PICK n \in 0..1 : received' = [received EXCEPT ![s] = @ + n]
        BY <3>1 DEF EmitFails, MaybeReceived
      <4>2. errors' = [errors EXCEPT ![s] = @ + (1 - 0)]
        BY <3>1 DEF EmitFails
      <4>3. delivered' = [delivered EXCEPT ![s] = @ + 0]
        BY <1>1, <3>1 DEF EmitFails, LaneTypes
      <4>4. 0 \in 0..1 /\ 0 <= n
        OBVIOUS
      <4>5. QED
        BY <4>1, <4>2, <4>3, <4>4
    <3>2. CASE EmitSucceeds(s)
      <4>1. /\ received' = [received EXCEPT ![s] = @ + 1]
            /\ delivered' = [delivered EXCEPT ![s] = @ + 1]
        BY <3>2 DEF EmitSucceeds
      <4>2. errors' = [errors EXCEPT ![s] = @ + (1 - 1)]
        BY <1>1, <3>2 DEF EmitSucceeds, LaneTypes
      <4>3. 1 \in 0..1 /\ 1 <= 1
        OBVIOUS
      <4>4. QED
        BY <4>1, <4>2, <4>3
    <3>3. QED
      BY <1>13, <3>1, <3>2
  <2>3. LaneTypes'
    <3>1. /\ attempt' \in [Sink -> Nat] /\ received' \in [Sink -> Nat]
          /\ worker' \in [Sink -> {"none", "get", "emit"}]
      BY <1>1, <2>1, <2>2 DEF LaneTypes
    <3>2. delivered' \in [Sink -> Nat] /\ errors' \in [Sink -> Nat]
      <4>1. delivered \in [Sink -> Nat] /\ errors \in [Sink -> Nat]
        BY <1>1 DEF LaneTypes
      <4>2. delivered[s] + d \in Nat /\ errors[s] + (1 - d) \in Nat
        BY <4>1
      <4>3. delivered' \in [Sink -> Nat]
        BY <2>2, <4>1, <4>2
      <4>4. errors' \in [Sink -> Nat]
        BY <2>2, <4>1, <4>2
      <4>5. QED
        BY <4>3, <4>4
    <3>3. QED
      BY <1>1, <1>2, <2>1, <3>1, <3>2 DEF LaneTypes
  <2>4. /\ attempt'[s] = 0 /\ received'[s] = received[s] + n /\ worker'[s] = "get"
        /\ delivered'[s] = delivered[s] + d /\ errors'[s] = errors[s] + (1 - d)
    BY <1>1, <2>1, <2>2 DEF LaneTypes
  <2>5. Attempted(s)' = a + 1 /\ Emitting(s) = 1 /\ Emitting(s)' = 0
    <3>1. a = delivered[s] + errors[s] + cut[s] /\ cut'[s] = cut[s]
      BY <1>2, <1>6 DEF Attempted
    <3>2. Attempted(s)' = delivered'[s] + errors'[s] + cut'[s]
      BY DEF Attempted
    <3>3. d \in Int /\ delivered[s] \in Int /\ errors[s] \in Int /\ cut[s] \in Int
      BY <1>4
    <3>4. (delivered[s] + d) + (errors[s] + (1 - d)) + cut[s] = a + 1
      BY <3>1, <3>3
    <3>5. Attempted(s)' = a + 1
      BY <2>4, <3>1, <3>2, <3>4
    <3>6. QED
      BY <2>1, <2>4, <3>5 DEF Emitting
  <2>6. offered[s] = (a + 1) + dropped[s] + Len(laneQueue[s]) + 0
    <3>1. offered[s] = a + dropped[s] + Len(laneQueue[s]) + 1
      BY <1>5, <1>6, <2>5
    <3>2. PICK q \in Nat : q = Len(laneQueue[s])
      BY <1>4
    <3>3. dropped[s] \in Nat
      BY <1>4
    <3>4. a + dropped[s] + q + 1 = (a + 1) + dropped[s] + q + 0
      BY <3>3
    <3>5. QED
      BY <3>1, <3>2, <3>4
  <2>7. LaneBalance(s)'
    BY <1>2, <1>5, <2>1, <2>5, <2>6 DEF LaneBalance
  <2>8. LaneArrivals(s)'
    <3>1. attempt[s] < R
      BY <1>1, <1>7, <2>1 DEF LaneArrivals
    <3>2. delivered'[s] <= received'[s]
      BY <1>4, <1>9, <2>2, <2>4
    <3>3. received'[s] <= (a + 1) * R + 0
      BY <1>4, <1>8, <1>9, <2>4, <3>1
    <3>4. QED
      BY <1>7, <2>4, <2>5, <3>2, <3>3 DEF LaneArrivals
  <2>9. ASSUME NEW t \in Sink, t # s PROVE LaneBalance(t)' /\ LaneArrivals(t)'
    BY <1>1, <1>10, <2>1, <2>2, <2>3, <2>9 DEF LaneTypes
  <2>10. QED
    BY <1>3, <2>3, <2>7, <2>8, <2>9 DEF LaneInv
<1>14. QED
  BY <1>11, <1>12, <1>13 DEF Worker

\* stop() of one lane: what it abandons it counts, and only a delivery in flight is cut.
LEMMA StopLaneLanes ==
  ASSUME LaneInv, NEW s \in Sink, StopLane(s)
  PROVE  LaneInv'
<1>1. LaneTypes /\ ClosePhase /\ LaneBalance(s) /\ LaneArrivals(s)
  BY DEF LaneInv
<1>2. /\ closing \in {"stopping", "again"} /\ s \in lanes
      /\ dropped' = [dropped EXCEPT ![s] = @ + Len(laneQueue[s])]
      /\ cut' = [cut EXCEPT ![s] = IF worker[s] = "emit" THEN @ + 1 ELSE @]
      /\ worker' = [worker EXCEPT ![s] = "none"] /\ attempt' = [attempt EXCEPT ![s] = 0]
      /\ stopped' = stopped \cup {s} /\ lanes' = lanes \ {s}
      /\ UNCHANGED <<laneQueue, delivered, errors, offered, closing, setup>>
  BY DEF StopLane
<1>3. PICK n \in 0..1 : /\ received' = [received EXCEPT ![s] = @ + n]
                        /\ worker[s] # "emit" => n = 0
  <2>1. CASE worker[s] = "emit"
    BY <2>1 DEF StopLane, MaybeReceived
  <2>2. CASE worker[s] # "emit"
    <3>1. received' = received
      BY <2>2 DEF StopLane
    <3>2. received = [received EXCEPT ![s] = @ + 0]
      BY <1>1 DEF LaneTypes
    <3>3. 0 \in 0..1
      OBVIOUS
    <3>4. QED
      BY <3>1, <3>2, <3>3
  <2>3. QED
    BY <2>1, <2>2
<1>4. /\ delivered[s] \in Nat /\ errors[s] \in Nat /\ cut[s] \in Nat /\ dropped[s] \in Nat
      /\ offered[s] \in Nat /\ received[s] \in Nat /\ attempt[s] \in Nat
      /\ Attempted(s) \in Nat /\ Retries[s] \in Nat \ {0}
  BY <1>1, LaneNumbers
<1>5. PICK q \in Nat : q = Len(laneQueue[s])
  BY <1>1, LaneNumbers
<1>6. LaneTypes'
  <2>1. /\ dropped' \in [Sink -> Nat] /\ cut' \in [Sink -> Nat] /\ received' \in [Sink -> Nat]
        /\ attempt' \in [Sink -> Nat]
    BY <1>1, <1>2, <1>3, <1>5 DEF LaneTypes
  <2>2. worker' \in [Sink -> {"none", "get", "emit"}]
    BY <1>1, <1>2 DEF LaneTypes
  <2>3. QED
    BY <1>1, <1>2, <2>1, <2>2 DEF LaneTypes
<1>7. ClosePhase'
  BY <1>1, <1>2 DEF ClosePhase
<1>8. /\ dropped'[s] = dropped[s] + q /\ worker'[s] = "none" /\ attempt'[s] = 0
      /\ cut'[s] = cut[s] + Emitting(s) /\ received'[s] = received[s] + n
      /\ s \in stopped' /\ Attempted(s)' = delivered[s] + errors[s] + cut'[s]
  BY <1>1, <1>2, <1>3, <1>4, <1>5 DEF LaneTypes, Emitting, Attempted
<1>9. Attempted(s)' = Attempted(s) + Emitting(s) /\ Emitting(s) \in Nat
  <2>1. Emitting(s) \in Nat
    BY DEF Emitting
  <2>2. QED
    BY <1>4, <1>8, <2>1 DEF Attempted
<1>10. LaneBalance(s)'
  <2>1. CASE closing = "stopping"
    <3>1. s \notin stopped /\ Recounted(s)' = 0
      BY <1>1, <1>2, <2>1 DEF ClosePhase, Recounted
    <3>2. cut[s] = 0 /\ offered[s] = Attempted(s) + dropped[s] + q + Emitting(s)
      BY <1>1, <1>5, <3>1 DEF LaneBalance
    <3>3. /\ cut'[s] <= 1 /\ q <= dropped'[s]
          /\ offered[s] + 0 = Attempted(s)' + dropped'[s]
      <4>1. Emitting(s) \in {0, 1}
        BY DEF Emitting
      <4>2. QED
        BY <1>4, <1>8, <1>9, <3>2, <4>1
    <3>4. QED
      BY <1>2, <1>5, <1>8, <3>1, <3>3 DEF LaneBalance
  <2>2. CASE closing = "again"
    <3>1. s \in stopped /\ Recounted(s) = 0 /\ Recounted(s)' = q
      BY <1>1, <1>2, <1>5, <2>2 DEF ClosePhase, Recounted
    <3>2. /\ worker[s] = "none" /\ cut[s] <= 1 /\ q <= dropped[s]
          /\ offered[s] + 0 = Attempted(s) + dropped[s]
      BY <1>1, <1>5, <3>1 DEF LaneBalance
    <3>3. Emitting(s) = 0
      BY <3>2 DEF Emitting
    <3>4. /\ cut'[s] <= 1 /\ q <= dropped'[s]
          /\ offered[s] + q = Attempted(s)' + dropped'[s]
      BY <1>4, <1>8, <1>9, <3>2, <3>3
    <3>5. QED
      BY <1>2, <1>5, <1>8, <3>1, <3>4 DEF LaneBalance
  <2>3. QED
    BY <1>2, <2>1, <2>2
<1>11. LaneArrivals(s)'
  <2>1. PICK a \in Nat : a = Attempted(s)
    BY <1>4
  <2>2. PICK R \in Nat \ {0} : R = Retries[s]
    BY <1>4
  <2>3. a * R \in Nat /\ (a + 1) * R = a * R + R
    BY OneMore
  <2>4. PICK p \in Nat : p = a * R
    BY <2>3
  <2>5. /\ received[s] <= p + attempt[s] /\ delivered[s] <= received[s]
        /\ IF worker[s] = "emit" THEN attempt[s] < R ELSE attempt[s] = 0
    BY <1>1, <2>1, <2>2, <2>4 DEF LaneArrivals
  <2>6. delivered[s] <= received[s] + n
    BY <1>4, <2>5
  <2>7. CASE worker[s] = "emit"
    <3>1. Attempted(s)' = a + 1 /\ (a + 1) * R = p + R
      BY <1>9, <2>1, <2>3, <2>4, <2>7 DEF Emitting
    <3>2. received[s] + n <= p + R
      BY <1>4, <2>5, <2>7
    <3>3. QED
      <4>1. received'[s] <= Attempted(s)' * R + 0
        <5>1. p + R + 0 = p + R
          OBVIOUS
        <5>2. QED
          BY <1>8, <3>1, <3>2, <5>1
      <4>2. QED
        BY <1>2, <1>8, <2>2, <2>6, <4>1 DEF LaneArrivals
  <2>8. CASE worker[s] # "emit"
    <3>1. Attempted(s)' = a /\ n = 0 /\ attempt[s] = 0
      BY <1>3, <1>9, <2>1, <2>5, <2>8 DEF Emitting
    <3>2. received[s] + n <= p + 0
      BY <1>4, <2>5, <3>1
    <3>3. QED
      BY <1>2, <1>8, <2>2, <2>4, <2>6, <3>1, <3>2 DEF LaneArrivals
  <2>9. QED
    BY <2>7, <2>8
<1>12. ASSUME NEW t \in Sink, t # s PROVE LaneBalance(t)' /\ LaneArrivals(t)'
  <2>1. Recounted(t)' = Recounted(t) /\ (t \in stopped' <=> t \in stopped)
    BY <1>2, <1>12 DEF Recounted
  <2>2. /\ laneQueue'[t] = laneQueue[t] /\ worker'[t] = worker[t] /\ attempt'[t] = attempt[t]
        /\ delivered'[t] = delivered[t] /\ errors'[t] = errors[t] /\ dropped'[t] = dropped[t]
        /\ offered'[t] = offered[t] /\ cut'[t] = cut[t] /\ received'[t] = received[t]
    BY <1>1, <1>2, <1>3, <1>12 DEF LaneTypes
  <2>3. QED
    BY <2>1, <2>2, LaneKept
<1>13. QED
  BY <1>6, <1>7, <1>10, <1>11, <1>12 DEF LaneInv

\* Every step keeps the lanes' books.
LEMMA LaneNext == LaneInv /\ [Next]_vars => LaneInv'
<1> SUFFICES ASSUME LaneInv, [Next]_vars PROVE LaneInv'
  OBVIOUS
<1>0. LaneTypes /\ ClosePhase
  BY DEF LaneInv
<1>1. ASSUME UNCHANGED <<laneVars, closing, lanes, setup>> PROVE LaneInv'
  <2>1. LaneTypes' /\ ClosePhase'
    BY <1>0, <1>1 DEF LaneTypes, ClosePhase, laneVars
  <2>2. \A s \in Sink : Recounted(s)' = Recounted(s)
    BY <1>1 DEF Recounted, laneVars
  <2>3. QED
    BY <1>1, <2>1, <2>2, LanesKept
<1>2. CASE \E r \in setup.rules, e \in setup.keys : Process(r, e)
  <2>1. PICK r \in setup.rules, e \in setup.keys : Process(r, e)
    BY <1>2
  <2>2. r \in Rule
    BY <1>0, AlertManagerAssumption DEF LaneTypes
  <2>3. CASE Suppress(r) \/ Dedup(r, e) \/ Throttle(r, e)
    BY <1>1, <2>3 DEF Suppress, Dedup, Throttle
  <2>4. CASE Notify(r, e)
    BY <2>2, <2>4, OfferLanes DEF Notify, Fresh, Accepting
  <2>5. QED
    BY <2>1, <2>3, <2>4 DEF Process
<1>3. CASE \E s \in Sink : Worker(s)
  BY <1>3, WorkerLanes
<1>4. CASE Aclose \/ StopLanes \/ \E s \in Sink : DrainEnds(s)
  <2>1. /\ UNCHANGED <<laneVars, setup>>
        /\ closing \in {"open", "draining"} /\ lanes' \subseteq Sink
        /\ \/ closing' = "draining"
           \/ closing' = "stopping" /\ lanes' = setup.sinks
    BY <1>0, <1>4, AlertManagerAssumption DEF Aclose, StopLanes, DrainEnds, LaneTypes
  <2>2. LaneTypes'
    BY <1>0, <2>1 DEF LaneTypes, laneVars
  <2>3. ClosePhase'
    BY <1>0, <2>1 DEF ClosePhase, laneVars
  <2>4. \A s \in Sink : Recounted(s)' = Recounted(s)
    BY <2>1 DEF Recounted
  <2>5. QED
    BY <2>1, <2>2, <2>3, <2>4, LanesKept
<1>5. CASE AcloseAgain
  <2>1. /\ UNCHANGED <<laneVars, setup>> /\ closing = "closed" /\ closing' = "again"
        /\ lanes' = setup.sinks /\ setup.sinks \subseteq Sink
    BY <1>0, <1>5, AlertManagerAssumption DEF AcloseAgain, LaneTypes
  <2>2. LaneTypes'
    BY <1>0, <2>1 DEF LaneTypes, laneVars
  <2>3. ClosePhase'
    BY <1>0, <2>1 DEF ClosePhase, laneVars
  <2>4. \A s \in Sink : Recounted(s)' = Recounted(s)
    BY <2>1 DEF Recounted
  <2>5. QED
    BY <2>1, <2>2, <2>3, <2>4, LanesKept
<1>6. CASE CloseSinks
  <2>1. /\ UNCHANGED <<laneVars, lanes, setup>> /\ lanes = {}
        /\ \/ closing = "again" /\ closing' = "reclosed"
           \/ closing = "stopping" /\ closing' = "closed"
    BY <1>6 DEF CloseSinks
  <2>2. LaneTypes'
    BY <1>0, <2>1 DEF LaneTypes, laneVars
  <2>3. ClosePhase'
    BY <1>0, <2>1 DEF ClosePhase, laneVars
  <2>4. \A s \in Sink : Recounted(s)' = Recounted(s)
    BY <2>1 DEF Recounted, laneVars
  <2>5. QED
    BY <2>1, <2>2, <2>3, <2>4, LanesKept
<1>7. CASE \E s \in Sink : StopLane(s)
  BY <1>7, StopLaneLanes
<1>8. CASE Tick \/ Closed \/ UNCHANGED vars
  BY <1>1, <1>8 DEF Tick, Closed, vars
<1>9. QED
  BY <1>2, <1>3, <1>4, <1>5, <1>6, <1>7, <1>8 DEF Next, AcloseStep

\* A lane accounts for every notification it was offered, each once, through full queues,
\* failing and retried deliveries and shutdown, until stop() is called again; and a sink's
\* destination sees at least what counts as delivered and no more than the attempts made,
\* then too.
THEOREM LanesAccount == Spec => []LaneAccounted
BY LaneInit, LaneNext, LaneInvAccounts, PTL DEF Spec

(***************************************************************************)
(* Withheld alerts.  Each is counted twice, in the rule's total and in what *)
(* its next notification will announce, and that notification takes the     *)
(* second count over in the step that resets it.                            *)
(***************************************************************************)

WithheldInv ==
  /\ throttled \in [Rule -> Nat]
  /\ \A r \in Rule : IsFiniteSet(Announced(r))
  /\ WithheldAnnounced

\* Nothing is withheld at first.
LEMMA WithheldInit == Init => WithheldInv
<1> SUFFICES ASSUME Init PROVE WithheldInv
  OBVIOUS
<1>1. throttled \in [Rule -> Nat] /\ notified = <<>>
      /\ \A r \in Rule : throttled[r] = 0 /\ withheld[r] = 0
  BY DEF Init, Zeros
<1>2. \A r \in Rule : Announced(r) = {}
  BY <1>1 DEF Announced
<1>3. \A r \in Rule : Cardinality(Announced(r)) = 0 /\ IsFiniteSet(Announced(r))
  BY <1>2, FS_EmptySet
<1>4. QED
  BY <1>1, <1>3 DEF WithheldInv, WithheldAnnounced

\* What the notification appended to the history announces is new.
LEMMA AnnouncedMore ==
  ASSUME NEW r \in Rule, NEW k \in Nat, NEW t, notified \in Seq(Notification),
         notified' = Append(notified, [rule |-> r, at |-> t, note |-> k])
  PROVE  LET j == Len(notified) + 1
         IN  /\ Announced(r)' = Announced(r) \cup ({j} \X (1..k))
             /\ Announced(r) \cap ({j} \X (1..k)) = {}
             /\ \A q \in Rule \ {r} : Announced(q)' = Announced(q)
<1> DEFINE n == Len(notified)
           j == n + 1
           Of(q) == {i \in DOMAIN notified : notified[i].rule = q}
           OfN(q) == {i \in DOMAIN notified' : notified'[i].rule = q}
           Part(i) == {i} \X (1..notified[i].note)
           PartN(i) == {i} \X (1..notified'[i].note)
<1>1. n \in Nat /\ DOMAIN notified = 1..n /\ j \notin 1..n
  OBVIOUS
<1>2. /\ DOMAIN notified' = 1..j
      /\ \A i \in 1..n : notified'[i] = notified[i]
      /\ notified'[j] = [rule |-> r, at |-> t, note |-> k]
  OBVIOUS
<1>3. notified'[j].rule = r /\ notified'[j].note = k
  BY <1>2
<1>4. 1..j = (1..n) \cup {j}
  BY <1>1
<1>5. OfN(r) = Of(r) \cup {j} /\ \A q \in Rule \ {r} : OfN(q) = Of(q)
  BY <1>1, <1>2, <1>3, <1>4
<1>6. \A q : Of(q) \subseteq 1..n
  BY <1>1
<1>7. \A q, x : x \in Announced(q) <=> \E i \in Of(q) : x \in Part(i)
  BY DEF Announced
<1>8. ASSUME NEW q PROVE \A x : x \in Announced(q)' <=> \E i \in OfN(q) : x \in PartN(i)
  BY DEF Announced
<1>9. (\A i \in 1..n : PartN(i) = Part(i)) /\ PartN(j) = {j} \X (1..k)
  BY <1>2, <1>3
<1> HIDE DEF n, j, Of, OfN, Part, PartN
<1>10. ASSUME NEW q \in Rule \ {r} PROVE Announced(q)' = Announced(q)
  <2>1. \A x : x \in Announced(q)' <=> x \in Announced(q)
    BY <1>5, <1>6, <1>7, <1>8, <1>9
  <2>2. QED
    BY <2>1
<1>11. Announced(r)' = Announced(r) \cup ({j} \X (1..k))
  <2>1. \A x : x \in Announced(r)' <=> x \in Announced(r) \/ x \in PartN(j)
    BY <1>5, <1>6, <1>7, <1>8, <1>9
  <2>2. QED
    BY <1>9, <2>1
<1>12. Announced(r) \cap ({j} \X (1..k)) = {}
  <2> SUFFICES ASSUME NEW p \in Announced(r), p \in {j} \X (1..k) PROVE FALSE
    OBVIOUS
  <2>1. PICK i \in Of(r) : p \in {i} \X (1..notified[i].note)
    BY <1>7 DEF Part
  <2>2. p[1] = i /\ p[1] = j
    BY <2>1
  <2>3. QED
    BY <1>1, <1>6, <2>1, <2>2
<1>13. QED
  BY <1>10, <1>11, <1>12 DEF j, n

\* A notification announces what was withheld since the one before, and begins anew.
LEMMA NotifyWithheld ==
  ASSUME ThrottleInv, WithheldInv, NEW r \in Rule, NEW e, Notify(r, e)
  PROVE  WithheldInv'
<1> DEFINE j == Len(notified) + 1
           k == withheld[r]
           New == {j} \X (1..k)
<1>1. /\ withheld \in [Rule -> Nat] /\ k \in Nat /\ notified \in Seq(Notification)
      /\ throttled \in [Rule -> Nat]
  BY DEF ThrottleInv, GateTypes, WithheldInv
<1>2. /\ withheld' = [withheld EXCEPT ![r] = 0] /\ throttled' = throttled
      /\ notified' = Append(notified, [rule |-> r, at |-> now, note |-> k])
  BY DEF Notify
<1>3. /\ Announced(r)' = Announced(r) \cup New
      /\ Announced(r) \cap New = {}
      /\ \A q \in Rule \ {r} : Announced(q)' = Announced(q)
  BY <1>1, <1>2, AnnouncedMore
<1>4. IsFiniteSet(New) /\ Cardinality(New) = k
  <2>1. PICK z \in Nat : z = 0
    OBVIOUS
  <2> HIDE DEF k, j
  <2>2. z <= k
    BY <1>1, <2>1
  <2>3. IsFiniteSet({j} \X ((z + 1)..k)) /\ Cardinality({j} \X ((z + 1)..k)) = k - z
    BY <1>1, <2>2, CountNumbered
  <2>4. (z + 1)..k = 1..k /\ k - z = k
    BY <1>1, <2>1
  <2>5. QED
    BY <2>3, <2>4
<1> HIDE DEF j, New
<1>5. IsFiniteSet(Announced(r)) /\ throttled[r] = k + Cardinality(Announced(r))
  BY DEF WithheldInv, WithheldAnnounced
<1>6. /\ IsFiniteSet(Announced(r) \cup New)
      /\ Cardinality(Announced(r) \cup New) = Cardinality(Announced(r)) + Cardinality(New)
      /\ Cardinality(Announced(r)) \in Nat
  BY <1>3, <1>4, <1>5, CountDisjoint
<1>7. throttled'[r] = withheld'[r] + Cardinality(Announced(r)')
  BY <1>1, <1>2, <1>3, <1>4, <1>5, <1>6
<1>8. \A q \in Rule \ {r} : withheld'[q] = withheld[q] /\ throttled'[q] = throttled[q]
  BY <1>1, <1>2
<1>9. \A q \in Rule : throttled'[q] = withheld'[q] + Cardinality(Announced(q)')
  BY <1>3, <1>7, <1>8 DEF WithheldInv, WithheldAnnounced
<1>10. \A q \in Rule : IsFiniteSet(Announced(q)')
  BY <1>3, <1>6 DEF WithheldInv
<1>11. QED
  BY <1>1, <1>2, <1>9, <1>10 DEF WithheldInv, WithheldAnnounced

\* The withheld counts stay balanced.
LEMMA WithheldNext == ThrottleInv /\ WithheldInv /\ [Next]_vars => WithheldInv'
<1> SUFFICES ASSUME ThrottleInv, WithheldInv, [Next]_vars PROVE WithheldInv'
  OBVIOUS
<1>1. ASSUME UNCHANGED <<withheld, throttled, notified>> PROVE WithheldInv'
  BY <1>1 DEF WithheldInv, WithheldAnnounced, Announced
<1>2. CASE \E r \in setup.rules, e \in setup.keys : Process(r, e)
  <2>1. PICK r \in setup.rules, e \in setup.keys : Process(r, e)
    BY <1>2
  <2>2. r \in Rule
    BY AlertManagerAssumption DEF ThrottleInv, GateTypes
  <2>3. CASE Suppress(r) \/ Dedup(r, e)
    BY <1>1, <2>3 DEF Suppress, Dedup
  <2>4. CASE Throttle(r, e)
    <3>1. /\ throttled' = [throttled EXCEPT ![r] = @ + 1]
          /\ withheld' = [withheld EXCEPT ![r] = @ + 1] /\ notified' = notified
      BY <2>4 DEF Throttle
    <3>2. throttled \in [Rule -> Nat] /\ withheld \in [Rule -> Nat]
      BY DEF ThrottleInv, GateTypes, WithheldInv
    <3>3. \A q \in Rule : Announced(q)' = Announced(q)
      BY <3>1 DEF Announced
    <3>4. \A q \in Rule : Cardinality(Announced(q)) \in Nat
      BY FS_CardinalityType DEF WithheldInv
    <3>5. ASSUME NEW q \in Rule PROVE throttled'[q] = withheld'[q] + Cardinality(Announced(q)')
      <4>1. throttled[q] = withheld[q] + Cardinality(Announced(q))
        BY DEF WithheldInv, WithheldAnnounced
      <4>2. QED
        BY <3>1, <3>2, <3>3, <3>4, <4>1
    <3>6. throttled' \in [Rule -> Nat]
      BY <2>2, <3>1, <3>2
    <3>7. QED
      BY <3>3, <3>5, <3>6 DEF WithheldInv, WithheldAnnounced
  <2>5. CASE Notify(r, e)
    BY <2>2, <2>5, NotifyWithheld
  <2>6. QED
    BY <2>1, <2>3, <2>4, <2>5 DEF Process
<1>3. CASE \/ \E s \in Sink : Worker(s)
           \/ Aclose \/ AcloseAgain \/ AcloseStep
           \/ Tick \/ Closed \/ UNCHANGED vars
  <2>1. UNCHANGED gateVars
    BY <1>3 DEF Worker, WorkerGets, EmitFails, EmitRetries, EmitSucceeds, EmitEnds, Aclose,
       AcloseAgain, AcloseStep, StopLanes, CloseSinks, DrainEnds, StopLane, Tick, Closed, vars
  <2>2. QED
    BY <1>1, <2>1 DEF gateVars
<1>4. QED
  BY <1>2, <1>3 DEF Next

\* Every alert a rule's budget withheld is announced by exactly one later notification of
\* the rule, or still to be announced by the next.
THEOREM WithheldAllAnnounced == Spec => []WithheldAnnounced
<1>1. WithheldInv => WithheldAnnounced
  BY DEF WithheldInv
<1>2. QED
  BY <1>1, ThrottleInit, ThrottleNext, WithheldInit, WithheldNext, PTL DEF Spec
=============================================================================
