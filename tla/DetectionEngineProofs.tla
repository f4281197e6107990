----------------------- MODULE DetectionEngineProofs -----------------------
(***************************************************************************)
(* Theorems about DetectionEngine, for every rule library of finite         *)
(* condition trees, every set of events and every cap.                      *)
(***************************************************************************)
EXTENDS DetectionEngine, FiniteSetTheorems, SequenceTheorems, WellFoundedInduction, TLAPS

\* Any non-empty set of positions has a first one: what `for ... break` finds.
LEMMA FirstPosition ==
  ASSUME NEW S, S \subseteq Nat, S # {}
  PROVE  \E m \in S : \A k \in S : m <= k
<1> DEFINE R == OpToRel(<, Nat)
<1>1. IsWellFoundedOn(R, Nat)
  BY NatLessThanWellFounded
<1>2. \A x, y \in Nat : x < y => <<x, y>> \in R
  BY DEF OpToRel
<1> HIDE DEF R
<1>3. PICK m \in S : \A k \in S : ~(<<k, m>> \in R)
  BY <1>1, WFMin
<1>4. \A k \in S : m <= k
  <2> TAKE k \in S
  <2>1. k \in Nat /\ m \in Nat
    OBVIOUS
  <2>2. ~(k < m)
    BY <1>2, <1>3, <2>1
  <2>3. QED
    BY <2>1, <2>2
<1>5. QED
  BY <1>4

(***************************************************************************)
(* Condition trees: induction over them, and the recursive functions that   *)
(* evaluate_condition and required_actions are.                             *)
(***************************************************************************)

\* The nodes of a tree are well formed and their children are nodes.
LEMMA TreeShape ==
  ASSUME NEW c \in Trees
  PROVE  /\ WellFormed(c)
         /\ Children(c) \in Seq(Trees)
         /\ \A i \in DOMAIN Children(c) : Children(c)[i] \in Trees
<1>1. PICK d \in DOMAIN Levels : c \in Levels[d]
  BY DEF Trees
<1>2. WellFormed(c) /\ Children(c) \in Seq(Trees)
  BY <1>1, LevelsAssumption
<1>3. PICK kids : kids = Children(c)
  OBVIOUS
<1>4. \A i \in DOMAIN kids : kids[i] \in Trees
  BY <1>2, <1>3
<1>5. QED
  BY <1>2, <1>3, <1>4

\* What passes from the children of every node to the node holds of every node.
LEMMA TreeInduction ==
  ASSUME NEW S,
         \A c \in Trees : (\A i \in DOMAIN Children(c) : Children(c)[i] \in S) => c \in S
  PROVE  \A c \in Trees : c \in S
<1> DEFINE Bad == {d \in DOMAIN Levels : \E c \in Levels[d] : c \notin S}
<1>1. CASE Bad = {}
  BY <1>1 DEF Trees
<1>2. CASE Bad # {}
  <2>1. Bad \subseteq Nat
    BY LevelsAssumption
  <2>2. PICK m \in Bad : \A k \in Bad : m <= k
    BY <1>2, <2>1, FirstPosition
  <2>3. PICK c \in Levels[m] : c \notin S
    BY <2>2
  <2>4. c \in Trees
    BY <2>2, <2>3 DEF Trees
  <2>5. ASSUME NEW i \in DOMAIN Children(c)
        PROVE  Children(c)[i] \in S
    <3>1. PICK below \in DOMAIN Levels : below < m /\ Children(c)[i] \in Levels[below]
      BY <2>2, <2>3, LevelsAssumption
    <3>2. below \in Nat /\ m \in Nat
      BY <2>1, <2>2, <3>1, LevelsAssumption
    <3>3. below \notin Bad
      BY <2>2, <3>1, <3>2
    <3>4. QED
      BY <3>1, <3>3
  <2>6. QED
    BY <2>3, <2>4, <2>5
<1>3. QED
  BY <1>1, <1>2

\* What f answers for the children of a node.
Kids(f, c) == [i \in DOMAIN Children(c) |-> f[Children(c)[i]]]

\* Some f answers for every node what G says, given its answers for the children.
Solvable(R, G) == \E f \in [Trees -> R] : \A c \in Trees : f[c] = G[<<c, Kids(f, c)>>]

\* A function of a node and of its children's answers defines one answer per node.
LEMMA TreeRecursion ==
  ASSUME NEW R, R # {}, NEW G \in [Trees \X Seq(R) -> R]
  PROVE  Solvable(R, G)
<1> DEFINE F == [Trees -> R]
           Closed(D) == \A c \in D : \A i \in DOMAIN Children(c) : Children(c)[i] \in D
           Solves(h, D) == \A c \in D : h[c] = G[<<c, Kids(h, c)>>]
           Good(h, D) == Closed(D) /\ Solves(h, D)
<1>1. ASSUME NEW h \in F, NEW c \in Trees
      PROVE  G[<<c, Kids(h, c)>>] \in R
  <2>1. PICK kids \in Seq(Trees) : kids = Children(c)
    BY TreeShape
  <2>2. [i \in DOMAIN kids |-> h[kids[i]]] \in Seq(R)
    OBVIOUS
  <2>3. Kids(h, c) \in Seq(R)
    BY <2>1, <2>2 DEF Kids
  <2>4. QED
    BY <2>3
<1>2. ASSUME NEW g \in F, NEW h \in F, NEW c \in Trees,
             \A i \in DOMAIN Children(c) : g[Children(c)[i]] = h[Children(c)[i]]
      PROVE  Kids(g, c) = Kids(h, c)
  BY <1>2 DEF Kids
<1>3. ASSUME NEW D \in SUBSET Trees, NEW E \in SUBSET Trees, NEW g \in F, NEW h \in F,
             Good(g, D), Good(h, E)
      PROVE  \A c \in D \cap E : g[c] = h[c]
  <2> DEFINE S == {c \in Trees : c \in D \cap E => g[c] = h[c]}
  <2>1. ASSUME NEW c \in Trees, \A i \in DOMAIN Children(c) : Children(c)[i] \in S
        PROVE  c \in S
    <3>1. SUFFICES ASSUME c \in D \cap E
                   PROVE  g[c] = h[c]
      OBVIOUS
    <3>2. \A i \in DOMAIN Children(c) : g[Children(c)[i]] = h[Children(c)[i]]
      BY <1>3, <2>1, <3>1
    <3>3. Kids(g, c) = Kids(h, c)
      BY <1>2, <3>2
    <3>4. QED
      BY <1>3, <3>1, <3>3
  <2> HIDE DEF S
  <2>2. \A c \in Trees : c \in S
    BY <2>1, TreeInduction
  <2>3. QED
    BY <2>2 DEF S
<1> DEFINE Covers(h, D, c) == h \in F /\ D \in SUBSET Trees /\ Good(h, D) /\ c \in D
           Covered == {c \in Trees : \E D \in SUBSET Trees : \E h \in F : Covers(h, D, c)}
           Value(c, v) ==
             c \in Covered => \E D \in SUBSET Trees : \E h \in F : Covers(h, D, c) /\ h[c] = v
           f == [c \in Trees |-> CHOOSE v \in R : Value(c, v)]
<1>4. \A c \in Trees : f[c] \in R /\ Value(c, f[c])
  <2> TAKE c \in Trees
  <2>1. \E v \in R : Value(c, v)
    <3>1. CASE c \in Covered
      <4>1. PICK D \in SUBSET Trees, h \in F : Covers(h, D, c)
        BY <3>1
      <4>2. h[c] \in R
        OBVIOUS
      <4>3. QED
        BY <4>1, <4>2
    <3>2. CASE c \notin Covered
      BY <3>2
    <3>3. QED
      BY <3>1, <3>2
  <2> HIDE DEF Value
  <2>2. QED
    BY <2>1
<1>5. f \in F
  BY <1>4
<1> HIDE DEF f
<1>6. \A D \in SUBSET Trees : \A h \in F : Good(h, D) => \A c \in D : f[c] = h[c]
  <2> SUFFICES ASSUME NEW D \in SUBSET Trees, NEW h \in F, Good(h, D), NEW c \in D
               PROVE  f[c] = h[c]
    OBVIOUS
  <2>1. c \in Covered
    OBVIOUS
  <2>2. PICK E \in SUBSET Trees, g \in F : Covers(g, E, c) /\ g[c] = f[c]
    BY <1>4, <2>1
  <2>3. g[c] = h[c]
    BY <1>3, <2>2
  <2>4. QED
    BY <2>2, <2>3
<1>7. Good(f, Covered)
  <2> SUFFICES ASSUME NEW c \in Covered
               PROVE  /\ \A i \in DOMAIN Children(c) : Children(c)[i] \in Covered
                      /\ f[c] = G[<<c, Kids(f, c)>>]
    OBVIOUS
  <2>1. PICK D \in SUBSET Trees, h \in F : Covers(h, D, c)
    OBVIOUS
  <2>2. \A i \in DOMAIN Children(c) : Children(c)[i] \in D
    BY <2>1
  <2>3. \A i \in DOMAIN Children(c) : Children(c)[i] \in Covered
    BY <2>1, <2>2
  <2>4. \A i \in DOMAIN Children(c) : f[Children(c)[i]] = h[Children(c)[i]]
    BY <1>6, <2>1, <2>2
  <2>5. Kids(f, c) = Kids(h, c)
    BY <1>2, <1>5, <2>4
  <2>6. f[c] = h[c] /\ h[c] = G[<<c, Kids(h, c)>>]
    BY <1>6, <2>1
  <2>7. QED
    BY <2>3, <2>5, <2>6
<1>8. \A c \in Trees : c \in Covered
  <2>1. ASSUME NEW c \in Trees, \A i \in DOMAIN Children(c) : Children(c)[i] \in Covered
        PROVE  c \in Covered
    <3> SUFFICES ASSUME c \notin Covered
                 PROVE  FALSE
      OBVIOUS
    <3> DEFINE h == [f EXCEPT ![c] = G[<<c, Kids(f, c)>>]]
               D == Covered \cup {c}
    <3>1. /\ h \in F /\ h[c] = G[<<c, Kids(f, c)>>]
          /\ \A x \in Covered : h[x] = f[x]
      BY <1>1, <1>5
    <3> HIDE DEF h
    <3>2. Closed(D)
      BY <1>7, <2>1
    <3>3. \A x \in D : \A i \in DOMAIN Children(x) : Children(x)[i] \in Covered
      BY <1>7, <2>1
    <3>4. \A x \in D : Kids(h, x) = Kids(f, x)
      <4> TAKE x \in D
      <4>1. \A i \in DOMAIN Children(x) : h[Children(x)[i]] = f[Children(x)[i]]
        BY <3>1, <3>3
      <4>2. QED
        BY <4>1 DEF Kids
    <3>5. Solves(h, D)
      BY <1>7, <3>1, <3>4
    <3>6. D \in SUBSET Trees
      OBVIOUS
    <3>7. QED
      BY <3>1, <3>2, <3>5, <3>6
  <2> HIDE DEF Covered
  <2>2. QED
    BY <2>1, TreeInduction
<1>9. QED
  BY <1>5, <1>7, <1>8 DEF Solvable

Results == {"true", "false", "incomplete"}

\* The first child all() or any() stops at answers something else than the others
\* before it did; if it stops at none, every child answered the same.
LEMMA FirstOtherChoice ==
  ASSUME NEW results, DOMAIN results \subseteq Nat, NEW other
  PROVE  \/ FirstOther(results, other) = other /\ \A i \in DOMAIN results : results[i] = other
         \/ /\ FirstOther(results, other) # other
            /\ \E i \in DOMAIN results : FirstOther(results, other) = results[i]
<1> DEFINE stops == {i \in DOMAIN results : results[i] # other}
           first == CHOOSE i \in stops : \A j \in stops : i <= j
<1>1. CASE stops = {}
  BY <1>1 DEF FirstOther
<1>2. CASE stops # {}
  <2>1. \E i \in stops : \A j \in stops : i <= j
    BY <1>2, FirstPosition
  <2>2. first \in stops
    BY <2>1
  <2>3. FirstOther(results, other) = results[first]
    BY <1>2 DEF FirstOther
  <2>4. QED
    BY <2>2, <2>3
<1>3. QED
  BY <1>1, <1>2

\* The forms of a node, and the one child of a `not` or a threshold.
LEMMA Forms ==
  ASSUME NEW c \in Trees
  PROVE  /\ c.form \in {"field", "all", "any", "not", "threshold"}
         /\ DOMAIN Children(c) \subseteq Nat
         /\ c.form \in {"not", "threshold"} => 1 \in DOMAIN Children(c)
<1>1. WellFormed(c) /\ Children(c) \in Seq(Trees)
  BY TreeShape
<1>2. PICK kids \in Seq(Trees) : kids = Children(c)
  BY <1>1
<1>3. DOMAIN kids = 1..Len(kids) /\ Len(kids) \in Nat
  BY <1>2
<1>4. c.form \in {"not", "threshold"} => Len(kids) = 1
  BY <1>1, <1>2 DEF WellFormed, Children
<1>5. c.form \in {"field", "all", "any", "not", "threshold"}
  BY <1>1 DEF WellFormed
<1>6. QED
  BY <1>2, <1>3, <1>4, <1>5

\* Every node decides one way or another, or is left undecided.
LEMMA DecideType ==
  ASSUME NEW c \in Trees, NEW event,
         NEW results, DOMAIN results = DOMAIN Children(c),
         \A i \in DOMAIN results : results[i] \in Results
  PROVE  Decide(c, results, event) \in Results
<1>1. /\ c.form \in {"field", "all", "any", "not", "threshold"}
      /\ DOMAIN results \subseteq Nat
      /\ c.form \in {"not", "threshold"} => results[1] \in Results
  BY Forms
<1>2. CASE c.form = "field"
  BY <1>2 DEF Decide, Results
<1>3. CASE c.form = "all"
  <2>1. Decide(c, results, event) = FirstOther(results, "true")
    BY <1>3 DEF Decide
  <2>2. QED
    BY <1>1, <2>1, FirstOtherChoice DEF Results
<1>4. CASE c.form = "any"
  <2>1. Decide(c, results, event) = FirstOther(results, "false")
    BY <1>4 DEF Decide
  <2>2. QED
    BY <1>1, <2>1, FirstOtherChoice DEF Results
<1>5. CASE c.form = "not"
  BY <1>5 DEF Decide, Results
<1>6. CASE c.form = "threshold"
  BY <1>1, <1>6 DEF Decide
<1>7. QED
  BY <1>1, <1>2, <1>3, <1>4, <1>5, <1>6

\* evaluate_condition computes its answer for a node from those for its children.
LEMMA EvaluateNode ==
  ASSUME NEW c \in Trees, NEW event
  PROVE  /\ Evaluate(c, event) \in Results
         /\ \A i \in DOMAIN Children(c) : Evaluate(Children(c)[i], event) \in Results
         /\ Evaluate(c, event) =
              Decide(c, [i \in DOMAIN Children(c) |-> Evaluate(Children(c)[i], event)], event)
<1> DEFINE Def(g) == [t \in Trees |-> Decide(t, Kids(g, t), event)]
           G == [p \in Trees \X Seq(Results) |->
                   IF Decide(p[1], p[2], event) \in Results
                   THEN Decide(p[1], p[2], event) ELSE "true"]
<1>1. PICK f \in [Trees -> Results] : \A t \in Trees : f[t] = G[<<t, Kids(f, t)>>]
  <2>1. Results # {} /\ G \in [Trees \X Seq(Results) -> Results]
    BY DEF Results
  <2> HIDE DEF G
  <2>2. Solvable(Results, G)
    BY <2>1, TreeRecursion
  <2>3. QED
    BY <2>2 DEF Solvable
<1>2. \A t \in Trees : f[t] = Decide(t, Kids(f, t), event)
  <2> TAKE t \in Trees
  <2>1. PICK kids \in Seq(Trees) : kids = Children(t)
    BY TreeShape
  <2>2. [i \in DOMAIN kids |-> f[kids[i]]] \in Seq(Results)
    OBVIOUS
  <2>3. Kids(f, t) \in Seq(Results)
    BY <2>1, <2>2 DEF Kids
  <2>4. /\ DOMAIN Kids(f, t) = DOMAIN Children(t)
        /\ \A i \in DOMAIN Kids(f, t) : Kids(f, t)[i] \in Results
    BY TreeShape DEF Kids
  <2>5. Decide(t, Kids(f, t), event) \in Results
    BY <2>4, DecideType
  <2>6. f[t] = G[<<t, Kids(f, t)>>]
    BY <1>1
  <2>7. QED
    BY <2>3, <2>5, <2>6
<1>3. f = Def(f)
  BY <1>2
<1> DEFINE result == CHOOSE g : g = Def(g)
<1>4. result = Def(result)
  BY <1>3
<1>5. \A t : Evaluate(t, event) = result[t]
  BY DEF Evaluate, Kids
<1> HIDE DEF result
<1>6. \A t \in Trees : result[t] = Decide(t, Kids(result, t), event)
  BY <1>4
<1>7. \A t \in Trees : result[t] \in Results
  <2> DEFINE S == {t \in Trees : result[t] \in Results}
  <2>1. ASSUME NEW t \in Trees, \A i \in DOMAIN Children(t) : Children(t)[i] \in S
        PROVE  t \in S
    <3>1. /\ DOMAIN Kids(result, t) = DOMAIN Children(t)
          /\ \A i \in DOMAIN Kids(result, t) : Kids(result, t)[i] \in Results
      BY <2>1 DEF Kids
    <3>2. Decide(t, Kids(result, t), event) \in Results
      BY <3>1, DecideType
    <3>3. QED
      BY <1>6, <3>2
  <2> HIDE DEF S
  <2>2. \A t \in Trees : t \in S
    BY <2>1, TreeInduction
  <2>3. QED
    BY <2>2 DEF S
<1>8. Kids(result, c) = [i \in DOMAIN Children(c) |-> Evaluate(Children(c)[i], event)]
  BY <1>5 DEF Kids
<1>9. QED
  BY <1>5, <1>6, <1>7, <1>8, TreeShape

\* What a condition says of an event is a yes or a no.
LEMMA HoldsType ==
  ASSUME NEW c \in Trees, NEW event,
         NEW results, DOMAIN results = DOMAIN Children(c),
         \A i \in DOMAIN results : results[i] \in BOOLEAN
  PROVE  Holds(c, results, event) \in BOOLEAN
<1>1. /\ c.form \in {"field", "all", "any", "not", "threshold"}
      /\ c.form \in {"not", "threshold"} => results[1] \in BOOLEAN
  BY Forms
<1>2. CASE c.form = "field"
  <2>1. FieldHolds(c, event) \in BOOLEAN
    BY DEF FieldHolds
  <2>2. QED
    BY <1>2, <2>1 DEF Holds
<1>3. CASE c.form = "all"
  BY <1>3 DEF Holds
<1>4. CASE c.form = "any"
  BY <1>4 DEF Holds
<1>5. CASE c.form = "not"
  BY <1>5 DEF Holds
<1>6. CASE c.form = "threshold"
  BY <1>1, <1>6 DEF Holds
<1>7. QED
  BY <1>1, <1>2, <1>3, <1>4, <1>5, <1>6

\* What a condition says of an event follows from what its children say.
LEMMA MatchesNode ==
  ASSUME NEW c \in Trees, NEW event
  PROVE  /\ Matches(c, event) \in BOOLEAN
         /\ \A i \in DOMAIN Children(c) : Matches(Children(c)[i], event) \in BOOLEAN
         /\ Matches(c, event) =
              Holds(c, [i \in DOMAIN Children(c) |-> Matches(Children(c)[i], event)], event)
<1> DEFINE Def(g) == [t \in Trees |-> Holds(t, Kids(g, t), event)]
           G == [p \in Trees \X Seq(BOOLEAN) |->
                   IF Holds(p[1], p[2], event) \in BOOLEAN
                   THEN Holds(p[1], p[2], event) ELSE TRUE]
<1>1. PICK f \in [Trees -> BOOLEAN] : \A t \in Trees : f[t] = G[<<t, Kids(f, t)>>]
  <2>1. BOOLEAN # {} /\ G \in [Trees \X Seq(BOOLEAN) -> BOOLEAN]
    OBVIOUS
  <2> HIDE DEF G
  <2>2. Solvable(BOOLEAN, G)
    BY <2>1, TreeRecursion
  <2>3. QED
    BY <2>2 DEF Solvable
<1>2. \A t \in Trees : f[t] = Holds(t, Kids(f, t), event)
  <2> TAKE t \in Trees
  <2>1. PICK kids \in Seq(Trees) : kids = Children(t)
    BY TreeShape
  <2>2. [i \in DOMAIN kids |-> f[kids[i]]] \in Seq(BOOLEAN)
    OBVIOUS
  <2>3. Kids(f, t) \in Seq(BOOLEAN)
    BY <2>1, <2>2 DEF Kids
  <2>4. /\ DOMAIN Kids(f, t) = DOMAIN Children(t)
        /\ \A i \in DOMAIN Kids(f, t) : Kids(f, t)[i] \in BOOLEAN
    BY TreeShape DEF Kids
  <2>5. Holds(t, Kids(f, t), event) \in BOOLEAN
    BY <2>4, HoldsType
  <2>6. f[t] = G[<<t, Kids(f, t)>>]
    BY <1>1
  <2>7. QED
    BY <2>3, <2>5, <2>6
<1>3. f = Def(f)
  BY <1>2
<1> DEFINE result == CHOOSE g : g = Def(g)
<1>4. result = Def(result)
  BY <1>3
<1>5. \A t : Matches(t, event) = result[t]
  BY DEF Matches, Kids
<1> HIDE DEF result
<1>6. \A t \in Trees : result[t] = Holds(t, Kids(result, t), event)
  BY <1>4
<1>7. \A t \in Trees : result[t] \in BOOLEAN
  <2> DEFINE S == {t \in Trees : result[t] \in BOOLEAN}
  <2>1. ASSUME NEW t \in Trees, \A i \in DOMAIN Children(t) : Children(t)[i] \in S
        PROVE  t \in S
    <3>1. /\ DOMAIN Kids(result, t) = DOMAIN Children(t)
          /\ \A i \in DOMAIN Kids(result, t) : Kids(result, t)[i] \in BOOLEAN
      BY <2>1 DEF Kids
    <3>2. Holds(t, Kids(result, t), event) \in BOOLEAN
      BY <3>1, HoldsType
    <3>3. QED
      BY <1>6, <3>2
  <2> HIDE DEF S
  <2>2. \A t \in Trees : t \in S
    BY <2>1, TreeInduction
  <2>3. QED
    BY <2>2 DEF S
<1>8. Kids(result, c) = [i \in DOMAIN Children(c) |-> Matches(Children(c)[i], event)]
  BY <1>5 DEF Kids
<1>9. \A i \in DOMAIN Children(c) : Matches(Children(c)[i], event) \in BOOLEAN
  BY <1>5, <1>7, TreeShape
<1>10. Matches(c, event) = Holds(c, Kids(result, c), event)
  BY <1>5, <1>6
<1>11. Matches(c, event) \in BOOLEAN
  BY <1>5, <1>7
<1>12. QED
  BY <1>8, <1>9, <1>10, <1>11


\* The values the rules compare with, and what required_actions may answer.
Values == UNION {c.value : c \in {t \in Trees : t.form = "field"}}
Restrictions == {AnyAction} \cup SUBSET Values

\* required_actions answers "any" or a set of values of the library.
LEMMA RestrictionType ==
  ASSUME NEW c \in Trees,
         NEW results, DOMAIN results = DOMAIN Children(c),
         \A i \in DOMAIN results : results[i] \in Restrictions
  PROVE  Restriction(c, results) \in Restrictions
<1>1. /\ c.form \in {"field", "all", "any", "not", "threshold"}
      /\ c.form \in {"not", "threshold"} => results[1] \in Restrictions
  BY Forms
<1> DEFINE branches == {results[i] : i \in DOMAIN results}
           restricting == branches \ {AnyAction}
<1>2. /\ \A b \in branches : b \in Restrictions
      /\ \A b \in restricting : b \subseteq Values
  BY DEF Restrictions
<1>3. CASE c.form = "field"
  BY <1>3 DEF Restriction, FieldActions, Restrictions, Values
<1>4. CASE c.form = "all"
  <2>1. Restriction(c, results) =
          IF restricting = {} THEN AnyAction
          ELSE {a \in UNION restricting : \A b \in restricting : a \in b}
    BY <1>4 DEF Restriction
  <2> HIDE DEF restricting
  <2>2. {a \in UNION restricting : \A b \in restricting : a \in b} \subseteq Values
    BY <1>2
  <2>3. QED
    BY <2>1, <2>2 DEF Restrictions
<1>5. CASE c.form = "any"
  <2>1. Restriction(c, results) =
          IF AnyAction \in branches \/ branches = {} THEN AnyAction ELSE UNION branches
    BY <1>5 DEF Restriction
  <2>2. AnyAction \notin branches => \A b \in branches : b \subseteq Values
    BY <1>2
  <2> HIDE DEF branches
  <2>3. AnyAction \notin branches => UNION branches \subseteq Values
    BY <2>2
  <2>4. QED
    BY <2>1, <2>3 DEF Restrictions
<1>6. CASE c.form = "not"
  BY <1>6 DEF Restriction, Restrictions
<1>7. CASE c.form = "threshold"
  BY <1>1, <1>7 DEF Restriction
<1>8. QED
  BY <1>1, <1>3, <1>4, <1>5, <1>6, <1>7

\* required_actions computes its answer for a node from those for its children.
LEMMA RequiredActionsNode ==
  ASSUME NEW c \in Trees
  PROVE  /\ RequiredActions(c) \in Restrictions
         /\ \A i \in DOMAIN Children(c) : RequiredActions(Children(c)[i]) \in Restrictions
         /\ RequiredActions(c) =
              Restriction(c, [i \in DOMAIN Children(c) |-> RequiredActions(Children(c)[i])])
<1> DEFINE Def(g) == [t \in Trees |-> Restriction(t, Kids(g, t))]
           G == [p \in Trees \X Seq(Restrictions) |->
                   IF Restriction(p[1], p[2]) \in Restrictions
                   THEN Restriction(p[1], p[2]) ELSE AnyAction]
<1>1. PICK f \in [Trees -> Restrictions] : \A t \in Trees : f[t] = G[<<t, Kids(f, t)>>]
  <2>1. Restrictions # {} /\ G \in [Trees \X Seq(Restrictions) -> Restrictions]
    BY DEF Restrictions
  <2> HIDE DEF G
  <2>2. Solvable(Restrictions, G)
    BY <2>1, TreeRecursion
  <2>3. QED
    BY <2>2 DEF Solvable
<1>2. \A t \in Trees : f[t] = Restriction(t, Kids(f, t))
  <2> TAKE t \in Trees
  <2>1. PICK kids \in Seq(Trees) : kids = Children(t)
    BY TreeShape
  <2>2. [i \in DOMAIN kids |-> f[kids[i]]] \in Seq(Restrictions)
    OBVIOUS
  <2>3. Kids(f, t) \in Seq(Restrictions)
    BY <2>1, <2>2 DEF Kids
  <2>4. /\ DOMAIN Kids(f, t) = DOMAIN Children(t)
        /\ \A i \in DOMAIN Kids(f, t) : Kids(f, t)[i] \in Restrictions
    BY TreeShape DEF Kids
  <2>5. Restriction(t, Kids(f, t)) \in Restrictions
    BY <2>4, RestrictionType
  <2>6. f[t] = G[<<t, Kids(f, t)>>]
    BY <1>1
  <2>7. QED
    BY <2>3, <2>5, <2>6
<1>3. f = Def(f)
  BY <1>2
<1> DEFINE result == CHOOSE g : g = Def(g)
<1>4. result = Def(result)
  BY <1>3
<1>5. \A t : RequiredActions(t) = result[t]
  BY DEF RequiredActions, Kids
<1> HIDE DEF result
<1>6. \A t \in Trees : result[t] = Restriction(t, Kids(result, t))
  BY <1>4
<1>7. \A t \in Trees : result[t] \in Restrictions
  <2> DEFINE S == {t \in Trees : result[t] \in Restrictions}
  <2>1. ASSUME NEW t \in Trees, \A i \in DOMAIN Children(t) : Children(t)[i] \in S
        PROVE  t \in S
    <3>1. /\ DOMAIN Kids(result, t) = DOMAIN Children(t)
          /\ \A i \in DOMAIN Kids(result, t) : Kids(result, t)[i] \in Restrictions
      BY <2>1 DEF Kids
    <3>2. Restriction(t, Kids(result, t)) \in Restrictions
      BY <3>1, RestrictionType
    <3>3. QED
      BY <1>6, <3>2
  <2> HIDE DEF S
  <2>2. \A t \in Trees : t \in S
    BY <2>1, TreeInduction
  <2>3. QED
    BY <2>2 DEF S
<1>8. Kids(result, c) = [i \in DOMAIN Children(c) |-> RequiredActions(Children(c)[i])]
  BY <1>5 DEF Kids
<1>9. QED
  BY <1>5, <1>6, <1>7, <1>8, TreeShape

\* A decided evaluation says what the condition says, however early all() and any()
\* stopped (evaluator.py, evaluate_condition).
THEOREM EvaluationTells ==
  ASSUME NEW event
  PROVE  \A c \in Trees : /\ Evaluate(c, event) = "true" => Matches(c, event)
                          /\ Evaluate(c, event) = "false" => ~Matches(c, event)
<1> DEFINE S == {c \in Trees : /\ Evaluate(c, event) = "true" => Matches(c, event)
                               /\ Evaluate(c, event) = "false" => ~Matches(c, event)}
<1>1. ASSUME NEW c \in Trees, \A i \in DOMAIN Children(c) : Children(c)[i] \in S
      PROVE  c \in S
  <2> DEFINE kids == DOMAIN Children(c)
             E(i) == Evaluate(Children(c)[i], event)
             M(i) == Matches(Children(c)[i], event)
             results == [i \in kids |-> E(i)]
             holds == [i \in kids |-> M(i)]
  <2>1. Evaluate(c, event) = Decide(c, results, event)
    BY EvaluateNode, Zenon
  <2>2. Matches(c, event) = Holds(c, holds, event)
    BY MatchesNode, Zenon
  <2>3. \A i \in kids : /\ E(i) = "true" => M(i)
                        /\ E(i) = "false" => ~M(i)
    BY <1>1
  <2>4. \A i \in kids : E(i) \in Results
    BY EvaluateNode
  <2>5. /\ c.form \in {"field", "all", "any", "not", "threshold"}
        /\ kids \subseteq Nat
        /\ c.form \in {"not", "threshold"} => 1 \in kids
    BY Forms
  <2> HIDE DEF kids, E, M
  <2>6. /\ DOMAIN results = kids /\ \A i \in kids : results[i] = E(i)
        /\ DOMAIN holds = kids /\ \A i \in kids : holds[i] = M(i)
    OBVIOUS
  <2> HIDE DEF results, holds
  <2> SUFFICES /\ Decide(c, results, event) = "true" => Holds(c, holds, event)
               /\ Decide(c, results, event) = "false" => ~Holds(c, holds, event)
    BY <2>1, <2>2
  <2>7. CASE c.form = "field"
    BY <2>7 DEF Decide, Holds
  <2>8. CASE c.form = "all"
    <3>1. Decide(c, results, event) = FirstOther(results, "true")
      BY <2>8 DEF Decide
    <3>2. Holds(c, holds, event) <=> \A i \in kids : M(i)
      BY <2>6, <2>8 DEF Holds
    <3>3. \/ FirstOther(results, "true") = "true" /\ \A i \in kids : E(i) = "true"
          \/ /\ FirstOther(results, "true") # "true"
             /\ \E i \in kids : FirstOther(results, "true") = E(i)
      <4>1. \/ /\ FirstOther(results, "true") = "true"
               /\ \A i \in DOMAIN results : results[i] = "true"
            \/ /\ FirstOther(results, "true") # "true"
               /\ \E i \in DOMAIN results : FirstOther(results, "true") = results[i]
        <5>1. DOMAIN results \subseteq Nat
          BY <2>5, <2>6
        <5>2. QED
          BY <5>1, FirstOtherChoice, Zenon
      <4>2. QED
        BY <2>6, <4>1
    <3>4. QED
      BY <2>3, <3>1, <3>2, <3>3
  <2>9. CASE c.form = "any"
    <3>1. Decide(c, results, event) = FirstOther(results, "false")
      BY <2>9 DEF Decide
    <3>2. Holds(c, holds, event) <=> \E i \in kids : M(i)
      BY <2>6, <2>9 DEF Holds
    <3>3. \/ FirstOther(results, "false") = "false" /\ \A i \in kids : E(i) = "false"
          \/ /\ FirstOther(results, "false") # "false"
             /\ \E i \in kids : FirstOther(results, "false") = E(i)
      <4>1. \/ /\ FirstOther(results, "false") = "false"
               /\ \A i \in DOMAIN results : results[i] = "false"
            \/ /\ FirstOther(results, "false") # "false"
               /\ \E i \in DOMAIN results : FirstOther(results, "false") = results[i]
        <5>1. DOMAIN results \subseteq Nat
          BY <2>5, <2>6
        <5>2. QED
          BY <5>1, FirstOtherChoice, Zenon
      <4>2. QED
        BY <2>6, <4>1
    <3>4. QED
      BY <2>3, <3>1, <3>2, <3>3
  <2>10. CASE c.form = "not"
    <3>1. /\ Decide(c, results, event) = "true" => E(1) = "false"
          /\ Decide(c, results, event) = "false" => E(1) = "true"
      BY <2>5, <2>6, <2>10 DEF Decide
    <3>2. Holds(c, holds, event) <=> ~M(1)
      BY <2>5, <2>6, <2>10 DEF Holds
    <3>3. QED
      BY <2>3, <2>5, <2>10, <3>1, <3>2
  <2>11. CASE c.form = "threshold"
    <3>1. Decide(c, results, event) = E(1)
      BY <2>5, <2>6, <2>11 DEF Decide
    <3>2. Holds(c, holds, event) <=> M(1)
      BY <2>5, <2>6, <2>11 DEF Holds
    <3>3. QED
      BY <2>3, <2>5, <2>11, <3>1, <3>2
  <2>12. QED
    BY <2>5, <2>7, <2>8, <2>9, <2>10, <2>11
<1> HIDE DEF S
<1>2. \A c \in Trees : c \in S
  BY <1>1, TreeInduction
<1>3. QED
  BY <1>2 DEF S

\* "Sound by construction": a condition that matches an event is never excluded for
\* the event's action (engine.py, required_actions).
THEOREM IndexSound ==
  ASSUME NEW event
  PROVE  \A c \in Trees : Matches(c, event) =>
           RequiredActions(c) = AnyAction \/ event.action \in RequiredActions(c)
<1> DEFINE Admits(c) == RequiredActions(c) = AnyAction \/ event.action \in RequiredActions(c)
           S == {c \in Trees : Matches(c, event) => Admits(c)}
<1>1. ASSUME NEW c \in Trees, \A i \in DOMAIN Children(c) : Children(c)[i] \in S,
             Matches(c, event)
      PROVE  Admits(c)
  <2> DEFINE kids == DOMAIN Children(c)
             Q(i) == RequiredActions(Children(c)[i])
             M(i) == Matches(Children(c)[i], event)
             results == [i \in kids |-> Q(i)]
             holds == [i \in kids |-> M(i)]
  <2>1. RequiredActions(c) = Restriction(c, results)
    BY RequiredActionsNode, Zenon
  <2>2. Matches(c, event) = Holds(c, holds, event)
    BY MatchesNode, Zenon
  <2>3. \A i \in kids : M(i) => Q(i) = AnyAction \/ event.action \in Q(i)
    BY <1>1
  <2>4. /\ c.form \in {"field", "all", "any", "not", "threshold"}
        /\ c.form \in {"not", "threshold"} => 1 \in kids
    BY Forms
  <2> HIDE DEF kids, Q, M
  <2>5. /\ DOMAIN results = kids /\ \A i \in kids : results[i] = Q(i)
        /\ DOMAIN holds = kids /\ \A i \in kids : holds[i] = M(i)
    OBVIOUS
  <2> HIDE DEF results, holds
  <2> DEFINE branches == {results[i] : i \in DOMAIN results}
             restricting == branches \ {AnyAction}
  <2>6. Holds(c, holds, event)
    BY <1>1, <2>2
  <2>7. CASE c.form = "field"
    <3>1. FieldHolds(c, event) /\ Restriction(c, results) = FieldActions(c)
      BY <2>6, <2>7 DEF Holds, Restriction
    <3>2. QED
      BY <2>1, <3>1 DEF FieldHolds, FieldActions
  <2>8. CASE c.form = "all"
    <3>1. \A i \in kids : M(i)
      BY <2>5, <2>6, <2>8 DEF Holds
    <3>2. \A b \in restricting : event.action \in b
      BY <2>3, <2>5, <3>1
    <3>3. Restriction(c, results) =
            IF restricting = {} THEN AnyAction
            ELSE {a \in UNION restricting : \A b \in restricting : a \in b}
      BY <2>8 DEF Restriction
    <3> HIDE DEF restricting
    <3>4. QED
      BY <2>1, <3>2, <3>3
  <2>9. CASE c.form = "any"
    <3>1. PICK i \in kids : M(i)
      BY <2>5, <2>6, <2>9 DEF Holds
    <3>2. Q(i) \in branches
      BY <2>5, <3>1
    <3>3. Restriction(c, results) =
            IF AnyAction \in branches \/ branches = {} THEN AnyAction ELSE UNION branches
      BY <2>9 DEF Restriction
    <3> HIDE DEF branches
    <3>4. QED
      BY <2>1, <2>3, <3>1, <3>2, <3>3
  <2>10. CASE c.form = "not"
    BY <2>1, <2>10 DEF Restriction
  <2>11. CASE c.form = "threshold"
    <3>1. M(1)
      BY <2>4, <2>5, <2>6, <2>11 DEF Holds
    <3>2. Restriction(c, results) = Q(1)
      BY <2>4, <2>5, <2>11 DEF Restriction
    <3>3. QED
      BY <2>1, <2>3, <2>4, <2>11, <3>1, <3>2
  <2>12. QED
    BY <2>4, <2>7, <2>8, <2>9, <2>10, <2>11
<1>2. ASSUME NEW c \in Trees, \A i \in DOMAIN Children(c) : Children(c)[i] \in S
      PROVE  c \in S
  BY <1>1, <1>2
<1> HIDE DEF S
<1>3. \A c \in Trees : c \in S
  BY <1>2, TreeInduction
<1>4. QED
  BY <1>3 DEF S

-----------------------------------------------------------------------------
(***************************************************************************)
(* Memory.  The tables are bounded only together: a window stays below its  *)
(* rule's count because each group has one window in the table, and the     *)
(* cache answers as the index would because the rules never change.         *)
(***************************************************************************)

GroupKeys == [kind : {"v4", "net", "text", "missing"}, net : Nat, host : Nat]
WindowKeys == (DOMAIN rules) \X GroupKeys
WindowType == [key : WindowKeys, times : Seq(Int)]
EntryType == [event : Scenarios[scenario].events,
              fired : SUBSET DOMAIN rules, undecided : SUBSET DOMAIN rules]

LoopTypes ==
  /\ scenario \in DOMAIN Scenarios
  /\ rules \in Seq(Trees)
  /\ log \in Seq(EntryType)
  /\ todo \subseteq DOMAIN rules
  /\ todo # {} => Len(log) # 0
  /\ incomplete \in Nat

CacheAnswers ==
  /\ IsFiniteSet(DOMAIN candidates)
  /\ Cardinality(DOMAIN candidates) <= MaxCachedActions
  /\ \A a \in DOMAIN candidates : candidates[a] = CouldMatch(a)

TableShape ==
  /\ windows \in Seq(WindowType)
  /\ Len(windows) <= MaxGroups
  /\ \A i \in DOMAIN windows :
       /\ IsThreshold(windows[i].key[1])
       /\ Len(windows[i].times) < rules[windows[i].key[1]].count
  /\ \A i, j \in DOMAIN windows : windows[i].key = windows[j].key => i = j
  /\ evicted \in BOOLEAN

MemoryInv == LoopTypes /\ CacheAnswers /\ TableShape

\* Two group values have one key exactly when one subscriber can use both.
LEMMA KeyIsSubscriber ==
  ASSUME NEW v \in GroupValues, NEW w \in GroupValues
  PROVE  /\ GroupKey(v) \in GroupKeys
         /\ GroupKey(v) = GroupKey(w) <=> SameSubscriber(v, w)
<1>1. /\ v = [kind |-> v.kind, net |-> v.net, host |-> v.host]
      /\ v.kind \in {"v4", "v6", "mapped", "text", "missing"} /\ v.net \in Nat /\ v.host \in Nat
      /\ w = [kind |-> w.kind, net |-> w.net, host |-> w.host]
      /\ w.kind \in {"v4", "v6", "mapped", "text", "missing"} /\ w.net \in Nat /\ w.host \in Nat
  BY DEF GroupValues
<1> DEFINE K(x) == [kind |-> IF x.kind = "v6" THEN "net"
                             ELSE IF x.kind = "mapped" THEN "v4" ELSE x.kind,
                    net |-> x.net, host |-> IF x.kind = "v6" THEN 0 ELSE x.host]
<1>2. ASSUME NEW x, x = [kind |-> x.kind, net |-> x.net, host |-> x.host]
      PROVE  GroupKey(x) = K(x)
  <2>1. CASE x.kind = "v6"
    BY <2>1 DEF GroupKey
  <2>2. CASE x.kind = "mapped"
    BY <2>2 DEF GroupKey
  <2>3. CASE x.kind # "v6" /\ x.kind # "mapped"
    BY <1>2, <2>3 DEF GroupKey
  <2>4. QED
    BY <2>1, <2>2, <2>3
<1>3. GroupKey(v) = K(v) /\ GroupKey(w) = K(w)
  BY <1>1, <1>2
<1>4. K(v) \in GroupKeys
  BY <1>1 DEF GroupKeys
<1>5. /\ K(v) = K(w) <=> /\ K(v).kind = K(w).kind
                         /\ K(v).net = K(w).net /\ K(v).host = K(w).host
      /\ v = w <=> v.kind = w.kind /\ v.net = w.net /\ v.host = w.host
  BY <1>1
<1>6. K(v) = K(w) <=> SameSubscriber(v, w)
  BY <1>1, <1>5 DEF SameSubscriber
<1>7. QED
  BY <1>3, <1>4, <1>6

\* Popping the leading old times of a window keeps a suffix that ends with the new one.
LEMMA SlideKeepsSuffix ==
  ASSUME NEW times \in Seq(Int), NEW moment \in Int, NEW seconds \in Nat
  PROVE  LET out == Slide(times, moment, seconds)
         IN  /\ out \in Seq(Int)
             /\ \E d \in 0..Len(times) :
                  /\ Len(out) = Len(times) + 1 - d
                  /\ \A j \in 1..(Len(times) - d) : out[j] = times[j + d]
                  /\ out[Len(times) + 1 - d] = moment
                  /\ \A j \in 1..d : times[j] < moment - seconds
                  /\ out[1] >= moment - seconds
<1> DEFINE all == Append(times, moment)
           live == {i \in DOMAIN all : all[i] >= moment - seconds}
           first == CHOOSE i \in live : \A j \in live : i <= j
           out == Slide(times, moment, seconds)
<1>1. PICK n \in Nat : n = Len(times)
  OBVIOUS
<1>2. /\ all \in Seq(Int) /\ Len(all) = n + 1 /\ DOMAIN all = 1..(n + 1)
      /\ all[n + 1] = moment /\ \A i \in 1..n : all[i] = times[i] /\ all[i] \in Int
  BY <1>1
<1>3. out = SubSeq(all, first, Len(all))
  BY DEF Slide
<1> HIDE DEF all, out
<1>4. n + 1 \in live
  BY <1>2
<1>5. live \subseteq Nat
  BY <1>2
<1>6. \E i \in live : \A j \in live : i <= j
  BY <1>4, <1>5, FirstPosition
<1>7. first \in live /\ \A j \in live : first <= j
  BY <1>6
<1> HIDE DEF first
<1>8. /\ first \in 1..(n + 1) /\ all[first] >= moment - seconds
      /\ \A j \in 1..(first - 1) : all[j] < moment - seconds
  <2>1. first \in 1..(n + 1) /\ all[first] >= moment - seconds
    BY <1>2, <1>7
  <2>2. ASSUME NEW j \in 1..(first - 1)
        PROVE  all[j] < moment - seconds
    <3>1. j \in 1..(n + 1) /\ ~(first <= j) /\ j <= n
      BY <2>1
    <3>2. j \notin live
      BY <1>7, <3>1
    <3>3. ~(all[j] >= moment - seconds) /\ all[j] \in Int
      BY <1>2, <3>1, <3>2
    <3>4. QED
      BY <3>3
  <2>3. QED
    BY <2>1, <2>2
<1> HIDE DEF live
<1>9. PICK d \in 0..n : d = first - 1
  BY <1>8
<1>10. /\ out \in Seq(Int) /\ Len(out) = n + 1 - d
       /\ \A j \in 1..(n + 1 - d) : out[j] = all[j + d]
  <2>1. out = SubSeq(all, d + 1, n + 1)
    BY <1>2, <1>3, <1>8, <1>9
  <2>2. PICK a \in Nat, b \in Nat : a = d + 1 /\ b = n + 1
    BY <1>9
  <2>3. a \in 1..(Len(all) + 1) /\ b \in (a - 1)..Len(all)
    BY <1>2, <1>9, <2>2
  <2>4. /\ SubSeq(all, a, b) \in Seq(Int)
        /\ Len(SubSeq(all, a, b)) = b - a + 1
        /\ \A j \in 1..(b - a + 1) : SubSeq(all, a, b)[j] = all[a + j - 1]
    BY <1>2, <2>3, SubSeqProperties
  <2>5. out = SubSeq(all, a, b)
    BY <2>1, <2>2
  <2>6. b - a + 1 = n + 1 - d /\ \A j \in 1..(n + 1 - d) : a + j - 1 = j + d
    <3>1. n \in Nat /\ d \in Nat
      BY <1>9
    <3>2. b - a + 1 = n + 1 - d
      BY <2>2, <3>1
    <3>3. ASSUME NEW j \in Int
          PROVE  a + j - 1 = j + d
      BY <2>2, <3>1
    <3>4. QED
      BY <3>2, <3>3
  <2>7. QED
    BY <2>4, <2>5, <2>6
<1>11. \A j \in 1..(n - d) : out[j] = times[j + d]
  <2> TAKE j \in 1..(n - d)
  <2>1. j \in 1..(n + 1 - d) /\ j + d \in 1..n
    BY <1>9
  <2>2. QED
    BY <1>2, <1>10, <2>1
<1>12. out[n + 1 - d] = moment /\ out[1] >= moment - seconds
  <2>1. n + 1 - d \in 1..(n + 1 - d) /\ 1 \in 1..(n + 1 - d) /\ (n + 1 - d) + d = n + 1
    BY <1>9
  <2>2. out[n + 1 - d] = all[n + 1] /\ out[1] = all[1 + d]
    BY <1>10, <2>1
  <2>3. 1 + d = first
    BY <1>8, <1>9
  <2>4. QED
    BY <1>2, <1>8, <2>2, <2>3
<1>13. \A j \in 1..d : times[j] < moment - seconds
  BY <1>2, <1>8, <1>9
<1>14. QED
  BY <1>1, <1>9, <1>10, <1>11, <1>12, <1>13 DEF out

\* The table _window_for leaves: the windows there were, less the first one if the
\* table was full, and an empty window if the group was new.
LEMMA WindowForShape ==
  ASSUME MemoryInv, NEW key \in WindowKeys
  PROVE  LET table == WindowFor(key)
             new == [key |-> key, times |-> <<>>]
         IN  /\ table \in Seq(WindowType)
             /\ Len(table) <= MaxGroups
             /\ \A i, j \in DOMAIN table : table[i].key = table[j].key => i = j
             /\ \E i \in DOMAIN table : table[i].key = key
             /\ \A i \in DOMAIN table : \/ \E j \in DOMAIN windows : windows[j] = table[i]
                                        \/ table[i] = new /\ ~Tracked(key)
             /\ Tracked(key) \/ Len(windows) < MaxGroups =>
                  \A j \in DOMAIN windows : \E i \in DOMAIN table : table[i].key = windows[j].key
<1> DEFINE table == WindowFor(key)
           new == [key |-> key, times |-> <<>>]
           rest == IF Len(windows) >= MaxGroups THEN Tail(windows) ELSE windows
<1>1. /\ windows \in Seq(WindowType) /\ Len(windows) <= MaxGroups
      /\ \A i, j \in DOMAIN windows : windows[i].key = windows[j].key => i = j
      /\ MaxGroups \in Nat \ {0}
  BY DetectionEngineAssumption DEF MemoryInv, TableShape
<1>2. PICK T : T = WindowType
  OBVIOUS
<1>3. windows \in Seq(T) /\ new \in T
  <2>1. <<>> \in Seq(Int)
    OBVIOUS
  <2>2. new \in WindowType
    BY <2>1 DEF WindowType
  <2>3. QED
    BY <1>1, <1>2, <2>2
<1>4. PICK n \in Nat : n = Len(windows)
  BY <1>3
<1>5. CASE Tracked(key)
  <2>1. table = windows
    BY <1>5 DEF WindowFor
  <2>2. \E i \in DOMAIN windows : windows[i].key = key
    BY <1>5 DEF Tracked
  <2> HIDE DEF table, new
  <2>3. QED
    BY <1>1, <2>1, <2>2 DEF table, new
<1>6. CASE ~Tracked(key)
  <2>1. table = Append(rest, new)
    BY <1>6 DEF WindowFor
  <2>2. PICK off \in 0..n :
          /\ off = IF Len(windows) >= MaxGroups THEN 1 ELSE 0
          /\ rest \in Seq(T) /\ Len(rest) = n - off
          /\ \A i \in 1..(n - off) : rest[i] = windows[i + off]
    <3>1. CASE Len(windows) >= MaxGroups
      <4>1. rest = Tail(windows) /\ n >= 1
        BY <1>1, <1>4, <3>1
      <4>2. /\ rest \in Seq(T) /\ Len(rest) = n - 1
            /\ \A i \in 1..(n - 1) : rest[i] = windows[i + 1]
        BY <1>3, <1>4, <4>1
      <4>3. 1 \in 0..n
        BY <4>1
      <4>4. QED
        BY <3>1, <4>2, <4>3
    <3>2. CASE ~(Len(windows) >= MaxGroups)
      <4>1. rest = windows
        BY <3>2
      <4> HIDE DEF rest
      <4>2. PICK off \in 0..n : off = 0
        OBVIOUS
      <4>3. n - off = n /\ \A i \in 1..n : i + off = i
        BY <4>2
      <4>4. rest \in Seq(T) /\ Len(rest) = n /\ \A i \in 1..n : rest[i] = windows[i]
        BY <1>3, <1>4, <4>1
      <4>5. /\ rest \in Seq(T) /\ Len(rest) = n - off
            /\ \A i \in 1..(n - off) : rest[i] = windows[i + off]
        BY <4>3, <4>4
      <4>6. QED
        BY <3>2, <4>2, <4>5
    <3>3. QED
      BY <3>1, <3>2
  <2> HIDE DEF rest, new, table
  <2>3. PICK m \in Nat : m = n - off
    BY <2>2
  <2>4. /\ table \in Seq(T) /\ Len(table) = m + 1
        /\ table[m + 1] = new
        /\ \A i \in 1..m : table[i] = windows[i + off]
        /\ DOMAIN table = 1..(m + 1)
    <3>1. rest \in Seq(T) /\ Len(rest) = m /\ \A i \in 1..m : rest[i] = windows[i + off]
      BY <2>2, <2>3
    <3>2. /\ Append(rest, new) \in Seq(T) /\ Len(Append(rest, new)) = m + 1
          /\ Append(rest, new)[m + 1] = new
          /\ \A i \in 1..m : Append(rest, new)[i] = rest[i]
      BY <1>3, <3>1
    <3>3. QED
      BY <2>1, <3>1, <3>2
  <2>5. m + 1 <= MaxGroups
    BY <1>1, <1>4, <2>2, <2>3
  <2>6. \A i \in 1..m : i + off \in 1..n /\ i + off \in DOMAIN windows
    BY <1>3, <1>4, <2>2, <2>3
  <2>7. \A j \in DOMAIN windows : windows[j].key # key
    BY <1>6 DEF Tracked
  <2>8. new.key = key
    BY DEF new
  <2>9. \A i, j \in DOMAIN table : table[i].key = table[j].key => i = j
    <3> SUFFICES ASSUME NEW i \in 1..(m + 1), NEW j \in 1..(m + 1), table[i].key = table[j].key
                 PROVE  i = j
      BY <2>4
    <3>1. CASE i \in 1..m /\ j \in 1..m
      <4>1. windows[i + off].key = windows[j + off].key
        BY <2>4, <3>1
      <4>2. i + off = j + off
        BY <1>1, <2>6, <3>1, <4>1
      <4>3. QED
        BY <4>2
    <3>2. CASE i = m + 1 /\ j \in 1..m
      BY <2>4, <2>6, <2>7, <2>8, <3>2
    <3>3. CASE i \in 1..m /\ j = m + 1
      BY <2>4, <2>6, <2>7, <2>8, <3>3
    <3>4. QED
      BY <3>1, <3>2, <3>3
  <2>10. \E i \in DOMAIN table : table[i].key = key
    <3>1. m + 1 \in DOMAIN table
      BY <2>4
    <3>2. QED
      BY <2>4, <2>8, <3>1
  <2>11. \A i \in DOMAIN table : \/ \E j \in DOMAIN windows : windows[j] = table[i]
                                 \/ table[i] = new /\ ~Tracked(key)
    <3> SUFFICES ASSUME NEW i \in 1..(m + 1)
                 PROVE  \/ \E j \in DOMAIN windows : windows[j] = table[i]
                        \/ table[i] = new /\ ~Tracked(key)
      BY <2>4
    <3>1. CASE i \in 1..m
      BY <2>4, <2>6, <3>1
    <3>2. CASE i = m + 1
      BY <1>6, <2>4, <3>2
    <3>3. QED
      BY <3>1, <3>2
  <2>12. ASSUME Len(windows) < MaxGroups, NEW j \in DOMAIN windows
         PROVE  \E i \in DOMAIN table : table[i].key = windows[j].key
    <3>1. off = 0 /\ m = n
      BY <1>1, <1>4, <2>2, <2>3, <2>12
    <3>2. j \in 1..m
      BY <1>3, <1>4, <2>12, <3>1
    <3>3. j \in DOMAIN table /\ table[j] = windows[j]
      BY <2>4, <3>1, <3>2
    <3>4. QED
      BY <3>3
  <2>13. table \in Seq(WindowType) /\ Len(table) <= MaxGroups
    BY <1>2, <2>4, <2>5
  <2>14. QED
    BY <1>6, <2>9, <2>10, <2>11, <2>12, <2>13 DEF table, new
<1>7. QED
  BY <1>5, <1>6

\* What a turn of the loop does to the log: rule r fires for the last event or not,
\* and is given up on or not; nothing else changes.
LogStep(r, fires, gaveUp) ==
  /\ log' \in Seq(EntryType)
  /\ Len(log') = Len(log)
  /\ \A n \in 1..Len(log) :
       /\ log'[n].event = log[n].event
       /\ \A s : s \in log'[n].fired <=>
                 s \in log[n].fired \/ (n = Len(log) /\ s = r /\ fires)
       /\ \A s : s \in log'[n].undecided <=>
                 s \in log[n].undecided \/ (n = Len(log) /\ s = r /\ gaveUp)

\* The last entry of the log during the loop.
LEMMA LastEntry ==
  ASSUME LoopTypes, todo # {}
  PROVE  /\ Len(log) \in Nat \ {0}
         /\ log[Len(log)] \in EntryType
         /\ Event \in Scenarios[scenario].events
         /\ Event.at \in Int /\ Event.group \in GroupValues
<1>1. /\ log \in Seq(EntryType) /\ Len(log) # 0 /\ scenario \in DOMAIN Scenarios
  BY DEF LoopTypes
<1>2. PICK T : T = EntryType
  OBVIOUS
<1>3. Len(log) \in Nat \ {0} /\ log[Len(log)] \in T
  BY <1>1, <1>2
<1>4. Event \in Scenarios[scenario].events
  BY <1>2, <1>3 DEF EntryType, Event
<1>5. QED
  BY <1>1, <1>2, <1>3, <1>4, DetectionEngineAssumption

\* Replacing the last entry of the log by one with more rules in it.
LEMMA LastReplaced ==
  ASSUME LoopTypes, NEW r \in todo, NEW fires \in BOOLEAN, NEW gaveUp \in BOOLEAN,
         NEW new \in EntryType, new.event = log[Len(log)].event,
         new.fired = log[Len(log)].fired \cup (IF fires THEN {r} ELSE {}),
         new.undecided = log[Len(log)].undecided \cup (IF gaveUp THEN {r} ELSE {}),
         log' = [log EXCEPT ![Len(log)] = new]
  PROVE  LogStep(r, fires, gaveUp)
<1>1. PICK T : T = EntryType
  OBVIOUS
<1>2. PICK N \in Nat \ {0} : N = Len(log)
  BY LastEntry
<1>3. log \in Seq(T) /\ new \in T
  BY <1>1 DEF LoopTypes
<1>4. log' = [log EXCEPT ![N] = new]
  BY <1>2
<1>5. /\ log' \in Seq(T) /\ Len(log') = N
      /\ log'[N] = new /\ \A n \in 1..N : n # N => log'[n] = log[n]
  BY <1>2, <1>3, <1>4
<1>6. ASSUME NEW n \in 1..N
      PROVE  /\ log'[n].event = log[n].event
             /\ \A s : s \in log'[n].fired <=>
                       s \in log[n].fired \/ (n = Len(log) /\ s = r /\ fires)
             /\ \A s : s \in log'[n].undecided <=>
                       s \in log[n].undecided \/ (n = Len(log) /\ s = r /\ gaveUp)
  <2>1. CASE n = N
    BY <1>2, <1>5, <2>1
  <2>2. CASE n # N
    BY <1>2, <1>5, <2>2
  <2>3. QED
    BY <2>1, <2>2
<1>7. QED
  BY <1>1, <1>2, <1>5, <1>6 DEF LogStep

\* Answer() records whether the rule fired.
LEMMA AnswerLogs ==
  ASSUME LoopTypes, NEW r \in todo, NEW fires \in BOOLEAN, Answer(r, fires)
  PROVE  LogStep(r, fires, FALSE)
<1>1. log' = IF fires THEN [log EXCEPT ![Len(log)].fired = @ \cup {r}] ELSE log
  BY DEF Answer
<1>2. PICK N \in Nat \ {0} : N = Len(log)
  BY LastEntry
<1>3. PICK e \in EntryType : e = log[N]
  BY <1>2, LastEntry
<1>4. r \in DOMAIN rules
  BY DEF LoopTypes
<1>5. CASE fires
  <2> DEFINE new == [e EXCEPT !.fired = @ \cup {r}]
  <2>1. log' = [log EXCEPT ![N] = new]
    BY <1>1, <1>2, <1>3, <1>5
  <2>2. /\ new \in EntryType /\ new.event = e.event
        /\ new.fired = e.fired \cup {r} /\ new.undecided = e.undecided
    BY <1>3, <1>4 DEF EntryType
  <2> HIDE DEF new
  <2>3. /\ new.fired = log[Len(log)].fired \cup (IF fires THEN {r} ELSE {})
        /\ new.undecided = log[Len(log)].undecided \cup (IF FALSE THEN {r} ELSE {})
        /\ new.event = log[Len(log)].event
    BY <1>2, <1>3, <1>5, <2>2
  <2>4. log' = [log EXCEPT ![Len(log)] = new]
    BY <1>2, <2>1
  <2>5. QED
    BY <2>2, <2>3, <2>4, LastReplaced
<1>6. CASE ~fires
  <2>1. log' = log
    BY <1>1, <1>6
  <2>2. log \in Seq(EntryType)
    BY DEF LoopTypes
  <2>3. QED
    BY <1>6, <2>1, <2>2 DEF LogStep
<1>7. QED
  BY <1>5, <1>6

\* A rule given up on fires.
LEMMA GiveUpLogs ==
  ASSUME LoopTypes, NEW r \in todo, GiveUp(r)
  PROVE  LogStep(r, TRUE, TRUE)
<1>1. log' = [log EXCEPT ![Len(log)].fired = @ \cup {r}, ![Len(log)].undecided = @ \cup {r}]
  BY DEF GiveUp
<1>2. PICK N \in Nat \ {0} : N = Len(log)
  BY LastEntry
<1>3. PICK e \in EntryType : e = log[N]
  BY <1>2, LastEntry
<1>4. r \in DOMAIN rules
  BY DEF LoopTypes
<1> DEFINE new == [e EXCEPT !.fired = @ \cup {r}, !.undecided = @ \cup {r}]
<1>5. log' = [log EXCEPT ![N] = new]
  <2>1. PICK T : T = EntryType
    OBVIOUS
  <2>2. log \in Seq(T) /\ N \in DOMAIN log
    BY <1>2, <2>1 DEF LoopTypes
  <2>3. log' = [log EXCEPT ![N].fired = @ \cup {r}, ![N].undecided = @ \cup {r}]
    BY <1>1, <1>2
  <2>4. QED
    BY <1>3, <2>2, <2>3
<1>6. /\ new \in EntryType /\ new.event = e.event
      /\ new.fired = e.fired \cup {r} /\ new.undecided = e.undecided \cup {r}
  BY <1>3, <1>4 DEF EntryType
<1> HIDE DEF new
<1>7. /\ new.fired = log[Len(log)].fired \cup (IF TRUE THEN {r} ELSE {})
      /\ new.undecided = log[Len(log)].undecided \cup (IF TRUE THEN {r} ELSE {})
      /\ new.event = log[Len(log)].event
  BY <1>2, <1>3, <1>6
<1>8. log' = [log EXCEPT ![Len(log)] = new]
  BY <1>2, <1>5
<1>9. QED
  BY <1>6, <1>7, <1>8, LastReplaced

\* What a turn of the loop answers for rule r, whichever way it goes.
Turned(r) ==
  /\ r \in todo /\ todo' = todo \ {r}
  /\ UNCHANGED <<scenario, rules, candidates>>
  /\ incomplete' \in Nat
  /\ \E fires, gaveUp \in BOOLEAN :
       /\ LogStep(r, fires, gaveUp)
       /\ gaveUp <=> Evaluate(rules[r], Event) = "incomplete"
       /\ gaveUp => fires
       /\ ~gaveUp /\ fires => Evaluate(rules[r], Event) = "true"
       /\ ~IsThreshold(r) /\ Evaluate(rules[r], Event) = "true" => fires

\* One turn of the loop for rule r.
LoopStep(r) == GiveUp(r) \/ Match(r) \/ Skip(r) \/ Count(r)

\* Every turn of the loop answers for one rule.
LEMMA LoopStepTurns ==
  ASSUME LoopTypes, NEW r \in todo, LoopStep(r)
  PROVE  Turned(r)
<1>1. incomplete \in Nat
  BY DEF LoopTypes
<1>2. CASE GiveUp(r)
  <2>1. LogStep(r, TRUE, TRUE)
    BY <1>2, GiveUpLogs
  <2>2. /\ todo' = todo \ {r} /\ UNCHANGED <<scenario, rules, candidates>>
        /\ incomplete' = incomplete + 1 /\ Evaluate(rules[r], Event) = "incomplete"
    BY <1>2 DEF GiveUp
  <2>3. \E fires, gaveUp \in BOOLEAN :
          /\ LogStep(r, fires, gaveUp)
          /\ gaveUp <=> Evaluate(rules[r], Event) = "incomplete"
          /\ gaveUp => fires
          /\ ~gaveUp /\ fires => Evaluate(rules[r], Event) = "true"
          /\ ~IsThreshold(r) /\ Evaluate(rules[r], Event) = "true" => fires
    <3>1. TRUE \in BOOLEAN
      OBVIOUS
    <3>2. QED
      BY <2>1, <2>2, <3>1, Zenon
  <2>4. incomplete' \in Nat
    BY <1>1, <2>2
  <2>5. QED
    BY <2>2, <2>3, <2>4, Zenon DEF Turned
<1>3. CASE Match(r)
  <2> DEFINE fires == Evaluate(rules[r], Event) = "true"
  <2>1. /\ Answer(r, fires) /\ Evaluate(rules[r], Event) # "incomplete"
    BY <1>3 DEF Match
  <2>2. fires \in BOOLEAN
    OBVIOUS
  <2>3. LogStep(r, fires, FALSE)
    BY <2>1, <2>2, AnswerLogs
  <2>4. /\ todo' = todo \ {r} /\ UNCHANGED <<scenario, rules, candidates, incomplete>>
    BY <2>1 DEF Answer
  <2>5. PICK f \in BOOLEAN : f = fires
    BY <2>2
  <2>6. LogStep(r, f, FALSE) /\ (f <=> Evaluate(rules[r], Event) = "true")
    BY <2>3, <2>5
  <2>7. QED
    BY <1>1, <2>1, <2>4, <2>6 DEF Turned
<1>4. CASE Skip(r)
  <2>1. /\ Answer(r, FALSE) /\ IsThreshold(r)
        /\ Evaluate(rules[r], Event) \in {"true", "false"}
    BY <1>4 DEF Skip, IsThreshold
  <2>2. LogStep(r, FALSE, FALSE)
    BY <2>1, AnswerLogs
  <2>3. /\ todo' = todo \ {r} /\ UNCHANGED <<scenario, rules, candidates, incomplete>>
    BY <2>1 DEF Answer
  <2>4. QED
    BY <1>1, <2>1, <2>2, <2>3 DEF Turned
<1>5. CASE Count(r)
  <2> DEFINE key == <<r, GroupKey(Event.group)>>
             table == WindowFor(key)
             i == CHOOSE n \in DOMAIN table : table[n].key = key
             times == Slide(table[i].times, Event.at, rules[r].window)
             enough == Len(times) >= rules[r].count
  <2>1. Answer(r, enough) /\ IsThreshold(r) /\ Evaluate(rules[r], Event) = "true"
    BY <1>5 DEF Count, IsThreshold
  <2>2. PICK fires \in BOOLEAN : Answer(r, fires)
    <3>1. enough \in BOOLEAN
      OBVIOUS
    <3> HIDE DEF enough
    <3>2. QED
      BY <2>1, <3>1
  <2>3. LogStep(r, fires, FALSE)
    BY <2>2, AnswerLogs
  <2>4. /\ todo' = todo \ {r} /\ UNCHANGED <<scenario, rules, candidates, incomplete>>
    BY <2>2 DEF Answer
  <2>5. QED
    BY <1>1, <2>1, <2>3, <2>4 DEF Turned
<1>6. QED
  BY <1>2, <1>3, <1>4, <1>5 DEF LoopStep

\* A threshold rule has the bounds the schema gives it.
LEMMA ThresholdBounds ==
  ASSUME LoopTypes, NEW r \in DOMAIN rules
  PROVE  /\ rules[r] \in Trees
         /\ IsThreshold(r) => rules[r].count \in Nat \ {0, 1} /\ rules[r].window \in Nat \ {0}
<1>1. rules[r] \in Trees
  BY DEF LoopTypes
<1>2. WellFormed(rules[r])
  BY <1>1, TreeShape
<1>3. QED
  BY <1>1, <1>2 DEF WellFormed, IsThreshold

\* What Count(r) does, old being the window of the group before.
CountResult(r, old) ==
  LET key == <<r, GroupKey(Event.group)>>
      out == Slide(old, Event.at, rules[r].window)
      fires == Len(out) >= rules[r].count
  IN  /\ key \in WindowKeys
      /\ old \in Seq(Int)
      /\ Tracked(key) => \E j \in DOMAIN windows : windows[j].key = key /\ windows[j].times = old
      /\ ~Tracked(key) => old = <<>>
      /\ LogStep(r, fires, FALSE)
      /\ windows' \in Seq(WindowType)
      /\ Len(windows') <= MaxGroups
      /\ \A p, q \in DOMAIN windows' : windows'[p].key = windows'[q].key => p = q
      /\ \E p \in DOMAIN windows' : windows'[p].key = key
      /\ \A p \in DOMAIN windows' :
           IF windows'[p].key = key
           THEN windows'[p].times = IF fires THEN <<>> ELSE out
           ELSE \E j \in DOMAIN windows : windows[j] = windows'[p]
      /\ evicted' \in BOOLEAN
      /\ ~evicted' =>
           /\ ~evicted
           /\ \A j \in DOMAIN windows : \E p \in DOMAIN windows' : windows'[p].key = windows[j].key

\* Count(r) slides the window of the group and leaves the others, or drops the first.
LEMMA CountChanges ==
  ASSUME MemoryInv, NEW r \in todo, Count(r)
  PROVE  \E old : CountResult(r, old)
<1> DEFINE key == <<r, GroupKey(Event.group)>>
           table == WindowFor(key)
           i == CHOOSE n \in DOMAIN table : table[n].key = key
           out == Slide(table[i].times, Event.at, rules[r].window)
           fires == Len(out) >= rules[r].count
           kept == IF fires THEN <<>> ELSE out
<1>1. /\ windows' = [table EXCEPT ![i].times = kept]
      /\ evicted' = (evicted \/ (~Tracked(key) /\ Len(windows) >= MaxGroups))
      /\ Answer(r, fires) /\ IsThreshold(r)
  BY DEF Count, IsThreshold
<1>2. LoopTypes /\ r \in DOMAIN rules
  BY DEF MemoryInv, LoopTypes
<1>3. /\ Event.at \in Int /\ Event.group \in GroupValues
  BY <1>2, LastEntry
<1>4. key \in WindowKeys
  <2>1. GroupKey(Event.group) \in GroupKeys
    BY <1>3, KeyIsSubscriber
  <2>2. QED
    BY <1>2, <2>1 DEF WindowKeys
<1>5. rules[r].count \in Nat \ {0, 1} /\ rules[r].window \in Nat \ {0}
  BY <1>1, <1>2, ThresholdBounds
<1>6. LogStep(r, fires, FALSE)
  <2>1. fires \in BOOLEAN
    OBVIOUS
  <2> HIDE DEF fires
  <2>2. QED
    BY <1>1, <1>2, <2>1, AnswerLogs
<1> DEFINE new == [key |-> key, times |-> <<>>]
<1>7. /\ table \in Seq(WindowType)
      /\ Len(table) <= MaxGroups
      /\ \A p, q \in DOMAIN table : table[p].key = table[q].key => p = q
      /\ \E p \in DOMAIN table : table[p].key = key
      /\ \A p \in DOMAIN table : \/ \E j \in DOMAIN windows : windows[j] = table[p]
                                 \/ table[p] = new /\ ~Tracked(key)
      /\ Tracked(key) \/ Len(windows) < MaxGroups =>
           \A j \in DOMAIN windows : \E p \in DOMAIN table : table[p].key = windows[j].key
  <2> HIDE DEF key
  <2>1. QED
    BY <1>4, WindowForShape
<1>8. Len(windows) \in Nat /\ MaxGroups \in Nat
  BY DetectionEngineAssumption DEF MemoryInv, TableShape
<1> HIDE DEF table, key
<1>9. i \in DOMAIN table /\ table[i].key = key
  BY <1>7
<1> HIDE DEF i
<1>10. PICK T : T = WindowType
  OBVIOUS
<1>11. PICK w \in WindowType : w = table[i]
  BY <1>7, <1>9, <1>10
<1>12. w.times \in Seq(Int)
  BY <1>11 DEF WindowType
<1>13. out \in Seq(Int)
  <2>1. out = Slide(w.times, Event.at, rules[r].window)
    BY <1>11
  <2> HIDE DEF out
  <2>2. rules[r].window \in Nat
    BY <1>5
  <2>3. QED
    BY <1>3, <1>12, <2>1, <2>2, SlideKeepsSuffix
<1>14. kept \in Seq(Int)
  <2> HIDE DEF out, fires
  <2>1. <<>> \in Seq(Int)
    OBVIOUS
  <2>2. QED
    BY <1>13, <2>1
<1> HIDE DEF kept
<1> DEFINE after == [w EXCEPT !.times = kept]
<1>15. after \in WindowType /\ after.key = key /\ after.times = kept
  BY <1>9, <1>11, <1>14 DEF WindowType
<1>16. windows' = [table EXCEPT ![i] = after]
  BY <1>1, <1>9, <1>11
<1> HIDE DEF after
<1>17. /\ windows' \in Seq(T) /\ DOMAIN windows' = DOMAIN table /\ Len(windows') = Len(table)
       /\ windows'[i] = after /\ \A p \in DOMAIN table : p # i => windows'[p] = table[p]
  BY <1>7, <1>9, <1>10, <1>15, <1>16
<1>18. /\ \A p \in DOMAIN table : windows'[p].key = table[p].key
       /\ \A p \in DOMAIN table : table[p].key = key => p = i
  BY <1>7, <1>9, <1>15, <1>17
<1>19. \A p \in DOMAIN windows' :
         IF windows'[p].key = key
         THEN windows'[p].times = kept
         ELSE \E j \in DOMAIN windows : windows[j] = windows'[p]
  <2> TAKE p \in DOMAIN windows'
  <2>1. CASE windows'[p].key = key
    BY <1>15, <1>17, <1>18, <2>1
  <2>2. CASE windows'[p].key # key
    <3>1. p # i /\ windows'[p] = table[p] /\ table[p].key # key /\ p \in DOMAIN table
      BY <1>9, <1>17, <1>18, <2>2
    <3>2. table[p] # new
      BY <3>1
    <3> HIDE DEF new
    <3>3. QED
      BY <1>7, <2>2, <3>1, <3>2
  <2>3. QED
    BY <2>1, <2>2
<1>20. /\ Tracked(key) =>
            \E j \in DOMAIN windows : windows[j].key = key /\ windows[j].times = w.times
       /\ ~Tracked(key) => w.times = <<>>
  <2>1. CASE Tracked(key)
    <3>1. PICK j \in DOMAIN windows : windows[j] = w
      <4> HIDE DEF new
      <4>1. QED
        BY <1>7, <1>9, <1>11, <2>1
    <3>2. QED
      BY <1>9, <1>11, <2>1, <3>1
  <2>2. CASE ~Tracked(key)
    <3>1. \A j \in DOMAIN windows : windows[j].key # key
      BY <2>2 DEF Tracked
    <3>2. w = new
      <4> HIDE DEF new
      <4>1. QED
        BY <1>7, <1>9, <1>11, <3>1
    <3>3. QED
      BY <2>2, <3>2
  <2>3. QED
    BY <2>1, <2>2
<1>21. /\ evicted' \in BOOLEAN
       /\ ~evicted' =>
            /\ ~evicted
            /\ \A j \in DOMAIN windows :
                 \E p \in DOMAIN windows' : windows'[p].key = windows[j].key
  <2>1. evicted' \in BOOLEAN
    BY <1>1 DEF MemoryInv, TableShape
  <2>2. ASSUME ~evicted'
        PROVE  ~evicted /\ (Tracked(key) \/ Len(windows) < MaxGroups)
    <3>1. ~(evicted \/ (~Tracked(key) /\ Len(windows) >= MaxGroups))
      BY <1>1, <2>2, Zenon
    <3>2. QED
      BY <1>8, <3>1
  <2>3. QED
    BY <1>7, <1>17, <1>18, <2>1, <2>2
<1>22. \E p \in DOMAIN windows' : windows'[p].key = key
  BY <1>9, <1>17, <1>18
<1>23. \A p, q \in DOMAIN windows' : windows'[p].key = windows'[q].key => p = q
  BY <1>7, <1>17, <1>18
<1>24. windows' \in Seq(WindowType) /\ Len(windows') <= MaxGroups
  BY <1>7, <1>10, <1>17
<1>25. out = Slide(w.times, Event.at, rules[r].window)
  BY <1>11
<1>26. kept = IF Len(out) >= rules[r].count THEN <<>> ELSE out
  BY DEF kept
<1>27. LogStep(r, Len(out) >= rules[r].count, FALSE)
  BY <1>6
<1>28. CountResult(r, w.times)
  BY <1>4, <1>12, <1>19, <1>20, <1>21, <1>22, <1>23, <1>24, <1>25, <1>26, <1>27
  DEF CountResult, key
<1>29. QED
  BY <1>28

\* The cache answers what the index would.
LEMMA CandidatesAreIndexed ==
  ASSUME CacheAnswers, NEW a
  PROVE  CandidatesFor(a) = CouldMatch(a) /\ CouldMatch(a) \subseteq DOMAIN rules
BY DEF CacheAnswers, CandidatesFor, CouldMatch

\* The cache after a lookup.
LEMMA CacheKept ==
  ASSUME CacheAnswers, NEW a, candidates' = Cache(a), rules' = rules
  PROVE  CacheAnswers'
<1> DEFINE D == DOMAIN candidates
<1>1. /\ IsFiniteSet(D) /\ Cardinality(D) <= MaxCachedActions /\ MaxCachedActions \in Nat
      /\ \A b \in D : candidates[b] = CouldMatch(b)
  BY DetectionEngineAssumption DEF CacheAnswers
<1>2. \A b : CouldMatch(b)' = CouldMatch(b)
  BY DEF CouldMatch
<1>3. CASE a \notin D /\ Cardinality(D) < MaxCachedActions
  <2>1. candidates' = [b \in D \cup {a} |-> CandidatesFor(b)]
    BY <1>3 DEF Cache
  <2>2. DOMAIN candidates' = D \cup {a}
    BY <2>1
  <2>3. \A b \in D \cup {a} : candidates'[b] = CouldMatch(b)
    BY <2>1, CandidatesAreIndexed
  <2>4. IsFiniteSet(D \cup {a}) /\ Cardinality(D \cup {a}) = Cardinality(D) + 1
    BY <1>1, <1>3, FS_AddElement
  <2>5. Cardinality(D) \in Nat
    BY <1>1, FS_CardinalityType
  <2>6. Cardinality(D \cup {a}) <= MaxCachedActions
    BY <1>1, <1>3, <2>4, <2>5
  <2> HIDE DEF D
  <2>7. QED
    BY <1>2, <2>2, <2>3, <2>4, <2>6 DEF CacheAnswers
<1>4. CASE ~(a \notin D /\ Cardinality(D) < MaxCachedActions)
  <2>1. candidates' = candidates
    BY <1>4 DEF Cache
  <2>2. QED
    BY <1>1, <1>2, <2>1 DEF CacheAnswers
<1>5. QED
  BY <1>3, <1>4

\* The log after an event is received.
LEMMA ReceiveLogs ==
  ASSUME LoopTypes, NEW event \in Scenarios[scenario].events, Receive(event)
  PROVE  /\ log' \in Seq(EntryType)
         /\ Len(log) \in Nat /\ Len(log') = Len(log) + 1
         /\ \A n \in 1..Len(log) : log'[n] = log[n]
         /\ log'[Len(log) + 1] = [event |-> event, fired |-> {}, undecided |-> {}]
<1> DEFINE new == [event |-> event, fired |-> {}, undecided |-> {}]
<1>1. PICK T : T = EntryType
  OBVIOUS
<1>2. new \in T /\ log \in Seq(T)
  BY <1>1 DEF EntryType, LoopTypes
<1>3. log' = Append(log, new)
  BY DEF Receive
<1> HIDE DEF new
<1>4. /\ log' \in Seq(T) /\ Len(log) \in Nat /\ Len(log') = Len(log) + 1
      /\ \A n \in 1..Len(log) : log'[n] = log[n]
      /\ log'[Len(log) + 1] = new
  BY <1>2, <1>3
<1>5. QED
  BY <1>1, <1>4 DEF new

\* Initially the engine remembers nothing.
LEMMA MemoryInit ==
  Init => MemoryInv
<1> SUFFICES ASSUME Init
             PROVE  MemoryInv
  OBVIOUS
<1>1. /\ scenario \in DOMAIN Scenarios /\ rules \in Scenarios[scenario].libraries
      /\ candidates = << >> /\ windows = <<>> /\ incomplete = 0 /\ todo = {}
      /\ evicted = FALSE /\ log = <<>>
  BY DEF Init
<1>2. rules \in Seq(Trees)
  BY <1>1, DetectionEngineAssumption
<1>3. LoopTypes
  <2>1. PICK T : T = EntryType
    OBVIOUS
  <2>2. log \in Seq(T)
    BY <1>1
  <2>3. QED
    BY <1>1, <1>2, <2>1, <2>2 DEF LoopTypes
<1>4. CacheAnswers
  <2>1. DOMAIN candidates = {}
    BY <1>1
  <2>2. IsFiniteSet({}) /\ Cardinality({}) = 0
    BY FS_EmptySet
  <2>3. Cardinality({}) <= MaxCachedActions
    BY <2>2, DetectionEngineAssumption
  <2>4. QED
    BY <2>1, <2>2, <2>3 DEF CacheAnswers
<1>5. TableShape
  <2>1. PICK T : T = WindowType
    OBVIOUS
  <2>2. windows \in Seq(T) /\ Len(windows) = 0 /\ DOMAIN windows = {}
    BY <1>1
  <2>3. Len(windows) <= MaxGroups
    BY <2>2, DetectionEngineAssumption
  <2>4. QED
    BY <1>1, <2>1, <2>2, <2>3 DEF TableShape
<1>6. QED
  BY <1>3, <1>4, <1>5 DEF MemoryInv

\* Every step keeps the memory bounded and the cache right.
LEMMA MemoryStep ==
  MemoryInv /\ [Next]_vars => MemoryInv'
<1> SUFFICES ASSUME MemoryInv, [Next]_vars
             PROVE  MemoryInv'
  OBVIOUS
<1>1. LoopTypes /\ CacheAnswers /\ TableShape
  BY DEF MemoryInv
<1>2. ASSUME NEW event \in Scenarios[scenario].events, Receive(event)
      PROVE  MemoryInv'
  <2>1. /\ todo' = CandidatesFor(event.action) /\ candidates' = Cache(event.action)
        /\ scenario' = scenario /\ rules' = rules /\ windows' = windows
        /\ incomplete' = incomplete /\ evicted' = evicted
    BY <1>2 DEF Receive
  <2>2. CacheAnswers'
    BY <1>1, <2>1, CacheKept
  <2>3. log' \in Seq(EntryType) /\ Len(log') # 0
    <3>1. log' \in Seq(EntryType) /\ Len(log) \in Nat /\ Len(log') = Len(log) + 1
      BY <1>1, <1>2, ReceiveLogs, Zenon
    <3>2. QED
      BY <3>1
  <2>4. todo' \subseteq DOMAIN rules
    BY <1>1, <2>1, CandidatesAreIndexed
  <2>5. LoopTypes'
    BY <1>1, <2>1, <2>3, <2>4 DEF LoopTypes, EntryType
  <2>6. TableShape'
    BY <1>1, <2>1 DEF TableShape, WindowType, WindowKeys, IsThreshold
  <2>7. QED
    BY <2>2, <2>5, <2>6 DEF MemoryInv
<1>3. ASSUME NEW r \in todo, LoopStep(r)
      PROVE  LoopTypes' /\ CacheAnswers'
  <2>1. Turned(r)
    BY <1>1, <1>3, LoopStepTurns
  <2>2. /\ todo' = todo \ {r} /\ incomplete' \in Nat
        /\ scenario' = scenario /\ rules' = rules /\ candidates' = candidates
        /\ log' \in Seq(EntryType) /\ Len(log') = Len(log)
    BY <2>1 DEF Turned, LogStep
  <2>3. LoopTypes'
    BY <1>1, <2>2 DEF LoopTypes, EntryType
  <2>4. CacheAnswers'
    BY <1>1, <2>2 DEF CacheAnswers, CouldMatch
  <2>5. QED
    BY <2>3, <2>4
<1>4. ASSUME NEW r \in todo, GiveUp(r) \/ Match(r) \/ Skip(r)
      PROVE  MemoryInv'
  <2>1. windows' = windows /\ evicted' = evicted /\ rules' = rules
    BY <1>4 DEF GiveUp, Match, Skip, Answer
  <2>2. TableShape'
    BY <1>1, <2>1 DEF TableShape, WindowType, WindowKeys, IsThreshold
  <2>3. QED
    BY <1>3, <1>4, <2>2 DEF MemoryInv, LoopStep
<1>5. ASSUME NEW r \in todo, Count(r)
      PROVE  MemoryInv'
  <2>1. PICK old : CountResult(r, old)
    BY <1>5, CountChanges
  <2> DEFINE key == <<r, GroupKey(Event.group)>>
             out == Slide(old, Event.at, rules[r].window)
  <2>2. rules' = rules /\ IsThreshold(r) /\ r \in DOMAIN rules
    BY <1>1, <1>5 DEF Count, Answer, IsThreshold, LoopTypes
  <2>3. /\ windows' \in Seq(WindowType) /\ Len(windows') <= MaxGroups /\ evicted' \in BOOLEAN
        /\ \A p, q \in DOMAIN windows' : windows'[p].key = windows'[q].key => p = q
    BY <2>1 DEF CountResult
  <2>4. \A p \in DOMAIN windows' :
          \/ /\ windows'[p].key = key
             /\ windows'[p].times = IF Len(out) >= rules[r].count THEN <<>> ELSE out
          \/ \E j \in DOMAIN windows : windows[j] = windows'[p]
    BY <2>1 DEF CountResult
  <2>5. rules[r].count \in Nat \ {0, 1} /\ rules[r].window \in Nat
    BY <1>1, <2>2, ThresholdBounds
  <2>6. Len(out) \in Nat
    <3>1. old \in Seq(Int) /\ Event.at \in Int
      BY <1>1, <2>1, LastEntry DEF CountResult
    <3>2. out \in Seq(Int)
      BY <2>5, <3>1, SlideKeepsSuffix
    <3>3. QED
      BY <3>2
  <2>7. key[1] = r
    OBVIOUS
  <2> HIDE DEF key, out
  <2>8. ASSUME NEW p \in DOMAIN windows'
        PROVE  /\ IsThreshold(windows'[p].key[1])
               /\ Len(windows'[p].times) < rules[windows'[p].key[1]].count
    <3>1. CASE /\ windows'[p].key = key
               /\ windows'[p].times = IF Len(out) >= rules[r].count THEN <<>> ELSE out
      <4>1. Len(windows'[p].times) < rules[r].count
        <5>1. Len(<<>>) = 0
          OBVIOUS
        <5>2. QED
          BY <2>5, <2>6, <3>1, <5>1
      <4>2. QED
        BY <2>2, <2>7, <3>1, <4>1
    <3>2. CASE \E j \in DOMAIN windows : windows[j] = windows'[p]
      BY <1>1, <3>2 DEF TableShape
    <3>3. QED
      BY <2>4, <3>1, <3>2
  <2>9. \A p \in DOMAIN windows' :
          /\ rules'[windows'[p].key[1]].form = "threshold"
          /\ Len(windows'[p].times) < rules'[windows'[p].key[1]].count
    BY <2>2, <2>8 DEF IsThreshold
  <2>10. TableShape'
    BY <2>2, <2>3, <2>9 DEF TableShape, WindowType, WindowKeys, IsThreshold
  <2>11. QED
    BY <1>3, <1>5, <2>10 DEF MemoryInv, LoopStep
<1>6. CASE UNCHANGED vars
  BY <1>6 DEF vars, MemoryInv, LoopTypes, EntryType, CacheAnswers, CouldMatch, TableShape,
     WindowType, WindowKeys, IsThreshold
<1>7. QED
  BY <1>2, <1>4, <1>5, <1>6 DEF Next, Finished

\* The engine's memory is bounded whatever the events are: at most MaxGroups windows,
\* each shorter than its rule's count, and at most MaxCachedActions cached actions
\* (engine.py, _window_for, _threshold_fires and _candidates_for).
THEOREM MemoryIsBounded ==
  Spec => []TypeOK
<1>1. MemoryInv => TypeOK
  BY DEF MemoryInv, TypeOK, LoopTypes, CacheAnswers, TableShape
<1>2. QED
  BY <1>1, MemoryInit, MemoryStep, PTL DEF Spec

-----------------------------------------------------------------------------
(***************************************************************************)
(* What fires.  An event fires what it matches because the index excludes   *)
(* no matching rule (IndexSound) and a decided evaluation tells the truth   *)
(* (EvaluationTells); the cache only has to answer like the index.          *)
(***************************************************************************)

\* A rule the event matches is a candidate for its action.
LEMMA MatchIsCandidate ==
  ASSUME LoopTypes, CacheAnswers, NEW event, NEW r \in DOMAIN rules,
         Matches(rules[r], event)
  PROVE  r \in CandidatesFor(event.action)
<1>1. rules[r] \in Trees
  BY ThresholdBounds
<1>2. RequiredActions(rules[r]) = AnyAction \/ event.action \in RequiredActions(rules[r])
  BY <1>1, IndexSound
<1>3. r \in CouldMatch(event.action)
  BY <1>2 DEF CouldMatch
<1>4. QED
  BY <1>3, CandidatesAreIndexed

\* Every step keeps the log right.
LEMMA MatchStep ==
  MemoryInv /\ FiresWhatMatches /\ [Next]_vars => FiresWhatMatches'
<1> SUFFICES ASSUME MemoryInv, FiresWhatMatches, [Next]_vars
             PROVE  FiresWhatMatches'
  OBVIOUS
<1>1. LoopTypes /\ CacheAnswers
  BY DEF MemoryInv
<1>2. PICK N \in Nat : N = Len(log) /\ DOMAIN log = 1..N
  BY <1>1 DEF LoopTypes
<1>3. \A n \in 1..N : \A s \in DOMAIN rules :
        /\ ~IsThreshold(s) /\ (n < N \/ s \notin todo) /\ Matches(rules[s], log[n].event)
           => s \in log[n].fired
        /\ s \in log[n].fired \ log[n].undecided => Matches(rules[s], log[n].event)
  BY <1>2 DEF FiresWhatMatches, Answered
<1>4. ASSUME NEW event \in Scenarios[scenario].events, Receive(event)
      PROVE  FiresWhatMatches'
  <2>1. /\ log' \in Seq(EntryType) /\ Len(log') = N + 1
        /\ \A n \in 1..N : log'[n] = log[n]
        /\ log'[N + 1] = [event |-> event, fired |-> {}, undecided |-> {}]
    BY <1>1, <1>2, <1>4, ReceiveLogs
  <2>2. todo = {} /\ todo' = CandidatesFor(event.action) /\ rules' = rules
    BY <1>4 DEF Receive
  <2>3. DOMAIN log' = 1..(N + 1)
    <3>1. PICK T : T = EntryType
      OBVIOUS
    <3>2. log' \in Seq(T)
      BY <2>1, <3>1
    <3>3. QED
      BY <2>1, <3>2
  <2>4. ASSUME NEW n \in 1..(N + 1), NEW s \in DOMAIN rules
        PROVE  /\ ~IsThreshold(s) /\ (n < N + 1 \/ s \notin todo')
                  /\ Matches(rules[s], log'[n].event) => s \in log'[n].fired
               /\ s \in log'[n].fired \ log'[n].undecided => Matches(rules[s], log'[n].event)
    <3>1. CASE n \in 1..N
      BY <1>3, <2>1, <2>2, <3>1
    <3>2. CASE n = N + 1
      <4>1. log'[n].event = event /\ log'[n].fired = {}
        BY <2>1, <3>2
      <4>2. Matches(rules[s], event) => s \in todo'
        BY <1>1, <2>2, MatchIsCandidate
      <4>3. ~(n < N + 1)
        BY <3>2
      <4>4. QED
        BY <4>1, <4>2, <4>3
    <3>3. QED
      BY <3>1, <3>2
  <2>5. QED
    BY <2>1, <2>2, <2>3, <2>4 DEF FiresWhatMatches, Answered, IsThreshold
<1>5. ASSUME NEW r \in todo, LoopStep(r)
      PROVE  FiresWhatMatches'
  <2>1. Turned(r)
    BY <1>1, <1>5, LoopStepTurns
  <2>2. todo' = todo \ {r} /\ rules' = rules /\ r \in DOMAIN rules
    BY <1>1, <2>1 DEF Turned, LoopTypes
  <2>3. PICK fires \in BOOLEAN, gaveUp \in BOOLEAN :
          /\ LogStep(r, fires, gaveUp)
          /\ gaveUp <=> Evaluate(rules[r], Event) = "incomplete"
          /\ gaveUp => fires
          /\ ~gaveUp /\ fires => Evaluate(rules[r], Event) = "true"
          /\ ~IsThreshold(r) /\ Evaluate(rules[r], Event) = "true" => fires
    BY <2>1 DEF Turned
  <2>4. DOMAIN log' = 1..N /\ Len(log') = N
    <3>1. PICK T : T = EntryType
      OBVIOUS
    <3>2. log' \in Seq(T) /\ Len(log') = N
      BY <1>2, <2>3, <3>1 DEF LogStep
    <3>3. QED
      BY <3>2
  <2>5. \A n \in 1..N :
          /\ log'[n].event = log[n].event
          /\ \A s : s \in log'[n].fired <=>
                    s \in log[n].fired \/ (n = N /\ s = r /\ fires)
          /\ \A s : s \in log'[n].undecided <=>
                    s \in log[n].undecided \/ (n = N /\ s = r /\ gaveUp)
    BY <1>2, <2>3 DEF LogStep
  <2>6. /\ Evaluate(rules[r], Event) \in Results
        /\ Evaluate(rules[r], Event) = "true" => Matches(rules[r], Event)
        /\ Evaluate(rules[r], Event) = "false" => ~Matches(rules[r], Event)
    <3>1. rules[r] \in Trees
      BY <1>1, <2>2, ThresholdBounds
    <3>2. QED
      BY <3>1, EvaluateNode, EvaluationTells
  <2>7. Event = log[N].event
    BY <1>2 DEF Event
  <2>8. ~IsThreshold(r) /\ Matches(rules[r], Event) => fires
    BY <2>3, <2>6 DEF Results
  <2>9. fires /\ ~gaveUp => Matches(rules[r], Event)
    BY <2>3, <2>6
  <2>10. ASSUME NEW n \in 1..N, NEW s \in DOMAIN rules
         PROVE  /\ ~IsThreshold(s) /\ (n < N \/ s \notin todo')
                   /\ Matches(rules[s], log'[n].event) => s \in log'[n].fired
                /\ s \in log'[n].fired \ log'[n].undecided => Matches(rules[s], log'[n].event)
    <3>1. CASE n = N /\ s = r
      <4>1. /\ log'[n].event = Event
            /\ s \in log'[n].fired <=> s \in log[n].fired \/ fires
            /\ s \in log'[n].undecided <=> s \in log[n].undecided \/ gaveUp
        BY <2>5, <2>7, <3>1
      <4>2. s \in log[n].fired \ log[n].undecided => Matches(rules[s], Event)
        BY <1>3, <2>7, <3>1
      <4>3. QED
        BY <2>8, <2>9, <3>1, <4>1, <4>2
    <3>2. CASE ~(n = N /\ s = r)
      <4>1. /\ log'[n].event = log[n].event
            /\ s \in log'[n].fired <=> s \in log[n].fired
            /\ s \in log'[n].undecided <=> s \in log[n].undecided
        BY <2>5, <3>2
      <4>2. n < N \/ s \notin todo' => n < N \/ s \notin todo
        BY <1>2, <2>2, <3>2
      <4>3. QED
        BY <1>3, <4>1, <4>2
    <3>3. QED
      BY <3>1, <3>2
  <2>11. QED
    BY <2>2, <2>4, <2>10 DEF FiresWhatMatches, Answered, IsThreshold
<1>6. CASE UNCHANGED vars
  BY <1>6 DEF vars, FiresWhatMatches, Answered, IsThreshold
<1>7. QED
  BY <1>4, <1>5, <1>6 DEF Next, Finished, LoopStep

\* "A false positive, never a miss": an event fires exactly the rules it matches, for
\* every library of finite condition trees and every event, and only a rule whose
\* pattern ran out of time fires besides (engine.py, evaluate and required_actions).
THEOREM EventsFireWhatTheyMatch ==
  Spec => []FiresWhatMatches
<1>1. Init => FiresWhatMatches
  <2> SUFFICES ASSUME Init
               PROVE  FiresWhatMatches
    OBVIOUS
  <2>1. DOMAIN log = {}
    BY DEF Init
  <2>2. QED
    BY <2>1 DEF FiresWhatMatches
<1>2. QED
  BY <1>1, MemoryInit, MemoryStep, MatchStep, PTL DEF Spec

-----------------------------------------------------------------------------
(***************************************************************************)
(* Thresholds.  A window only holds times; that it counts the right events  *)
(* is stated with the positions those times have in the log: the window of  *)
(* a rule and a group traces the matches since the rule last fired for it,  *)
(* all of them but the outdated ones as long as no group was evicted.       *)
(***************************************************************************)

\* Event n of the log is a match rule r counts for group key k.
Hit(r, k, n) ==
  /\ log[n].event.group.kind # "missing" /\ GroupKey(log[n].event.group) = k
  /\ Evaluate(rules[r], log[n].event) = "true"

\* The matches rule r has counted for the key, and those since it last fired for it.
Hits(r, k) == {n \in 1..Len(log) : Answered(n, r) /\ Hit(r, k, n)}
Live(r, k) == {n \in Hits(r, k) : \A m \in Hits(r, k) : n <= m => r \notin log[m].fired}

At(n) == log[n].event.at
InOrder == \A i, j \in DOMAIN log : i < j => log[i].event.at <= log[j].event.at

\* A match the rule has seen a later match one window after.
Outdated(r, k, n) == \E m \in Hits(r, k) : At(n) < At(m) - rules[r].window

\* The times of a window are those of live matches, in order; unless a group was
\* evicted, no live match is missing but outdated ones.
Traces(times, r, k) ==
  \E ix \in [1..Len(times) -> Live(r, k)] :
    /\ \A i, j \in 1..Len(times) : i < j => ix[i] < ix[j]
    /\ \A i \in 1..Len(times) : times[i] = At(ix[i])
    /\ ~evicted => \A n \in Live(r, k) : Outdated(r, k, n) \/ \E i \in 1..Len(times) : ix[i] = n

\* A rule fires in its own turn, not before.
FiredInTurn == \A s \in todo : s \notin log[Len(log)].fired

\* Every window traces its group, and unless one was evicted every group is there.
WindowsTrace ==
  /\ \A p \in DOMAIN windows : Traces(windows[p].times, windows[p].key[1], windows[p].key[2])
  /\ ~evicted => \A n \in 1..Len(log) : \A r \in DOMAIN rules :
       LET k == GroupKey(log[n].event.group)
       IN IsThreshold(r) /\ n \in Hits(r, k) => Tracked(<<r, k>>)

\* Rule r has counted event n, and fired for it as the property says.
Counting(r, n) ==
  /\ IsThreshold(r) /\ Answered(n, r) /\ log[n].event.group.kind # "missing"
  /\ Evaluate(rules[r], log[n].event) = "true"

ExactFor(r, n) ==
  LET enough == Cardinality(Within(r, n)) >= rules[r].count
  IN  /\ r \in log[n].fired => enough
      /\ enough /\ ~evicted => r \in log[n].fired

\* A window that holds the times out of live matches: at least as many matches are
\* within its span w, exactly as many when it is complete, and it traces them.
WindowOutcome(out, at, N, w, H, L, complete) ==
  LET W == {n \in L \cup {N} : at[n] >= at[N] - w}
  IN  /\ out \in Seq(Int)
      /\ IsFiniteSet(W) /\ Cardinality(W) \in Nat /\ Cardinality(W) >= Len(out)
      /\ complete => Cardinality(W) = Len(out)
      /\ \E jx \in [1..Len(out) -> L \cup {N}] :
           /\ \A i, j \in 1..Len(out) : i < j => jx[i] < jx[j]
           /\ \A i \in 1..Len(out) : out[i] = at[jx[i]]
           /\ complete => \A n \in L \cup {N} :
                \/ \E m \in H \cup {N} : at[n] < at[m] - w
                \/ \E i \in 1..Len(out) : jx[i] = n

\* The matches H before event N, those since the rule last fired L, and a window old
\* that traces them.
WindowSetup(old, ix, at, N, w, H, L, complete) ==
  /\ N \in Nat \ {0} /\ at \in [1..N -> Int]
  /\ \A i, j \in 1..N : i < j => at[i] <= at[j]
  /\ H \in SUBSET (1..(N - 1)) /\ L \in SUBSET H
  /\ w \in Nat /\ old \in Seq(Int) /\ ix \in [1..Len(old) -> L]
  /\ \A i, j \in 1..Len(old) : i < j => ix[i] < ix[j]
  /\ \A i \in 1..Len(old) : old[i] = at[ix[i]]
  /\ complete \in BOOLEAN
  /\ complete => \A n \in L : \/ \E m \in H : at[n] < at[m] - w
                              \/ \E i \in 1..Len(old) : ix[i] = n

\* A window that traces the live matches L among the matches H counts exactly those
\* within its span once event N is added and the leading old times are popped.
LEMMA WindowCounts ==
  ASSUME NEW old, NEW ix, NEW at, NEW N, NEW w, NEW H, NEW L, NEW complete,
         WindowSetup(old, ix, at, N, w, H, L, complete)
  PROVE  WindowOutcome(Slide(old, at[N], w), at, N, w, H, L, complete)
<1> SUFFICES ASSUME N \in Nat \ {0}, at \in [1..N -> Int],
                    \A i, j \in 1..N : i < j => at[i] <= at[j],
                    H \in SUBSET (1..(N - 1)), L \in SUBSET H,
                    w \in Nat, old \in Seq(Int), ix \in [1..Len(old) -> L],
                    \A i, j \in 1..Len(old) : i < j => ix[i] < ix[j],
                    \A i \in 1..Len(old) : old[i] = at[ix[i]],
                    complete \in BOOLEAN,
                    complete => \A n \in L : \/ \E m \in H : at[n] < at[m] - w
                                             \/ \E i \in 1..Len(old) : ix[i] = n
             PROVE  WindowOutcome(Slide(old, at[N], w), at, N, w, H, L, complete)
  BY DEF WindowSetup
<1> DEFINE out == Slide(old, at[N], w)
           W == {n \in L \cup {N} : at[n] >= at[N] - w}
<1>1. PICK k \in Nat : k = Len(old)
  OBVIOUS
<1>2. /\ N \in 1..N /\ at[N] \in Int
      /\ \A n \in H : n \in 1..N /\ n < N /\ at[n] \in Int /\ at[n] <= at[N]
      /\ \A n \in L : n \in H
  OBVIOUS
<1>3. /\ out \in Seq(Int)
      /\ \E d \in 0..Len(old) :
           /\ Len(out) = Len(old) + 1 - d
           /\ \A j \in 1..(Len(old) - d) : out[j] = old[j + d]
           /\ out[Len(old) + 1 - d] = at[N]
           /\ \A j \in 1..d : old[j] < at[N] - w
           /\ out[1] >= at[N] - w
  BY <1>2, SlideKeepsSuffix
<1> HIDE DEF out
<1>4. PICK d \in 0..k :
        /\ Len(out) = k + 1 - d
        /\ \A j \in 1..(k - d) : out[j] = old[j + d]
        /\ out[k + 1 - d] = at[N]
        /\ \A j \in 1..d : old[j] < at[N] - w
        /\ out[1] >= at[N] - w
  BY <1>1, <1>3
<1>5. PICK e \in Nat : e = k - d
  BY <1>4
<1>6. /\ Len(out) = e + 1 /\ out[e + 1] = at[N]
      /\ \A j \in 1..e : out[j] = old[j + d] /\ j + d \in 1..k
  BY <1>4, <1>5
<1>7. /\ \A i \in 1..k : ix[i] \in L /\ old[i] = at[ix[i]]
      /\ \A i, j \in 1..k : i < j => ix[i] < ix[j]
  BY <1>1
<1> DEFINE jx == [j \in 1..(e + 1) |-> IF j <= e THEN ix[j + d] ELSE N]
<1>8. /\ \A j \in 1..e : j \in 1..(e + 1) /\ jx[j] = ix[j + d] /\ jx[j] \in L
      /\ e + 1 \in 1..(e + 1) /\ jx[e + 1] = N
      /\ \A j \in 1..(e + 1) : j \in 1..e \/ j = e + 1
  <2>1. \A j \in 1..e : j \in 1..(e + 1) /\ j <= e
    OBVIOUS
  <2>2. /\ ~(e + 1 <= e) /\ e + 1 \in 1..(e + 1)
        /\ \A j \in 1..(e + 1) : j \in 1..e \/ j = e + 1
    OBVIOUS
  <2>3. \A j \in 1..e : jx[j] = ix[j + d]
    BY <2>1
  <2>4. jx[e + 1] = N
    BY <2>2
  <2> HIDE DEF jx
  <2>5. \A j \in 1..e : jx[j] \in L
    BY <1>6, <1>7, <2>3
  <2>6. QED
    BY <2>1, <2>2, <2>3, <2>4, <2>5
<1>9. jx \in [1..(e + 1) -> L \cup {N}]
  <2>1. DOMAIN jx = 1..(e + 1) /\ jx = [j \in DOMAIN jx |-> jx[j]]
    OBVIOUS
  <2> HIDE DEF jx
  <2>2. \A j \in 1..(e + 1) : jx[j] \in L \cup {N}
    BY <1>8
  <2>3. QED
    BY <2>1, <2>2
<1> HIDE DEF jx
<1>10. \A i, j \in 1..(e + 1) : i < j => jx[i] < jx[j]
  <2> SUFFICES ASSUME NEW i \in 1..(e + 1), NEW j \in 1..(e + 1), i < j
               PROVE  jx[i] < jx[j]
    OBVIOUS
  <2>1. i \in 1..e
    OBVIOUS
  <2>2. CASE j \in 1..e
    <3>1. /\ i + d \in 1..k /\ j + d \in 1..k
          /\ i + d < j + d
      <4>1. i + d \in 1..k /\ j + d \in 1..k
        BY <1>6, <2>1, <2>2
      <4>2. i \in Int /\ j \in Int /\ d \in Int /\ i < j
        BY <1>4, <2>1, <2>2
      <4>3. i + d < j + d
        BY <4>2
      <4>4. QED
        BY <4>1, <4>3
    <3>2. QED
      BY <1>7, <1>8, <2>1, <2>2, <3>1
  <2>3. CASE j = e + 1
    BY <1>2, <1>8, <2>1, <2>3
  <2>4. QED
    BY <1>8, <2>2, <2>3
<1>11. \A i \in 1..(e + 1) : out[i] = at[jx[i]]
  <2> TAKE i \in 1..(e + 1)
  <2>1. CASE i \in 1..e
    BY <1>6, <1>7, <1>8, <2>1
  <2>2. CASE i = e + 1
    BY <1>6, <1>8, <2>2
  <2>3. QED
    BY <1>8, <2>1, <2>2
<1>12. \A i \in 1..(e + 1) : jx[i] \in 1..N
  BY <1>2, <1>9
<1>13. \A i \in 1..(e + 1) : jx[i] \in W
  <2> TAKE i \in 1..(e + 1)
  <2>1. 1 \in 1..(e + 1) /\ at[jx[1]] >= at[N] - w
    BY <1>4, <1>11
  <2>2. at[jx[i]] >= at[jx[1]]
    <3>1. CASE i = 1
      BY <1>12, <3>1
    <3>2. CASE i # 1
      <4>1. 1 < i
        BY <3>2
      <4>2. jx[1] < jx[i]
        BY <1>10, <2>1, <4>1
      <4>3. QED
        BY <1>12, <2>1, <4>2
    <3>3. QED
      BY <3>1, <3>2
  <2>3. at[jx[i]] \in Int /\ at[jx[1]] \in Int
    BY <1>12, <2>1
  <2>4. at[jx[i]] >= at[N] - w
    BY <1>2, <2>1, <2>2, <2>3
  <2>5. QED
    BY <1>9, <2>4
<1>14. \A i, j \in 1..(e + 1) : jx[i] = jx[j] => i = j
  <2> SUFFICES ASSUME NEW i \in 1..(e + 1), NEW j \in 1..(e + 1), jx[i] = jx[j], i # j
               PROVE  FALSE
    OBVIOUS
  <2>1. i < j \/ j < i
    OBVIOUS
  <2>2. jx[i] < jx[j] \/ jx[j] < jx[i]
    BY <1>10, <2>1
  <2>3. jx[i] \in Int
    BY <1>12
  <2>4. QED
    BY <2>2, <2>3
<1>15. ASSUME complete, NEW n \in L \cup {N}
       PROVE  \/ at[n] < at[N] - w
              \/ \E i \in 1..(e + 1) : jx[i] = n
  <2>1. CASE n = N
    BY <1>8, <2>1
  <2>2. CASE n \in L
    <3>1. CASE \E m \in H : at[n] < at[m] - w
      <4>1. PICK m \in H : at[n] < at[m] - w
        BY <3>1
      <4>2. at[n] \in Int /\ at[m] \in Int /\ at[m] <= at[N]
        BY <1>2, <2>2
      <4>3. at[n] < at[N] - w
        BY <1>2, <4>1, <4>2
      <4>4. QED
        BY <4>3
    <3>2. CASE \E i \in 1..k : ix[i] = n
      <4>1. PICK i \in 1..k : ix[i] = n
        BY <3>2
      <4>2. CASE i \in 1..d
        BY <1>4, <1>7, <4>1, <4>2
      <4>3. CASE i \notin 1..d
        <5>1. PICK j \in 1..e : j + d = i
          BY <1>5, <4>1, <4>3
        <5>2. jx[j] = n /\ j \in 1..(e + 1)
          BY <1>8, <4>1, <5>1
        <5>3. QED
          BY <5>2
      <4>4. QED
        BY <4>2, <4>3
    <3>3. QED
      BY <1>1, <1>15, <2>2, <3>1, <3>2
  <2>3. QED
    BY <1>15, <2>1, <2>2
<1>16. IsFiniteSet(W) /\ Cardinality(W) \in Nat
  <2>1. IsFiniteSet(1..N)
    BY FS_Interval
  <2>2. W \subseteq 1..N
    BY <1>2
  <2>3. IsFiniteSet(W)
    BY <2>1, <2>2, FS_Subset
  <2>4. QED
    BY <2>3, FS_CardinalityType
<1>17. IsFiniteSet(1..(e + 1)) /\ Cardinality(1..(e + 1)) = e + 1
  <2>1. PICK z \in Int : z = e + 1
    OBVIOUS
  <2>2. IsFiniteSet(1..z) /\ Cardinality(1..z) = IF 1 > z THEN 0 ELSE z - 1 + 1
    BY FS_Interval
  <2>3. QED
    BY <2>1, <2>2
<1>18. jx \in Injection(1..(e + 1), W)
  <2>1. jx \in [1..(e + 1) -> W]
    BY <1>9, <1>13
  <2>2. QED
    BY <1>14, <2>1 DEF Injection, IsInjective
<1>19. Cardinality(W) >= e + 1
  <2> HIDE DEF W
  <2>1. Cardinality(1..(e + 1)) <= Cardinality(W)
    BY <1>16, <1>17, <1>18, FS_Injection
  <2>2. QED
    BY <1>16, <1>17, <2>1
<1>20. complete => Cardinality(W) = e + 1
  <2> SUFFICES ASSUME complete
               PROVE  Cardinality(W) = e + 1
    OBVIOUS
  <2>1. \A n \in W : \E i \in 1..(e + 1) : jx[i] = n
    <3> TAKE n \in W
    <3>1. n \in L \cup {N} /\ n \in 1..N /\ at[n] \in Int /\ at[n] >= at[N] - w
      BY <1>2
    <3>2. ~(at[n] < at[N] - w)
      BY <1>2, <3>1
    <3>3. QED
      BY <1>15, <3>1, <3>2
  <2> HIDE DEF W
  <2>2. jx \in Surjection(1..(e + 1), W)
    BY <1>18, <2>1 DEF Injection, Surjection
  <2>3. Cardinality(W) = Cardinality(1..(e + 1))
    BY <1>17, <1>18, <2>2, FS_Surjection
  <2>4. QED
    BY <1>17, <2>3
<1>21. complete => \A n \in L \cup {N} :
         \/ \E m \in H \cup {N} : at[n] < at[m] - w
         \/ \E i \in 1..(e + 1) : jx[i] = n
  BY <1>15
<1>22. QED
  <2> HIDE DEF W
  <2>1. \E f \in [1..Len(out) -> L \cup {N}] :
          /\ \A i, j \in 1..Len(out) : i < j => f[i] < f[j]
          /\ \A i \in 1..Len(out) : out[i] = at[f[i]]
          /\ complete => \A n \in L \cup {N} :
               \/ \E m \in H \cup {N} : at[n] < at[m] - w
               \/ \E i \in 1..Len(out) : f[i] = n
    <3>1. e + 1 = Len(out)
      BY <1>6
    <3>2. /\ jx \in [1..Len(out) -> L \cup {N}]
          /\ \A i, j \in 1..Len(out) : i < j => jx[i] < jx[j]
          /\ \A i \in 1..Len(out) : out[i] = at[jx[i]]
          /\ complete => \A n \in L \cup {N} :
               \/ \E m \in H \cup {N} : at[n] < at[m] - w
               \/ \E i \in 1..Len(out) : jx[i] = n
      BY <1>9, <1>10, <1>11, <1>21, <3>1
    <3>3. QED
      BY <3>2, Zenon
  <2>2. QED
    BY <1>3, <1>6, <1>16, <1>19, <1>20, <2>1 DEF out, W, WindowOutcome

\* The entries of the log.
LEMMA EntryFacts ==
  ASSUME LoopTypes, NEW n \in 1..Len(log)
  PROVE  /\ n \in DOMAIN log /\ Len(log) \in Nat
         /\ log[n].event.at \in Int /\ log[n].event.group \in GroupValues
<1>1. log \in Seq(EntryType) /\ scenario \in DOMAIN Scenarios
  BY DEF LoopTypes
<1>2. PICK T : T = EntryType
  OBVIOUS
<1>3. n \in DOMAIN log /\ Len(log) \in Nat /\ log[n] \in T
  BY <1>1, <1>2
<1>4. log[n].event \in Scenarios[scenario].events
  BY <1>2, <1>3 DEF EntryType
<1>5. QED
  BY <1>1, <1>3, <1>4, DetectionEngineAssumption

\* A window keeps tracing its group while the matches counted for it stay the same.
LEMMA TracesKept ==
  ASSUME NEW r, NEW k, NEW times, Hits(r, k)' = Hits(r, k),
         \A m \in Hits(r, k) : /\ log'[m].event = log[m].event
                               /\ r \in log'[m].fired <=> r \in log[m].fired,
         rules' = rules, ~evicted' => ~evicted, Traces(times, r, k)
  PROVE  Traces(times, r, k)'
<1>1. Live(r, k)' = Live(r, k)
  BY DEF Live
<1>2. Live(r, k) \subseteq Hits(r, k)
  BY DEF Live
<1>3. \A n \in Hits(r, k) : At(n)' = At(n)
  BY DEF At
<1>4. \A n \in Hits(r, k) : Outdated(r, k, n) => Outdated(r, k, n)'
  BY <1>3 DEF Outdated
<1>5. PICK ix \in [1..Len(times) -> Live(r, k)] :
        /\ \A i, j \in 1..Len(times) : i < j => ix[i] < ix[j]
        /\ \A i \in 1..Len(times) : times[i] = At(ix[i])
        /\ ~evicted => \A n \in Live(r, k) :
             Outdated(r, k, n) \/ \E i \in 1..Len(times) : ix[i] = n
  BY DEF Traces
<1>6. \A i \in 1..Len(times) : times[i] = At(ix[i])'
  BY <1>2, <1>3, <1>5
<1>7. ~evicted' => \A n \in Live(r, k) :
        Outdated(r, k, n)' \/ \E i \in 1..Len(times) : ix[i] = n
  BY <1>2, <1>4, <1>5
<1>8. ix \in [1..Len(times) -> Live(r, k)']
  BY <1>1
<1>9. QED
  BY <1>1, <1>5, <1>6, <1>7, <1>8 DEF Traces

\* What was counted right stays so while the log up to there stays the same.
LEMMA ExactKept ==
  ASSUME NEW n \in Nat, NEW s, rules' = rules, ~evicted' => ~evicted,
         \A i \in 1..n : /\ log'[i].event = log[i].event
                         /\ s \in log'[i].fired <=> s \in log[i].fired,
         n \in 1..n, ExactFor(s, n)
  PROVE  ExactFor(s, n)'
<1>1. CountsFor(s, n)' = CountsFor(s, n)
  <2> DEFINE Same(i) == /\ log[i].event.group.kind # "missing"
                        /\ SameSubscriber(log[i].event.group, log[n].event.group)
                        /\ Evaluate(rules[s], log[i].event) = "true"
             Same1(i) == /\ log'[i].event.group.kind # "missing"
                         /\ SameSubscriber(log'[i].event.group, log'[n].event.group)
                         /\ Evaluate(rules'[s], log'[i].event) = "true"
  <2>1. \A i \in 1..n : Same1(i) <=> Same(i)
    OBVIOUS
  <2>2. CountsFor(s, n) =
          {i \in 1..n : Same(i) /\ \A j \in i..(n - 1) : ~(Same(j) /\ s \in log[j].fired)}
    BY DEF CountsFor
  <2>3. CountsFor(s, n)' =
          {i \in 1..n : Same1(i) /\ \A j \in i..(n - 1) : ~(Same1(j) /\ s \in log'[j].fired)}
    BY DEF CountsFor
  <2> HIDE DEF Same, Same1
  <2>4. \A i \in 1..n : \A j \in i..(n - 1) :
          (Same1(j) /\ s \in log'[j].fired) <=> (Same(j) /\ s \in log[j].fired)
    <3> TAKE i \in 1..n
    <3> TAKE j \in i..(n - 1)
    <3>1. j \in 1..n
      OBVIOUS
    <3>2. QED
      BY <2>1, <3>1
  <2>5. QED
    BY <2>1, <2>2, <2>3, <2>4
<1>2. CountsFor(s, n) \subseteq 1..n
  BY DEF CountsFor
<1>3. Within(s, n)' = Within(s, n)
  BY <1>1, <1>2 DEF Within
<1>4. QED
  BY <1>3 DEF ExactFor

\* A match that counts: the window of its group traces the matches since the rule last
\* fired for it, the new one included, and the rule fires exactly when enough of them
\* are within its span.
LEMMA CountTraces ==
  ASSUME MemoryInv, FiredInTurn, InOrder, WindowsTrace,
         NEW r \in todo, Count(r), NEW old, CountResult(r, old),
         NEW k, k = GroupKey(Event.group), NEW after,
         after = LET out == Slide(old, Event.at, rules[r].window)
                 IN  IF Len(out) >= rules[r].count THEN <<>> ELSE out
  PROVE  Traces(after, r, k)' /\ \A N : N = Len(log) => ExactFor(r, N)'
<1> DEFINE w == rules[r].window
           out == Slide(old, Event.at, w)
           fires == Len(out) >= rules[r].count
<1>1. LoopTypes
  BY DEF MemoryInv
<1>2. PICK N \in Nat \ {0} : N = Len(log)
  BY <1>1, LastEntry
<1>3. /\ N \in 1..N /\ N = Len(log) /\ Event = log[N].event
      /\ \A n \in 1..N : log[n].event.at \in Int /\ log[n].event.group \in GroupValues
      /\ DOMAIN log = 1..N
  <2>1. \A n \in 1..N : log[n].event.at \in Int /\ log[n].event.group \in GroupValues
    BY <1>1, <1>2, EntryFacts
  <2>2. DOMAIN log = 1..N
    BY <1>1, <1>2 DEF LoopTypes
  <2>3. QED
    BY <1>2, <2>1, <2>2 DEF Event
<1>4. /\ IsThreshold(r) /\ Evaluate(rules[r], log[N].event) = "true"
      /\ log[N].event.group.kind # "missing" /\ rules' = rules /\ todo' = todo \ {r}
      /\ r \in DOMAIN rules
  BY <1>1, <1>3 DEF Count, Answer, IsThreshold, LoopTypes
<1>5. w \in Nat /\ rules[r].count \in Nat
  BY <1>1, <1>4, ThresholdBounds
<1>6. PICK f \in BOOLEAN : (f <=> fires) /\ LogStep(r, f, FALSE)
  <2>1. fires \in BOOLEAN
    OBVIOUS
  <2>2. LogStep(r, fires, FALSE)
    BY Zenon DEF CountResult
  <2> HIDE DEF fires
  <2>3. QED
    BY <2>1, <2>2
<1>7. /\ Len(log') = N
      /\ \A n \in 1..N : /\ log'[n].event = log[n].event
                         /\ r \in log'[n].fired <=> r \in log[n].fired \/ (n = N /\ f)
  BY <1>2, <1>6 DEF LogStep
<1>8. r \notin log[N].fired
  BY <1>3 DEF FiredInTurn
<1>9. ~evicted' => ~evicted
  BY DEF CountResult
<1> DEFINE H == Hits(r, k)
           L == Live(r, k)
<1>10. /\ H = {n \in 1..(N - 1) : Hit(r, k, n)}
       /\ L = {n \in H : \A m \in H : n <= m => r \notin log[m].fired}
  <2>1. \A n \in 1..N : Answered(n, r) <=> n < N
    BY <1>3 DEF Answered
  <2>2. \A n : n \in H <=> n \in 1..N /\ n < N /\ Hit(r, k, n)
    BY <1>3, <2>1 DEF Hits
  <2>3. \A n : n \in 1..N /\ n < N <=> n \in 1..(N - 1)
    OBVIOUS
  <2>4. QED
    BY <2>2, <2>3 DEF Live
<1>11. Traces(old, r, k)
  <2>1. CASE Tracked(<<r, k>>)
    <3>1. PICK j \in DOMAIN windows : windows[j].key = <<r, k>> /\ windows[j].times = old
      BY <2>1 DEF CountResult
    <3>2. windows[j].key[1] = r /\ windows[j].key[2] = k
      BY <3>1
    <3>3. QED
      BY <3>1, <3>2 DEF WindowsTrace
  <2>2. CASE ~Tracked(<<r, k>>)
    <3>1. old = <<>>
      BY <2>2 DEF CountResult
    <3>2. ~evicted => H = {}
      <4> SUFFICES ASSUME ~evicted, NEW n \in H
                   PROVE  FALSE
        OBVIOUS
      <4>1. n \in 1..Len(log) /\ k = GroupKey(log[n].event.group)
        BY DEF Hits, Hit
      <4>2. Tracked(<<r, k>>)
        BY <1>4, <4>1 DEF WindowsTrace
      <4>3. QED
        BY <2>2, <4>2
    <3>3. ~evicted => L = {}
      BY <1>10, <3>2
    <3>4. PICK ix : ix = [i \in 1..0 |-> 0]
      OBVIOUS
    <3>5. Len(old) = 0 /\ ix \in [1..Len(old) -> L]
      BY <3>1, <3>4
    <3> HIDE DEF L
    <3>6. /\ \A i, j \in 1..Len(old) : i < j => ix[i] < ix[j]
          /\ \A i \in 1..Len(old) : old[i] = At(ix[i])
          /\ ~evicted => \A n \in L : Outdated(r, k, n) \/ \E i \in 1..Len(old) : ix[i] = n
      BY <3>3, <3>5
    <3>7. QED
      BY <3>5, <3>6, Zenon DEF Traces, L
  <2>3. QED
    BY <2>1, <2>2
<1>12. PICK ix \in [1..Len(old) -> L] :
         /\ \A i, j \in 1..Len(old) : i < j => ix[i] < ix[j]
         /\ \A i \in 1..Len(old) : old[i] = At(ix[i])
         /\ ~evicted => \A n \in L : Outdated(r, k, n) \/ \E i \in 1..Len(old) : ix[i] = n
  BY <1>11 DEF Traces
<1> DEFINE at == [n \in 1..N |-> log[n].event.at]
           W == {n \in L \cup {N} : at[n] >= at[N] - w}
<1>13. /\ at \in [1..N -> Int] /\ at[N] = Event.at
       /\ \A n \in 1..N : at[n] = At(n)
       /\ \A i, j \in 1..N : i < j => at[i] <= at[j]
  BY <1>3 DEF InOrder, At
<1> HIDE DEF at, H, L, W
<1>14. H \in SUBSET (1..(N - 1)) /\ L \in SUBSET H /\ old \in Seq(Int)
  BY <1>10 DEF CountResult
<1>15. H \subseteq 1..N
  BY <1>14
<1>16. \A i \in 1..Len(old) : old[i] = at[ix[i]]
  BY <1>12, <1>13, <1>14, <1>15
<1>17. ~evicted => \A n \in L : \/ \E m \in H : at[n] < at[m] - w
                                \/ \E i \in 1..Len(old) : ix[i] = n
  <2> SUFFICES ASSUME ~evicted, NEW n \in L, Outdated(r, k, n)
               PROVE  \E m \in H : at[n] < at[m] - w
    BY <1>12
  <2>1. PICK m \in H : At(n) < At(m) - w
    BY DEF Outdated, H
  <2>2. at[n] = At(n) /\ at[m] = At(m)
    BY <1>13, <1>14, <1>15
  <2>3. QED
    BY <2>1, <2>2
<1>18. PICK complete \in BOOLEAN : complete <=> ~evicted
  BY DEF MemoryInv, TableShape
<1>19. /\ out \in Seq(Int)
       /\ IsFiniteSet(W) /\ Cardinality(W) \in Nat /\ Cardinality(W) >= Len(out)
       /\ complete => Cardinality(W) = Len(out)
       /\ \E jx \in [1..Len(out) -> L \cup {N}] :
            /\ \A i, j \in 1..Len(out) : i < j => jx[i] < jx[j]
            /\ \A i \in 1..Len(out) : out[i] = at[jx[i]]
            /\ complete => \A n \in L \cup {N} :
                 \/ \E m \in H \cup {N} : at[n] < at[m] - w
                 \/ \E i \in 1..Len(out) : jx[i] = n
  <2>1. complete => \A n \in L : \/ \E m \in H : at[n] < at[m] - w
                                 \/ \E i \in 1..Len(old) : ix[i] = n
    BY <1>17, <1>18
  <2>2. out = Slide(old, at[N], w)
    BY <1>13
  <2> HIDE DEF out, w
  <2>3. WindowOutcome(Slide(old, at[N], w), at, N, w, H, L, complete)
    <3>1. /\ w \in Nat /\ at \in [1..N -> Int]
          /\ H \in SUBSET (1..(N - 1)) /\ L \in SUBSET H /\ old \in Seq(Int)
      BY <1>5, <1>13, <1>14 DEF w
    <3>2. \A i, j \in 1..N : i < j => at[i] <= at[j]
      BY <1>13
    <3>3. \A i, j \in 1..Len(old) : i < j => ix[i] < ix[j]
      BY <1>12
    <3>4. WindowSetup(old, ix, at, N, w, H, L, complete)
      BY <1>16, <2>1, <3>1, <3>2, <3>3 DEF WindowSetup
    <3>5. QED
      BY <3>4, WindowCounts, Zenon
  <2>4. WindowOutcome(out, at, N, w, H, L, complete)
    BY <2>2, <2>3
  <2>5. QED
    BY <2>4 DEF W, WindowOutcome
<1> HIDE DEF out, w, fires
<1>20. \A n \in 1..N : Hit(r, k, n)' <=> Hit(r, k, n)
  BY <1>4, <1>7 DEF Hit
<1>21. Hit(r, k, N)
  BY <1>3, <1>4 DEF Hit
<1>22. Hits(r, k)' = H \cup {N}
  <2>1. \A n \in 1..N : Answered(n, r)'
    BY <1>4 DEF Answered
  <2>2. \A n : n \in Hits(r, k)' <=> n \in 1..N /\ Hit(r, k, n)
    BY <1>7, <1>20, <2>1 DEF Hits
  <2>3. \A n : n \in 1..N <=> n \in 1..(N - 1) \/ n = N
    OBVIOUS
  <2>4. QED
    BY <1>10, <1>21, <2>2, <2>3
<1>23. \A n : n \in Live(r, k)' <=>
         n \in H \cup {N} /\ \A m \in H \cup {N} : n <= m => r \notin log'[m].fired
  BY <1>22 DEF Live
<1>24. \A m \in H : r \in log'[m].fired <=> r \in log[m].fired
  <2> TAKE m \in H
  <2>1. m \in 1..N /\ m # N
    BY <1>14
  <2>2. QED
    BY <1>7, <2>1
<1>25. r \in log'[N].fired <=> f
  BY <1>3, <1>7, <1>8
<1>26. \A n \in 1..N : At(n)' = at[n]
  BY <1>7, <1>13 DEF At
<1>27. Traces(after, r, k)'
  <2>1. CASE f
    <3>1. Live(r, k)' = {}
      <4> SUFFICES ASSUME NEW n \in Live(r, k)'
                   PROVE  FALSE
        OBVIOUS
      <4>1. n \in H \cup {N} /\ \A m \in H \cup {N} : n <= m => r \notin log'[m].fired
        BY <1>23
      <4>2. n <= N
        <5>1. CASE n = N
          BY <5>1
        <5>2. CASE n \in H
          BY <1>14, <5>2
        <5>3. QED
          BY <4>1, <5>1, <5>2
      <4>3. QED
        BY <1>25, <2>1, <4>1, <4>2
    <3>2. PICK jx : jx = [i \in 1..0 |-> 0]
      OBVIOUS
    <3>3. PICK none : none = <<>> /\ none = after
      BY <1>6, <2>1 DEF fires, out, w
    <3>4. Len(none) = 0 /\ jx \in [1..Len(none) -> Live(r, k)']
      BY <3>2, <3>3
    <3>5. /\ \A i, j \in 1..Len(none) : i < j => jx[i] < jx[j]
          /\ \A i \in 1..Len(none) : none[i] = At(jx[i])'
          /\ \A n \in Live(r, k)' : Outdated(r, k, n)' \/ \E i \in 1..Len(none) : jx[i] = n
      BY <3>1, <3>4
    <3>6. Traces(none, r, k)'
      BY <3>4, <3>5, Zenon DEF Traces
    <3>7. QED
      BY <3>3, <3>6
  <2>2. CASE ~f
    <3>1. Live(r, k)' = L \cup {N}
      <4>1. ASSUME NEW n \in L \cup {N}
            PROVE  n \in Live(r, k)'
        <5>1. n \in H \cup {N}
          BY <1>14, <4>1
        <5>2. ASSUME NEW m \in H \cup {N}, n <= m
              PROVE  r \notin log'[m].fired
          <6>1. CASE m = N
            BY <1>25, <2>2, <6>1
          <6>2. CASE m \in H
            <7>1. m < N /\ m \in Nat
              BY <1>14, <6>2
            <7>2. n # N
              BY <5>2, <7>1
            <7>3. n \in L
              BY <4>1, <7>2
            <7>4. QED
              BY <1>10, <1>24, <5>2, <6>2, <7>3
          <6>3. QED
            BY <5>2, <6>1, <6>2
        <5>3. QED
          BY <1>23, <5>1, <5>2
      <4>2. ASSUME NEW n \in Live(r, k)'
            PROVE  n \in L \cup {N}
        BY <1>10, <1>23, <1>24, <4>2
      <4>3. QED
        BY <4>1, <4>2
    <3>2. PICK jx \in [1..Len(out) -> L \cup {N}] :
            /\ \A i, j \in 1..Len(out) : i < j => jx[i] < jx[j]
            /\ \A i \in 1..Len(out) : out[i] = at[jx[i]]
            /\ complete => \A n \in L \cup {N} :
                 \/ \E m \in H \cup {N} : at[n] < at[m] - w
                 \/ \E i \in 1..Len(out) : jx[i] = n
      BY <1>19
    <3>3. L \cup {N} \subseteq 1..N /\ H \cup {N} \subseteq 1..N
      BY <1>3, <1>14, <1>15
    <3>4. PICK times : times = out /\ times = after
      BY <1>6, <2>2 DEF fires, out, w
    <3>5. jx \in [1..Len(times) -> Live(r, k)']
      BY <3>1, <3>2, <3>4
    <3>6. \A i \in 1..Len(times) : times[i] = At(jx[i])'
      BY <1>26, <3>2, <3>3, <3>4
    <3>7. ~evicted' => \A n \in Live(r, k)' :
            Outdated(r, k, n)' \/ \E i \in 1..Len(times) : jx[i] = n
      <4> SUFFICES ASSUME ~evicted', NEW n \in L \cup {N},
                          NEW m \in H \cup {N}, at[n] < at[m] - w
                   PROVE  Outdated(r, k, n)'
        BY <1>9, <1>18, <3>1, <3>2, <3>4
      <4>1. m \in Hits(r, k)'
        BY <1>22
      <4>2. At(n)' = at[n] /\ At(m)' = at[m]
        BY <1>26, <3>3
      <4>3. QED
        BY <1>4, <4>1, <4>2 DEF Outdated, w
    <3>8. \A i, j \in 1..Len(times) : i < j => jx[i] < jx[j]
      BY <3>2, <3>4
    <3>9. Traces(times, r, k)'
      BY <3>5, <3>6, <3>7, <3>8, Zenon DEF Traces
    <3>10. QED
      BY <3>4, <3>9
  <2>3. QED
    BY <2>1, <2>2
<1>28. Within(r, N)' = W
  <2> DEFINE Same(i) == /\ log'[i].event.group.kind # "missing"
                        /\ SameSubscriber(log'[i].event.group, log'[N].event.group)
                        /\ Evaluate(rules'[r], log'[i].event) = "true"
  <2>1. \A i \in 1..N : Same(i) <=> Hit(r, k, i)
    <3> TAKE i \in 1..N
    <3>1. /\ log'[i].event = log[i].event /\ log'[N].event = log[N].event
          /\ log[i].event.group \in GroupValues /\ log[N].event.group \in GroupValues
      BY <1>3, <1>7
    <3>2. SameSubscriber(log[i].event.group, log[N].event.group) <=>
          GroupKey(log[i].event.group) = GroupKey(log[N].event.group)
      BY <3>1, KeyIsSubscriber
    <3>3. k = GroupKey(log[N].event.group)
      BY <1>3
    <3>4. QED
      BY <1>4, <3>1, <3>2, <3>3 DEF Hit
  <2>2. CountsFor(r, N)' =
          {i \in 1..N : Same(i) /\ \A j \in i..(N - 1) : ~(Same(j) /\ r \in log'[j].fired)}
    BY DEF CountsFor
  <2> HIDE DEF Same
  <2>3. \A i : i \in CountsFor(r, N)' <=> i \in L \cup {N}
    <3>1. ASSUME NEW i \in CountsFor(r, N)', i # N
          PROVE  i \in L
      <4>1. /\ i \in 1..N /\ i \in 1..(N - 1) /\ Same(i)
            /\ \A j \in i..(N - 1) : ~(Same(j) /\ r \in log'[j].fired)
        BY <2>2, <3>1
      <4>2. i \in H
        BY <1>10, <2>1, <4>1
      <4>3. ASSUME NEW m \in H, i <= m
            PROVE  r \notin log[m].fired
        <5>1. m \in i..(N - 1) /\ m \in 1..N /\ Hit(r, k, m)
          BY <1>10, <4>1, <4>3
        <5>2. QED
          BY <1>24, <2>1, <4>1, <4>3, <5>1
      <4>4. QED
        BY <1>10, <4>2, <4>3
    <3>2. ASSUME NEW i \in L
          PROVE  i \in CountsFor(r, N)'
      <4>1. i \in H /\ i \in 1..(N - 1) /\ i \in 1..N /\ Hit(r, k, i)
        BY <1>10, <1>14
      <4>2. ASSUME NEW j \in i..(N - 1), Same(j)
            PROVE  r \notin log'[j].fired
        <5>1. j \in 1..(N - 1) /\ j \in 1..N /\ i <= j
          BY <4>1
        <5>2. j \in H
          BY <1>10, <2>1, <4>2, <5>1
        <5>3. QED
          BY <1>10, <1>24, <5>1, <5>2
      <4>3. QED
        BY <2>1, <2>2, <4>1, <4>2
    <3>3. N \in CountsFor(r, N)'
      <4>1. Same(N) /\ N \in 1..N /\ N..(N - 1) = {}
        BY <1>3, <1>21, <2>1
      <4>2. QED
        BY <2>2, <4>1
    <3>4. QED
      BY <3>1, <3>2, <3>3
  <2>4. CountsFor(r, N)' = L \cup {N}
    BY <2>3
  <2>5. Within(r, N)' = {i \in L \cup {N} : log'[i].event.at >= log'[N].event.at - rules'[r].window}
    BY <2>4 DEF Within
  <2>6. \A i \in L \cup {N} : log'[i].event.at = at[i]
    BY <1>3, <1>14, <1>15, <1>26 DEF At
  <2>7. QED
    BY <1>4, <2>5, <2>6 DEF W, w
<1>29. ExactFor(r, N)'
  <2>1. f <=> Len(out) >= rules[r].count
    BY <1>6 DEF fires
  <2>2. Len(out) \in Nat
    BY <1>19
  <2>3. f => Cardinality(W) >= rules[r].count
    BY <1>5, <1>19, <2>1, <2>2
  <2>4. Cardinality(W) >= rules[r].count /\ ~evicted' => f
    BY <1>5, <1>9, <1>18, <1>19, <2>1, <2>2
  <2>5. QED
    BY <1>4, <1>25, <1>28, <2>3, <2>4 DEF ExactFor
<1>30. QED
  BY <1>2, <1>27, <1>29

\* A step leaves the matches rule s has counted for key k alone.
SameHits(s, k) ==
  /\ Hits(s, k)' = Hits(s, k)
  /\ \A m \in Hits(s, k) : /\ log'[m].event = log[m].event
                           /\ s \in log'[m].fired <=> s \in log[m].fired

\* Everything counted so far was counted right.
AllExact == \A n \in DOMAIN log : \A r \in DOMAIN rules : Counting(r, n) => ExactFor(r, n)

TrackInv == FiredInTurn /\ (InOrder => WindowsTrace /\ AllExact)

\* A turn of the loop for rule r: it leaves the other rules' matches alone, and its own
\* when the event is none of them.
LEMMA TurnKeepsHits ==
  ASSUME LoopTypes, NEW r \in todo, todo' = todo \ {r}, rules' = rules,
         NEW f \in BOOLEAN, NEW g \in BOOLEAN, LogStep(r, f, g),
         NEW s, NEW k, s # r \/ ~Hit(r, k, Len(log))
  PROVE  SameHits(s, k)
<1>1. PICK N \in Nat \ {0} : N = Len(log)
  BY LastEntry
<1>2. /\ Len(log') = N
      /\ \A n \in 1..N : /\ log'[n].event = log[n].event
                         /\ s \in log'[n].fired <=> s \in log[n].fired \/ (n = N /\ s = r /\ f)
  BY <1>1 DEF LogStep
<1>3. \A n \in 1..N : Hit(s, k, n)' <=> Hit(s, k, n)
  BY <1>2 DEF Hit
<1>4. \A n \in 1..N : Hit(s, k, n) => ~(s = r /\ n = N)
  BY <1>1
<1>5. \A n \in 1..N : Hit(s, k, n) => (Answered(n, s)' <=> Answered(n, s))
  BY <1>1, <1>2, <1>4 DEF Answered
<1>6. \A n : /\ n \in Hits(s, k)' <=> n \in 1..N /\ Answered(n, s)' /\ Hit(s, k, n)'
             /\ n \in Hits(s, k) <=> n \in 1..N /\ Answered(n, s) /\ Hit(s, k, n)
  BY <1>1, <1>2 DEF Hits
<1>7. Hits(s, k)' = Hits(s, k)
  BY <1>3, <1>5, <1>6
<1>8. \A m \in Hits(s, k) : m \in 1..N /\ ~(s = r /\ m = N)
  BY <1>4, <1>6
<1>9. QED
  BY <1>2, <1>7, <1>8 DEF SameHits

\* A turn of the loop for rule r: whatever else was counted right stays so.
LEMMA TurnKeepsExact ==
  ASSUME LoopTypes, NEW r \in todo, todo' = todo \ {r}, rules' = rules, ~evicted' => ~evicted,
         NEW f \in BOOLEAN, NEW g \in BOOLEAN, LogStep(r, f, g),
         NEW s, NEW n \in 1..Len(log), ~(s = r /\ n = Len(log)),
         Counting(s, n) => ExactFor(s, n), Counting(s, n)'
  PROVE  ExactFor(s, n)'
<1>1. PICK N \in Nat \ {0} : N = Len(log)
  BY LastEntry
<1>2. /\ Len(log') = N
      /\ \A i \in 1..N : /\ log'[i].event = log[i].event
                         /\ s \in log'[i].fired <=> s \in log[i].fired \/ (i = N /\ s = r /\ f)
  BY <1>1 DEF LogStep
<1>3. n \in 1..N /\ n \in Nat /\ n \in 1..n
  BY <1>1
<1>4. Counting(s, n)
  <2>1. Answered(n, s)' => Answered(n, s)
    BY <1>1, <1>2, <1>3 DEF Answered
  <2>2. log'[n].event = log[n].event
    BY <1>2, <1>3
  <2>3. QED
    BY <2>1, <2>2 DEF Counting, IsThreshold
<1>5. ASSUME NEW i \in 1..n
      PROVE  /\ log'[i].event = log[i].event
             /\ s \in log'[i].fired <=> s \in log[i].fired
  <2>1. i \in 1..N /\ (i = N => n = N)
    BY <1>3
  <2>2. QED
    BY <1>1, <1>2, <2>1
<1>6. QED
  BY <1>3, <1>4, <1>5, ExactKept

\* While the windows and the matches they count stay the same, so does what they trace.
LEMMA WindowsKept ==
  ASSUME LoopTypes, TableShape, WindowsTrace,
         windows' = windows, rules' = rules, evicted' = evicted,
         \A s \in DOMAIN rules : \A k : IsThreshold(s) => SameHits(s, k)
  PROVE  WindowsTrace'
<1>1. ASSUME NEW p \in DOMAIN windows, NEW t, NEW s, NEW k,
             t = windows[p].times, s = windows[p].key[1], k = windows[p].key[2]
      PROVE  Traces(t, s, k)'
  <2>1. Traces(t, s, k)
    BY <1>1 DEF WindowsTrace
  <2>2. s \in DOMAIN rules /\ IsThreshold(s)
    <3>1. PICK T : T = WindowType
      OBVIOUS
    <3>2. windows[p] \in T
      BY <3>1 DEF TableShape
    <3>3. windows[p].key \in (DOMAIN rules) \X GroupKeys
      BY <3>1, <3>2 DEF WindowType, WindowKeys
    <3>4. QED
      BY <1>1, <3>3 DEF TableShape
  <2>3. SameHits(s, k)
    BY <2>2
  <2>4. QED
    BY <2>1, <2>3, TracesKept DEF SameHits
<1>2. ASSUME ~evicted', NEW n \in 1..Len(log'), NEW s \in DOMAIN rules, IsThreshold(s),
             NEW k, k = GroupKey(log'[n].event.group), n \in Hits(s, k)'
      PROVE  Tracked(<<s, k>>)'
  <2>1. SameHits(s, k)
    BY <1>2
  <2>2. n \in Hits(s, k) /\ log'[n].event = log[n].event
    BY <1>2, <2>1 DEF SameHits
  <2>3. n \in 1..Len(log) /\ k = GroupKey(log[n].event.group)
    BY <1>2, <2>2 DEF Hits
  <2>4. Tracked(<<s, k>>)
    BY <1>2, <2>2, <2>3 DEF WindowsTrace
  <2>5. QED
    BY <2>4 DEF Tracked
<1>3. QED
  BY <1>1, <1>2 DEF WindowsTrace, IsThreshold

\* Receiving an event: no rule has counted it yet, since the rules it may match are
\* exactly those the loop has still to come to.
LEMMA ReceiveTracks ==
  ASSUME MemoryInv, TrackInv, NEW event \in Scenarios[scenario].events, Receive(event)
  PROVE  TrackInv'
<1>1. LoopTypes /\ CacheAnswers /\ TableShape
  BY DEF MemoryInv
<1>2. PICK N \in Nat : N = Len(log) /\ DOMAIN log = 1..N
  BY <1>1 DEF LoopTypes
<1>3. /\ log' \in Seq(EntryType) /\ Len(log') = N + 1
      /\ \A n \in 1..N : log'[n] = log[n]
      /\ log'[N + 1] = [event |-> event, fired |-> {}, undecided |-> {}]
  BY <1>1, <1>2, ReceiveLogs
<1>4. /\ todo = {} /\ todo' = CandidatesFor(event.action) /\ rules' = rules
      /\ windows' = windows /\ evicted' = evicted
  BY DEF Receive
<1>5. DOMAIN log' = 1..(N + 1)
  <2>1. PICK T : T = EntryType
    OBVIOUS
  <2>2. log' \in Seq(T)
    BY <1>3, <2>1
  <2>3. QED
    BY <1>3, <2>2
<1>6. log'[N + 1].event = event /\ log'[N + 1].fired = {}
  BY <1>3
<1>7. FiredInTurn'
  BY <1>3, <1>6 DEF FiredInTurn
<1>8. ASSUME NEW s \in DOMAIN rules, Evaluate(rules[s], event) = "true"
      PROVE  s \in todo'
  <2>1. rules[s] \in Trees
    BY <1>1, ThresholdBounds
  <2>2. Matches(rules[s], event)
    BY <1>8, <2>1, EvaluationTells
  <2>3. QED
    BY <1>1, <1>4, <2>2, MatchIsCandidate
<1>9. \A n : n \in 1..(N + 1) <=> n \in 1..N \/ n = N + 1
  OBVIOUS
<1>10. ASSUME NEW s \in DOMAIN rules, NEW k
       PROVE  SameHits(s, k)
  <2>1. \A n \in 1..N : /\ Answered(n, s) /\ Answered(n, s)'
                        /\ Hit(s, k, n)' <=> Hit(s, k, n)
    <3> TAKE n \in 1..N
    <3>1. n < N + 1
      OBVIOUS
    <3>2. QED
      BY <1>3, <1>4, <3>1 DEF Answered, Hit
  <2>2. ~(Answered(N + 1, s)' /\ Hit(s, k, N + 1)')
    <3>1. ~(N + 1 < N + 1)
      OBVIOUS
    <3>2. Answered(N + 1, s)' <=> s \notin todo'
      BY <1>3, <3>1 DEF Answered
    <3>3. Hit(s, k, N + 1)' => Evaluate(rules[s], event) = "true"
      BY <1>4, <1>6 DEF Hit
    <3>4. QED
      BY <1>8, <3>2, <3>3
  <2>3. \A n : /\ n \in Hits(s, k)' <=> n \in 1..(N + 1) /\ Answered(n, s)' /\ Hit(s, k, n)'
               /\ n \in Hits(s, k) <=> n \in 1..N /\ Answered(n, s) /\ Hit(s, k, n)
    BY <1>2, <1>3 DEF Hits
  <2>4. Hits(s, k)' = Hits(s, k)
    BY <1>9, <2>1, <2>2, <2>3
  <2>5. \A m \in Hits(s, k) : log'[m] = log[m]
    BY <1>3, <2>3
  <2>6. QED
    BY <2>4, <2>5 DEF SameHits
<1>11. ASSUME InOrder'
       PROVE  WindowsTrace' /\ AllExact'
  <2>1. InOrder
    <3> SUFFICES ASSUME NEW i \in 1..N, NEW j \in 1..N, i < j
                 PROVE  log[i].event.at <= log[j].event.at
      BY <1>2 DEF InOrder
    <3>1. i \in DOMAIN log' /\ j \in DOMAIN log'
      BY <1>5, <1>9
    <3>2. QED
      BY <1>3, <1>11, <3>1 DEF InOrder
  <2>2. WindowsTrace /\ AllExact
    BY <2>1 DEF TrackInv
  <2>3. WindowsTrace'
    BY <1>1, <1>4, <1>10, <2>2, WindowsKept
  <2>4. ASSUME NEW n \in 1..(N + 1), NEW s \in DOMAIN rules, Counting(s, n)'
        PROVE  ExactFor(s, n)'
    <3>1. CASE n = N + 1
      <4>1. Evaluate(rules[s], event) = "true"
        BY <1>4, <1>6, <2>4, <3>1 DEF Counting
      <4>2. s \notin todo'
        BY <1>3, <2>4, <3>1 DEF Counting, Answered
      <4>3. QED
        BY <1>8, <4>1, <4>2
    <3>2. CASE n \in 1..N
      <4>1. n \in Nat /\ n \in 1..n /\ log'[n] = log[n]
        BY <1>3, <3>2
      <4>2. \A i \in 1..n : log'[i] = log[i]
        <5> TAKE i \in 1..n
        <5>1. i \in 1..N
          BY <3>2
        <5>2. QED
          BY <1>3, <5>1
      <4>3. Counting(s, n)
        BY <1>4, <2>4, <4>1 DEF Counting, Answered, IsThreshold
      <4>4. ExactFor(s, n)
        BY <1>2, <2>2, <3>2, <4>3 DEF AllExact
      <4>5. QED
        BY <1>4, <4>1, <4>2, <4>4, ExactKept
    <3>3. QED
      BY <1>9, <3>1, <3>2
  <2>5. AllExact'
    BY <1>4, <1>5, <2>4 DEF AllExact
  <2>6. QED
    BY <2>3, <2>5
<1>12. QED
  BY <1>7, <1>11 DEF TrackInv

\* A turn of the loop in which no threshold counts.
LEMMA PlainTracks ==
  ASSUME MemoryInv, TrackInv, NEW r \in todo, GiveUp(r) \/ Match(r) \/ Skip(r)
  PROVE  (InOrder => WindowsTrace /\ AllExact)'
<1>1. LoopTypes /\ TableShape
  BY DEF MemoryInv
<1>2. PICK N \in Nat \ {0} : N = Len(log) /\ DOMAIN log = 1..N /\ N \in 1..N
  <2>1. Len(log) \in Nat \ {0} /\ DOMAIN log = 1..Len(log)
    BY <1>1, LastEntry DEF LoopTypes
  <2>2. Len(log) \in 1..Len(log)
    BY <2>1
  <2>3. QED
    BY <2>1, <2>2, Zenon
<1>3. Turned(r)
  BY <1>1, LoopStepTurns DEF LoopStep
<1>4. /\ todo' = todo \ {r} /\ rules' = rules /\ windows' = windows /\ evicted' = evicted
  BY DEF GiveUp, Match, Skip, Answer
<1>5. PICK f \in BOOLEAN, g \in BOOLEAN : LogStep(r, f, g)
  BY <1>3 DEF Turned
<1>6. /\ log' \in Seq(EntryType) /\ Len(log') = N
      /\ \A n \in 1..N : log'[n].event = log[n].event
  BY <1>2, <1>5 DEF LogStep
<1>7. DOMAIN log' = 1..N
  <2>1. PICK T : T = EntryType
    OBVIOUS
  <2>2. log' \in Seq(T)
    BY <1>6, <2>1
  <2>3. QED
    BY <1>6, <2>2
<1>8. Event = log[N].event
  BY <1>2 DEF Event
<1>9. IsThreshold(r) => \/ Evaluate(rules[r], log[N].event) # "true"
                        \/ log[N].event.group.kind = "missing"
  BY <1>8 DEF GiveUp, Match, Skip, IsThreshold
<1>10. ASSUME NEW s \in DOMAIN rules, NEW k, IsThreshold(s)
       PROVE  SameHits(s, k)
  <2>1. s # r \/ ~Hit(r, k, Len(log))
    BY <1>2, <1>9, <1>10 DEF Hit
  <2>2. QED
    BY <1>1, <1>4, <1>5, <2>1, TurnKeepsHits
<1>11. ASSUME InOrder'
       PROVE  WindowsTrace' /\ AllExact'
  <2>1. InOrder
    BY <1>2, <1>6, <1>7, <1>11 DEF InOrder
  <2>2. WindowsTrace /\ AllExact
    BY <2>1 DEF TrackInv
  <2>3. WindowsTrace'
    BY <1>1, <1>4, <1>10, <2>2, WindowsKept
  <2>4. ASSUME NEW n \in 1..N, NEW s \in DOMAIN rules, Counting(s, n)'
        PROVE  ExactFor(s, n)'
    <3>1. ~(s = r /\ n = Len(log))
      BY <1>2, <1>4, <1>6, <1>9, <2>4 DEF Counting, IsThreshold
    <3>2. Counting(s, n) => ExactFor(s, n)
      BY <1>2, <2>2, <2>4 DEF AllExact
    <3>3. n \in 1..Len(log)
      BY <1>2, <2>4
    <3>4. QED
      BY <1>1, <1>4, <1>5, <2>4, <3>1, <3>2, <3>3, TurnKeepsExact
  <2>5. AllExact'
    BY <1>4, <1>7, <2>4 DEF AllExact
  <2>6. QED
    BY <2>3, <2>5
<1>12. QED
  BY <1>11

\* A turn of the loop in which rule r counts the event.
LEMMA CountTracks ==
  ASSUME MemoryInv, TrackInv, NEW r \in todo, Count(r)
  PROVE  (InOrder => WindowsTrace /\ AllExact)'
<1>1. LoopTypes /\ TableShape
  BY DEF MemoryInv
<1>2. PICK N \in Nat \ {0} : N = Len(log) /\ DOMAIN log = 1..N /\ N \in 1..N
  <2>1. Len(log) \in Nat \ {0} /\ DOMAIN log = 1..Len(log)
    BY <1>1, LastEntry DEF LoopTypes
  <2>2. Len(log) \in 1..Len(log)
    BY <2>1
  <2>3. QED
    BY <2>1, <2>2, Zenon
<1>3. PICK old : CountResult(r, old)
  BY CountChanges
<1>4. /\ todo' = todo \ {r} /\ rules' = rules /\ r \in DOMAIN rules
  BY <1>1 DEF Count, Answer, LoopTypes
<1>5. PICK k : k = GroupKey(Event.group)
  OBVIOUS
<1>6. PICK after : after = LET out == Slide(old, Event.at, rules[r].window)
                           IN  IF Len(out) >= rules[r].count THEN <<>> ELSE out
  OBVIOUS
<1>7. PICK f \in BOOLEAN : LogStep(r, f, FALSE)
  <2>1. PICK out : out = Slide(old, Event.at, rules[r].window)
    OBVIOUS
  <2>2. LogStep(r, Len(out) >= rules[r].count, FALSE)
    BY <1>3, <2>1, Zenon DEF CountResult
  <2>3. (Len(out) >= rules[r].count) \in BOOLEAN
    OBVIOUS
  <2>4. QED
    BY <2>2, <2>3, Zenon
<1>8. /\ log' \in Seq(EntryType) /\ Len(log') = N
      /\ \A n \in 1..N : log'[n].event = log[n].event
  BY <1>2, <1>7 DEF LogStep
<1>9. DOMAIN log' = 1..N
  <2>1. PICK T : T = EntryType
    OBVIOUS
  <2>2. log' \in Seq(T)
    BY <1>8, <2>1
  <2>3. QED
    BY <1>8, <2>2
<1>10. Event = log[N].event
  BY <1>2 DEF Event
<1>11. ASSUME NEW s, NEW c, s # r \/ c # k
       PROVE  SameHits(s, c)
  <2>1. s # r \/ ~Hit(r, c, Len(log))
    BY <1>2, <1>5, <1>10, <1>11 DEF Hit
  <2>2. FALSE \in BOOLEAN
    OBVIOUS
  <2>3. QED
    BY <1>1, <1>4, <1>7, <2>1, <2>2, TurnKeepsHits
<1>12. ~evicted' => ~evicted
  BY <1>3 DEF CountResult
<1>13. /\ windows' \in Seq(WindowType)
       /\ \E p \in DOMAIN windows' : windows'[p].key = <<r, k>>
       /\ \A p \in DOMAIN windows' :
            IF windows'[p].key = <<r, k>> THEN windows'[p].times = after
            ELSE \E j \in DOMAIN windows : windows[j] = windows'[p]
       /\ ~evicted' => \A j \in DOMAIN windows : \E p \in DOMAIN windows' :
                         windows'[p].key = windows[j].key
  BY <1>3, <1>5, <1>6 DEF CountResult
<1>14. ASSUME InOrder'
       PROVE  WindowsTrace' /\ AllExact'
  <2>1. InOrder
    BY <1>2, <1>8, <1>9, <1>14 DEF InOrder
  <2>2. WindowsTrace /\ AllExact /\ FiredInTurn
    BY <2>1 DEF TrackInv
  <2>3. Traces(after, r, k)' /\ ExactFor(r, N)'
    <3>1. Traces(after, r, k)' /\ \A M : M = Len(log) => ExactFor(r, M)'
      BY <1>3, <1>5, <1>6, <2>1, <2>2, CountTraces
    <3>2. QED
      BY <1>2, <3>1
  <2>4. ASSUME NEW p \in DOMAIN windows', NEW t, NEW s, NEW c,
               t = windows'[p].times, s = windows'[p].key[1], c = windows'[p].key[2]
        PROVE  Traces(t, s, c)'
    <3>1. CASE windows'[p].key = <<r, k>>
      <4>1. s = r /\ c = k /\ t = after
        BY <1>13, <2>4, <3>1
      <4>2. QED
        BY <2>3, <4>1
    <3>2. CASE windows'[p].key # <<r, k>>
      <4>1. PICK j \in DOMAIN windows : windows[j] = windows'[p]
        BY <1>13, <3>2
      <4>2. Traces(t, s, c)
        BY <2>2, <2>4, <4>1 DEF WindowsTrace
      <4>3. s # r \/ c # k
        <5>1. PICK T : T = WindowType
          OBVIOUS
        <5>2. windows'[p] \in T
          BY <1>13, <5>1
        <5>3. windows'[p].key \in (DOMAIN rules) \X GroupKeys
          BY <5>1, <5>2 DEF WindowType, WindowKeys
        <5>4. windows'[p].key = <<s, c>>
          BY <2>4, <5>3
        <5>5. QED
          BY <3>2, <5>4
      <4>4. SameHits(s, c)
        BY <1>11, <4>3
      <4>5. QED
        BY <1>4, <1>12, <4>2, <4>4, TracesKept DEF SameHits
    <3>3. QED
      BY <3>1, <3>2
  <2>5. ASSUME ~evicted', NEW n \in 1..Len(log'), NEW s \in DOMAIN rules, IsThreshold(s),
               NEW c, c = GroupKey(log'[n].event.group), n \in Hits(s, c)'
        PROVE  Tracked(<<s, c>>)'
    <3>1. CASE s = r /\ c = k
      BY <1>13, <3>1 DEF Tracked
    <3>2. CASE s # r \/ c # k
      <4>1. n \in Hits(s, c) /\ log'[n].event = log[n].event
        BY <1>11, <2>5, <3>2 DEF SameHits
      <4>2. n \in 1..Len(log) /\ c = GroupKey(log[n].event.group)
        BY <2>5, <4>1 DEF Hits
      <4>3. Tracked(<<s, c>>)
        BY <1>12, <2>2, <2>5, <4>1, <4>2 DEF WindowsTrace
      <4>4. QED
        BY <1>13, <2>5, <4>3 DEF Tracked
    <3>3. QED
      BY <3>1, <3>2
  <2>6. WindowsTrace'
    BY <1>4, <2>4, <2>5 DEF WindowsTrace, IsThreshold
  <2>7. ASSUME NEW n \in 1..N, NEW s \in DOMAIN rules, Counting(s, n)'
        PROVE  ExactFor(s, n)'
    <3>1. CASE s = r /\ n = N
      BY <2>3, <3>1
    <3>2. CASE ~(s = r /\ n = N)
      <4>1. Counting(s, n) => ExactFor(s, n)
        BY <1>2, <2>2, <2>7 DEF AllExact
      <4>2. n \in 1..Len(log) /\ ~(s = r /\ n = Len(log)) /\ FALSE \in BOOLEAN
        BY <1>2, <2>7, <3>2
      <4>3. QED
        BY <1>1, <1>4, <1>7, <1>12, <2>7, <4>1, <4>2, TurnKeepsExact
    <3>3. QED
      BY <3>1, <3>2
  <2>8. AllExact'
    BY <1>4, <1>9, <2>7 DEF AllExact
  <2>9. QED
    BY <2>6, <2>8
<1>15. QED
  BY <1>14

\* A rule the loop has still to come to has not fired.
LEMMA TurnKeepsFiring ==
  ASSUME LoopTypes, FiredInTurn, NEW r \in todo, LoopStep(r)
  PROVE  FiredInTurn'
<1>1. PICK N \in Nat \ {0} : N = Len(log) /\ N \in 1..N
  BY LastEntry
<1>2. Turned(r)
  BY LoopStepTurns
<1>3. PICK f \in BOOLEAN, g \in BOOLEAN : LogStep(r, f, g)
  BY <1>2 DEF Turned
<1>4. /\ Len(log') = N
      /\ \A s : s \in log'[N].fired => s \in log[N].fired \/ s = r
  BY <1>1, <1>3 DEF LogStep
<1>5. todo' = todo \ {r}
  BY <1>2 DEF Turned
<1>6. QED
  BY <1>1, <1>4, <1>5 DEF FiredInTurn

\* Every step keeps the windows tracing the log and what was counted right.
LEMMA TrackStep ==
  MemoryInv /\ TrackInv /\ [Next]_vars => TrackInv'
<1> SUFFICES ASSUME MemoryInv, TrackInv, [Next]_vars
             PROVE  TrackInv'
  OBVIOUS
<1>1. ASSUME NEW event \in Scenarios[scenario].events, Receive(event)
      PROVE  TrackInv'
  BY <1>1, ReceiveTracks
<1>2. ASSUME NEW r \in todo, LoopStep(r)
      PROVE  TrackInv'
  <2>1. FiredInTurn'
    BY <1>2, TurnKeepsFiring DEF MemoryInv, TrackInv
  <2>2. (InOrder => WindowsTrace /\ AllExact)'
    BY <1>2, PlainTracks, CountTracks DEF LoopStep
  <2>3. QED
    BY <2>1, <2>2 DEF TrackInv
<1>3. CASE UNCHANGED vars
  <2>1. /\ UNCHANGED <<log, todo, rules, windows, evicted>>
    BY <1>3 DEF vars
  <2>2. FiredInTurn' <=> FiredInTurn
    BY <2>1 DEF FiredInTurn
  <2>3. InOrder' <=> InOrder
    BY <2>1 DEF InOrder
  <2>4. WindowsTrace => WindowsTrace'
    <3>1. \A s \in DOMAIN rules : \A k : SameHits(s, k)
      BY <2>1 DEF SameHits, Hits, Hit, Answered
    <3>2. QED
      BY <2>1, <3>1, WindowsKept DEF MemoryInv
  <2>5. AllExact' <=> AllExact
    BY <2>1 DEF AllExact, Counting, ExactFor, Within, CountsFor, IsThreshold, Answered
  <2>6. QED
    BY <2>2, <2>3, <2>4, <2>5 DEF TrackInv
<1>4. QED
  BY <1>1, <1>2, <1>3 DEF Next, Finished, LoopStep

\* As long as event times do not run backwards, a threshold rule fires only for `count`
\* matches of one subscriber within its window, counted afresh after each time it fires,
\* and always then unless a group was evicted: for every library, every sequence of
\* events and every size of the group table (engine.py, _threshold_fires, _window_for
\* and _group_key).
THEOREM ThresholdsCountExactly ==
  Spec => []ThresholdExact
<1>1. Init => TrackInv
  <2> SUFFICES ASSUME Init
               PROVE  TrackInv
    OBVIOUS
  <2>1. DOMAIN log = {} /\ Len(log) = 0 /\ DOMAIN windows = {} /\ todo = {}
    BY DEF Init
  <2>2. 1..Len(log) = {}
    BY <2>1
  <2>3. QED
    BY <2>1, <2>2 DEF TrackInv, FiredInTurn, WindowsTrace, AllExact
<1>2. MemoryInv /\ TrackInv => ThresholdExact
  <2> SUFFICES ASSUME TrackInv, InOrder,
                      NEW n \in DOMAIN log, NEW r \in DOMAIN rules, Counting(r, n)
               PROVE  ExactFor(r, n)
    BY DEF ThresholdExact, InOrder, Counting, ExactFor
  <2>1. QED
    BY DEF TrackInv, AllExact
<1>3. QED
  BY <1>1, <1>2, MemoryInit, MemoryStep, TrackStep, PTL DEF Spec

=============================================================================
