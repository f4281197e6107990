----------------------------- MODULE Conditions -----------------------------
(***************************************************************************)
(* detection/schema.py, evaluator.py and the static analysis of engine.py:  *)
(* condition trees, their evaluation and the actions they can match.        *)
(*                                                                          *)
(* An event is [action, name, hits, slow, group, at].  `name` stands for    *)
(* any other field a rule compares and may be missing (None).  A regex is   *)
(* a pattern name: it is found in the parts of `name` that are scanned if   *)
(* it is in `hits`, and runs out of time there if it is in `slow`.          *)
(***************************************************************************)
EXTENDS Integers, Sequences, FiniteSets

CONSTANT Levels  \* the condition trees of the rule libraries, by depth: Levels[d] is a set

None == "none"

\* `value` is the set of values compared with, a singleton except for in, not_in.
Field(field, op, value) == [form |-> "field", field |-> field, op |-> op, value |-> value]
AllOf(children) == [form |-> "all", of |-> children]
AnyOf(children) == [form |-> "any", of |-> children]
NotOf(child)    == [form |-> "not", of |-> <<child>>]
Threshold(match, count, window) ==
  [form |-> "threshold", of |-> <<match>>, count |-> count, window |-> window]

\* Every node of every tree.
Trees == UNION {Levels[d] : d \in DOMAIN Levels}

Children(c) == IF c.form = "field" THEN <<>> ELSE c.of

\* What the schema lets through: one form per node, and its bounds.
WellFormed(c) ==
  \/ /\ c.form = "field" /\ c.field \in {"action", "name"}
     /\ c.op \in {"equals", "in", "not_equals", "not_in", "regex"} /\ "*" \notin c.value
  \/ c.form \in {"all", "any"}
  \/ c.form = "not" /\ Len(c.of) = 1
  \/ c.form = "threshold" /\ Len(c.of) = 1 /\ c.count \in Nat \ {0, 1} /\ c.window \in Nat \ {0}

\* A condition is a finite tree: its children are nodes of a lower level.
ASSUME LevelsAssumption ==
  /\ DOMAIN Levels \subseteq Nat
  /\ \A d \in DOMAIN Levels : \A c \in Levels[d] :
       /\ WellFormed(c)
       /\ Children(c) \in Seq(Trees)
       /\ \A i \in DOMAIN Children(c) :
            \E below \in DOMAIN Levels : below < d /\ Children(c)[i] \in Levels[below]

\* The operators, as far as the engine tells them apart: equality and membership
\* (which restrict the action; contains, startswith, gt ... decide like them),
\* their negations, which hold of a missing field, and the regex.
FieldHolds(c, event) ==
  LET actual == event[c.field]
  IN  \/ c.op \in {"equals", "in"} /\ actual \in c.value
      \/ c.op \in {"not_equals", "not_in"} /\ actual \notin c.value
      \/ c.op = "regex" /\ actual # None /\ c.value \cap event.hits # {}

\* A regex that runs out of time on a present field raises EvaluationIncomplete.
Undecided(c, event) == c.op = "regex" /\ event[c.field] # None /\ c.value \cap event.slow # {}

\* all() and any() stop at the first child that does not answer `other`.
FirstOther(results, other) ==
  LET stops == {i \in DOMAIN results : results[i] # other}
  IN  IF stops = {} THEN other ELSE results[CHOOSE i \in stops : \A j \in stops : i <= j]

\* One node of evaluate_condition, from the answers of its children.  An undecided
\* child raises out of every node that reaches it.
Decide(c, results, event) ==
  CASE c.form = "field" ->
         IF Undecided(c, event) THEN "incomplete"
         ELSE IF FieldHolds(c, event) THEN "true" ELSE "false"
    [] c.form = "all" -> FirstOther(results, "true")
    [] c.form = "any" -> FirstOther(results, "false")
    [] c.form = "not" -> CASE results[1] = "true" -> "false"
                           [] results[1] = "false" -> "true"
                           [] OTHER -> "incomplete"
    [] c.form = "threshold" -> results[1]

\* evaluate_condition
Evaluate(c, event) ==
  LET result[t \in Trees] ==
        Decide(t, [i \in DOMAIN Children(t) |-> result[Children(t)[i]]], event)
  IN  result[c]

\* What the condition says of the event, however long it takes to find out.
Holds(c, results, event) ==
  CASE c.form = "field" -> FieldHolds(c, event)
    [] c.form = "all" -> \A i \in DOMAIN results : results[i]
    [] c.form = "any" -> \E i \in DOMAIN results : results[i]
    [] c.form = "not" -> ~results[1]
    [] c.form = "threshold" -> results[1]

Matches(c, event) ==
  LET holds[t \in Trees] ==
        Holds(t, [i \in DOMAIN Children(t) |-> holds[Children(t)[i]]], event)
  IN  holds[c]

-----------------------------------------------------------------------------
\* None in the code: the condition proves no restriction.
AnyAction == {"*"}

\* _field_actions
FieldActions(c) ==
  IF c.field = "action" /\ c.op \in {"equals", "in"} THEN c.value ELSE AnyAction

\* An analysis that unites the branches of an `any` that restrict and forgets
\* the others.
RestrictionUnsound(c, results) ==
  LET restricting == {results[i] : i \in DOMAIN results} \ {AnyAction}
  IN  CASE c.form = "field" -> FieldActions(c)
        [] c.form = "all" ->
             IF restricting = {} THEN AnyAction
             ELSE {a \in UNION restricting : \A b \in restricting : a \in b}
        [] c.form = "any" -> IF restricting = {} THEN AnyAction ELSE UNION restricting
        [] c.form = "threshold" -> results[1]
        [] c.form = "not" -> AnyAction

\* One node of required_actions, from the answers for its children.
Restriction(c, results) ==
  LET branches == {results[i] : i \in DOMAIN results}
      restricting == branches \ {AnyAction}
  IN  CASE c.form = "field" -> FieldActions(c)
        [] c.form = "all" ->
             IF restricting = {} THEN AnyAction
             ELSE {a \in UNION restricting : \A b \in restricting : a \in b}
        [] c.form = "any" ->
             IF AnyAction \in branches \/ branches = {} THEN AnyAction ELSE UNION branches
        [] c.form = "threshold" -> results[1]
        [] c.form = "not" -> AnyAction

\* required_actions: the actions a condition can match, or AnyAction.
RequiredActions(c) ==
  LET required[t \in Trees] ==
        Restriction(t, [i \in DOMAIN Children(t) |-> required[Children(t)[i]]])
  IN  required[c]
=============================================================================
