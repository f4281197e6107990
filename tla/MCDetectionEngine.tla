------------------------- MODULE MCDetectionEngine -------------------------
(* Instances of DetectionEngine for TLC. *)
EXTENDS DetectionEngine, Functions

NoGroup == [kind |-> "missing", net |-> 0, host |-> 0]
Address(kind, net, host) == [kind |-> kind, net |-> net, host |-> host]

\* Condition trees over two actions and two patterns: every leaf, its negation,
\* every all/any of two leaves, and those combined with one more leaf.
Leaves == {
  Field("action", "equals", {"login"}),
  Field("action", "in", {"login", "logout"}),
  Field("action", "not_equals", {"login"}),
  Field("name", "regex", {"p"}),
  Field("name", "regex", {"q"})}

Pairs(left, right) ==
  {AllOf(<<x, y>>) : x \in left, y \in right} \cup {AnyOf(<<x, y>>) : x \in left, y \in right}

Level1 == Leaves \cup {AllOf(<<>>), AnyOf(<<>>)}
Level2 == {NotOf(x) : x \in Leaves} \cup Pairs(Leaves, Leaves)
Small  == Level1 \cup Level2
Level3 == {NotOf(x) : x \in Small} \cup Pairs(Leaves, Small)

TreeRules == {<<c>> : c \in Small \cup Level3}

\* Every action with every outcome of the two patterns, of
\* which one may be slow, and a missing field.
TreeEvents ==
  {[action |-> a, name |-> "x", hits |-> h, slow |-> s, group |-> NoGroup, at |-> 0] :
     a \in {"login", "logout", "other"}, h \in SUBSET {"p", "q"}, s \in {{}, {"p"}}}
  \cup
  {[action |-> a, name |-> None, hits |-> {}, slow |-> {}, group |-> NoGroup, at |-> 0] :
     a \in {"login", "logout", "other"}}

\* Two threshold rules that count the same logins, with different windows.
LoginMatch == Field("action", "equals", {"login"})
ThresholdRules == {<<Threshold(LoginMatch, 2, 1),
                     Threshold(AllOf(<<LoginMatch, Field("name", "regex", {"p"})>>), 3, 2)>>}

Login(slow, group, at) ==
  [action |-> "login", name |-> "x", hits |-> {"p"}, slow |-> slow, group |-> group, at |-> at]

\* Logins from one IPv6 subscriber, an IPv4 host in two notations, and nowhere;
\* the pattern runs out of time on some of them.
ThresholdEvents ==
  {Login({}, g, t) : g \in {Address("v6", 1, 1), Address("v6", 1, 2), Address("v4", 2, 1),
                            Address("mapped", 2, 1), NoGroup}, t \in 0..3}
  \cup {Login({"p"}, Address("v6", 1, 1), t) : t \in 0..3}

MCLevels == <<Level1, Level2, Level3 \cup UNION {Range(lib) : lib \in ThresholdRules}>>

MCScenarios == [
  trees      |-> [libraries |-> TreeRules, events |-> TreeEvents, length |-> 2],
  thresholds |-> [libraries |-> ThresholdRules, events |-> ThresholdEvents, length |-> 4]]
=============================================================================
