-------------------------- MODULE DetectionEngine --------------------------
(***************************************************************************)
(* detection/engine.py: every event goes through the rules its action can   *)
(* match (the cached action index), and threshold rules keep a sliding      *)
(* window of event times per rule and group.                                *)
(*                                                                          *)
(* evaluate() is called by the single consumer; a step is one iteration of  *)
(* its loop over the rules.  A rule is its condition, named by its position.*)
(* A group_by value is [kind, net, host]: an IPv4, IPv6 or IPv4-mapped IPv6 *)
(* address, other text, or missing.                                         *)
(***************************************************************************)
EXTENDS Conditions

CONSTANTS
  Scenarios,         \* name -> [libraries : the rule libraries (sequences of conditions),
                     \*   events : the events that may arrive, length : bound on their number]
  MaxGroups,         \* max_threshold_groups
  MaxCachedActions   \* _MAX_CACHED_ACTIONS

GroupValues == [kind : {"v4", "v6", "mapped", "text", "missing"}, net : Nat, host : Nat]

ASSUME DetectionEngineAssumption ==
  /\ MaxGroups \in Nat \ {0}
  /\ MaxCachedActions \in Nat
  /\ \A s \in DOMAIN Scenarios :
       /\ Scenarios[s].libraries \subseteq Seq(Trees)
       /\ \A event \in Scenarios[s].events : event.at \in Int /\ event.group \in GroupValues

VARIABLES
  scenario,    \* the scenario of this behaviour
  rules,       \* _rules: the enabled rules, in library order
  candidates,  \* _candidates: the cached rule positions per action
  windows,     \* _windows: [key, times] in the order they were inserted
  incomplete,  \* _incomplete
  todo,        \* evaluate(): the candidates its loop has not come to
  evicted,     \* history: has a group been evicted?
  log          \* history: each event with the rules it fired and those undecided

vars == <<scenario, rules, candidates, windows, incomplete, todo, evicted, log>>

Init ==
  /\ scenario \in DOMAIN Scenarios
  /\ rules \in Scenarios[scenario].libraries
  /\ candidates = << >>
  /\ windows = <<>>
  /\ incomplete = 0
  /\ todo = {}
  /\ evicted = FALSE
  /\ log = <<>>

-----------------------------------------------------------------------------
(* The action index. *)

\* _candidates_for: the rules that could match the action, in library order.
CouldMatch(action) ==
  {r \in DOMAIN rules : RequiredActions(rules[r]) = AnyAction
                        \/ action \in RequiredActions(rules[r])}

CandidatesFor(action) ==
  IF action \in DOMAIN candidates THEN candidates[action] ELSE CouldMatch(action)

\* The cache after a lookup; a full cache takes no new action.
Cache(action) ==
  IF action \notin DOMAIN candidates /\ Cardinality(DOMAIN candidates) < MaxCachedActions
  THEN [a \in DOMAIN candidates \cup {action} |-> CandidatesFor(a)]
  ELSE candidates

-----------------------------------------------------------------------------
(* Threshold windows. *)

\* _group_key: an IPv6 address counts for its /64, an IPv4-mapped one for its
\* IPv4 address, anything else for itself.
GroupKey(value) ==
  CASE value.kind = "v6"     -> [kind |-> "net", net |-> value.net, host |-> 0]
    [] value.kind = "mapped" -> [kind |-> "v4", net |-> value.net, host |-> value.host]
    [] OTHER -> value

Tracked(key) == \E i \in DOMAIN windows : windows[i].key = key

\* A table that makes room one group too late.
WindowForOffByOne(key) ==
  IF Tracked(key) THEN windows
  ELSE Append(IF Len(windows) > MaxGroups THEN Tail(windows) ELSE windows,
              [key |-> key, times |-> <<>>])

\* _window_for: a new group evicts the one inserted first when the table is full.
WindowFor(key) ==
  IF Tracked(key) THEN windows
  ELSE Append(IF Len(windows) >= MaxGroups THEN Tail(windows) ELSE windows,
              [key |-> key, times |-> <<>>])

\* A window that forgets a match exactly one window old.
SlideEarly(times, moment, seconds) ==
  LET all == Append(times, moment)
      live == {i \in DOMAIN all : all[i] > moment - seconds}
  IN  SubSeq(all, CHOOSE i \in live : \A j \in live : i <= j, Len(all))

\* Append the moment and pop the leading times before the cutoff.
Slide(times, moment, seconds) ==
  LET all == Append(times, moment)
      live == {i \in DOMAIN all : all[i] >= moment - seconds}
  IN  SubSeq(all, CHOOSE i \in live : \A j \in live : i <= j, Len(all))

-----------------------------------------------------------------------------
(* evaluate(), one event at a time: it suspends nowhere, so the next event is *)
(* received only when no candidate is left.                                   *)

Event == log[Len(log)].event

\* The rules that could match the event are looked up.
Receive(event) ==
  /\ todo = {}
  /\ Len(log) < Scenarios[scenario].length
  /\ candidates' = Cache(event.action)
  /\ todo' = CandidatesFor(event.action)
  /\ log' = Append(log, [event |-> event, fired |-> {}, undecided |-> {}])
  /\ UNCHANGED <<scenario, rules, windows, incomplete, evicted>>

\* The loop over the candidates takes them in library order.
Turn(r) == r \in todo /\ \A s \in todo : r <= s

Answer(r, fires) ==
  /\ todo' = todo \ {r}
  /\ log' = IF fires THEN [log EXCEPT ![Len(log)].fired = @ \cup {r}] ELSE log
  /\ UNCHANGED <<scenario, rules, candidates, incomplete>>

\* EvaluationIncomplete: the rule fires, and says so.
GiveUp(r) ==
  /\ Turn(r) /\ Evaluate(rules[r], Event) = "incomplete"
  /\ todo' = todo \ {r}
  /\ log' = [log EXCEPT ![Len(log)].fired = @ \cup {r}, ![Len(log)].undecided = @ \cup {r}]
  /\ incomplete' = incomplete + 1
  /\ UNCHANGED <<scenario, rules, candidates, windows, evicted>>

\* _fires, for a rule that is not a threshold.
Match(r) ==
  /\ Turn(r) /\ rules[r].form # "threshold"
  /\ Evaluate(rules[r], Event) # "incomplete"
  /\ Answer(r, Evaluate(rules[r], Event) = "true")
  /\ UNCHANGED <<windows, evicted>>

\* _threshold_fires, for an event that does not match or has no group.
Skip(r) ==
  /\ Turn(r) /\ rules[r].form = "threshold"
  /\ \/ Evaluate(rules[r], Event) = "false"
     \/ Evaluate(rules[r], Event) = "true" /\ Event.group.kind = "missing"
  /\ Answer(r, FALSE)
  /\ UNCHANGED <<windows, evicted>>

\* _threshold_fires, for one that counts: enough matches in the window fire the
\* rule and clear it.
Count(r) ==
  LET key == <<r, GroupKey(Event.group)>>
      table == WindowFor(key)
      i == CHOOSE n \in DOMAIN table : table[n].key = key
      times == Slide(table[i].times, Event.at, rules[r].window)
      fires == Len(times) >= rules[r].count
  IN  /\ Turn(r) /\ rules[r].form = "threshold"
      /\ Evaluate(rules[r], Event) = "true" /\ Event.group.kind # "missing"
      /\ windows' = [table EXCEPT ![i].times = IF fires THEN <<>> ELSE times]
      /\ evicted' = (evicted \/ (~Tracked(key) /\ Len(windows) >= MaxGroups))
      /\ Answer(r, fires)

\* No further event is explored.
Finished == todo = {} /\ Len(log) = Scenarios[scenario].length /\ UNCHANGED vars

Next ==
  \/ \E event \in Scenarios[scenario].events : Receive(event)
  \/ \E r \in todo : GiveUp(r)
  \/ \E r \in todo : Match(r)
  \/ \E r \in todo : Skip(r)
  \/ \E r \in todo : Count(r)
  \/ Finished

Spec == Init /\ [][Next]_vars

-----------------------------------------------------------------------------
(* Properties. *)

IsThreshold(r) == rules[r].form = "threshold"

\* The loop is done with rule r for event n.
Answered(n, r) == n < Len(log) \/ r \notin todo

\* The engine's memory stays bounded whatever the events are: the group table
\* and the action cache by their caps, each window by its rule's count.
TypeOK ==
  /\ Len(windows) <= MaxGroups
  /\ \A i \in DOMAIN windows : Len(windows[i].times) < rules[windows[i].key[1]].count
  /\ Cardinality(DOMAIN candidates) <= MaxCachedActions
  /\ incomplete \in Nat

\* "A false positive, never a miss": an event fires exactly the rules it matches,
\* though the index skips rules, a full cache takes no more actions and all() and
\* any() stop early.  Only a rule whose regex ran out of time may fire besides, and
\* then it says so (engine.py, required_actions and _build; evaluator.py,
\* EvaluationIncomplete).
FiresWhatMatches ==
  \A n \in DOMAIN log : \A r \in DOMAIN rules :
    /\ ~IsThreshold(r) /\ Answered(n, r) /\ Matches(rules[r], log[n].event)
       => r \in log[n].fired
    /\ r \in log[n].fired \ log[n].undecided => Matches(rules[r], log[n].event)

\* Two values one subscriber can use: the same one, two addresses of one IPv6
\* /64, or an IPv4 address and its IPv6-mapped form.
SameSubscriber(v, w) ==
  \/ v = w
  \/ v.kind = "v6" /\ w.kind = "v6" /\ v.net = w.net
  \/ {v.kind, w.kind} = {"v4", "mapped"} /\ v.net = w.net /\ v.host = w.host

\* The matches event n of the log counts with for rule r: those of the same
\* subscriber since the rule last fired for it, event n included.
CountsFor(r, n) ==
  LET same(i) == /\ log[i].event.group.kind # "missing"
                 /\ SameSubscriber(log[i].event.group, log[n].event.group)
                 /\ Evaluate(rules[r], log[i].event) = "true"
      reset(i) == same(i) /\ r \in log[i].fired
  IN  {i \in 1..n : same(i) /\ \A j \in i..(n - 1) : ~reset(j)}

\* Of those, the ones within the rule's window of event n.
Within(r, n) ==
  {i \in CountsFor(r, n) : log[i].event.at >= log[n].event.at - rules[r].window}

\* As long as event times do not run backwards, a threshold rule fires only when
\* `count` matches of one subscriber fall within `window_seconds`, counted
\* afresh after each time it fires, and it always does so unless the table of
\* groups overflowed (engine.py, _threshold_fires and _window_for).
ThresholdExact ==
  (\A i, j \in DOMAIN log : i < j => log[i].event.at <= log[j].event.at) =>
    \A n \in DOMAIN log : \A r \in DOMAIN rules :
      /\ IsThreshold(r) /\ Answered(n, r) /\ log[n].event.group.kind # "missing"
      /\ Evaluate(rules[r], log[n].event) = "true"
      => LET enough == Cardinality(Within(r, n)) >= rules[r].count
         IN  /\ r \in log[n].fired => enough
             /\ enough /\ ~evicted => r \in log[n].fired
=============================================================================
