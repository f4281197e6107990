---------------------------- MODULE RateLimiter ----------------------------
(***************************************************************************)
(* api/security.py, RateLimitMiddleware: the table of sliding windows as a  *)
(* sequence of [bucket, hits] in the order the buckets were first tracked,  *)
(* and what one request does to it.                                         *)
(***************************************************************************)
EXTENDS Integers, SequencesExt

CONSTANTS
  RateLimit,   \* settings.api_rate_limit
  RateWindow,  \* settings.api_rate_window_seconds
  MaxTracked   \* _MAX_TRACKED_CLIENTS

ASSUME LimiterAssumption ==
  RateLimit \in Nat /\ RateWindow \in Nat /\ MaxTracked \in Nat \ {0}

\* Both credentials of one address share a budget.
BucketPerAddress(client, authenticated) == <<"anon", client>>

\* A caller with the API key has a budget of its own.
Bucket(client, authenticated) == <<IF authenticated THEN "key" ELSE "anon", client>>

Tracked(table, bucket) == \E i \in DOMAIN table : table[i].bucket = bucket

\* _window_for: a new bucket at the cap evicts the one tracked first.
Evicts(table, bucket) == ~Tracked(table, bucket) /\ Len(table) >= MaxTracked

WindowFor(table, bucket) ==
  IF Tracked(table, bucket) THEN table
  ELSE Append(IF Evicts(table, bucket) THEN Tail(table) ELSE table,
              [bucket |-> bucket, hits |-> <<>>])

HitsOf(table, bucket) == table[CHOOSE i \in DOMAIN table : table[i].bucket = bucket].hits

\* dispatch pops the leading hits older than the window ...
Popped(hits, now) ==
  CHOOSE n \in 0..Len(hits) :
    /\ \A i \in 1..n : hits[i] < now - RateWindow
    /\ n < Len(hits) => hits[n + 1] >= now - RateWindow

Live(hits, now) == SubSeq(hits, Popped(hits, now) + 1, Len(hits))

\* ... refuses at the limit, and charges an admitted request.
Admits(table, bucket, now) ==
  Len(Live(HitsOf(WindowFor(table, bucket), bucket), now)) < RateLimit

Charged(table, bucket, now) ==
  LET live == Live(HitsOf(WindowFor(table, bucket), bucket), now)
      hits == IF Admits(table, bucket, now) THEN Append(live, now) ELSE live
  IN  [i \in DOMAIN WindowFor(table, bucket) |->
         IF WindowFor(table, bucket)[i].bucket = bucket
         THEN [bucket |-> bucket, hits |-> hits]
         ELSE WindowFor(table, bucket)[i]]
=============================================================================
