---------------------------- MODULE DedupWindow ----------------------------
(***************************************************************************)
(* pipeline/dedup.py: the TTL- and size-bounded window of seen keys.        *)
(*                                                                          *)
(* A window is the insertion-ordered dict of the code, a sequence of        *)
(* entries [key, expiry], oldest first.  The class is used twice, by the    *)
(* pipeline's consumer and by the alert manager, so the operators take the  *)
(* configured ttl and cap as parameters.                                    *)
(***************************************************************************)
EXTENDS Integers, Sequences

Entry(key, expiry) == [key |-> key, expiry |-> expiry]

\* The entries a window over the keys K holds.
Entries(K) == [key : K, expiry : Nat]

Keys(window) == {window[i].key : i \in DOMAIN window}

\* A walk that treats an entry as live at the very instant it expires.
StaleOffByOne(window, now) ==
  CHOOSE n \in 0..Len(window) :
    /\ \A i \in 1..n : window[i].expiry < now
    /\ n < Len(window) => window[n + 1].expiry >= now

\* The number of leading entries the walk of _evict_expired collects: it stops
\* at the first entry that is still live.
Stale(window, now) ==
  CHOOSE n \in 0..Len(window) :
    /\ \A i \in 1..n : window[i].expiry <= now
    /\ n < Len(window) => window[n + 1].expiry > now

EvictExpired(window, now) ==
  SubSeq(window, Stale(window, now) + 1, Len(window))

\* A cap check that makes room one entry too early.
EvictToCapEarly(window, cap) ==
  IF window # <<>> /\ Len(window) + 1 >= cap THEN Tail(window) ELSE window

\* _evict_to_cap drops the oldest entry, and only when the window is full.
EvictToCap(window, cap) ==
  IF Len(window) >= cap THEN Tail(window) ELSE window

\* The verdict of seen(): is the key among the entries that are still live?
Seen(window, key, now) == key \in Keys(EvictExpired(window, now))

\* The window seen() leaves behind.  A hit does not refresh the expiry.
AfterSeen(window, key, now, ttl, cap) ==
  LET live == EvictExpired(window, now)
  IN  IF key \in Keys(live)
      THEN live
      ELSE Append(EvictToCap(live, cap), Entry(key, now + ttl))
=============================================================================
