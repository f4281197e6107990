----------------------------- MODULE MCPipeline -----------------------------
EXTENDS Pipeline

CONSTANTS s1, s2, k1, k2, k3

Setup(sources, keys, maxsize, policy, reads, crashes, time) ==
  [sources |-> sources, keys |-> keys, maxsize |-> maxsize, policy |-> policy,
   reads |-> reads, crashes |-> crashes, time |-> time]

\* Two collectors on a queue that parks them, one of which may return and either of which may
\* crash; a collector on a queue that refuses events, with more keys than the dedup window
\* holds; the same with few events and time for their keys to expire and be long gone.
MCSetups ==
  {Setup({s1, s2}, {k1}, 2, "block", 2, 1, 0),
   Setup({s2}, {k1, k2, k3}, 1, "drop_newest", 4, 0, 1),
   Setup({s2}, {k1, k2}, 1, "drop_newest", 3, 0, 3)}
=============================================================================
