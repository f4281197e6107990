SPECIFICATION Spec
CONSTANTS
  s1 = s1  s2 = s2  k1 = k1  k2 = k2  k3 = k3
  Source = {s1, s2}
  Finite = {s1}
  Key = {k1, k2, k3}
  Ttl = 2
  MaxEntries = 2
  Setups <- MCSetups
INVARIANTS TypeOK AcceptedAccounted RecordsAccounted DrainedAtStop ExactlyOncePerWindow OnlyDuplicatesSuppressed
PROPERTIES StopTerminates ChannelImplemented
