SPECIFICATION MCSpec
CONSTANTS
  Pid = {p1, p2}
  ProcLimits = {1, 2}
  MaxStarts = 2
  MaxExecs = 1
  MaxOutages = 2
  MaxMisreads = 1
  Ports = {22}
  SocketLimits = {2}
  MaxOpened = 3
  MaxActivity = 3
  Hosts <- MCHosts
  Unhashable = {"shadow"}
  Gran = 2
  RacyWindow = 2
  PollEvery = 2
INVARIANTS UnreadableIsReported
CHECK_DEADLOCK FALSE
