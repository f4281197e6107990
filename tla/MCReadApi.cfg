SPECIFICATION Spec
CONSTANTS
  Kind = {"event", "alert"}
  RetentionPeriod = 1
  PruneBatch = 1
  Setups <- MCSetups
  RateLimit = 2
  RateWindow = 1
  MaxTracked = 2
  Client = {"a", "b"}
  Walker = "a"
  PageSizes = {1, 2}
  Prober = {"p1", "p2"}
  ReadyCache = 2
INVARIANTS LimitExact WalkExact RetentionExact ReadyFresh
PROPERTIES ShutdownCompletes
CHECK_DEADLOCK FALSE
