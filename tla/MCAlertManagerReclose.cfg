SPECIFICATION Spec
CONSTANTS
  Rule = {"r1", "r2", "low", "wide1", "wide2"}
  EventKey = {"e1", "e2", "e3"}
  Sink = {"sinkA", "sinkB"}
  BelowFloor = {"low"}
  Accepts <- Routing
  Limit <- Limits
  Period <- Periods
  Ttl = 1
  MaxEntries = 2
  SinkQueueSize = 1
  Retries <- Attempts
  FairSink = {"sinkA"}
  Setups <- MCSetups
PROPERTIES StopIdempotent
