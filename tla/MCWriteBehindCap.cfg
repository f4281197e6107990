SPECIFICATION Spec
CONSTANTS
  MaxBuffered = 2
  BatchSize = 1
  MaxAlerts = 2
  MaxEvents = 3
  MaxFaults = 0
  MaxRefused = 1
  FaultKinds = {"outage", "ack_lost", "timeout"}
INVARIANTS BufferCapped
