SPECIFICATION Spec
CONSTANTS
  MaxBuffered = 2
  BatchSize = 1
  MaxAlerts = 1
  MaxEvents = 3
  MaxFaults = 2
  MaxRefused = 1
  FaultKinds = {"outage", "ack_lost", "timeout"}
INVARIANTS TypeOK RecordsAccounted
PROPERTIES FlushCommitsOrdered LedgerImplemented ReadinessRecovers StopCompletes
