\* Two overlapping workers, one crash, a heartbeat, a legacy signal and one more.
SPECIFICATION Spec
CONSTANTS
  Workers = {w1, w2}
  Heartbeats = {h1}
  MaxSignals = 2
  LegacyRuns = {1}
  Crashes = 1
  ClaimFaults = TRUE
CHECK_DEADLOCK FALSE
INVARIANTS TypeOK RunsAreBounded ExclusiveUnlessStolen HeartbeatEnqueues
PROPERTIES ImplementsRetryQueue QueueDrains RunsEnd
