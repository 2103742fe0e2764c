\* The documented idempotence of the heartbeat, with two calls of one day and a claim that never throws.
SPECIFICATION Spec
CONSTANTS
  Workers = {w1}
  Heartbeats = {h1, h2}
  MaxSignals = 3
  LegacyRuns = {0}
  Crashes = 0
  ClaimFaults = FALSE
CHECK_DEADLOCK FALSE
INVARIANT OneSignalPerKey
