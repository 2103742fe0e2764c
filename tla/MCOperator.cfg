SPECIFICATION Spec
CONSTANTS
  a1 = a1
  a2 = a2
  b1 = b1
  b2 = b2
  b3 = b3
  Given <- MCGiven
  Task <- MCTask
  Asked <- MCAsked
  Configured <- MCConfigured
  Owners = {a1, a2}
  Workers = {b1, b2}
  MaxAuthority = 2
  MaxFaults = 1
  Items <- MCItems
  NeedSecret = {"social"}
  Secrets = FALSE
  Host = TRUE
  Builders = {b1, b2, b3}
  Keep = 2
  KeepReports = 2
  MaxLapses = 1
  Features = {"account_learning", "codex_agent_account", "monetary_intelligence"}
  Core = {"account_learning"}
  Seeds <- MCSeeds
  Rank <- MCRank
  Browser = FALSE
  McpUser = TRUE
  Authority = 2
  Forms <- MCForms
  Counted <- MCCounted
  Reported <- MCReported
  Checks = {a1, a2}
  Snapshots = {b3}
  Rounds = {b1, b2}
  MaxEdits = 1
SYMMETRY Alike
CHECK_DEADLOCK FALSE
INVARIANTS TypeOK ApprovalsStick CyclesAreRecorded StatusFollowsEvidence StoredRoundIsPresent
