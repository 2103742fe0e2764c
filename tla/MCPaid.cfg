SPECIFICATION Spec
CONSTANTS
  r1 = r1
  r2 = r2
  r3 = r3
  r4 = r4
  Requests <- MCRequests
  Isolates = {i1}
  Home <- MCHome
  Kinds <- MCKinds
  Earlier = earlier
  Owner = owner
  Credits = {1, 2}
  Cost = 1
  TargetDays = 1
  LastDay = 1
  MaxTroubles = 1
  Acts <- MCActs
  Goals <- MCGoals
  MaxTimeouts = 1
  Scores = {1, 3, 4}
  Metrics <- MCMetrics
  Collected <- MCCollected
  MaxSample = 7
  Falls <- MCFalls
CHECK_DEADLOCK FALSE
INVARIANTS TypeOK EveryRecordIsPaid JobsAreHonest OneActivePlanUnlessRaced PlanDaysAreReal RecordsAreFinal 
