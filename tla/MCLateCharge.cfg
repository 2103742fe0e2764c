SPECIFICATION PaidSpec
CONSTANTS
  r1 = r1
  r2 = r2
  Requests <- MCRequests
  Isolates = {i1}
  Home <- MCHome
  Kinds <- MCKinds
  Earlier = earlier
  Owner = owner
  Credits = {1, 2}
  Cost = 1
  TargetDays = 1
  LastDay = 1
  MaxTroubles = 1
CHECK_DEADLOCK FALSE

PROPERTIES NoChargeAfterTimeout
