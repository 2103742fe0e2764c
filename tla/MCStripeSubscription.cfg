\* A subscription that changes twice; every event delivered up to twice.
SPECIFICATION Spec
CONSTANTS
  Users = {u1}
  Sessions = {}
  OperatorRefs = {}
  Delayed = {}
  SignupCredits = 0
  PackCredits = 3
  Cost = 1
  OperatorAmount = 1
  Changes = 2
  Attempts = 2
CHECK_DEADLOCK FALSE
INVARIANT EntitlementFollowsStripe
