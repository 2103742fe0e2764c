\* A pack whose payment settles late; every event delivered up to three times.
SPECIFICATION Spec
CONSTANTS
  Users = {u1}
  Sessions = {s1}
  OperatorRefs = {}
  Delayed = {s1}
  SignupCredits = 0
  PackCredits = 3
  Cost = 1
  OperatorAmount = 1
  Changes = 0
  Attempts = 3
CHECK_DEADLOCK FALSE
INVARIANTS TypeOK CreditedAtMostOnce CreditedOnlyIfPaid
PROPERTY PaidIsCreditedUnlessLost
