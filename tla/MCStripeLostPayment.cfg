\* The documented payment closure, against a handler that may die.
SPECIFICATION Spec
CONSTANTS
  Users = {u1}
  Sessions = {s1}
  OperatorRefs = {}
  Delayed = {}
  SignupCredits = 0
  PackCredits = 3
  Cost = 1
  OperatorAmount = 1
  Changes = 0
  Attempts = 2
CHECK_DEADLOCK FALSE
PROPERTY PaidIsCredited
