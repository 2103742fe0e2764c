\* Three invocations of any route race on one reference, or on one balance.
SPECIFICATION Spec
CONSTANTS
  Requests = {r1, r2, r3}
  Users = {u1, u2}
  Sessions = {s1}
  OperatorRefs = {x1}
  SignupCredits = 2
  PackCredits = 3
  Cost = 1
  OperatorAmount = 2
SYMMETRY Symmetric
CHECK_DEADLOCK FALSE
INVARIANTS TypeOK SettledRefIsFree AuditTrail Reconciles
PROPERTY ImplementsAccount
