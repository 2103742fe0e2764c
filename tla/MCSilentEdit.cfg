\* The documented audit claim, against the statements that run.
SPECIFICATION Spec
CONSTANTS
  Requests = {r1, r2, r3}
  Users = {u1, u2}
  Sessions = {s1}
  OperatorRefs = {x1}
  SignupCredits = 2
  PackCredits = 3
  Cost = 1
  OperatorAmount = 2
SYMMETRY Symmetric
CHECK_DEADLOCK FALSE
INVARIANT NoSilentBalanceEdits
