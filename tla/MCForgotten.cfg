SPECIFICATION LearnSpec
CONSTANTS
  Callers = {"c1", "c2", "c3"}
  Before = before
  Ops <- MCOps
  Keys = {"style", "url"}
  Payloads <- MCPayloads
  MaxFails = 1
CHECK_DEADLOCK FALSE
INVARIANTS ForgottenForGood
