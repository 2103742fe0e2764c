--------------------------- MODULE MCPaidActions ---------------------------
EXTENDS PaidActions, TLC
CONSTANTS r1, r2
MCRequests == {r1, r2}
MCHome == [r \in Requests |-> CHOOSE i \in Isolates : TRUE]
MCKinds == (r1 :> {"compare", "test", "plan", "checkin"}) @@ (r2 :> {"plan", "checkin"})
=============================================================================
