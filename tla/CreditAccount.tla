--------------------------- MODULE CreditAccount ---------------------------
(***************************************************************************)
(* What a product credit account promises its owner, with no word about    *)
(* how the server keeps the promise: three counters per user, moved only   *)
(* by whole grants and by debits the balance covers.  CreditLedger (the    *)
(* statements of lib/stripeBilling.ts, interleaved) implements it.         *)
(***************************************************************************)
EXTENDS Integers

CONSTANTS Users,     \* account holders
          Amounts    \* credits one operation may move

VARIABLES balance,     \* rmf_credit_accounts.balance
          purchased,   \* rmf_credit_accounts.lifetime_purchased
          spent        \* rmf_credit_accounts.lifetime_spent

accountVars == <<balance, purchased, spent>>

Init ==
  /\ balance   = [u \in Users |-> 0]
  /\ purchased = [u \in Users |-> 0]
  /\ spent     = [u \in Users |-> 0]

\* A pack the user paid for: the only step that raises lifetime_purchased.
Purchase(u, n) ==
  /\ balance'   = [balance EXCEPT ![u] = @ + n]
  /\ purchased' = [purchased EXCEPT ![u] = @ + n]
  /\ UNCHANGED spent

\* A signup bonus or an operator's gift.
Gift(u, n) ==
  /\ balance' = [balance EXCEPT ![u] = @ + n]
  /\ UNCHANGED <<purchased, spent>>

\* A metered action: the only step that raises lifetime_spent.
Spend(u, n) ==
  /\ balance[u] >= n
  /\ balance' = [balance EXCEPT ![u] = @ - n]
  /\ spent'   = [spent EXCEPT ![u] = @ + n]
  /\ UNCHANGED purchased

\* An operator's clawback.
Clawback(u, n) ==
  /\ balance[u] >= n
  /\ balance' = [balance EXCEPT ![u] = @ - n]
  /\ UNCHANGED <<purchased, spent>>

Next ==
  \E u \in Users, n \in Amounts :
    Purchase(u, n) \/ Gift(u, n) \/ Spend(u, n) \/ Clawback(u, n)

Spec == Init /\ [][Next]_accountVars
=============================================================================
