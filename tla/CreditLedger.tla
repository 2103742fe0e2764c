---------------------------- MODULE CreditLedger ----------------------------
(***************************************************************************)
(* The credit ledger of lib/stripeBilling.ts: rmf_credit_accounts, one row *)
(* of counters per user, and rmf_credit_ledger, one row per movement with  *)
(* a UNIQUE external_ref (null allowed, and then not compared).            *)
(*                                                                         *)
(* grantCredits, revokeCredits and consumeCredits are each three SQL       *)
(* statements outside any transaction: look the reference up, update the   *)
(* account, insert the ledger row.  A request is one invocation of a route *)
(* that makes one or two such calls; every statement is one step, so other *)
(* isolates run between any two of them, and a request may die between any *)
(* two of them (isolate killed, withDatabaseTimeout + resetDbClient,       *)
(* statement error).  A client's retry is another request with the same    *)
(* plan.                                                                   *)
(***************************************************************************)
EXTENDS Integers, Sequences, FiniteSets, Sums

CONSTANTS Requests,       \* route invocations
          Users,          \* rmf_credit_accounts.user_id
          Sessions,       \* a user's Stripe checkout sessions for a credit pack
          OperatorRefs,   \* external_ref values of operator requests
          SignupCredits,  \* RMF_SIGNUP_CREDITS, 0 disables the bonus
          PackCredits,    \* credits of a purchased pack
          Cost,           \* credits of one metered action
          OperatorAmount  \* credits of an operator grant or revoke

ASSUME CreditsAssumption ==
  /\ SignupCredits \in Nat
  /\ PackCredits \in Nat \ {0}
  /\ Cost \in Nat \ {0}
  /\ OperatorAmount \in Nat \ {0}

VARIABLES balance,    \* rmf_credit_accounts.balance; no row reads as 0
          purchased,  \* rmf_credit_accounts.lifetime_purchased
          spent,      \* rmf_credit_accounts.lifetime_spent
          ledger,     \* rmf_credit_ledger
          pc,         \* the statement a request runs next
          calls,      \* the ledger calls a request has still to finish
          pos,        \* which account update the current call made
          updates,    \* history: a user's account updates in row-lock order
          settled     \* history: the references recorded when a request began

accountVars == <<balance, purchased, spent>>
requestVars == <<pc, calls, pos>>
historyVars == <<updates, settled>>
vars == <<balance, purchased, spent, ledger, pc, calls, pos, updates, settled>>

-----------------------------------------------------------------------------
\* References, calls and the plans of the routes that make them.

NoRef == <<"null">>
SignupRef(u) == <<"signup_grant", u>>
CheckoutRef(u, s) == <<"stripe_checkout", u, s>>
OperatorRef(x) == <<"operator", x>>
Refs == {SignupRef(u) : u \in Users} \cup {CheckoutRef(u, s) : u \in Users, s \in Sessions}
          \cup {OperatorRef(x) : x \in OperatorRefs}

Reasons == {"purchase", "signup_grant", "operator_grant", "operator_revoke", "usage"}
Credits(reason) == reason \in {"purchase", "signup_grant", "operator_grant"}
Amounts == {SignupCredits, PackCredits, Cost, OperatorAmount} \ {0}
Call == [user : Users, amount : Amounts, reason : Reasons, ref : Refs \cup {NoRef}]
Delta(c) == IF Credits(c.reason) THEN c.amount ELSE 0 - c.amount

LedgerCall(u, n, reason, ref) ==
  [user |-> u, amount |-> n, reason |-> reason, ref |-> ref]

\* ensureSignupCreditGrant: nothing to do when the bonus is switched off.
SignupCalls(u) ==
  IF SignupCredits = 0 THEN <<>>
  ELSE <<LedgerCall(u, SignupCredits, "signup_grant", SignupRef(u))>>

\* Every metered route charges after the bonus and passes no external_ref.
MeteredPlan(u) == SignupCalls(u) \o <<LedgerCall(u, Cost, "usage", NoRef)>>
\* Token exchange, entitlements, MCP session: the bonus only.
SignInPlan(u) == SignupCalls(u)
PurchasePlan(u, s) == <<LedgerCall(u, PackCredits, "purchase", CheckoutRef(u, s))>>
\* The operator names the reference; a grant and a revoke may name the same one.
OperatorPlan(u, reason, x) ==
  <<LedgerCall(u, OperatorAmount, reason, OperatorRef(x))>>

Plans ==
  {MeteredPlan(u) : u \in Users}
    \cup ({SignInPlan(u) : u \in Users} \ {<<>>})
    \cup {PurchasePlan(u, s) : u \in Users, s \in Sessions}
    \cup {OperatorPlan(u, reason, x) :
            u \in Users, reason \in {"operator_grant", "operator_revoke"}, x \in OperatorRefs}

Recorded == {row.ref : row \in ledger}
Live == {"look", "apply", "write"}
Current(r) == calls[r][1]

\* A call without a reference has nothing to look up.
Entry(c) == IF c.ref = NoRef THEN "apply" ELSE "look"

\* The call returned: the route goes on to its next call, or to its own work.
Return(r) ==
  /\ pc' = [pc EXCEPT ![r] = IF Len(calls[r]) = 1 THEN "done" ELSE Entry(calls[r][2])]
  /\ calls' = [calls EXCEPT ![r] = Tail(@)]

-----------------------------------------------------------------------------
Init ==
  /\ balance   = [u \in Users |-> 0]
  /\ purchased = [u \in Users |-> 0]
  /\ spent     = [u \in Users |-> 0]
  /\ ledger  = {}
  /\ pc      = [r \in Requests |-> "idle"]
  /\ calls   = [r \in Requests |-> <<>>]
  /\ pos     = [r \in Requests |-> 0]
  /\ updates = [u \in Users |-> <<>>]
  /\ settled = [r \in Requests |-> {}]

\* A client, Stripe or the operator invokes a route.
Begin(r, plan) ==
  /\ pc[r] = "idle"
  /\ pc' = [pc EXCEPT ![r] = Entry(plan[1])]
  /\ calls' = [calls EXCEPT ![r] = plan]
  /\ settled' = [settled EXCEPT ![r] = Recorded]
  /\ UNCHANGED <<accountVars, ledger, pos, updates>>

\* select balance_after ... where external_ref = ref: a recorded reference
\* ends the call with the recorded balance, whoever the row belongs to.
LookFound(r) ==
  /\ pc[r] = "look"
  /\ Current(r).ref \in Recorded
  /\ Return(r)
  /\ UNCHANGED <<accountVars, ledger, pos, historyVars>>

\* Mutant: the reference is not looked up.
LookMissedAlways(r) ==
  /\ pc[r] = "look"
  /\ pc' = [pc EXCEPT ![r] = "apply"]
  /\ UNCHANGED <<accountVars, ledger, calls, pos, historyVars>>

LookMissed(r) ==
  /\ pc[r] = "look"
  /\ Current(r).ref \notin Recorded
  /\ pc' = [pc EXCEPT ![r] = "apply"]
  /\ UNCHANGED <<accountVars, ledger, calls, pos, historyVars>>

\* The account row changes by the call's delta; RETURNING balance.
Moved(r) ==
  LET c == Current(r)
      after == balance[c.user] + Delta(c)
  IN /\ balance' = [balance EXCEPT ![c.user] = after]
     /\ updates' = [updates EXCEPT ![c.user] =
          Append(@, [by |-> r, delta |-> Delta(c), after |-> after,
                     reason |-> c.reason, ref |-> c.ref])]
     /\ pos' = [pos EXCEPT ![r] = Len(updates[c.user]) + 1]
     /\ pc' = [pc EXCEPT ![r] = "write"]

\* Mutant: every grant counts as a purchase.
ApplyGrantAllPurchased(r) ==
  LET c == Current(r)
  IN /\ pc[r] = "apply"
     /\ Credits(c.reason)
     /\ Moved(r)
     /\ purchased' = [purchased EXCEPT ![c.user] = @ + c.amount]
     /\ UNCHANGED <<spent, ledger, calls, settled>>

ApplyGrant(r) ==
  LET c == Current(r)
  IN /\ pc[r] = "apply"
     /\ Credits(c.reason)
     /\ Moved(r)
     /\ purchased' = [purchased EXCEPT ![c.user] =
                        IF c.reason = "purchase" THEN @ + c.amount ELSE @]
     /\ UNCHANGED <<spent, ledger, calls, settled>>

\* Mutant: the balance was compared in an earlier statement, not in the update.
ApplyDebitUnguarded(r) ==
  LET c == Current(r)
  IN /\ pc[r] = "apply"
     /\ ~Credits(c.reason)
     /\ Moved(r)
     /\ spent' = [spent EXCEPT ![c.user] =
                    IF c.reason = "usage" THEN @ + c.amount ELSE @]
     /\ UNCHANGED <<purchased, ledger, calls, settled>>

\* update ... set balance = balance - n where balance >= n: one atomic statement.
ApplyDebit(r) ==
  LET c == Current(r)
  IN /\ pc[r] = "apply"
     /\ ~Credits(c.reason)
     /\ balance[c.user] >= c.amount
     /\ Moved(r)
     /\ spent' = [spent EXCEPT ![c.user] =
                    IF c.reason = "usage" THEN @ + c.amount ELSE @]
     /\ UNCHANGED <<purchased, ledger, calls, settled>>

\* No row updated: the route answers 402 or 409 and does no work.
Refuse(r) ==
  LET c == Current(r)
  IN /\ pc[r] = "apply"
     /\ ~Credits(c.reason)
     /\ balance[c.user] < c.amount
     /\ pc' = [pc EXCEPT ![r] = "refused"]
     /\ UNCHANGED <<accountVars, ledger, calls, pos, historyVars>>

\* Mutant: balance_after is read again instead of taken from RETURNING.
WriteRowReread(r) ==
  LET c == Current(r)
  IN /\ pc[r] = "write"
     /\ c.ref \notin Recorded \ {NoRef}
     /\ ledger' = ledger \cup
          {[user |-> c.user, delta |-> Delta(c), after |-> balance[c.user],
            reason |-> c.reason, ref |-> c.ref, upd |-> pos[r]]}
     /\ Return(r)
     /\ UNCHANGED <<accountVars, pos, historyVars>>

\* insert into rmf_credit_ledger, with the balance the update returned.
WriteRow(r) ==
  LET c == Current(r)
  IN /\ pc[r] = "write"
     /\ c.ref \notin Recorded \ {NoRef}
     /\ ledger' = ledger \cup
          {[user |-> c.user, delta |-> Delta(c), after |-> updates[c.user][pos[r]].after,
            reason |-> c.reason, ref |-> c.ref, upd |-> pos[r]]}
     /\ Return(r)
     /\ UNCHANGED <<accountVars, pos, historyVars>>

\* external_ref is UNIQUE: the insert throws, the update above it stays.
DuplicateRow(r) ==
  /\ pc[r] = "write"
  /\ Current(r).ref \in Recorded \ {NoRef}
  /\ pc' = [pc EXCEPT ![r] = "rejected"]
  /\ UNCHANGED <<accountVars, ledger, calls, pos, historyVars>>

\* The isolate is killed, the client reset or a statement fails: nothing of
\* the request runs any more, and nothing it did is undone.
Abort(r) ==
  /\ pc[r] \in Live
  /\ pc' = [pc EXCEPT ![r] = IF pc[r] = "write" THEN "cut" ELSE "failed"]
  /\ UNCHANGED <<accountVars, ledger, calls, pos, historyVars>>

Step(r) ==
  \/ LookFound(r)
  \/ LookMissed(r)
  \/ ApplyGrant(r)
  \/ ApplyDebit(r)
  \/ Refuse(r)
  \/ WriteRow(r)
  \/ DuplicateRow(r)
  \/ Abort(r)

Next == \E r \in Requests : (\E plan \in Plans : Begin(r, plan)) \/ Step(r)

Spec == Init /\ [][Next]_vars

-----------------------------------------------------------------------------
\* What must hold.

\* The update a request made and has not recorded, or never will.
Unwritten(u) ==
  {r \in Requests : pc[r] \in {"write", "rejected", "cut"} /\ Current(r).user = u}
RowsOf(u) == {row \in ledger : row.user = u}
BalanceBefore(u, i) == IF i = 1 THEN 0 ELSE updates[u][i - 1].after

Row == [user : Users, delta : Int, after : Nat, reason : Reasons,
        ref : Refs \cup {NoRef}, upd : Nat \ {0}]
Update == [by : Requests, delta : Int, after : Nat, reason : Reasons,
           ref : Refs \cup {NoRef}]

\* Types, and the CHECK of the table: no interleaving of debits takes a balance
\* below zero.
TypeOK ==
  /\ balance \in [Users -> Nat]
  /\ purchased \in [Users -> Nat]
  /\ spent \in [Users -> Nat]
  /\ ledger \subseteq Row
  /\ pc \in [Requests -> Live \cup {"idle", "done", "refused", "rejected", "failed", "cut"}]
  /\ calls \in [Requests -> Seq(Call)]
  /\ pos \in [Requests -> Nat]
  /\ updates \in [Users -> Seq(Update)]
  /\ settled \in [Requests -> SUBSET (Refs \cup {NoRef})]

\* A retry costs and gives nothing: a request that began after its reference
\* was recorded never moves a balance under that reference.
SettledRefIsFree ==
  \A u \in Users : \A i \in DOMAIN updates[u] :
    updates[u][i].ref # NoRef => updates[u][i].ref \notin settled[updates[u][i].by]

\* The audit trail explains the balance: every account update has its ledger row
\* or belongs to a request that is at, or died at, its insert; every row's
\* balance_after and delta agree with the balance the update found; and the
\* balance is what the last update left.
AuditTrail ==
  \A u \in Users :
    /\ \A i \in DOMAIN updates[u] :
         \/ \E row \in RowsOf(u) : row.upd = i
         \/ \E r \in Unwritten(u) : pos[r] = i
    /\ \A row \in RowsOf(u) :
         /\ row.upd \in DOMAIN updates[u]
         /\ row.after = BalanceBefore(u, row.upd) + row.delta
    /\ balance[u] = BalanceBefore(u, Len(updates[u]) + 1)

\* What the rows of a user, and the updates still without one, say was moved for reasons.
Written(u, reasons) == {row \in RowsOf(u) : row.reason \in reasons}
Owed(u, reasons) == {r \in Unwritten(u) : Current(r).reason \in reasons}
Total(u, reasons) ==
  Sum([row \in Written(u, reasons) |-> row.delta])
    + Sum([r \in Owed(u, reasons) |-> Delta(Current(r))])

\* All three counters reconcile with the ledger, up to the requests that are at,
\* or died at, their insert; bonus and operator credits never count as purchased
\* and a clawback never counts as spent.
Reconciles ==
  \A u \in Users :
    /\ balance[u] = Total(u, Reasons)
    /\ purchased[u] = Total(u, {"purchase"})
    /\ spent[u] = 0 - Total(u, {"usage"})

\* The interleaved statements implement the account's promise.
Account == INSTANCE CreditAccount
ImplementsAccount == Account!Spec

\* app/api/operator/credits/route.ts: "Every mutation writes rmf_credit_ledger --
\* no silent balance edits."  Said of the requests whose own code ran to its end
\* (none that was cut off): each of their updates has a row.  The code does not
\* keep it: two calls that both miss the look-up both move the balance.
NoSilentBalanceEdits ==
  \A u \in Users : \A i \in DOMAIN updates[u] :
    pc[updates[u][i].by] \in {"done", "refused", "rejected"} =>
      \E row \in RowsOf(u) : row.upd = i
=============================================================================
