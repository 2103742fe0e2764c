------------------------ MODULE CreditLedger_proofs ------------------------
(***************************************************************************)
(* Theorems about CreditLedger, for every set of requests, users, sessions *)
(* and references and every amount.                                        *)
(***************************************************************************)
EXTENDS CreditLedger, Sums_proofs, SequenceTheorems

-----------------------------------------------------------------------------
(* Calls and plans. *)

\* A call moves its amount up or down, and amounts are positive.
LEMMA CallFacts ==
  ASSUME NEW c \in Call
  PROVE  /\ c.user \in Users
         /\ c.amount \in Nat \ {0}
         /\ c.reason \in Reasons
         /\ c.ref \in Refs \cup {NoRef}
         /\ Delta(c) \in Int
         /\ Credits(c.reason) => Delta(c) = c.amount
         /\ ~Credits(c.reason) => Delta(c) = 0 - c.amount
  BY CreditsAssumption DEF Call, Amounts, Delta

\* A plan of one call.
LEMMA OneCall ==
  ASSUME NEW c \in Call
  PROVE  <<c>> \in Seq(Call) /\ Len(<<c>>) = 1
  OBVIOUS

\* Every plan is a non-empty sequence of calls.
LEMMA PlanFacts ==
  ASSUME NEW plan \in Plans
  PROVE  plan \in Seq(Call) /\ Len(plan) >= 1
  <1>1. ASSUME NEW u \in Users, NEW n \in Amounts, NEW reason \in Reasons,
               NEW ref \in Refs \cup {NoRef}
        PROVE  LedgerCall(u, n, reason, ref) \in Call
    BY DEF LedgerCall, Call
  <1>2. /\ PackCredits \in Amounts /\ Cost \in Amounts /\ OperatorAmount \in Amounts
        /\ SignupCredits # 0 => SignupCredits \in Amounts
    BY CreditsAssumption DEF Amounts
  <1>3. ASSUME NEW u \in Users
        PROVE  /\ SignupCalls(u) \in Seq(Call)
               /\ SignupCalls(u) # <<>> => Len(SignupCalls(u)) = 1
    <2>1. CASE SignupCredits = 0
      BY <2>1 DEF SignupCalls
    <2>2. CASE SignupCredits # 0
      <3>1. LedgerCall(u, SignupCredits, "signup_grant", SignupRef(u)) \in Call
        BY <1>1, <1>2, <2>2 DEF Refs, Reasons
      <3> QED BY <3>1, <2>2, OneCall DEF SignupCalls
    <2> QED BY <2>1, <2>2
  <1>4. ASSUME NEW u \in Users
        PROVE  MeteredPlan(u) \in Seq(Call) /\ Len(MeteredPlan(u)) >= 1
    <2>1. LedgerCall(u, Cost, "usage", NoRef) \in Call
      BY <1>1, <1>2 DEF Reasons
    <2>2. <<LedgerCall(u, Cost, "usage", NoRef)>> \in Seq(Call)
          /\ Len(<<LedgerCall(u, Cost, "usage", NoRef)>>) = 1
      BY <2>1, OneCall
    <2>3. Len(SignupCalls(u)) \in Nat
      BY <1>3, LenProperties
    <2> QED BY <1>3, <2>2, <2>3, ConcatProperties DEF MeteredPlan
  <1>5. ASSUME NEW u \in Users, SignInPlan(u) # <<>>
        PROVE  SignInPlan(u) \in Seq(Call) /\ Len(SignInPlan(u)) >= 1
    BY <1>3, <1>5 DEF SignInPlan
  <1>6. ASSUME NEW u \in Users, NEW s \in Sessions
        PROVE  PurchasePlan(u, s) \in Seq(Call) /\ Len(PurchasePlan(u, s)) >= 1
    <2>1. LedgerCall(u, PackCredits, "purchase", CheckoutRef(u, s)) \in Call
      BY <1>1, <1>2 DEF Refs, Reasons
    <2> QED BY <2>1, OneCall DEF PurchasePlan
  <1>7. ASSUME NEW u \in Users, NEW reason \in {"operator_grant", "operator_revoke"},
               NEW x \in OperatorRefs
        PROVE  OperatorPlan(u, reason, x) \in Seq(Call) /\ Len(OperatorPlan(u, reason, x)) >= 1
    <2>1. LedgerCall(u, OperatorAmount, reason, OperatorRef(x)) \in Call
      BY <1>1, <1>2 DEF Refs, Reasons
    <2> QED BY <2>1, OneCall DEF OperatorPlan
  <1> QED BY <1>4, <1>5, <1>6, <1>7 DEF Plans

-----------------------------------------------------------------------------
(* The inductive invariant. *)

Owing == {"write", "rejected", "cut"}

\* A request that is not over, or was stopped inside a call, has that call.
CallPending ==
  \A r \in Requests : pc[r] \in Live \cup Owing => Len(calls[r]) >= 1

\* A reference about to be applied was not recorded when the request began.
FreshRef ==
  /\ \A r \in Requests : settled[r] \subseteq Recorded
  /\ \A r \in Requests :
       pc[r] = "apply" => Current(r).ref = NoRef \/ Current(r).ref \notin settled[r]

\* A request that owes a row points at its own update, which has no row.
OwnUpdate ==
  \A r \in Requests : pc[r] \in Owing =>
    /\ pos[r] \in DOMAIN updates[Current(r).user]
    /\ updates[Current(r).user][pos[r]].by = r
    /\ updates[Current(r).user][pos[r]].delta = Delta(Current(r))
    /\ \A row \in ledger : row.user = Current(r).user => row.upd # pos[r]

\* A row repeats the update it records.
RowsMatch ==
  \A row \in ledger :
    /\ row.upd \in DOMAIN updates[row.user]
    /\ row.delta = updates[row.user][row.upd].delta
    /\ row.after = updates[row.user][row.upd].after

\* Each update starts from the balance the one before it left.
Chain ==
  \A u \in Users :
    /\ \A i \in DOMAIN updates[u] :
         updates[u][i].after = BalanceBefore(u, i) + updates[u][i].delta
    /\ balance[u] = BalanceBefore(u, Len(updates[u]) + 1)

Explained ==
  \A u \in Users : \A i \in DOMAIN updates[u] :
    \/ \E row \in RowsOf(u) : row.upd = i
    \/ \E r \in Unwritten(u) : pos[r] = i

\* Only a request that has begun has updates.
Begun ==
  \A u \in Users : \A i \in DOMAIN updates[u] : pc[updates[u][i].by] # "idle"

IInv ==
  /\ TypeOK
  /\ CallPending
  /\ FreshRef
  /\ OwnUpdate
  /\ RowsMatch
  /\ Chain
  /\ Explained
  /\ Begun
  /\ SettledRefIsFree

-----------------------------------------------------------------------------
(* Each action preserves it. *)

\* The call a request works on is a call.
LEMMA CurrentFacts ==
  ASSUME IInv, NEW r \in Requests, pc[r] \in Live \cup Owing
  PROVE  /\ Current(r) \in Call
         /\ Len(calls[r]) \in Nat \ {0}
         /\ calls[r] \in Seq(Call)
  BY DEF IInv, TypeOK, CallPending, Current

\* An entry of the history is an update by some request.
LEMMA UpdateFacts ==
  ASSUME IInv, NEW u \in Users, NEW i \in DOMAIN updates[u]
  PROVE  /\ updates[u] \in Seq(Update)
         /\ Len(updates[u]) \in Nat
         /\ DOMAIN updates[u] = 1..Len(updates[u])
         /\ i \in 1..Len(updates[u])
         /\ updates[u][i] \in Update
         /\ updates[u][i].by \in Requests
         /\ updates[u][i].after \in Nat
         /\ updates[u][i].delta \in Int
  <1>1. updates[u] \in Seq(Update)
    BY DEF IInv, TypeOK
  <1>2. Len(updates[u]) \in Nat /\ DOMAIN updates[u] = 1..Len(updates[u])
    BY <1>1, LenProperties
  <1>3. updates[u][i] \in Update
    BY <1>1, <1>2, ElementOfSeq
  <1> QED BY <1>1, <1>2, <1>3 DEF Update

\* Returning from a call leaves the request done or at the start of its next call.
LEMMA ReturnFacts ==
  ASSUME IInv, NEW r \in Requests, pc[r] \in Live, Return(r)
  PROVE  /\ pc' = [pc EXCEPT ![r] = pc'[r]]
         /\ pc'[r] \in {"done", "look", "apply"}
         /\ calls' \in [Requests -> Seq(Call)]
         /\ \A q \in Requests \ {r} : calls'[q] = calls[q]
         /\ pc'[r] # "done" => Len(calls'[r]) >= 1
         /\ pc'[r] = "apply" => Current(r)'.ref = NoRef
  <1>1. calls[r] \in Seq(Call) /\ Len(calls[r]) \in Nat \ {0} /\ calls[r] # <<>>
    BY CurrentFacts
  <1>2. /\ Tail(calls[r]) \in Seq(Call)
        /\ Len(Tail(calls[r])) = Len(calls[r]) - 1
        /\ \A i \in 1..Len(Tail(calls[r])) : Tail(calls[r])[i] = calls[r][i + 1]
    BY <1>1, HeadTailProperties
  <1>3. pc \in [Requests -> Live \cup {"idle", "done", "refused", "rejected", "failed", "cut"}]
        /\ calls \in [Requests -> Seq(Call)]
    BY DEF IInv, TypeOK
  <1>4. calls' = [calls EXCEPT ![r] = Tail(calls[r])]
    BY DEF Return
  <1>5. calls' \in [Requests -> Seq(Call)] /\ calls'[r] = Tail(calls[r])
        /\ \A q \in Requests \ {r} : calls'[q] = calls[q]
    BY <1>2, <1>3, <1>4
  <1>6. CASE Len(calls[r]) = 1
    BY <1>3, <1>5, <1>6 DEF Return
  <1>7. CASE Len(calls[r]) # 1
    <2>1. pc'[r] = Entry(calls[r][2])
      BY <1>3, <1>7 DEF Return
    <2>2. Len(Tail(calls[r])) >= 1 /\ Tail(calls[r])[1] = calls[r][2]
      <3>1. Len(Tail(calls[r])) >= 1
        <4>1. Len(calls[r]) - 1 >= 1
          <5> DEFINE n == Len(calls[r])
          <5>1. n \in Int /\ n >= 1
            BY <1>1
          <5>2. n # 1
            BY <1>7
          <5> HIDE DEF n
          <5>3. n - 1 >= 1
            BY <5>1, <5>2
          <5> QED BY <5>3 DEF n
        <4> QED BY <1>2, <4>1
      <3>2. 1 \in 1..Len(Tail(calls[r]))
        BY <1>1, <1>2, <3>1
      <3>3. Tail(calls[r])[1] = calls[r][1 + 1]
        BY <1>2, <3>2
      <3> QED BY <3>1, <3>3
    <2>3. Current(r)' = calls[r][2]
      BY <1>5, <2>2 DEF Current
    <2>4. pc' = [pc EXCEPT ![r] = pc'[r]]
      BY <1>3, <1>7 DEF Return
    <2>5. pc'[r] \in {"done", "look", "apply"}
          /\ (pc'[r] = "apply" => calls[r][2].ref = NoRef)
      BY <2>1 DEF Entry
    <2> QED BY <1>5, <2>2, <2>3, <2>4, <2>5
  <1> QED BY <1>6, <1>7

\* Starting a request keeps the invariant: its plan is well formed, its history fresh.
LEMMA BeginStep ==
  ASSUME IInv, NEW r \in Requests, NEW plan \in Plans, Begin(r, plan)
  PROVE  IInv'
  <1> USE DEF Begin, accountVars
  <1>1. plan \in Seq(Call) /\ Len(plan) >= 1
    BY PlanFacts
  <1>2. Entry(plan[1]) \in {"look", "apply"}
        /\ (Entry(plan[1]) = "apply" => plan[1].ref = NoRef)
    BY DEF Entry
  <1>3. /\ pc' = [pc EXCEPT ![r] = Entry(plan[1])] /\ pc[r] = "idle"
        /\ \A q \in Requests \ {r} : pc'[q] = pc[q] /\ calls'[q] = calls[q]
        /\ pc'[r] = Entry(plan[1]) /\ calls'[r] = plan
        /\ \A q \in Requests \ {r} : settled'[q] = settled[q]
        /\ settled'[r] = Recorded
        /\ ledger' = ledger /\ updates' = updates /\ pos' = pos /\ balance' = balance
    BY DEF IInv, TypeOK
  <1>4. Recorded' = Recorded /\ Recorded \subseteq Refs \cup {NoRef}
    BY <1>3 DEF Recorded, IInv, TypeOK, Row
  <1>5. TypeOK'
    BY <1>1, <1>2, <1>3, <1>4 DEF IInv, TypeOK, Live
  <1>6. CallPending'
    BY <1>1, <1>3 DEF IInv, CallPending
  <1>7. FreshRef'
    BY <1>2, <1>3, <1>4 DEF IInv, FreshRef, Current
  <1>8. OwnUpdate'
    BY <1>2, <1>3 DEF IInv, OwnUpdate, Current, Owing
  <1>9. RowsMatch' /\ Chain'
    BY <1>3 DEF IInv, RowsMatch, Chain, BalanceBefore
  <1>10. Explained'
    <2>1. \A u \in Users : Unwritten(u)' = Unwritten(u)
      BY <1>2, <1>3 DEF Unwritten, Current
    <2> QED BY <1>3, <2>1 DEF IInv, Explained, RowsOf
  <1>11. Begun'
    BY <1>2, <1>3, UpdateFacts DEF IInv, Begun
  <1>12. SettledRefIsFree'
    <2> SUFFICES ASSUME NEW u \in Users, NEW i \in DOMAIN updates[u], updates[u][i].ref # NoRef
                 PROVE  updates[u][i].ref \notin settled'[updates[u][i].by]
      BY <1>3 DEF SettledRefIsFree
    <2>1. updates[u][i].by \in Requests /\ updates[u][i].by # r
      BY <1>3, UpdateFacts DEF IInv, Begun
    <2> QED BY <1>3, <2>1 DEF IInv, SettledRefIsFree
  <1> QED BY <1>5, <1>6, <1>7, <1>8, <1>9, <1>10, <1>11, <1>12 DEF IInv

\* A step that only moves a request to another statement, or stops it there.
LEMMA PcStep ==
  ASSUME IInv, NEW r \in Requests, pc[r] \in Live,
         NEW next \in {"apply", "refused", "rejected", "failed", "cut"},
         pc' = [pc EXCEPT ![r] = next],
         pc[r] = "write" <=> next \in Owing,
         next = "apply" => Current(r).ref \notin Recorded,
         UNCHANGED <<accountVars, ledger, calls, pos, historyVars>>
  PROVE  IInv'
  <1> USE DEF accountVars, historyVars
  <1>1. /\ pc'[r] = next
        /\ \A q \in Requests \ {r} : pc'[q] = pc[q]
        /\ ledger' = ledger /\ calls' = calls /\ pos' = pos /\ updates' = updates
        /\ settled' = settled /\ balance' = balance
    BY DEF IInv, TypeOK
  <1>2. Recorded' = Recorded /\ \A q \in Requests : Current(q)' = Current(q)
    BY <1>1 DEF Recorded, Current
  <1>3. TypeOK'
    BY DEF IInv, TypeOK, Live
  <1>4. CallPending'
    BY <1>1 DEF IInv, CallPending, Owing, Live
  <1>5. FreshRef'
    BY <1>1, <1>2 DEF IInv, FreshRef
  <1>6. OwnUpdate'
    BY <1>1, <1>2 DEF IInv, OwnUpdate, Owing
  <1>7. RowsMatch' /\ Chain' /\ SettledRefIsFree'
    BY <1>1 DEF IInv, RowsMatch, Chain, BalanceBefore, SettledRefIsFree
  <1>8. Explained'
    <2>1. \A u \in Users : Unwritten(u)' = Unwritten(u)
      <3>1. \A q \in Requests : pc'[q] \in Owing <=> pc[q] \in Owing
        <4>1. pc[r] \in Owing <=> next \in Owing
          BY DEF Owing, Live
        <4> QED BY <4>1, <1>1
      <3> QED BY <1>2, <3>1 DEF Unwritten, Owing
    <2> QED BY <1>1, <2>1 DEF IInv, Explained, RowsOf
  <1>9. Begun'
    BY <1>1, UpdateFacts DEF IInv, Begun
  <1> QED BY <1>3, <1>4, <1>5, <1>6, <1>7, <1>8, <1>9 DEF IInv

\* A look-up that finds the row keeps the invariant: the call returns, nothing moved.
LEMMA LookFoundStep ==
  ASSUME IInv, NEW r \in Requests, LookFound(r)
  PROVE  IInv'
  <1> USE DEF accountVars, historyVars
  <1>1. pc[r] = "look" /\ pc[r] \in Live /\ Return(r)
    BY DEF LookFound, Live
  <1>2. /\ pc' = [pc EXCEPT ![r] = pc'[r]]
        /\ pc'[r] \in {"done", "look", "apply"}
        /\ calls' \in [Requests -> Seq(Call)]
        /\ \A q \in Requests \ {r} : calls'[q] = calls[q]
        /\ pc'[r] # "done" => Len(calls'[r]) >= 1
        /\ pc'[r] = "apply" => Current(r)'.ref = NoRef
    BY <1>1, ReturnFacts
  <1>3. /\ \A q \in Requests \ {r} : pc'[q] = pc[q] /\ Current(q)' = Current(q)
        /\ ledger' = ledger /\ pos' = pos /\ updates' = updates
        /\ settled' = settled /\ balance' = balance /\ Recorded' = Recorded
    BY <1>2 DEF LookFound, IInv, TypeOK, Recorded, Current
  <1>4. TypeOK'
    BY <1>2 DEF LookFound, IInv, TypeOK, Live
  <1>5. CallPending'
    BY <1>2, <1>3 DEF IInv, CallPending, Owing, Live
  <1>6. FreshRef'
    BY <1>2, <1>3 DEF IInv, FreshRef
  <1>7. OwnUpdate'
    BY <1>2, <1>3 DEF IInv, OwnUpdate, Owing
  <1>8. RowsMatch' /\ Chain' /\ SettledRefIsFree'
    BY <1>3 DEF IInv, RowsMatch, Chain, BalanceBefore, SettledRefIsFree
  <1>9. Explained'
    <2>1. \A u \in Users : Unwritten(u)' = Unwritten(u)
      BY <1>1, <1>2, <1>3 DEF Unwritten
    <2> QED BY <1>3, <2>1 DEF IInv, Explained, RowsOf
  <1>10. Begun'
    BY <1>2, <1>3, UpdateFacts DEF IInv, Begun
  <1> QED BY <1>4, <1>5, <1>6, <1>7, <1>8, <1>9, <1>10 DEF IInv

\* The update both kinds of call make: the account moves, the history grows.
LEMMA MovedStep ==
  ASSUME IInv, NEW r \in Requests, pc[r] = "apply", Moved(r),
         balance[Current(r).user] + Delta(Current(r)) \in Nat,
         purchased' \in [Users -> Nat], spent' \in [Users -> Nat],
         UNCHANGED <<ledger, calls, settled>>
  PROVE  IInv'
  <1>0. PICK c \in Call : c = Current(r)
    BY CurrentFacts DEF Live
  <1> DEFINE v == c.user
             after == balance[v] + Delta(c)
             e == [by |-> r, delta |-> Delta(c), after |-> after,
                   reason |-> c.reason, ref |-> c.ref]
  <1>1. /\ c \in Call /\ v \in Users /\ c.reason \in Reasons
        /\ c.ref \in Refs \cup {NoRef} /\ Delta(c) \in Int
    BY CallFacts
  <1>2. e \in Update /\ after \in Nat
    BY <1>0, <1>1 DEF Update
  <1>3. updates[v] \in Seq(Update)
    BY <1>1 DEF IInv, TypeOK
  <1>3a. PICK n \in Nat : n = Len(updates[v]) /\ DOMAIN updates[v] = 1..n
    BY <1>3, LenProperties
  <1>4. /\ Append(updates[v], e) \in Seq(Update)
        /\ Len(Append(updates[v], e)) = n + 1
        /\ DOMAIN Append(updates[v], e) = 1..(n + 1)
        /\ \A i \in 1..n : Append(updates[v], e)[i] = updates[v][i]
        /\ Append(updates[v], e)[n + 1] = e
    <2> HIDE DEF e, v
    <2>1. /\ Append(updates[v], e) \in Seq(Update)
          /\ Len(Append(updates[v], e)) = Len(updates[v]) + 1
          /\ \A i \in 1..Len(updates[v]) : Append(updates[v], e)[i] = updates[v][i]
          /\ Append(updates[v], e)[Len(updates[v]) + 1] = e
      BY <1>2, <1>3, AppendProperties
    <2>2. DOMAIN Append(updates[v], e) = 1..Len(Append(updates[v], e))
      BY <2>1, LenProperties
    <2> QED BY <2>1, <2>2, <1>3a
  <1>5. /\ balance' = [balance EXCEPT ![v] = after]
        /\ updates' = [updates EXCEPT ![v] = Append(updates[v], e)]
        /\ pos' = [pos EXCEPT ![r] = n + 1]
        /\ pc' = [pc EXCEPT ![r] = "write"]
    BY <1>0, <1>3a DEF Moved
  <1> HIDE DEF e, after, v
  <1>6. /\ balance'[v] = after /\ (\A u \in Users \ {v} : balance'[u] = balance[u])
        /\ updates'[v] = Append(updates[v], e)
        /\ \A u \in Users \ {v} : updates'[u] = updates[u]
        /\ pos'[r] = n + 1 /\ (\A q \in Requests \ {r} : pos'[q] = pos[q])
        /\ pc'[r] = "write" /\ (\A q \in Requests \ {r} : pc'[q] = pc[q])
        /\ ledger' = ledger /\ settled' = settled /\ Recorded' = Recorded
        /\ \A q \in Requests : Current(q)' = Current(q)
    BY <1>1, <1>5 DEF IInv, TypeOK, Recorded, Current
  <1>7. ASSUME NEW u \in Users
        PROVE  /\ DOMAIN updates[u] \subseteq DOMAIN updates'[u]
               /\ \A i \in DOMAIN updates[u] : updates'[u][i] = updates[u][i]
               /\ \A i \in DOMAIN updates'[u] :
                    i \in DOMAIN updates[u] \/ (u = v /\ i = n + 1 /\ updates'[u][i] = e)
    <2>1. CASE u = v
      <3>1. DOMAIN updates'[v] = 1..(n + 1) /\ 1..n \subseteq 1..(n + 1)
            /\ \A i \in 1..(n + 1) : i \in 1..n \/ i = n + 1
        BY <1>4, <1>6
      <3>2. \A i \in 1..n : updates'[v][i] = updates[v][i]
        BY <1>4, <1>6
      <3>3. updates'[v][n + 1] = e
        BY <1>4, <1>6
      <3> QED BY <2>1, <3>1, <3>2, <3>3, <1>3a
    <2>2. CASE u # v
      BY <2>2, <1>6
    <2> QED BY <2>1, <2>2
  <1>8. TypeOK'
    <2>1. balance' \in [Users -> Nat]
      BY <1>1, <1>2, <1>5 DEF IInv, TypeOK
    <2>2. updates' \in [Users -> Seq(Update)]
      BY <1>1, <1>4, <1>5 DEF IInv, TypeOK
    <2>3. pos' \in [Requests -> Nat]
      BY <1>5 DEF IInv, TypeOK
    <2>4. pc' \in [Requests -> Live \cup {"idle", "done", "refused", "rejected", "failed", "cut"}]
      BY <1>5 DEF IInv, TypeOK, Live
    <2> QED BY <2>1, <2>2, <2>3, <2>4 DEF IInv, TypeOK
  <1>9. CallPending'
    BY <1>6 DEF IInv, CallPending, Live
  <1>10. FreshRef'
    BY <1>6 DEF IInv, FreshRef
  <1>11. OwnUpdate'
    <2> SUFFICES ASSUME NEW q \in Requests, pc'[q] \in Owing
                 PROVE  /\ pos'[q] \in DOMAIN updates'[Current(q).user]
                        /\ updates'[Current(q).user][pos'[q]].by = q
                        /\ updates'[Current(q).user][pos'[q]].delta = Delta(Current(q))
                        /\ \A row \in ledger : row.user = Current(q).user => row.upd # pos'[q]
      BY <1>6 DEF OwnUpdate
    <2>1. CASE q = r
      <3>1. Current(q).user = v /\ pos'[q] = n + 1
        BY <2>1, <1>0, <1>6 DEF v
      <3>2. n + 1 \in DOMAIN updates'[v] /\ updates'[v][n + 1] = e
        BY <1>4, <1>6
      <3>3. e.by = q /\ e.delta = Delta(Current(q))
        BY <2>1, <1>0 DEF e
      <3>4. \A row \in ledger : row.user = v => row.upd # n + 1
        BY <1>3a DEF IInv, RowsMatch
      <3> QED BY <3>1, <3>2, <3>3, <3>4
    <2>2. CASE q # r
      <3>1. pc[q] \in Owing /\ pos'[q] = pos[q]
        BY <2>2, <1>6
      <3>2. /\ pos[q] \in DOMAIN updates[Current(q).user]
            /\ updates[Current(q).user][pos[q]].by = q
            /\ updates[Current(q).user][pos[q]].delta = Delta(Current(q))
            /\ \A row \in ledger : row.user = Current(q).user => row.upd # pos[q]
        BY <3>1 DEF IInv, OwnUpdate
      <3>3. Current(q).user \in Users
        BY <3>1, CurrentFacts, CallFacts
      <3> QED BY <3>1, <3>2, <3>3, <1>7
    <2> QED BY <2>1, <2>2
  <1>12. RowsMatch'
    <2>1. \A row \in ledger : row.user \in Users
      BY DEF IInv, TypeOK, Row
    <2> QED BY <2>1, <1>6, <1>7 DEF IInv, RowsMatch
  <1>13. ASSUME NEW u \in Users, NEW i \in 1..(Len(updates[u]) + 1)
         PROVE  BalanceBefore(u, i)' = BalanceBefore(u, i)
    <2>1. updates[u] \in Seq(Update) /\ Len(updates[u]) \in Nat
          /\ DOMAIN updates[u] = 1..Len(updates[u])
      BY LenProperties DEF IInv, TypeOK
    <2>2. i # 1 => i - 1 \in DOMAIN updates[u]
      BY <2>1
    <2> QED BY <2>2, <1>7 DEF BalanceBefore
  <1>14. Chain'
    <2> SUFFICES ASSUME NEW u \in Users
                 PROVE  /\ \A i \in DOMAIN updates'[u] :
                             updates'[u][i].after = BalanceBefore(u, i)' + updates'[u][i].delta
                        /\ balance'[u] = BalanceBefore(u, Len(updates[u]) + 1)'
      BY DEF Chain
    <2>1. updates[u] \in Seq(Update) /\ Len(updates[u]) \in Nat
          /\ DOMAIN updates[u] = 1..Len(updates[u])
      BY LenProperties DEF IInv, TypeOK
    <2>2. ASSUME NEW i \in DOMAIN updates[u]
          PROVE  updates'[u][i].after = BalanceBefore(u, i)' + updates'[u][i].delta
      <3>1. updates[u][i].after = BalanceBefore(u, i) + updates[u][i].delta
        BY DEF IInv, Chain
      <3>2. i \in 1..(Len(updates[u]) + 1)
        BY <2>1
      <3> QED BY <3>1, <3>2, <1>7, <1>13
    <2>3. balance[u] = BalanceBefore(u, Len(updates[u]) + 1)
      BY DEF IInv, Chain
    <2>4. Len(updates[u]) + 1 \in 1..(Len(updates[u]) + 1)
      BY <2>1
    <2>5. CASE u = v
      <3>1. e.after = balance[v] + e.delta
        BY DEF e, after
      <3>2. updates'[v][n + 1].after = BalanceBefore(v, n + 1)' + updates'[v][n + 1].delta
        BY <3>1, <2>3, <2>4, <2>5, <1>1, <1>3a, <1>4, <1>6, <1>13
      <3>3. BalanceBefore(v, Len(updates[v]) + 1)' = after
        <4>1. Len(updates[v])' + 1 = n + 2
          BY <1>4, <1>6
        <4>2. n + 2 # 1 /\ (n + 2) - 1 = n + 1
          OBVIOUS
        <4>3. updates'[v][n + 1].after = after
          BY <1>4, <1>6 DEF e
        <4> QED BY <4>1, <4>2, <4>3 DEF BalanceBefore
      <3> QED BY <2>2, <2>5, <3>2, <3>3, <1>6, <1>7
    <2>6. CASE u # v
      BY <2>2, <2>3, <2>4, <2>6, <1>6, <1>7, <1>13
    <2> QED BY <2>5, <2>6
  <1>15. Explained'
    <2> SUFFICES ASSUME NEW u \in Users, NEW i \in DOMAIN updates'[u]
                 PROVE  \/ \E row \in RowsOf(u) : row.upd = i
                        \/ \E q \in Unwritten(u)' : pos'[q] = i
      BY <1>6 DEF Explained, RowsOf
    <2>1. \A q \in Unwritten(u) : q # r /\ q \in Unwritten(u)' /\ pos'[q] = pos[q]
      BY <1>6 DEF Unwritten
    <2>2. CASE i \in DOMAIN updates[u]
      BY <2>1, <2>2 DEF IInv, Explained
    <2>3. CASE u = v /\ i = n + 1
      BY <2>3, <1>0, <1>6 DEF Unwritten, v
    <2> QED BY <2>2, <2>3, <1>7
  <1>16. Begun'
    <2> SUFFICES ASSUME NEW u \in Users, NEW i \in DOMAIN updates'[u]
                 PROVE  pc'[updates'[u][i].by] # "idle"
      BY DEF Begun
    <2>1. CASE i \in DOMAIN updates[u]
      <3>1. PICK q \in Requests : q = updates[u][i].by
        BY <2>1, UpdateFacts
      <3>2. updates'[u][i].by = q /\ pc[q] # "idle"
        BY <2>1, <3>1, <1>7 DEF IInv, Begun
      <3>3. pc'[q] # "idle"
        BY <3>2, <1>6
      <3> QED BY <3>2, <3>3
    <2>2. CASE u = v /\ i = n + 1
      BY <2>2, <1>4, <1>6 DEF e
    <2> QED BY <2>1, <2>2, <1>7
  <1>17. SettledRefIsFree'
    <2> SUFFICES ASSUME NEW u \in Users, NEW i \in DOMAIN updates'[u], updates'[u][i].ref # NoRef
                 PROVE  updates'[u][i].ref \notin settled[updates'[u][i].by]
      BY <1>6 DEF SettledRefIsFree
    <2>1. CASE i \in DOMAIN updates[u]
      BY <2>1, <1>7 DEF IInv, SettledRefIsFree
    <2>2. CASE u = v /\ i = n + 1
      <3>1. updates'[u][i] = e /\ e.ref = Current(r).ref /\ e.by = r
        BY <2>2, <1>0, <1>4, <1>6 DEF e
      <3> QED BY <3>1 DEF IInv, FreshRef
    <2> QED BY <2>1, <2>2, <1>7
  <1> QED
    BY <1>8, <1>9, <1>10, <1>11, <1>12, <1>14, <1>15, <1>16, <1>17 DEF IInv

\* A grant's update keeps the invariant.
LEMMA ApplyGrantStep ==
  ASSUME IInv, NEW r \in Requests, ApplyGrant(r)
  PROVE  IInv'
  <1>1. /\ pc[r] = "apply" /\ Moved(r) /\ Credits(Current(r).reason)
        /\ UNCHANGED <<spent, ledger, calls, settled>>
        /\ purchased' = [purchased EXCEPT ![Current(r).user] =
             IF Current(r).reason = "purchase" THEN @ + Current(r).amount ELSE @]
    BY DEF ApplyGrant
  <1>2. /\ Current(r).user \in Users /\ Current(r).amount \in Nat
        /\ Delta(Current(r)) = Current(r).amount
    BY <1>1, CurrentFacts, CallFacts DEF Live
  <1>3. /\ balance \in [Users -> Nat] /\ purchased \in [Users -> Nat]
        /\ spent \in [Users -> Nat]
    BY DEF IInv, TypeOK
  <1>4. balance[Current(r).user] + Delta(Current(r)) \in Nat
    BY <1>2, <1>3
  <1>5. purchased' \in [Users -> Nat] /\ spent' \in [Users -> Nat]
    BY <1>1, <1>2, <1>3
  <1> QED BY <1>1, <1>4, <1>5, MovedStep

\* A debit's update keeps the invariant: its guard keeps the balance a natural number.
LEMMA ApplyDebitStep ==
  ASSUME IInv, NEW r \in Requests, ApplyDebit(r)
  PROVE  IInv'
  <1>1. /\ pc[r] = "apply" /\ Moved(r) /\ ~Credits(Current(r).reason)
        /\ balance[Current(r).user] >= Current(r).amount
        /\ UNCHANGED <<purchased, ledger, calls, settled>>
        /\ spent' = [spent EXCEPT ![Current(r).user] =
             IF Current(r).reason = "usage" THEN @ + Current(r).amount ELSE @]
    BY DEF ApplyDebit
  <1>2. /\ Current(r).user \in Users /\ Current(r).amount \in Nat
        /\ Delta(Current(r)) = 0 - Current(r).amount
    BY <1>1, CurrentFacts, CallFacts DEF Live
  <1>3. /\ balance \in [Users -> Nat] /\ purchased \in [Users -> Nat]
        /\ spent \in [Users -> Nat]
    BY DEF IInv, TypeOK
  <1>4. balance[Current(r).user] + Delta(Current(r)) \in Nat
    BY <1>1, <1>2, <1>3
  <1>5. purchased' \in [Users -> Nat] /\ spent' \in [Users -> Nat]
    BY <1>1, <1>2, <1>3
  <1> QED BY <1>1, <1>4, <1>5, MovedStep

\* Inserting the row keeps the invariant: the owed update gets its only row.
LEMMA WriteRowStep ==
  ASSUME IInv, NEW r \in Requests, WriteRow(r)
  PROVE  IInv'
  <1>0. PICK c \in Call : c = Current(r)
    BY CurrentFacts DEF WriteRow, Live
  <1>1. PICK v \in Users : v = c.user
    BY CallFacts
  <1>2. PICK k : k = pos[r]
    OBVIOUS
  <1>3. /\ pc[r] = "write" /\ pc[r] \in Live /\ Return(r)
        /\ c.ref \notin Recorded \ {NoRef}
        /\ UNCHANGED <<accountVars, pos, historyVars>>
    BY <1>0 DEF WriteRow, Live
  <1>4. /\ k \in DOMAIN updates[v] /\ updates[v][k].by = r
        /\ updates[v][k].delta = Delta(c)
        /\ \A row \in ledger : row.user = v => row.upd # k
    BY <1>0, <1>1, <1>2, <1>3 DEF IInv, OwnUpdate, Owing
  <1>5. PICK row : row = [user |-> v, delta |-> Delta(c), after |-> updates[v][k].after,
                          reason |-> c.reason, ref |-> c.ref, upd |-> k]
    OBVIOUS
  <1>6. ledger' = ledger \cup {row}
    BY <1>0, <1>1, <1>2, <1>5 DEF WriteRow
  <1>7. row \in Row /\ row.user = v /\ row.upd = k /\ row.ref = c.ref
        /\ row.delta = updates[v][k].delta /\ row.after = updates[v][k].after
    <2>1. updates[v][k].after \in Nat /\ k \in Nat \ {0}
      BY <1>4, UpdateFacts
    <2> QED BY <2>1, <1>1, <1>4, <1>5, CallFacts DEF Row
  <1>8. /\ pc' = [pc EXCEPT ![r] = pc'[r]]
        /\ pc'[r] \in {"done", "look", "apply"}
        /\ calls' \in [Requests -> Seq(Call)]
        /\ \A q \in Requests \ {r} : calls'[q] = calls[q]
        /\ pc'[r] # "done" => Len(calls'[r]) >= 1
        /\ pc'[r] = "apply" => Current(r)'.ref = NoRef
    BY <1>3, ReturnFacts
  <1>9. /\ \A q \in Requests \ {r} : pc'[q] = pc[q] /\ Current(q)' = Current(q)
        /\ pos' = pos /\ updates' = updates /\ settled' = settled /\ balance' = balance
        /\ purchased' = purchased /\ spent' = spent
    BY <1>3, <1>8 DEF IInv, TypeOK, Current, accountVars, historyVars
  <1>10. Recorded \subseteq Recorded'
    BY <1>6 DEF Recorded
  <1>11. TypeOK'
    <2>1. pc' \in [Requests -> Live \cup {"idle", "done", "refused", "rejected", "failed", "cut"}]
      BY <1>8 DEF IInv, TypeOK, Live
    <2>2. ledger' \subseteq Row
      BY <1>6, <1>7 DEF IInv, TypeOK
    <2> QED BY <2>1, <2>2, <1>8, <1>9 DEF IInv, TypeOK
  <1>12. CallPending'
    BY <1>8, <1>9 DEF IInv, CallPending, Owing, Live
  <1>13. FreshRef'
    BY <1>8, <1>9, <1>10 DEF IInv, FreshRef
  <1>14. OwnUpdate'
    <2> SUFFICES ASSUME NEW q \in Requests, pc'[q] \in Owing
                 PROVE  /\ pos[q] \in DOMAIN updates[Current(q)'.user]
                        /\ updates[Current(q)'.user][pos[q]].by = q
                        /\ updates[Current(q)'.user][pos[q]].delta = Delta(Current(q)')
                        /\ \A w \in ledger' : w.user = Current(q)'.user => w.upd # pos[q]
      BY <1>9 DEF OwnUpdate
    <2>1. q # r /\ pc[q] \in Owing /\ Current(q)' = Current(q)
      BY <1>8, <1>9 DEF Owing
    <2>2. /\ pos[q] \in DOMAIN updates[Current(q).user]
          /\ updates[Current(q).user][pos[q]].by = q
          /\ updates[Current(q).user][pos[q]].delta = Delta(Current(q))
          /\ \A w \in ledger : w.user = Current(q).user => w.upd # pos[q]
      BY <2>1 DEF IInv, OwnUpdate
    <2>3. row.user = Current(q).user => row.upd # pos[q]
      BY <2>1, <2>2, <1>4, <1>7
    <2> QED BY <2>1, <2>2, <2>3, <1>6
  <1>15. RowsMatch'
    BY <1>4, <1>6, <1>7, <1>9 DEF IInv, RowsMatch
  <1>16. Chain'
    BY <1>9 DEF IInv, Chain, BalanceBefore
  <1>17. Explained'
    <2> SUFFICES ASSUME NEW u \in Users, NEW i \in DOMAIN updates[u]
                 PROVE  \/ \E w \in RowsOf(u)' : w.upd = i
                        \/ \E q \in Unwritten(u)' : pos[q] = i
      BY <1>9 DEF Explained
    <2>1. CASE \E w \in RowsOf(u) : w.upd = i
      BY <2>1, <1>6 DEF RowsOf
    <2>2. CASE \E q \in Unwritten(u) : pos[q] = i
      <3>1. PICK q \in Unwritten(u) : pos[q] = i
        BY <2>2
      <3>2. CASE q = r
        <4>1. u = v /\ i = k
          BY <3>1, <3>2, <1>0, <1>1, <1>2 DEF Unwritten
        <4> QED BY <4>1, <1>6, <1>7 DEF RowsOf
      <3>3. CASE q # r
        <4>1. q \in Unwritten(u)'
          BY <3>1, <3>3, <1>9 DEF Unwritten
        <4> QED BY <4>1, <3>1
      <3> QED BY <3>2, <3>3
    <2> QED BY <2>1, <2>2 DEF IInv, Explained
  <1>18. Begun'
    BY <1>8, <1>9, UpdateFacts DEF IInv, Begun
  <1>19. SettledRefIsFree'
    BY <1>9 DEF IInv, SettledRefIsFree
  <1> QED
    BY <1>11, <1>12, <1>13, <1>14, <1>15, <1>16, <1>17, <1>18, <1>19 DEF IInv

-----------------------------------------------------------------------------
(* The theorems. *)

\* The initial states satisfy the invariant.
LEMMA InitInv == Init => IInv
  <1> SUFFICES ASSUME Init PROVE IInv
    OBVIOUS
  <1>1. TypeOK
    BY DEF Init, TypeOK, Live
  <1>2. \A u \in Users : DOMAIN updates[u] = {} /\ Len(updates[u]) = 0
    BY DEF Init
  <1>3. CallPending /\ FreshRef /\ OwnUpdate
    BY DEF Init, CallPending, FreshRef, OwnUpdate, Owing, Live
  <1>4. RowsMatch
    BY DEF Init, RowsMatch
  <1>5. Chain /\ Explained /\ Begun /\ SettledRefIsFree
    BY <1>2 DEF Init, Chain, BalanceBefore, Explained, Begun, SettledRefIsFree
  <1> QED BY <1>1, <1>3, <1>4, <1>5 DEF IInv

\* Every step keeps the invariant.
LEMMA NextInv == IInv /\ [Next]_vars => IInv'
  <1> SUFFICES ASSUME IInv, [Next]_vars PROVE IInv'
    OBVIOUS
  <1>1. ASSUME NEW r \in Requests, NEW plan \in Plans, Begin(r, plan)
        PROVE  IInv'
    BY <1>1, BeginStep
  <1>2. ASSUME NEW r \in Requests, LookFound(r)
        PROVE  IInv'
    BY <1>2, LookFoundStep
  <1>3. ASSUME NEW r \in Requests, LookMissed(r)
        PROVE  IInv'
    BY <1>3, PcStep DEF LookMissed, Live, Owing
  <1>4. ASSUME NEW r \in Requests, ApplyGrant(r)
        PROVE  IInv'
    BY <1>4, ApplyGrantStep
  <1>5. ASSUME NEW r \in Requests, ApplyDebit(r)
        PROVE  IInv'
    BY <1>5, ApplyDebitStep
  <1>6. ASSUME NEW r \in Requests, Refuse(r)
        PROVE  IInv'
    BY <1>6, PcStep DEF Refuse, Live, Owing
  <1>7. ASSUME NEW r \in Requests, WriteRow(r)
        PROVE  IInv'
    BY <1>7, WriteRowStep
  <1>8. ASSUME NEW r \in Requests, DuplicateRow(r)
        PROVE  IInv'
    BY <1>8, PcStep DEF DuplicateRow, Live, Owing
  <1>9. ASSUME NEW r \in Requests, Abort(r)
        PROVE  IInv'
    <2>1. CASE pc[r] = "write"
      BY <1>9, <2>1, PcStep DEF Abort, Live, Owing
    <2>2. CASE pc[r] # "write"
      BY <1>9, <2>2, PcStep DEF Abort, Live, Owing
    <2> QED BY <2>1, <2>2
  <1>10. CASE UNCHANGED vars
    <2>1. /\ \A q \in Requests : Current(q)' = Current(q)
          /\ Recorded' = Recorded
          /\ \A u \in Users : Unwritten(u)' = Unwritten(u) /\ RowsOf(u)' = RowsOf(u)
      BY <1>10 DEF vars, Current, Recorded, Unwritten, RowsOf
    <2>2. TypeOK' /\ CallPending'
      BY <1>10 DEF vars, IInv, TypeOK, CallPending
    <2>3. FreshRef' /\ OwnUpdate'
      BY <1>10, <2>1 DEF vars, IInv, FreshRef, OwnUpdate
    <2>4. RowsMatch' /\ Chain' /\ Begun' /\ SettledRefIsFree'
      BY <1>10 DEF vars, IInv, RowsMatch, Chain, BalanceBefore, Begun,
         SettledRefIsFree
    <2>5. Explained'
      BY <1>10, <2>1 DEF vars, IInv, Explained
    <2> QED BY <2>2, <2>3, <2>4, <2>5 DEF IInv
  <1> QED
    BY <1>1, <1>2, <1>3, <1>4, <1>5, <1>6, <1>7, <1>8, <1>9, <1>10 DEF Next, Step

\* The strengthened invariant holds in every reachable state of the ledger.
THEOREM Invariance == Spec => []IInv
  BY InitInv, NextInv, PTL DEF Spec

\* grantCredits, revokeCredits and consumeCredits keep the tables well typed and no
\* balance below zero, whatever the interleaving and wherever requests stop.
THEOREM TypeCorrect == Spec => []TypeOK
  <1>1. IInv => TypeOK
    BY DEF IInv
  <1> QED BY <1>1, Invariance, PTL

\* A retry of a recorded operation never moves a balance again.
THEOREM RetriesFree == Spec => []SettledRefIsFree
  <1>1. IInv => SettledRefIsFree
    BY DEF IInv
  <1> QED BY <1>1, Invariance, PTL

\* The ledger explains the balance, up to requests that are at or died at their insert.
THEOREM AuditTrailHolds == Spec => []AuditTrail
  <1>1. ASSUME IInv PROVE AuditTrail
    <2> SUFFICES ASSUME NEW u \in Users, NEW row \in RowsOf(u)
                 PROVE  row.upd \in DOMAIN updates[u]
                        /\ row.after = BalanceBefore(u, row.upd) + row.delta
      BY <1>1 DEF IInv, AuditTrail, Explained, Chain
    <2>1. row \in ledger /\ row.user = u
      BY DEF RowsOf
    <2> QED BY <1>1, <2>1 DEF IInv, RowsMatch, Chain
  <1> QED BY <1>1, Invariance, PTL

-----------------------------------------------------------------------------
(* The counters are sums over the rows. *)

\* Only finitely many requests have begun, and each has written finitely many rows.
Finite == IsFiniteSet(ledger) /\ IsFiniteSet({r \in Requests : pc[r] # "idle"})
BookInv == IInv /\ Finite /\ Reconciles

\* What a total is made of.
LEMMA TotalFacts ==
  ASSUME BookInv, NEW u, NEW reasons
  PROVE  /\ IsFiniteSet(Written(u, reasons)) /\ IsFiniteSet(Owed(u, reasons))
         /\ [row \in Written(u, reasons) |-> row.delta] \in [Written(u, reasons) -> Int]
         /\ [r \in Owed(u, reasons) |-> Delta(Current(r))] \in [Owed(u, reasons) -> Int]
         /\ Sum([row \in Written(u, reasons) |-> row.delta]) \in Int
         /\ Sum([r \in Owed(u, reasons) |-> Delta(Current(r))]) \in Int
<1>1. Written(u, reasons) \subseteq ledger
      /\ Owed(u, reasons) \subseteq {r \in Requests : pc[r] # "idle"}
  BY DEF Written, RowsOf, Owed, Unwritten
<1>2. IsFiniteSet(Written(u, reasons)) /\ IsFiniteSet(Owed(u, reasons))
  BY <1>1, FS_Subset DEF BookInv, Finite
<1>3. \A row \in Written(u, reasons) : row.delta \in Int
  BY <1>1 DEF BookInv, IInv, TypeOK, Row
<1>4. ASSUME NEW r \in Owed(u, reasons) PROVE Delta(Current(r)) \in Int
  <2>1. r \in Requests /\ pc[r] \in Owing
    BY DEF Owed, Unwritten, Owing
  <2> QED BY <2>1, CurrentFacts, CallFacts DEF BookInv
<1>5. /\ [row \in Written(u, reasons) |-> row.delta] \in [Written(u, reasons) -> Int]
      /\ [r \in Owed(u, reasons) |-> Delta(Current(r))] \in [Owed(u, reasons) -> Int]
  BY <1>3, <1>4
<1> QED BY <1>2, <1>5, SumIsInt

\* A step that leaves the rows and the owed updates alone leaves the totals alone.
LEMMA TotalStays ==
  ASSUME NEW u, NEW reasons, ledger' = ledger,
         \A q \in Requests : /\ pc'[q] \in Owing <=> pc[q] \in Owing
                             /\ pc[q] \in Owing => Current(q)' = Current(q)
  PROVE  Total(u, reasons)' = Total(u, reasons)
<1>1. Written(u, reasons)' = Written(u, reasons)
  BY DEF Written, RowsOf
<1>2. Owed(u, reasons)' = Owed(u, reasons)
      /\ \A q \in Owed(u, reasons) : Current(q)' = Current(q)
  BY DEF Owed, Unwritten, Owing
<1>3. [q \in Owed(u, reasons)' |-> Delta(Current(q)')] = [q \in Owed(u, reasons) |-> Delta(Current(q))]
  BY <1>2
<1> QED BY <1>1, <1>3 DEF Total, Delta

\* An account update adds its delta to the totals of its user and reason.
LEMMA TotalMoves ==
  ASSUME BookInv, NEW r \in Requests, pc[r] = "apply", Moved(r), NEW c, c = Current(r),
         UNCHANGED <<ledger, calls>>, NEW u, NEW reasons
  PROVE  /\ Total(u, reasons) \in Int
         /\ Total(u, reasons)' = IF c.user = u /\ c.reason \in reasons
                                 THEN Total(u, reasons) + Delta(c) ELSE Total(u, reasons)
<1> DEFINE W == Written(u, reasons)
           O == Owed(u, reasons)
           f == [q \in O |-> Delta(Current(q))]
           sum == Sum([row \in W |-> row.delta])
<1>1. /\ IsFiniteSet(O) /\ f \in [O -> Int] /\ sum \in Int /\ Sum(f) \in Int
      /\ Total(u, reasons) = sum + Sum(f)
  BY TotalFacts DEF Total
<1>2. /\ pc' = [pc EXCEPT ![r] = "write"]
      /\ \A q : Current(q)' = Current(q)
      /\ W' = W /\ sum' = sum
  BY DEF Moved, Current, Written, RowsOf
<1>3. /\ r \notin O /\ Delta(c) \in Int
      /\ \A q \in Requests : pc'[q] = IF q = r THEN "write" ELSE pc[q]
  BY <1>2, CurrentFacts, CallFacts DEF Owed, Unwritten, BookInv, IInv, TypeOK, Live
<1>4. O' = IF c.user = u /\ c.reason \in reasons THEN O \cup {r} ELSE O
  BY <1>2, <1>3 DEF Owed, Unwritten
<1>5. f' = [q \in O' |-> Delta(Current(q))]
  BY <1>2 DEF Delta
<1>6. Total(u, reasons)' = sum + Sum(f')
  BY <1>2 DEF Total
<1>7. CASE c.user = u /\ c.reason \in reasons
  <2> HIDE DEF O
  <2>1. O' = O \cup {r} /\ O' \ {r} = O /\ r \in O'
    BY <1>3, <1>4, <1>7
  <2>2. IsFiniteSet(O')
    BY <1>1, <2>1, FS_AddElement
  <2>3. f' \in [O' -> Int] /\ f \in [O' \ {r} -> Int] /\ f'[r] = Delta(c)
        /\ \A q \in O' \ {r} : f[q] = f'[q]
    BY <1>1, <1>3, <1>5, <2>1
  <2> HIDE DEF f
  <2>4. Sum(f') = Sum(f) + f'[r]
    <3>1. PICK S, g, h : S = O' /\ g = f' /\ h = f
      OBVIOUS
    <3>2. /\ IsFiniteSet(S) /\ r \in S /\ g \in [S -> Int] /\ h \in [S \ {r} -> Int]
          /\ \A q \in S \ {r} : h[q] = g[q]
      BY <2>1, <2>2, <2>3, <3>1
    <3>3. Sum(g) = Sum(h) + g[r]
      BY ONLY <3>2, SumOfOneMore
    <3> QED BY <3>1, <3>3
  <2> HIDE DEF sum
  <2> QED BY <1>1, <1>3, <1>6, <1>7, <2>3, <2>4
<1>8. CASE ~ (c.user = u /\ c.reason \in reasons)
  BY <1>1, <1>4, <1>5, <1>6, <1>8
<1> QED BY <1>7, <1>8

\* The row an insert adds stands for the update that was owed.
LEMMA TotalWritten ==
  ASSUME BookInv, NEW r \in Requests, WriteRow(r), NEW u, NEW reasons
  PROVE  Total(u, reasons)' = Total(u, reasons)
<1>1. PICK c \in Call : c = Current(r)
  BY CurrentFacts DEF WriteRow, Live, BookInv
<1>2. PICK row : row = [user |-> c.user, delta |-> Delta(c), after |-> updates[c.user][pos[r]].after,
                        reason |-> c.reason, ref |-> c.ref, upd |-> pos[r]]
  OBVIOUS
<1>3. /\ pc[r] = "write" /\ pc[r] \in Live /\ Return(r) /\ ledger' = ledger \cup {row}
      /\ row.user = c.user /\ row.delta = Delta(c) /\ row.reason = c.reason /\ row.upd = pos[r]
  BY <1>1, <1>2 DEF WriteRow, Live
<1>4. row \notin ledger
  BY <1>1, <1>3 DEF BookInv, IInv, OwnUpdate, Owing
<1>5. /\ \A q \in Requests : /\ q # r => pc'[q] = pc[q] /\ Current(q)' = Current(q)
      /\ pc'[r] \notin Owing /\ Delta(c) \in Int
  <2>1. /\ pc' = [pc EXCEPT ![r] = pc'[r]]
        /\ pc'[r] \in {"done", "look", "apply"}
        /\ \A q \in Requests \ {r} : calls'[q] = calls[q]
    BY <1>3, ReturnFacts DEF BookInv
  <2> QED BY <2>1, <1>1, CallFacts DEF BookInv, IInv, TypeOK, Owing, Current
<1> DEFINE W == Written(u, reasons)
           O == Owed(u, reasons)
           e == [x \in W |-> x.delta]
           f == [q \in O |-> Delta(Current(q))]
<1>6. /\ IsFiniteSet(W) /\ e \in [W -> Int] /\ Sum(e) \in Int
      /\ IsFiniteSet(O) /\ f \in [O -> Int] /\ Sum(f) \in Int
      /\ Total(u, reasons) = Sum(e) + Sum(f) /\ Total(u, reasons)' = Sum(e') + Sum(f')
  BY TotalFacts DEF Total
<1>7. f' = [q \in O' |-> Delta(Current(q)')]
  BY DEF Delta
<1>8. CASE c.user = u /\ c.reason \in reasons
  <2>1. /\ W' = W \cup {row} /\ row \in W' /\ W' \ {row} = W
        /\ O' = O \ {r} /\ r \in O
    BY <1>1, <1>3, <1>4, <1>5, <1>8 DEF Written, RowsOf, Owed, Unwritten, Owing
  <2>2. \A q \in O' : Current(q)' = Current(q)
    BY <1>5, <2>1 DEF Owed, Unwritten
  <2> HIDE DEF W, O
  <2>3. IsFiniteSet(W')
    BY <1>6, <2>1, FS_AddElement
  <2>4. e' \in [W' -> Int] /\ e \in [W' \ {row} -> Int] /\ e'[row] = Delta(c)
        /\ \A x \in W' \ {row} : e[x] = e'[x]
    BY <1>3, <1>5, <1>6, <2>1
  <2>5. f' \in [O \ {r} -> Int] /\ f[r] = Delta(c) /\ \A q \in O \ {r} : f'[q] = f[q]
    BY <1>1, <1>6, <1>7, <2>1, <2>2
  <2> HIDE DEF e, f
  <2>6. Sum(e') = Sum(e) + Delta(c)
    BY <2>1, <2>3, <2>4, SumOfOneMore
  <2>7. Sum(f') \in Int /\ Sum(f) = Sum(f') + Delta(c)
    <3>1. PICK S, g, h : S = O /\ g = f /\ h = f'
      OBVIOUS
    <3>2. /\ IsFiniteSet(S) /\ r \in S /\ g \in [S -> Int] /\ h \in [S \ {r} -> Int]
          /\ \A q \in S \ {r} : h[q] = g[q]
      BY <1>6, <2>1, <2>5, <3>1
    <3>3. Sum(h) \in Int /\ Sum(g) = Sum(h) + g[r]
      BY ONLY <3>2, SumOfOneMore
    <3> QED BY <2>5, <3>1, <3>3
  <2> QED BY <1>5, <1>6, <2>6, <2>7
<1>9. CASE ~ (c.user = u /\ c.reason \in reasons)
  <2>1. W' = W /\ O' = O
    BY <1>1, <1>3, <1>5, <1>9 DEF Written, RowsOf, Owed, Unwritten, Owing
  <2>2. \A q \in O : Current(q)' = Current(q)
    BY <1>1, <1>5, <1>9 DEF Owed, Unwritten
  <2>3. e' = e /\ f' = f
    BY <1>7, <2>1, <2>2
  <2> QED BY <1>6, <2>3
<1> QED BY <1>8, <1>9

LEMMA BooksBegin == Init => BookInv
<1> SUFFICES ASSUME Init PROVE BookInv
  OBVIOUS
<1>1. Finite
  <2>1. {r \in Requests : pc[r] # "idle"} = {}
    BY DEF Init
  <2> QED BY <2>1, FS_EmptySet DEF Init, Finite
<1>2. ASSUME NEW u, NEW reasons PROVE Total(u, reasons) = 0
  <2>1. Written(u, reasons) = {} /\ Owed(u, reasons) = {}
    BY DEF Init, Written, RowsOf, Owed, Unwritten
  <2>2. /\ Sum([row \in Written(u, reasons) |-> row.delta]) = 0
        /\ Sum([r \in Owed(u, reasons) |-> Delta(Current(r))]) = 0
    BY <2>1, SumOfNone
  <2> QED BY <2>2 DEF Total
<1>3. Reconciles
  BY <1>2 DEF Init, Reconciles
<1> QED BY <1>1, <1>3, InitInv DEF BookInv

\* A step touches at most one request and one row.
LEMMA FiniteStays ==
  ASSUME BookInv, NEW r \in Requests,
         \A q \in Requests \ {r} : pc'[q] = pc[q],
         ledger' = ledger \/ \E row : ledger' = ledger \cup {row}
  PROVE  Finite'
<1>1. IsFiniteSet(ledger')
  BY FS_AddElement DEF BookInv, Finite
<1> DEFINE B == {q \in Requests : pc[q] # "idle"}
<1>2. IsFiniteSet(B \cup {r})
  BY FS_AddElement DEF BookInv, Finite
<1>3. B' \subseteq B \cup {r}
  OBVIOUS
<1>4. IsFiniteSet(B')
  <2> HIDE DEF B
  <2> QED BY <1>2, <1>3, FS_Subset
<1> QED BY <1>1, <1>4 DEF Finite

\* A step that moves no balance and writes no row.
LEMMA BooksStay ==
  ASSUME BookInv, NEW r \in Requests, UNCHANGED <<accountVars, ledger>>,
         \A q \in Requests \ {r} : pc'[q] = pc[q] /\ Current(q)' = Current(q),
         pc'[r] \in Owing <=> pc[r] \in Owing,
         pc[r] \in Owing => Current(r)' = Current(r)
  PROVE  Finite' /\ Reconciles'
<1>1. \A u, reasons : Total(u, reasons)' = Total(u, reasons)
  BY TotalStays
<1>2. Reconciles'
  BY <1>1 DEF BookInv, Reconciles, accountVars
<1> QED BY <1>2, FiniteStays

\* Each account update moves the counters as it moves the totals.
LEMMA BooksMove ==
  ASSUME BookInv, NEW r \in Requests, ApplyGrant(r) \/ ApplyDebit(r)
  PROVE  Finite' /\ Reconciles'
<1>1. PICK c \in Call : c = Current(r)
  BY CurrentFacts DEF BookInv, ApplyGrant, ApplyDebit, Live
<1>2. /\ c.user \in Users /\ c.amount \in Nat /\ c.reason \in Reasons /\ Delta(c) \in Int
      /\ Credits(c.reason) => Delta(c) = c.amount
      /\ ~Credits(c.reason) => Delta(c) = 0 - c.amount
  BY CallFacts
<1>3. pc[r] = "apply" /\ Moved(r) /\ UNCHANGED <<ledger, calls>>
  BY DEF ApplyGrant, ApplyDebit
<1>4. /\ balance' = [balance EXCEPT ![c.user] = balance[c.user] + Delta(c)]
      /\ pc' = [pc EXCEPT ![r] = "write"]
  BY <1>1, <1>3 DEF Moved
<1>5. /\ balance \in [Users -> Nat] /\ purchased \in [Users -> Nat] /\ spent \in [Users -> Nat]
      /\ pc \in [Requests -> Live \cup {"idle", "done", "refused", "rejected", "failed", "cut"}]
  BY DEF BookInv, IInv, TypeOK
<1>6. Finite'
  BY <1>3, <1>4, <1>5, FiniteStays
<1>7. ASSUME NEW u \in Users
      PROVE  /\ balance'[u] = Total(u, Reasons)'
             /\ purchased'[u] = Total(u, {"purchase"})'
             /\ spent'[u] = 0 - Total(u, {"usage"})'
  <2>1. /\ balance[u] = Total(u, Reasons)
        /\ purchased[u] = Total(u, {"purchase"})
        /\ spent[u] = 0 - Total(u, {"usage"})
    BY DEF BookInv, Reconciles
  <2>2. ASSUME NEW reasons
        PROVE  /\ Total(u, reasons) \in Int
               /\ Total(u, reasons)' = IF c.user = u /\ c.reason \in reasons
                                       THEN Total(u, reasons) + Delta(c) ELSE Total(u, reasons)
    BY <1>1, <1>3, TotalMoves
  <2>3. balance'[u] = Total(u, Reasons)'
    BY <1>2, <1>4, <1>5, <2>1, <2>2
  <2>4. CASE ApplyGrant(r)
    <3>1. /\ Credits(c.reason) /\ spent' = spent
          /\ purchased' = [purchased EXCEPT ![c.user] =
                             IF c.reason = "purchase" THEN @ + c.amount ELSE @]
      BY <1>1, <2>4 DEF ApplyGrant
    <3>2. Delta(c) = c.amount /\ c.reason # "usage"
      BY <1>2, <3>1 DEF Credits
    <3>3. purchased'[u] = Total(u, {"purchase"})'
      BY <1>2, <1>5, <2>1, <2>2, <3>1, <3>2
    <3>4. spent'[u] = 0 - Total(u, {"usage"})'
      BY <2>1, <2>2, <3>1, <3>2
    <3> QED BY <2>3, <3>3, <3>4
  <2>5. CASE ApplyDebit(r)
    <3>1. /\ ~Credits(c.reason) /\ purchased' = purchased
          /\ spent' = [spent EXCEPT ![c.user] =
                         IF c.reason = "usage" THEN @ + c.amount ELSE @]
      BY <1>1, <2>5 DEF ApplyDebit
    <3>2. Delta(c) = 0 - c.amount /\ c.reason # "purchase"
      BY <1>2, <3>1 DEF Credits
    <3>3. purchased'[u] = Total(u, {"purchase"})'
      BY <2>1, <2>2, <3>1, <3>2
    <3>4. spent'[u] = 0 - Total(u, {"usage"})'
      BY <1>2, <1>5, <2>1, <2>2, <3>1, <3>2
    <3> QED BY <2>3, <3>3, <3>4
  <2> QED BY <2>4, <2>5
<1> QED BY <1>6, <1>7 DEF Reconciles

LEMMA BooksWritten ==
  ASSUME BookInv, NEW r \in Requests, WriteRow(r)
  PROVE  Finite' /\ Reconciles'
<1>1. \A u, reasons : Total(u, reasons)' = Total(u, reasons)
  BY TotalWritten
<1>2. Reconciles'
  BY <1>1 DEF BookInv, Reconciles, WriteRow, accountVars
<1>3. \E row : ledger' = ledger \cup {row}
  BY DEF WriteRow
<1>4. \A q \in Requests \ {r} : pc'[q] = pc[q]
  BY DEF WriteRow, Return, BookInv, IInv, TypeOK
<1> QED BY <1>2, <1>3, <1>4, FiniteStays

LEMMA BooksStep == BookInv /\ [Next]_vars => BookInv'
<1> SUFFICES ASSUME BookInv, [Next]_vars PROVE Finite' /\ Reconciles'
  BY NextInv DEF BookInv
<1> USE DEF BookInv
<1>0. /\ pc \in [Requests -> Live \cup {"idle", "done", "refused", "rejected", "failed", "cut"}]
      /\ calls \in [Requests -> Seq(Call)]
  BY DEF IInv, TypeOK
<1>1. ASSUME NEW r \in Requests, NEW plan \in Plans, Begin(r, plan)
      PROVE  Finite' /\ Reconciles'
  <2>1. UNCHANGED <<accountVars, ledger>> /\ pc[r] = "idle" /\ pc'[r] \in {"look", "apply"}
        /\ \A q \in Requests \ {r} : pc'[q] = pc[q] /\ Current(q)' = Current(q)
    BY <1>0, <1>1 DEF Begin, Entry, Current
  <2> QED BY <2>1, BooksStay DEF Owing
<1>2. ASSUME NEW r \in Requests, LookFound(r)
      PROVE  Finite' /\ Reconciles'
  <2>1. UNCHANGED <<accountVars, ledger>> /\ pc[r] = "look" /\ pc'[r] \in {"done", "look", "apply"}
        /\ \A q \in Requests \ {r} : pc'[q] = pc[q] /\ Current(q)' = Current(q)
    BY <1>0, <1>2 DEF LookFound, Return, Entry, Current
  <2> QED BY <2>1, BooksStay DEF Owing
<1>3. ASSUME NEW r \in Requests, LookMissed(r) \/ Refuse(r) \/ DuplicateRow(r) \/ Abort(r)
      PROVE  Finite' /\ Reconciles'
  <2>1. /\ UNCHANGED <<accountVars, ledger, calls>>
        /\ \A q \in Requests : Current(q)' = Current(q)
        /\ \A q \in Requests \ {r} : pc'[q] = pc[q]
        /\ pc'[r] \in Owing <=> pc[r] \in Owing
    BY <1>0, <1>3 DEF LookMissed, Refuse, DuplicateRow, Abort, Current, Owing, Live
  <2> QED BY <2>1, BooksStay
<1>4. ASSUME NEW r \in Requests, ApplyGrant(r) \/ ApplyDebit(r)
      PROVE  Finite' /\ Reconciles'
  BY <1>4, BooksMove
<1>5. ASSUME NEW r \in Requests, WriteRow(r)
      PROVE  Finite' /\ Reconciles'
  BY <1>5, BooksWritten
<1>6. CASE UNCHANGED vars
  <2>1. UNCHANGED <<accountVars, ledger, pc>> /\ \A q : Current(q)' = Current(q)
    BY <1>6 DEF vars, accountVars, Current
  <2>2. \A u, reasons : Total(u, reasons)' = Total(u, reasons)
    BY <2>1, TotalStays
  <2> QED BY <2>1, <2>2 DEF Finite, Reconciles, accountVars
<1> QED BY <1>1, <1>2, <1>3, <1>4, <1>5, <1>6 DEF Next, Step

\* The counters of every account reconcile with its ledger rows, up to the updates of
\* requests that are at, or were stopped at, their insert.
THEOREM BooksReconcile == Spec => []Reconciles
<1>1. BookInv => Reconciles
  BY DEF BookInv
<1> QED BY <1>1, BooksBegin, BooksStep, PTL DEF Spec

\* An update of the account is one of the account's own steps.
LEMMA AccountStep ==
  IInv /\ [Next]_vars => [Account!Next]_(Account!accountVars)
  <1> SUFFICES ASSUME IInv, [Next]_vars
               PROVE  Account!Next \/ UNCHANGED accountVars
    BY DEF Account!accountVars, accountVars
  <1>1. /\ balance \in [Users -> Nat] /\ purchased \in [Users -> Nat]
        /\ spent \in [Users -> Nat]
    BY DEF IInv, TypeOK
  <1>2. ASSUME NEW r \in Requests, ApplyGrant(r)
        PROVE  Account!Next
    <2>1. PICK c \in Call : c = Current(r)
      BY <1>2, CurrentFacts DEF ApplyGrant, Live
    <2>2. c.user \in Users /\ c.amount \in Amounts /\ Delta(c) = c.amount
      BY <1>2, <2>1, CallFacts DEF ApplyGrant, Call
    <2>3. /\ balance' = [balance EXCEPT ![c.user] = @ + c.amount]
          /\ purchased' = [purchased EXCEPT ![c.user] =
                              IF c.reason = "purchase" THEN @ + c.amount ELSE @]
          /\ spent' = spent
      BY <1>2, <2>1, <2>2 DEF ApplyGrant, Moved
    <2>4. CASE c.reason = "purchase"
      BY <2>2, <2>3, <2>4 DEF Account!Next, Account!Purchase
    <2>5. CASE c.reason # "purchase"
      <3>1. purchased' = purchased
        BY <1>1, <2>2, <2>3, <2>5
      <3> QED BY <2>2, <2>3, <3>1 DEF Account!Next, Account!Gift
    <2> QED BY <2>4, <2>5
  <1>3. ASSUME NEW r \in Requests, ApplyDebit(r)
        PROVE  Account!Next
    <2>1. PICK c \in Call : c = Current(r)
      BY <1>3, CurrentFacts DEF ApplyDebit, Live
    <2>2. c.user \in Users /\ c.amount \in Amounts /\ Delta(c) = 0 - c.amount
          /\ c.amount \in Nat
      BY <1>3, <2>1, CallFacts DEF ApplyDebit, Call
    <2>3. /\ balance[c.user] >= c.amount
          /\ balance' = [balance EXCEPT ![c.user] = @ - c.amount]
          /\ spent' = [spent EXCEPT ![c.user] =
                          IF c.reason = "usage" THEN @ + c.amount ELSE @]
          /\ purchased' = purchased
      <3>1. balance[c.user] + (0 - c.amount) = balance[c.user] - c.amount
        BY <1>1, <2>2
      <3> QED BY <1>3, <2>1, <2>2, <3>1 DEF ApplyDebit, Moved
    <2>4. CASE c.reason = "usage"
      BY <2>2, <2>3, <2>4 DEF Account!Next, Account!Spend
    <2>5. CASE c.reason # "usage"
      <3>1. spent' = spent
        BY <1>1, <2>2, <2>3, <2>5
      <3> QED BY <2>2, <2>3, <3>1 DEF Account!Next, Account!Clawback
    <2> QED BY <2>4, <2>5
  <1>4. CASE UNCHANGED vars
    BY <1>4 DEF vars, accountVars
  <1>5. ASSUME NEW r \in Requests,
               \/ \E plan \in Plans : Begin(r, plan)
               \/ LookFound(r) \/ LookMissed(r) \/ Refuse(r)
               \/ WriteRow(r) \/ DuplicateRow(r) \/ Abort(r)
        PROVE  UNCHANGED accountVars
    BY <1>5 DEF Begin, LookFound, LookMissed, Refuse, WriteRow, DuplicateRow, Abort
  <1> QED BY <1>2, <1>3, <1>4, <1>5 DEF Next, Step

\* The interleaved, interruptible statements implement the abstract account: credits
\* appear only by whole grants and leave only by debits the balance covers.
THEOREM LedgerImplementsAccount == Spec => ImplementsAccount
  <1>1. Init => Account!Init
    BY DEF Init, Account!Init
  <1> QED BY <1>1, AccountStep, Invariance, PTL DEF Spec, ImplementsAccount, Account!Spec
=============================================================================
