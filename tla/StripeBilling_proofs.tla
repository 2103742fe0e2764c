------------------------ MODULE StripeBilling_proofs ------------------------
(***************************************************************************)
(* Theorems about StripeBilling: what a checkout session may credit, and   *)
(* what the entitlement shows, for any number of users, sessions,          *)
(* subscription changes and deliveries of an event.                        *)
(***************************************************************************)
EXTENDS StripeBilling, SequenceTheorems, FiniteSetTheorems, TLAPS

Places == {"waiting", "mark", "customer", "grant", "granting", "retrieve", "account",
           "entitle", "answer", "answered", "unmarked", "failed"}
Handling == {"customer", "grant", "granting", "retrieve", "account", "entitle", "answer"}
Moved == {"write", "done", "rejected", "cut"}
SubState == [status : Statuses, until : Nat]

BillingTypes ==
  /\ session \in [Users -> [Sessions -> {"open", "unpaid", "paid"}]]
  /\ history \in [Users -> Seq(SubState)]
  /\ \A u \in Users : Len(history[u]) <= Changes
  /\ emitted \subseteq Events /\ acked \subseteq emitted /\ seen \subseteq emitted
  /\ at \in [Delivery -> Places]
  /\ snap \in [Delivery -> SubState \cup {None}]
  /\ billing \in [Users -> SubState \cup {None}]
  /\ premium \in [Users -> [active : BOOLEAN, until : Nat]]
  /\ inOrder \in [Users -> BOOLEAN]
LedgerTypes == L!TypeOK

\* The delivery whose insert into rmf_stripe_events was fresh.
Owned(d) == at[d] \in Handling \cup {"failed"} \/ pc[d] # "idle"
PlanOf(d) == L!PurchasePlan(d.event.user, d.event.session)

\* A delivery runs the ledger's statements only for a paid event that is its own.
DeliveryAt(d) ==
  /\ at[d] # "waiting" => d.event \in emitted
  /\ Owned(d) => d.event \in seen
  /\ pc[d] \in L!Live => at[d] = "granting" /\ calls[d] = PlanOf(d)
  /\ at[d] \notin {"granting", "answer", "answered", "failed"} => pc[d] = "idle"
  /\ at[d] = "granting" => pc[d] # "idle"
  /\ at[d] = "grant" \/ pc[d] # "idle" => PaidEvent(d.event)
  /\ pc[d] = "write" => pos[d] \in DOMAIN updates[d.event.user]
DeliveriesAreSound == \A d \in Delivery : DeliveryAt(d)

\* The mark is inserted once: an event has one delivery that works on it.
OwnedOnce == \A d, e \in Delivery : Owned(d) /\ Owned(e) /\ d.event = e.event => d = e

\* Each account update is the one update of the delivery that made it.
UpdatesAt(u) ==
  \A i \in DOMAIN updates[u] :
    LET d == updates[u][i].by
    IN /\ d.event.user = u
       /\ updates[u][i].ref = L!CheckoutRef(u, d.event.session)
       /\ pc[d] \in Moved
       /\ \A j \in DOMAIN updates[u] : updates[u][j].by = d => i = j
UpdatesAreOwn == \A u \in Users : UpdatesAt(u)

\* An event that says a session is paid exists only once it is; only a delayed session
\* waits for its money.
PaidAt(u, s) ==
  /\ (Completed(u, s) \in emitted /\ s \notin Delayed) \/ Async(u, s) \in emitted
       => session[u][s] = "paid"
  /\ session[u][s] = "unpaid" => s \in Delayed
EmittedArePaid == \A u \in Users, s \in Sessions : PaidAt(u, s)

GrantInv ==
  BillingTypes /\ LedgerTypes /\ DeliveriesAreSound /\ OwnedOnce /\ UpdatesAreOwn /\ EmittedArePaid

\* The deliveries that work on u's subscription, and what they show of it: state k of
\* its history, 0 before there is any.
Sub(e) == e.kind \in {"subscribed", "changed"}
Working(u) == {d \in Busy(u) : Sub(d.event)}
Unfailed(u) == \A d \in Delivery : d.event.user = u /\ Sub(d.event) => at[d] # "failed"
StateAt(u, k) == IF k = 0 THEN None ELSE history[u][k]
Shown(u, k) ==
  /\ billing[u] = StateAt(u, k)
  /\ premium[u] = [active |-> Entitled(StateAt(u, k).status), until |-> StateAt(u, k).until]
SeenUpTo(u, k) == \A i \in 1..Changes : Changed(u, i) \in seen => i <= k

\* The object a delivery works on: the one in its event, or one it has retrieved.
SnapAt(d) ==
  /\ at[d] \in {"waiting", "mark"} => snap[d] = None
  /\ at[d] \in {"customer", "retrieve", "account", "entitle"} /\ d.event.kind = "changed" =>
       snap[d] = history[d.event.user][d.event.index]
  /\ at[d] \in {"account", "entitle"} => snap[d] # None /\ Sub(d.event)
  /\ at[d] = "retrieve" => d.event.kind = "subscribed"
SnapsAreSound == \A d \in Delivery : SnapAt(d)

\* Stripe has emitted an event for each state of the history and for its start.
EmittedAt(u) ==
  /\ Subscribed(u) \in emitted => Len(history[u]) # 0
  /\ \A i \in 1..Changes : Changed(u, i) \in emitted <=> i <= Len(history[u])
HistoriesAreEmitted == \A u \in Users : EmittedAt(u)

\* While u's events are handled in order and none fails, one delivery at most works on
\* them, with an object no older than any state marked so far; when none works, both
\* tables show such a state.
Follows(u) ==
  inOrder[u] /\ Unfailed(u) =>
    /\ \A d, e \in Working(u) : d = e
    /\ Working(u) = {} => \E k \in 0..Len(history[u]) : Shown(u, k) /\ SeenUpTo(u, k)
    /\ \A d \in Working(u) :
         /\ snap[d] # None =>
              \E k \in 0..Len(history[u]) : snap[d] = StateAt(u, k) /\ SeenUpTo(u, k)
         /\ at[d] = "entitle" => billing[u] = snap[d]
AllFollow == \A u \in Users : Follows(u)

BillingInv == GrantInv /\ SnapsAreSound /\ HistoriesAreEmitted /\ AllFollow

-----------------------------------------------------------------------------
\* A delivery's event is an event, of one of the four kinds.
LEMMA EventFacts ==
  ASSUME NEW e \in Events
  PROVE  /\ e.user \in Users
         /\ e.kind \in {"completed", "async", "subscribed", "changed"}
         /\ e.kind \in {"completed", "async"} => e.session \in Sessions
         /\ e.kind = "completed" => e = Completed(e.user, e.session)
         /\ e.kind = "async" => e = Async(e.user, e.session) /\ e.session \in Delayed
         /\ e.kind = "subscribed" => e = Subscribed(e.user)
         /\ e.kind = "changed" => e = Changed(e.user, e.index) /\ e.index \in 1..Changes
<1>1. CASE \E u \in Users, s \in Sessions : e = Completed(u, s)
  BY <1>1 DEF Completed
<1>2. CASE \E u \in Users, s \in Delayed : e = Async(u, s)
  BY <1>2, StripeAssumption DEF Async
<1>3. CASE \E u \in Users : e = Subscribed(u)
  BY <1>3 DEF Subscribed
<1>4. CASE \E u \in Users, i \in 1..Changes : e = Changed(u, i)
  BY <1>4 DEF Changed
<1> QED BY <1>1, <1>2, <1>3, <1>4 DEF Events

\* One paid event per session: completion, or the later settlement of a delayed one.
LEMMA PaidEventIsOne ==
  ASSUME NEW e \in Events, NEW f \in Events, PaidEvent(e), PaidEvent(f),
         e.user = f.user, e.session = f.session
  PROVE  e = f
  BY EventFacts DEF PaidEvent

\* A paid event is of a user's pack session.
LEMMA PaidEventFacts ==
  ASSUME NEW e \in Events, PaidEvent(e)
  PROVE  e.user \in Users /\ e.session \in Sessions
  BY EventFacts DEF PaidEvent

\* A grant is one call: a purchase under the session's reference.
LEMMA PlanFacts ==
  ASSUME NEW u \in Users, NEW s \in Sessions
  PROVE  LET c == L!PurchasePlan(u, s)[1]
         IN /\ L!PurchasePlan(u, s) \in Seq(L!Call) /\ Len(L!PurchasePlan(u, s)) = 1
            /\ c.user = u /\ c.ref = L!CheckoutRef(u, s) /\ c.ref # L!NoRef
            /\ c.reason = "purchase" /\ c.ref \in L!Refs /\ L!Credits(c.reason)
            /\ L!Delta(c) = PackCredits /\ c.amount = PackCredits
<1> DEFINE c == [user |-> u, amount |-> PackCredits, reason |-> "purchase",
                 ref |-> L!CheckoutRef(u, s)]
<1>1. L!PurchasePlan(u, s) = <<c>>
  BY DEF L!PurchasePlan, L!LedgerCall
<1>2. L!CheckoutRef(u, s) \in L!Refs
  BY DEF L!Refs
<1>3. PackCredits \in L!Amounts
  BY StripeAssumption DEF L!Amounts
<1>4. c \in L!Call
  BY <1>2, <1>3 DEF L!Call, L!Reasons
<1>5. L!CheckoutRef(u, s) # L!NoRef
  BY DEF L!CheckoutRef, L!NoRef
<1>6. L!Credits("purchase")
  BY DEF L!Credits
<1>7. L!Delta(c) = PackCredits
  BY <1>6 DEF L!Delta
<1>8. <<c>> \in Seq(L!Call) /\ Len(<<c>>) = 1 /\ <<c>>[1] = c
  <2> HIDE DEF c
  <2> QED BY <1>4
<1> QED BY <1>1, <1>2, <1>5, <1>6, <1>7, <1>8

-----------------------------------------------------------------------------
(* The ledger's statements, as a delivery runs them. *)

\* What a statement of d does to the ledger's variables, whichever it is.
LedgerStep(d) ==
  /\ LedgerTypes'
  /\ pc[d] \in L!Live /\ pc'[d] \in L!Live \cup {"done", "rejected", "cut", "failed"}
  /\ pc'[d] \in L!Live => calls'[d] = calls[d]
  /\ pc[d] \in Moved => pc'[d] \in Moved
  /\ \A e \in Delivery \ {d} : pc'[e] = pc[e] /\ calls'[e] = calls[e] /\ pos'[e] = pos[e]

\* An update of u's account by d is the next of u's updates.
Credited(d, u) ==
  /\ pc[d] = "apply" /\ pc'[d] = "write"
  /\ \E e \in L!Update :
       /\ e.by = d /\ e.ref = PlanOf(d)[1].ref
       /\ updates' = [updates EXCEPT ![u] = Append(updates[u], e)]
  /\ pos'[d] = Len(updates[u]) + 1

\* Starting a grant: the plan's one call has a reference to look up.
LEMMA BeginFacts ==
  ASSUME LedgerTypes, NEW d \in Delivery, NEW u \in Users, NEW s \in Sessions,
         L!Begin(d, L!PurchasePlan(u, s))
  PROVE  /\ LedgerTypes' /\ pc[d] = "idle" /\ pc'[d] = "look"
         /\ calls'[d] = L!PurchasePlan(u, s) /\ updates' = updates
         /\ \A e \in Delivery \ {d} : pc'[e] = pc[e] /\ calls'[e] = calls[e] /\ pos'[e] = pos[e]
<1> DEFINE plan == L!PurchasePlan(u, s)
<1>1. plan \in Seq(L!Call) /\ plan[1].ref # L!NoRef
  BY PlanFacts
<1>2. L!Entry(plan[1]) = "look"
  BY <1>1 DEF L!Entry
<1> HIDE DEF plan
<1>3. /\ pc[d] = "idle" /\ pc' = [pc EXCEPT ![d] = "look"]
      /\ calls' = [calls EXCEPT ![d] = plan]
      /\ settled' = [settled EXCEPT ![d] = L!Recorded]
      /\ balance' = balance /\ purchased' = purchased /\ spent' = spent
      /\ ledger' = ledger /\ pos' = pos /\ updates' = updates
  BY <1>2 DEF L!Begin, L!accountVars, plan
<1>4. L!Recorded \subseteq L!Refs \cup {L!NoRef}
  BY DEF L!Recorded, LedgerTypes, L!TypeOK, L!Row
<1>5. pc' \in [Delivery -> L!Live \cup {"idle", "done", "refused", "rejected", "failed", "cut"}]
  BY <1>3 DEF LedgerTypes, L!TypeOK, L!Live
<1>6. calls' \in [Delivery -> Seq(L!Call)]
  BY <1>1, <1>3 DEF LedgerTypes, L!TypeOK
<1>7. settled' \in [Delivery -> SUBSET (L!Refs \cup {L!NoRef})]
  BY <1>3, <1>4 DEF LedgerTypes, L!TypeOK
<1>8. LedgerTypes'
  BY <1>3, <1>5, <1>6, <1>7 DEF LedgerTypes, L!TypeOK
<1>9. pc \in [Delivery -> L!Live \cup {"idle", "done", "refused", "rejected", "failed", "cut"}]
      /\ calls \in [Delivery -> Seq(L!Call)]
  BY DEF LedgerTypes, L!TypeOK
<1> QED BY <1>3, <1>8, <1>9 DEF plan

\* The other statements leave the accounts' history alone, but for the grant's update,
\* which is d's only one.
LEMMA StepFacts ==
  ASSUME LedgerTypes, NEW d \in Delivery, NEW u \in Users, NEW s \in Sessions,
         calls[d] = L!PurchasePlan(u, s), PlanOf(d) = L!PurchasePlan(u, s),
         pc[d] = "write" => pos[d] \in DOMAIN updates[u],
         L!Step(d)
  PROVE  /\ LedgerStep(d)
         /\ (updates' = updates /\ pos' = pos /\ pc'[d] # "write") \/ Credited(d, u)
<1> DEFINE c == L!PurchasePlan(u, s)[1]
           PcSet == L!Live \cup {"idle", "done", "refused", "rejected", "failed", "cut"}
<1>1. /\ c.user = u /\ c.reason = "purchase" /\ c.ref # L!NoRef /\ c.ref \in L!Refs
      /\ L!Credits(c.reason) /\ L!Delta(c) = PackCredits /\ c.amount = PackCredits
      /\ PackCredits \in Nat \ {0}
      /\ calls[d] \in Seq(L!Call) /\ Len(calls[d]) = 1
  BY PlanFacts, StripeAssumption
<1>2. L!Current(d) = c
  BY DEF L!Current
<1> HIDE DEF c
<1>3. /\ pc \in [Delivery -> PcSet] /\ calls \in [Delivery -> Seq(L!Call)]
      /\ pos \in [Delivery -> Nat] /\ updates \in [Users -> Seq(L!Update)]
      /\ balance \in [Users -> Nat] /\ purchased \in [Users -> Nat] /\ ledger \subseteq L!Row
  BY DEF LedgerTypes, L!TypeOK
<1>4. ASSUME L!Return(d)
      PROVE  /\ pc' = [pc EXCEPT ![d] = "done"]
             /\ calls' \in [Delivery -> Seq(L!Call)]
             /\ \A e \in Delivery \ {d} : calls'[e] = calls[e]
  <2>1. pc' = [pc EXCEPT ![d] = "done"] /\ calls' = [calls EXCEPT ![d] = Tail(calls[d])]
    BY <1>1, <1>4 DEF L!Return
  <2>2. Tail(calls[d]) \in Seq(L!Call)
    <3>1. calls[d] # << >>
      <4>1. Len(calls[d]) = 1
        BY <1>1
      <4>2. Len(<< >>) = 0
        OBVIOUS
      <4> QED BY <4>1, <4>2
    <3> QED BY <1>1, <3>1, HeadTailProperties
  <2> QED BY <1>3, <2>1, <2>2
<1>5. CASE L!LookFound(d)
  <2>1. /\ pc[d] = "look" /\ pc' = [pc EXCEPT ![d] = "done"]
        /\ calls' \in [Delivery -> Seq(L!Call)]
        /\ \A e \in Delivery \ {d} : calls'[e] = calls[e]
        /\ balance' = balance /\ purchased' = purchased /\ spent' = spent
        /\ ledger' = ledger /\ pos' = pos /\ updates' = updates /\ settled' = settled
    BY <1>4, <1>5 DEF L!LookFound, L!accountVars, L!historyVars
  <2>2. pc' \in [Delivery -> PcSet]
    BY <1>3, <2>1
  <2>3. LedgerTypes'
    BY <2>1, <2>2 DEF LedgerTypes, L!TypeOK
  <2> QED BY <1>3, <2>1, <2>3 DEF LedgerStep, L!Live, Moved
<1>6. ASSUME NEW next \in {"apply", "rejected", "failed", "cut"},
             pc[d] \in L!Live, pc' = [pc EXCEPT ![d] = next],
             pc[d] = "write" => next \in {"rejected", "cut"},
             balance' = balance, purchased' = purchased, spent' = spent,
             ledger' = ledger, calls' = calls, pos' = pos, updates' = updates, settled' = settled
      PROVE  LedgerStep(d) /\ updates' = updates /\ pos' = pos /\ pc'[d] # "write"
  <2>1. pc' \in [Delivery -> PcSet]
    BY <1>3, <1>6 DEF L!Live
  <2>2. LedgerTypes'
    BY <1>6, <2>1 DEF LedgerTypes, L!TypeOK
  <2> QED BY <1>3, <1>6, <2>2 DEF LedgerStep, L!Live, Moved
<1>7. CASE L!LookMissed(d)
  BY <1>6, <1>7 DEF L!LookMissed, L!accountVars, L!historyVars, L!Live
<1>8. CASE L!DuplicateRow(d)
  BY <1>6, <1>8 DEF L!DuplicateRow, L!accountVars, L!historyVars, L!Live
<1>9. CASE L!Abort(d)
  <2>1. CASE pc[d] = "write"
    BY <1>6, <1>9, <2>1 DEF L!Abort, L!accountVars, L!historyVars
  <2>2. CASE pc[d] # "write"
    BY <1>6, <1>9, <2>2 DEF L!Abort, L!accountVars, L!historyVars
  <2> QED BY <2>1, <2>2
<1>10. CASE L!ApplyGrant(d)
  <2> DEFINE after == balance[u] + PackCredits
             e == [by |-> d, delta |-> PackCredits, after |-> after,
                   reason |-> c.reason, ref |-> c.ref]
  <2>1. /\ pc[d] = "apply" /\ pc' = [pc EXCEPT ![d] = "write"]
        /\ balance' = [balance EXCEPT ![u] = after]
        /\ updates' = [updates EXCEPT ![u] = Append(updates[u], e)]
        /\ pos' = [pos EXCEPT ![d] = Len(updates[u]) + 1]
        /\ purchased' = [purchased EXCEPT ![u] = purchased[u] + PackCredits]
        /\ spent' = spent /\ ledger' = ledger /\ calls' = calls /\ settled' = settled
    BY <1>1, <1>2, <1>3, <1>10 DEF L!ApplyGrant, L!Moved
  <2>2. after \in Nat /\ purchased[u] + PackCredits \in Nat
    BY <1>1, <1>3
  <2>3. e \in L!Update /\ e.by = d /\ e.ref = c.ref
    BY <1>1, <2>2 DEF L!Update, L!Reasons
  <2> HIDE DEF e, after
  <2>4. Append(updates[u], e) \in Seq(L!Update) /\ Len(updates[u]) + 1 \in Nat
    BY <1>3, <2>3
  <2>5. /\ balance' \in [Users -> Nat] /\ purchased' \in [Users -> Nat]
        /\ pos' \in [Delivery -> Nat] /\ updates' \in [Users -> Seq(L!Update)]
        /\ pc' \in [Delivery -> PcSet]
    BY <1>3, <2>1, <2>2, <2>4 DEF L!Live
  <2>6. LedgerTypes'
    BY <2>1, <2>5 DEF LedgerTypes, L!TypeOK
  <2>7. pc'[d] = "write" /\ pos'[d] = Len(updates[u]) + 1
        /\ \A q \in Delivery \ {d} : pc'[q] = pc[q] /\ pos'[q] = pos[q]
    BY <1>3, <2>1
  <2>8. LedgerStep(d)
    BY <2>1, <2>6, <2>7 DEF LedgerStep, L!Live, Moved
  <2>9. Credited(d, u)
    BY <2>1, <2>3, <2>7 DEF Credited, c
  <2> QED BY <2>8, <2>9
<1>11. CASE L!WriteRow(d)
  <2> DEFINE row == [user |-> u, delta |-> PackCredits, after |-> updates[u][pos[d]].after,
                     reason |-> c.reason, ref |-> c.ref, upd |-> pos[d]]
  <2>1. /\ pc[d] = "write" /\ pc' = [pc EXCEPT ![d] = "done"]
        /\ calls' \in [Delivery -> Seq(L!Call)]
        /\ \A e \in Delivery \ {d} : calls'[e] = calls[e]
        /\ ledger' = ledger \cup {row}
        /\ balance' = balance /\ purchased' = purchased /\ spent' = spent
        /\ pos' = pos /\ updates' = updates /\ settled' = settled
    BY <1>1, <1>2, <1>4, <1>11 DEF L!WriteRow, L!accountVars, L!historyVars
  <2>2. pos[d] \in Nat \ {0} /\ updates[u][pos[d]] \in L!Update
    BY <1>3, <2>1
  <2>3. updates[u][pos[d]].after \in Nat
    BY <2>2 DEF L!Update
  <2>4. row \in L!Row
    BY <1>1, <2>2, <2>3 DEF L!Row, L!Reasons
  <2> HIDE DEF row
  <2>5. ledger' \subseteq L!Row /\ pc' \in [Delivery -> PcSet]
    BY <1>3, <2>1, <2>4
  <2>6. LedgerTypes'
    BY <2>1, <2>5 DEF LedgerTypes, L!TypeOK
  <2> QED BY <1>3, <2>1, <2>6 DEF LedgerStep, L!Live, Moved
<1>12. CASE L!ApplyDebit(d) \/ L!Refuse(d)
  BY <1>1, <1>2, <1>12 DEF L!ApplyDebit, L!Refuse
<1> QED BY <1>5, <1>6, <1>7, <1>8, <1>9, <1>10, <1>11, <1>12 DEF L!Step

-----------------------------------------------------------------------------
(* What a step of one delivery, or of Stripe, leaves as it was. *)

\* A delivery carries one of Stripe's events.
LEMMA DeliveryFacts ==
  ASSUME NEW d \in Delivery
  PROVE  d.event \in Events
  BY DEF Delivery

\* A step of d outside the ledger, which may take ownership of an unseen event.
LEMMA GrantKept ==
  ASSUME GrantInv, BillingTypes', NEW d \in Delivery,
         \A e \in Delivery \ {d} : at'[e] = at[e],
         balance' = balance, purchased' = purchased, spent' = spent, ledger' = ledger,
         pc' = pc, calls' = calls, pos' = pos, updates' = updates, settled' = settled,
         emitted' = emitted, session' = session, seen \subseteq seen',
         Owned(d)' => Owned(d) \/ (d.event \notin seen /\ d.event \in seen'),
         DeliveryAt(d)'
  PROVE  GrantInv'
<1>1. LedgerTypes'
  BY DEF GrantInv, LedgerTypes, L!TypeOK
<1>2. \A e \in Delivery \ {d} : Owned(e)' <=> Owned(e)
  BY DEF Owned
<1>3. DeliveriesAreSound'
  <2> SUFFICES ASSUME NEW e \in Delivery, e # d PROVE DeliveryAt(e)'
    BY DEF DeliveriesAreSound
  <2>1. DeliveryAt(e)
    BY DEF GrantInv, DeliveriesAreSound
  <2>2. PlanOf(e)' = PlanOf(e)
    BY DEF PlanOf, L!PurchasePlan, L!LedgerCall, L!CheckoutRef
  <2> QED BY <1>2, <2>1, <2>2 DEF DeliveryAt
<1>4. \A e \in Delivery : Owned(e) => e.event \in seen
  BY DEF GrantInv, DeliveriesAreSound, DeliveryAt
<1>5. OwnedOnce'
  BY <1>2, <1>4 DEF GrantInv, OwnedOnce
<1>6. UpdatesAreOwn'
  BY DEF GrantInv, UpdatesAreOwn, UpdatesAt
<1>7. EmittedArePaid'
  BY DEF GrantInv, EmittedArePaid, PaidAt
<1> QED BY <1>1, <1>3, <1>5, <1>6, <1>7 DEF GrantInv

\* A step that brings no work on u's subscription, ends none and writes nothing of it.
LEMMA FollowsKept ==
  ASSUME NEW u \in Users, Follows(u),
         Working(u)' = Working(u),
         \A e \in Working(u) : snap'[e] = snap[e] /\ (at'[e] = "entitle" => at[e] = "entitle"),
         Unfailed(u)' => Unfailed(u),
         inOrder'[u] => inOrder[u],
         history'[u] = history[u], billing'[u] = billing[u], premium'[u] = premium[u],
         \A i \in 1..Changes : Changed(u, i) \in seen' => Changed(u, i) \in seen
  PROVE  Follows(u)'
<1> SUFFICES ASSUME inOrder'[u], Unfailed(u)'
    PROVE  /\ \A d, e \in Working(u)' : d = e
           /\ Working(u)' = {} => \E k \in 0..Len(history'[u]) : Shown(u, k)' /\ SeenUpTo(u, k)'
           /\ \A d \in Working(u)' :
                /\ snap'[d] # None =>
                     \E k \in 0..Len(history'[u]) : snap'[d] = StateAt(u, k)' /\ SeenUpTo(u, k)'
                /\ at'[d] = "entitle" => billing'[u] = snap'[d]
  BY DEF Follows
<1>1. \A k \in 0..Len(history[u]) : /\ StateAt(u, k)' = StateAt(u, k)
                                    /\ Shown(u, k) => Shown(u, k)'
                                    /\ SeenUpTo(u, k) => SeenUpTo(u, k)'
  BY DEF StateAt, Shown, SeenUpTo
<1> QED BY <1>1 DEF Follows

\* The order of two users' subscriptions, or of a subscription and a pack, is nothing to
\* either.
LEMMA OthersFollow ==
  ASSUME NEW d \in Delivery, NEW u \in Users, Follows(u),
         u # d.event.user \/ ~ Sub(d.event),
         \A e \in Delivery \ {d} : at'[e] = at[e] /\ snap'[e] = snap[e],
         inOrder'[u] => inOrder[u],
         history'[u] = history[u], billing'[u] = billing[u], premium'[u] = premium[u],
         seen' \subseteq seen \cup {d.event}
  PROVE  Follows(u)'
<1>1. \A e \in Working(u) : e # d
  BY DEF Working, Busy
<1>2. Working(u)' = Working(u)
  BY DEF Working, Busy
<1>3. Unfailed(u)' => Unfailed(u)
  BY DEF Unfailed
<1>4. \A e \in Working(u) : snap'[e] = snap[e] /\ (at'[e] = "entitle" => at[e] = "entitle")
  BY <1>1 DEF Working, Busy
<1>5. \A i \in 1..Changes : Changed(u, i) \in seen' => Changed(u, i) \in seen
  BY DEF Changed, Sub
<1> QED BY <1>2, <1>3, <1>4, <1>5, FollowsKept

WorkPlaces == {"customer", "retrieve", "account", "entitle"}

\* The same for d's own user, when d neither takes up work nor finishes any, or fails.
LEMMA OwnFollows ==
  ASSUME NEW d \in Delivery, NEW u \in Users, u = d.event.user, Follows(u),
         \A e \in Delivery \ {d} : at'[e] = at[e] /\ snap'[e] = snap[e],
         snap'[d] = snap[d], at[d] # "failed",
         Sub(d.event) =>
           at'[d] = "failed" \/ (/\ at'[d] \in WorkPlaces <=> at[d] \in WorkPlaces
                                 /\ at'[d] = "entitle" => at[d] = "entitle"),
         inOrder'[u] => inOrder[u],
         history' = history, billing' = billing, premium' = premium,
         seen' = seen \/ (~ Sub(d.event) /\ seen' \subseteq seen \cup {d.event})
  PROVE  Follows(u)'
<1>1. CASE ~ Sub(d.event)
  BY <1>1, OthersFollow
<1>2. CASE Sub(d.event) /\ at'[d] = "failed"
  <2>1. ~ Unfailed(u)'
    BY <1>2 DEF Unfailed
  <2> QED BY <2>1 DEF Follows
<1>3. CASE Sub(d.event) /\ at'[d] # "failed"
  <2>1. Working(u)' = Working(u)
    BY <1>3 DEF Working, Busy, WorkPlaces
  <2>2. Unfailed(u)' => Unfailed(u)
    BY DEF Unfailed
  <2>3. \A e \in Working(u) : snap'[e] = snap[e] /\ (at'[e] = "entitle" => at[e] = "entitle")
    BY <1>3 DEF Working, Busy
  <2> QED BY <1>3, <2>1, <2>2, <2>3, FollowsKept
<1> QED BY <1>1, <1>2, <1>3

\* A step of d outside the ledger keeps the invariant if d keeps its part of it.
LEMMA DeliveryStep ==
  ASSUME BillingInv, BillingTypes', NEW d \in Delivery,
         \A e \in Delivery \ {d} : at'[e] = at[e] /\ snap'[e] = snap[e],
         ledgerVars' = ledgerVars,
         emitted' = emitted, session' = session, history' = history,
         seen \subseteq seen', seen' \subseteq seen \cup {d.event},
         Owned(d)' => Owned(d) \/ (d.event \notin seen /\ d.event \in seen'),
         DeliveryAt(d)', SnapAt(d)',
         \A u \in Users \ {d.event.user} :
            inOrder'[u] = inOrder[u] /\ billing'[u] = billing[u] /\ premium'[u] = premium[u],
         Follows(d.event.user)'
  PROVE  BillingInv'
<1>1. /\ balance' = balance /\ purchased' = purchased /\ spent' = spent /\ ledger' = ledger
      /\ pc' = pc /\ calls' = calls /\ pos' = pos /\ updates' = updates /\ settled' = settled
  BY DEF ledgerVars
<1>2. GrantInv'
  <2>1. GrantInv
    BY DEF BillingInv
  <2> QED BY <1>1, <2>1, GrantKept
<1>3. SnapsAreSound'
  <2> SUFFICES ASSUME NEW e \in Delivery, e # d PROVE SnapAt(e)'
    BY DEF SnapsAreSound
  <2>1. SnapAt(e)
    BY DEF BillingInv, SnapsAreSound
  <2> QED BY <2>1 DEF SnapAt
<1>4. HistoriesAreEmitted'
  <2> SUFFICES ASSUME NEW u \in Users PROVE EmittedAt(u)'
    BY DEF HistoriesAreEmitted
  <2>1. EmittedAt(u)
    BY DEF BillingInv, HistoriesAreEmitted
  <2> QED BY <2>1 DEF EmittedAt
<1>5. AllFollow'
  <2> SUFFICES ASSUME NEW u \in Users, u # d.event.user PROVE Follows(u)'
    BY DEF AllFollow
  <2>1. Follows(u)
    BY DEF BillingInv, AllFollow
  <2> QED BY <2>1, OthersFollow
<1> QED BY <1>2, <1>3, <1>4, <1>5 DEF BillingInv

\* What the invariant says of one delivery and its user.
LEMMA OneDelivery ==
  ASSUME BillingInv, NEW d \in Delivery
  PROVE  /\ BillingTypes /\ LedgerTypes /\ DeliveryAt(d) /\ SnapAt(d)
         /\ d.event \in Events /\ d.event.user \in Users
         /\ Follows(d.event.user) /\ EmittedAt(d.event.user)
         /\ at \in [Delivery -> Places]
<1>1. d.event \in Events /\ d.event.user \in Users
  BY DeliveryFacts, EventFacts
<1> QED BY <1>1 DEF BillingInv, GrantInv, DeliveriesAreSound, SnapsAreSound, AllFollow,
                    HistoriesAreEmitted, BillingTypes

-----------------------------------------------------------------------------
(* The steps of a delivery. *)

\* A move of d that writes no table and marks nothing.
LEMMA MoveStep ==
  ASSUME BillingInv, NEW d \in Delivery, NEW p \in Places,
         at' = [at EXCEPT ![d] = p], at[d] # "failed",
         acked' \in SUBSET emitted,
         session' = session, history' = history, emitted' = emitted, seen' = seen,
         snap' = snap, inOrder' = inOrder, billing' = billing, premium' = premium,
         ledgerVars' = ledgerVars,
         p # "waiting" => d.event \in emitted,
         p \in Handling \cup {"failed"} => Owned(d),
         pc[d] \notin L!Live,
         p \notin {"answer", "answered", "failed"} => pc[d] = "idle",
         p # "granting",
         p = "grant" => PaidEvent(d.event),
         p \in {"waiting", "mark"} => at[d] \in {"waiting", "mark"},
         p \in WorkPlaces => at[d] \in WorkPlaces,
         p \in {"account", "entitle"} => snap[d] # None /\ Sub(d.event),
         p = "retrieve" => d.event.kind = "subscribed",
         p # "entitle",
         Sub(d.event) /\ at[d] \in WorkPlaces => p \in WorkPlaces \cup {"failed"}
  PROVE  BillingInv'
<1>1. /\ BillingTypes /\ DeliveryAt(d) /\ SnapAt(d) /\ d.event \in Events
      /\ d.event.user \in Users /\ Follows(d.event.user) /\ at \in [Delivery -> Places]
  BY OneDelivery
<1>2. at'[d] = p /\ \A e \in Delivery \ {d} : at'[e] = at[e]
  BY <1>1
<1>3. BillingTypes'
  BY <1>1 DEF BillingTypes
<1>4. pc' = pc /\ calls' = calls /\ pos' = pos /\ updates' = updates
  BY DEF ledgerVars
<1>5. Owned(d)' => Owned(d)
  BY <1>2, <1>4 DEF Owned
<1>6. DeliveryAt(d)'
  BY <1>1, <1>2, <1>4, <1>5 DEF DeliveryAt, Owned
<1>7. SnapAt(d)'
  BY <1>1, <1>2 DEF SnapAt, WorkPlaces
<1>8. Sub(d.event) =>
        at'[d] = "failed" \/ (/\ at'[d] \in WorkPlaces <=> at[d] \in WorkPlaces
                              /\ at'[d] = "entitle" => at[d] = "entitle")
  BY <1>2 DEF WorkPlaces
<1>9. Follows(d.event.user)'
  BY <1>1, <1>2, <1>8, OwnFollows
<1> QED BY <1>2, <1>3, <1>5, <1>6, <1>7, <1>9, DeliveryStep

\* A delivery starts: the handler is about to insert the event's mark.
LEMMA DeliverStep ==
  ASSUME BillingInv, NEW d \in Delivery, Deliver(d)
  PROVE  BillingInv'
<1>1. /\ BillingTypes /\ DeliveryAt(d) /\ SnapAt(d)
  BY OneDelivery
<1>2. /\ at[d] = "waiting" /\ d.event \in emitted /\ at' = [at EXCEPT ![d] = "mark"]
      /\ session' = session /\ history' = history /\ emitted' = emitted /\ seen' = seen
      /\ acked' = acked /\ snap' = snap /\ inOrder' = inOrder /\ billing' = billing
      /\ premium' = premium /\ ledgerVars' = ledgerVars
  BY DEF Deliver, stripeVars, tableVars, ledgerVars
<1>3. pc[d] = "idle"
  BY <1>1, <1>2 DEF DeliveryAt
<1> QED BY <1>1, <1>2, <1>3, MoveStep DEF Places, Handling, WorkPlaces, L!Live, BillingTypes

\* The mark is there already: the delivery is answered and does nothing.
LEMMA MarkDuplicateStep ==
  ASSUME BillingInv, NEW d \in Delivery, MarkDuplicate(d)
  PROVE  BillingInv'
<1>1. /\ BillingTypes /\ DeliveryAt(d) /\ SnapAt(d)
  BY OneDelivery
<1>2. /\ at[d] = "mark" /\ at' = [at EXCEPT ![d] = "answered"]
      /\ session' = session /\ history' = history /\ emitted' = emitted /\ seen' = seen
      /\ acked' = acked \cup {d.event} /\ snap' = snap /\ inOrder' = inOrder
      /\ billing' = billing /\ premium' = premium /\ ledgerVars' = ledgerVars
  BY DEF MarkDuplicate, Answer, tableVars, ledgerVars
<1>3. pc[d] = "idle" /\ d.event \in emitted
  BY <1>1, <1>2 DEF DeliveryAt
<1>4. acked' \in SUBSET emitted
  BY <1>1, <1>2, <1>3 DEF BillingTypes
<1> QED BY <1>1, <1>2, <1>3, <1>4, MoveStep DEF Places, Handling, WorkPlaces, L!Live

\* The work is done: the delivery is answered.
LEMMA RespondStep ==
  ASSUME BillingInv, NEW d \in Delivery, Respond(d)
  PROVE  BillingInv'
<1>1. /\ BillingTypes /\ DeliveryAt(d) /\ SnapAt(d)
  BY OneDelivery
<1>2. /\ at[d] = "answer" /\ at' = [at EXCEPT ![d] = "answered"]
      /\ session' = session /\ history' = history /\ emitted' = emitted /\ seen' = seen
      /\ acked' = acked \cup {d.event} /\ snap' = snap /\ inOrder' = inOrder
      /\ billing' = billing /\ premium' = premium /\ ledgerVars' = ledgerVars
  BY DEF Respond, Answer, tableVars, ledgerVars
<1>3. pc[d] \notin L!Live /\ d.event \in emitted
  BY <1>1, <1>2 DEF DeliveryAt
<1>4. acked' \in SUBSET emitted
  BY <1>1, <1>2, <1>3 DEF BillingTypes
<1> QED BY <1>1, <1>2, <1>3, <1>4, MoveStep DEF Places, Handling, WorkPlaces

\* The customer id is saved, and the event's kind says what comes next.
LEMMA SaveCustomerStep ==
  ASSUME BillingInv, NEW d \in Delivery, SaveCustomer(d)
  PROVE  BillingInv'
<1>1. /\ BillingTypes /\ DeliveryAt(d) /\ SnapAt(d) /\ d.event \in Events
  BY OneDelivery
<1>2. /\ at[d] = "customer" /\ at' = [at EXCEPT ![d] = Work(d)]
      /\ session' = session /\ history' = history /\ emitted' = emitted /\ seen' = seen
      /\ acked' = acked /\ snap' = snap /\ inOrder' = inOrder
      /\ billing' = billing /\ premium' = premium /\ ledgerVars' = ledgerVars
  BY DEF SaveCustomer, stripeVars, ledgerVars
<1>3. pc[d] = "idle" /\ d.event \in emitted /\ acked' \in SUBSET emitted
  BY <1>1, <1>2 DEF DeliveryAt, BillingTypes
<1>4. Owned(d)
  BY <1>2 DEF Owned, Handling
<1>5. CASE d.event.kind \in {"completed", "async"}
  <2>1. Work(d) \in {"grant", "answer"} /\ (Work(d) = "grant" => PaidEvent(d.event))
    BY <1>5 DEF Work
  <2>2. ~ Sub(d.event)
    BY <1>5 DEF Sub
  <2> QED BY <1>2, <1>3, <1>4, <2>1, <2>2, MoveStep DEF Places, Handling, WorkPlaces, L!Live
<1>6. CASE d.event.kind = "subscribed"
  <2>1. Work(d) \in {"retrieve", "account"} /\ (Work(d) = "account" => snap[d] # None)
    BY <1>6 DEF Work
  <2>2. Sub(d.event)
    BY <1>6 DEF Sub
  <2> QED BY <1>2, <1>3, <1>4, <1>6, <2>1, <2>2, MoveStep DEF Places, Handling, WorkPlaces, L!Live
<1>7. CASE d.event.kind = "changed"
  <2>1. Work(d) = "account"
    BY <1>7 DEF Work
  <2>2. Sub(d.event)
    BY <1>7 DEF Sub
  <2>3. snap[d] # None
    <3>1. snap[d] = history[d.event.user][d.event.index]
      BY <1>1, <1>2, <1>7 DEF SnapAt
    <3>2. d.event.index <= Len(history[d.event.user]) /\ d.event.index \in 1..Changes
      <4>1. d.event = Changed(d.event.user, d.event.index) /\ d.event.index \in 1..Changes
        BY <1>1, <1>7, EventFacts
      <4> QED BY <1>3, <4>1, OneDelivery DEF EmittedAt
    <3>3. history[d.event.user] \in Seq(SubState)
      BY <1>1, OneDelivery DEF BillingTypes
    <3>4. snap[d] \in SubState
      BY <3>1, <3>2, <3>3, StripeAssumption
    <3> QED BY <3>4 DEF SubState, None, Statuses
  <2> QED BY <1>2, <1>3, <1>4, <2>1, <2>2, <2>3, MoveStep DEF Places, Handling, WorkPlaces, L!Live
<1> QED BY <1>1, <1>5, <1>6, <1>7, EventFacts

\* The grant's statements have ended: the handler answers.
LEMMA GrantedStep ==
  ASSUME BillingInv, NEW d \in Delivery, Granted(d)
  PROVE  BillingInv'
<1>1. /\ BillingTypes /\ DeliveryAt(d) /\ SnapAt(d) /\ d.event \in Events
  BY OneDelivery
<1>2. /\ at[d] = "granting" /\ at' = [at EXCEPT ![d] = "answer"] /\ pc[d] = "done"
      /\ session' = session /\ history' = history /\ emitted' = emitted /\ seen' = seen
      /\ acked' = acked /\ snap' = snap /\ inOrder' = inOrder
      /\ billing' = billing /\ premium' = premium /\ ledgerVars' = ledgerVars
  BY DEF Granted, stripeVars, tableVars, ledgerVars
<1>3. d.event \in emitted /\ acked' \in SUBSET emitted
  BY <1>1, <1>2 DEF DeliveryAt, BillingTypes
<1>4. Owned(d)
  BY <1>2 DEF Owned, Handling
<1> QED BY <1>2, <1>3, <1>4, MoveStep DEF Places, Handling, WorkPlaces, L!Live

\* A handler that fails before its mark can be tried again, after it is lost.
LEMMA FailStep ==
  ASSUME BillingInv, NEW d \in Delivery, Fail(d)
  PROVE  BillingInv'
<1>1. /\ BillingTypes /\ DeliveryAt(d) /\ SnapAt(d) /\ d.event \in Events
  BY OneDelivery
<1> DEFINE p == IF at[d] = "mark" THEN "unmarked" ELSE "failed"
<1>2. /\ at' = [at EXCEPT ![d] = p]
      /\ at[d] \in Handling \cup {"mark"}
      /\ at[d] = "granting" => pc[d] \in {"failed", "cut", "rejected"}
      /\ session' = session /\ history' = history /\ emitted' = emitted /\ seen' = seen
      /\ acked' = acked /\ snap' = snap /\ inOrder' = inOrder
      /\ billing' = billing /\ premium' = premium /\ ledgerVars' = ledgerVars
  BY DEF Fail, stripeVars, tableVars, ledgerVars, Handling
<1>3. d.event \in emitted /\ acked' \in SUBSET emitted
  BY <1>1, <1>2 DEF DeliveryAt, BillingTypes, Handling
<1>4. pc[d] \notin L!Live
  BY <1>1, <1>2 DEF DeliveryAt, L!Live
<1>5. CASE at[d] = "mark"
  <2>1. p = "unmarked" /\ pc[d] = "idle"
    BY <1>1, <1>5 DEF DeliveryAt
  <2> HIDE DEF p
  <2> QED BY <1>2, <1>3, <1>4, <1>5, <2>1, MoveStep DEF Places, Handling, WorkPlaces
<1>6. CASE at[d] # "mark"
  <2>1. p = "failed" /\ Owned(d)
    BY <1>2, <1>6 DEF Owned
  <2> HIDE DEF p
  <2> QED BY <1>2, <1>3, <1>4, <1>6, <2>1, MoveStep DEF Places, Handling, WorkPlaces
<1> QED BY <1>5, <1>6

\* Stripe is asked for the subscription: the object is its present state, which no state
\* marked so far is newer than.
LEMMA RetrieveStep ==
  ASSUME BillingInv, NEW d \in Delivery, Retrieve(d)
  PROVE  BillingInv'
<1> DEFINE u == d.event.user
<1>1. /\ BillingTypes /\ DeliveryAt(d) /\ SnapAt(d) /\ d.event \in Events /\ u \in Users
      /\ Follows(u) /\ EmittedAt(u)
  BY OneDelivery
<1>2. /\ at[d] = "retrieve" /\ at' = [at EXCEPT ![d] = "customer"]
      /\ snap' = [snap EXCEPT ![d] = Now(u)]
      /\ session' = session /\ history' = history /\ emitted' = emitted /\ seen' = seen
      /\ acked' = acked /\ inOrder' = inOrder
      /\ billing' = billing /\ premium' = premium /\ ledgerVars' = ledgerVars
  BY DEF Retrieve, stripeVars, tableVars, ledgerVars
<1>3. /\ at \in [Delivery -> Places] /\ snap \in [Delivery -> SubState \cup {None}]
      /\ history[u] \in Seq(SubState)
  BY <1>1 DEF BillingTypes
<1>4. d.event.kind = "subscribed" /\ d.event = Subscribed(u) /\ Sub(d.event)
  BY <1>1, <1>2, EventFacts DEF SnapAt, Sub
<1>5. Len(history[u]) \in Nat \ {0} /\ Now(u) = StateAt(u, Len(history[u])) /\ Now(u) \in SubState
  <2>1. d.event \in emitted
    BY <1>1, <1>2 DEF DeliveryAt
  <2>2. Len(history[u]) # 0
    BY <1>1, <1>4, <2>1 DEF EmittedAt
  <2> QED BY <1>3, <2>2 DEF Now, StateAt
<1> HIDE DEF u
<1>6. /\ at'[d] = "customer" /\ snap'[d] = Now(u)
      /\ \A e \in Delivery \ {d} : at'[e] = at[e] /\ snap'[e] = snap[e]
  BY <1>2, <1>3
<1>7. BillingTypes'
  <2>1. at' \in [Delivery -> Places] /\ snap' \in [Delivery -> SubState \cup {None}]
    BY <1>2, <1>3, <1>5 DEF Places
  <2> QED BY <1>1, <1>2, <2>1 DEF BillingTypes
<1>8. pc' = pc /\ calls' = calls /\ pos' = pos /\ updates' = updates
  BY <1>2 DEF ledgerVars
<1>9. Owned(d) /\ Owned(d)'
  BY <1>2, <1>6 DEF Owned, Handling
<1>10. DeliveryAt(d)'
  BY <1>1, <1>2, <1>6, <1>8, <1>9 DEF DeliveryAt, L!Live
<1>11. SnapAt(d)'
  BY <1>4, <1>6 DEF SnapAt
<1>12. Follows(u)'
  <2>1. Working(u)' = Working(u) /\ d \in Working(u)
    BY <1>2, <1>4, <1>6 DEF Working, Busy, u
  <2>2. Unfailed(u)' => Unfailed(u)
    BY <1>2, <1>6 DEF Unfailed
  <2>3. SeenUpTo(u, Len(history[u]))'
    <3> SUFFICES ASSUME NEW i \in 1..Changes, Changed(u, i) \in seen
                 PROVE  i <= Len(history[u])
      BY <1>2 DEF SeenUpTo
    <3> QED BY <1>1 DEF EmittedAt, BillingTypes
  <2>4. snap'[d] = StateAt(u, Len(history[u]))'
    BY <1>2, <1>5, <1>6 DEF StateAt
  <2>5. Len(history[u])' = Len(history[u]) /\ Len(history[u]) \in 0..Len(history[u])
    BY <1>2, <1>5
  <2>6. \E k \in 0..Len(history'[u]) : snap'[d] = StateAt(u, k)' /\ SeenUpTo(u, k)'
    BY <1>2, <2>3, <2>4, <2>5
  <2>7. inOrder'[u] = inOrder[u]
    BY <1>2
  <2>8. Follows(u)
    BY <1>1
  <2>9. (inOrder[u] /\ Unfailed(u)) => \A e \in Working(u) : e = d
    BY <2>1, <2>8 DEF Follows
  <2> QED BY <1>6, <2>1, <2>2, <2>6, <2>7, <2>8, <2>9 DEF Follows
<1> QED BY <1>1, <1>2, <1>6, <1>7, <1>9, <1>10, <1>11, <1>12, DeliveryStep DEF u

\* setSubscriptionState overwrites the account with the object it holds ...
LEMMA WriteAccountStep ==
  ASSUME BillingInv, NEW d \in Delivery, WriteAccount(d)
  PROVE  BillingInv'
<1> DEFINE u == d.event.user
<1>1. /\ BillingTypes /\ DeliveryAt(d) /\ SnapAt(d) /\ d.event \in Events /\ u \in Users
      /\ Follows(u)
  BY OneDelivery
<1>2. /\ at[d] = "account" /\ at' = [at EXCEPT ![d] = "entitle"]
      /\ billing' = [billing EXCEPT ![u] = snap[d]]
      /\ session' = session /\ history' = history /\ emitted' = emitted /\ seen' = seen
      /\ acked' = acked /\ inOrder' = inOrder /\ snap' = snap
      /\ premium' = premium /\ ledgerVars' = ledgerVars
  BY DEF WriteAccount, stripeVars, ledgerVars
<1>3. /\ at \in [Delivery -> Places] /\ snap \in [Delivery -> SubState \cup {None}]
      /\ billing \in [Users -> SubState \cup {None}]
  BY <1>1 DEF BillingTypes
<1>4. Sub(d.event) /\ snap[d] # None
  BY <1>1, <1>2 DEF SnapAt
<1> HIDE DEF u
<1>6. /\ at'[d] = "entitle" /\ billing'[u] = snap[d] /\ u \in Users
      /\ \A e \in Delivery \ {d} : at'[e] = at[e] /\ snap'[e] = snap[e]
      /\ \A v \in Users \ {u} : billing'[v] = billing[v]
  BY <1>1, <1>2, <1>3
<1>7. BillingTypes'
  <2>1. at' \in [Delivery -> Places] /\ billing' \in [Users -> SubState \cup {None}]
    BY <1>2, <1>3 DEF Places
  <2> QED BY <1>1, <1>2, <2>1 DEF BillingTypes
<1>8. pc' = pc /\ calls' = calls /\ pos' = pos /\ updates' = updates
  BY <1>2 DEF ledgerVars
<1>9. Owned(d) /\ Owned(d)'
  BY <1>2, <1>6 DEF Owned, Handling
<1>10. DeliveryAt(d)'
  BY <1>1, <1>2, <1>6, <1>8, <1>9 DEF DeliveryAt, L!Live
<1>11. SnapAt(d)'
  BY <1>1, <1>2, <1>4, <1>6 DEF SnapAt
<1>12. Follows(u)'
  <2>1. Working(u)' = Working(u) /\ d \in Working(u)
    BY <1>2, <1>4, <1>6 DEF Working, Busy, u
  <2>2. Unfailed(u)' => Unfailed(u)
    BY <1>2, <1>6 DEF Unfailed
  <2>3. \A k \in 0..Len(history[u]) : StateAt(u, k)' = StateAt(u, k)
                                      /\ (SeenUpTo(u, k) => SeenUpTo(u, k)')
    BY <1>2 DEF StateAt, SeenUpTo
  <2>4. inOrder' = inOrder /\ history' = history /\ snap' = snap /\ billing'[u] = snap[d]
    BY <1>2, <1>6
  <2>5. (inOrder[u] /\ Unfailed(u)) => \A e \in Working(u) : e = d
    BY <1>1, <2>1 DEF Follows
  <2> QED BY <1>1, <2>1, <2>2, <2>3, <2>4, <2>5 DEF Follows
<1> QED BY <1>1, <1>2, <1>6, <1>7, <1>9, <1>10, <1>11, <1>12, DeliveryStep DEF u

\* ... and then the entitlement: both tables show that object.
LEMMA WriteEntitlementStep ==
  ASSUME BillingInv, NEW d \in Delivery, WriteEntitlement(d)
  PROVE  BillingInv'
<1> DEFINE u == d.event.user
           q == [active |-> Entitled(snap[d].status), until |-> snap[d].until]
<1>1. /\ BillingTypes /\ DeliveryAt(d) /\ SnapAt(d) /\ d.event \in Events /\ u \in Users
      /\ Follows(u)
  BY OneDelivery
<1>2. /\ at[d] = "entitle" /\ at' = [at EXCEPT ![d] = "answer"]
      /\ premium' = [premium EXCEPT ![u] = q]
      /\ session' = session /\ history' = history /\ emitted' = emitted /\ seen' = seen
      /\ acked' = acked /\ inOrder' = inOrder /\ snap' = snap
      /\ billing' = billing /\ ledgerVars' = ledgerVars
  BY DEF WriteEntitlement, stripeVars, ledgerVars
<1>3. /\ at \in [Delivery -> Places] /\ snap \in [Delivery -> SubState \cup {None}]
      /\ premium \in [Users -> [active : BOOLEAN, until : Nat]]
  BY <1>1 DEF BillingTypes
<1>4. Sub(d.event) /\ snap[d] # None
  BY <1>1, <1>2 DEF SnapAt
<1>5. q \in [active : BOOLEAN, until : Nat]
  <2>1. snap[d] \in SubState
    BY <1>3, <1>4
  <2> QED BY <2>1 DEF SubState, Entitled
<1> HIDE DEF u
<1>6. /\ at'[d] = "answer" /\ premium'[u] = q /\ u \in Users
      /\ \A e \in Delivery \ {d} : at'[e] = at[e] /\ snap'[e] = snap[e]
      /\ \A v \in Users \ {u} : premium'[v] = premium[v]
  BY <1>1, <1>2, <1>3
<1>7. BillingTypes'
  <2>1. at' \in [Delivery -> Places] /\ premium' \in [Users -> [active : BOOLEAN, until : Nat]]
    <3> HIDE DEF q
    <3> QED BY <1>2, <1>3, <1>5 DEF Places
  <2> QED BY <1>1, <1>2, <2>1 DEF BillingTypes
<1>8. pc' = pc /\ calls' = calls /\ pos' = pos /\ updates' = updates
  BY <1>2 DEF ledgerVars
<1>9. Owned(d) /\ Owned(d)'
  BY <1>2, <1>6 DEF Owned, Handling
<1>10. DeliveryAt(d)'
  BY <1>1, <1>2, <1>6, <1>8, <1>9 DEF DeliveryAt, L!Live
<1>11. SnapAt(d)'
  BY <1>6 DEF SnapAt
<1>12. Follows(u)'
  <2>1. d \in Working(u)
    BY <1>2, <1>4, <1>6 DEF Working, Busy, u
  <2>2. Unfailed(u)' => Unfailed(u)
    BY <1>2, <1>6 DEF Unfailed
  <2> SUFFICES ASSUME inOrder[u], Unfailed(u)
               PROVE  Working(u)' = {} /\ \E k \in 0..Len(history'[u]) : Shown(u, k)' /\ SeenUpTo(u, k)'
    BY <1>2, <2>2 DEF Follows
  <2>3. \A e \in Working(u) : e = d
    BY <1>1, <2>1 DEF Follows
  <2>4. Working(u)' = {}
    BY <1>6, <2>3 DEF Working, Busy
  <2>5. billing[u] = snap[d]
    BY <1>1, <1>2, <2>1 DEF Follows
  <2>6. PICK k \in 0..Len(history[u]) : snap[d] = StateAt(u, k) /\ SeenUpTo(u, k)
    BY <1>1, <1>4, <2>1 DEF Follows
  <2>7. StateAt(u, k)' = snap[d] /\ SeenUpTo(u, k)'
    BY <1>2, <2>6 DEF StateAt, SeenUpTo
  <2>8. Shown(u, k)'
    BY <1>2, <1>6, <2>5, <2>7 DEF Shown
  <2> QED BY <1>2, <2>4, <2>7, <2>8
<1> QED BY <1>1, <1>2, <1>6, <1>7, <1>9, <1>10, <1>11, <1>12, DeliveryStep DEF u

\* A fresh mark takes up the event's work; in order, it is the only work on the user's
\* subscription and its state is the newest marked.
LEMMA MarkFreshStep ==
  ASSUME BillingInv, NEW d \in Delivery, MarkFresh(d)
  PROVE  BillingInv'
<1> DEFINE u == d.event.user
           q == IF d.event.kind = "changed" THEN history[u][d.event.index] ELSE snap[d]
<1>1. /\ BillingTypes /\ DeliveryAt(d) /\ SnapAt(d) /\ d.event \in Events /\ u \in Users
      /\ Follows(u) /\ EmittedAt(u)
  BY OneDelivery
<1>2. /\ at[d] = "mark" /\ at' = [at EXCEPT ![d] = "customer"] /\ d.event \notin seen
      /\ seen' = seen \cup {d.event} /\ snap' = [snap EXCEPT ![d] = q]
      /\ session' = session /\ history' = history /\ emitted' = emitted /\ acked' = acked
      /\ billing' = billing /\ premium' = premium /\ ledgerVars' = ledgerVars
  BY DEF MarkFresh, stripeVars, tableVars, ledgerVars
<1>3. /\ at \in [Delivery -> Places] /\ snap \in [Delivery -> SubState \cup {None}]
      /\ history[u] \in Seq(SubState) /\ inOrder \in [Users -> BOOLEAN]
  BY <1>1 DEF BillingTypes
<1>4. inOrder' = [inOrder EXCEPT ![u] =
        inOrder[u] /\ (Sub(d.event) => Busy(u) = {} /\ Later(d.event) = {})]
  BY DEF MarkFresh, Sub
<1>5. d.event \in emitted /\ pc[d] = "idle" /\ snap[d] = None
  BY <1>1, <1>2 DEF DeliveryAt, SnapAt
<1>6. d.event.kind = "changed" =>
        /\ d.event = Changed(u, d.event.index) /\ d.event.index \in 1..Changes
        /\ d.event.index \in 1..Len(history[u]) /\ q \in SubState
        /\ q = StateAt(u, d.event.index)
  <2> SUFFICES ASSUME d.event.kind = "changed"
      PROVE  /\ d.event = Changed(u, d.event.index) /\ d.event.index \in 1..Changes
             /\ d.event.index \in 1..Len(history[u]) /\ q \in SubState
             /\ q = StateAt(u, d.event.index)
    OBVIOUS
  <2>1. d.event = Changed(u, d.event.index) /\ d.event.index \in 1..Changes
    BY <1>1, EventFacts
  <2>2. d.event.index <= Len(history[u]) /\ Len(history[u]) \in Nat
    BY <1>1, <1>3, <1>5, <2>1 DEF EmittedAt
  <2>3. d.event.index \in 1..Len(history[u])
    BY <2>1, <2>2, StripeAssumption
  <2> QED BY <1>3, <2>1, <2>3 DEF StateAt
<1>7. q \in SubState \cup {None} /\ (d.event.kind # "changed" => q = None)
  BY <1>5, <1>6
<1> HIDE DEF u, q
<1>8. /\ at'[d] = "customer" /\ snap'[d] = q
      /\ \A e \in Delivery \ {d} : at'[e] = at[e] /\ snap'[e] = snap[e]
  BY <1>2, <1>3
<1>9. inOrder' \in [Users -> BOOLEAN] /\ \A v \in Users \ {u} : inOrder'[v] = inOrder[v]
  BY <1>1, <1>3, <1>4
<1>10. inOrder'[u] = (inOrder[u] /\ (Sub(d.event) => Busy(u) = {} /\ Later(d.event) = {}))
  BY <1>1, <1>3, <1>4
<1>11. BillingTypes'
  <2>1. at' \in [Delivery -> Places] /\ snap' \in [Delivery -> SubState \cup {None}]
    BY <1>2, <1>3, <1>7 DEF Places
  <2>2. seen' \subseteq emitted
    BY <1>1, <1>2, <1>5 DEF BillingTypes
  <2> QED BY <1>1, <1>2, <1>9, <2>1, <2>2 DEF BillingTypes
<1>12. pc' = pc /\ calls' = calls /\ pos' = pos /\ updates' = updates
  BY <1>2 DEF ledgerVars
<1>13. DeliveryAt(d)'
  BY <1>1, <1>2, <1>5, <1>8, <1>12 DEF DeliveryAt, L!Live
<1>14. SnapAt(d)'
  <2>1. d.event.kind = "changed" => q = history[u][d.event.index]
    BY DEF q
  <2> QED BY <1>2, <1>8, <2>1 DEF SnapAt, u
<1>15. Follows(u)'
  <2>1. CASE ~ Sub(d.event)
    BY <1>1, <1>2, <1>8, <1>10, <2>1, OthersFollow DEF u
  <2>2. CASE Sub(d.event)
    <3> SUFFICES ASSUME inOrder'[u], Unfailed(u)'
        PROVE  /\ d \in Working(u)' /\ \A e \in Working(u)' : e = d
               /\ snap'[d] # None =>
                    \E k \in 0..Len(history'[u]) : snap'[d] = StateAt(u, k)' /\ SeenUpTo(u, k)'
      BY <1>8 DEF Follows
    <3>1. Busy(u) = {} /\ Later(d.event) = {}
      BY <1>10, <2>2
    <3>2. d \in Working(u)' /\ \A e \in Working(u)' : e = d
      BY <1>8, <2>2, <3>1 DEF Working, Busy, u
    <3>3. ASSUME snap'[d] # None
          PROVE  \E k \in 0..Len(history'[u]) : snap'[d] = StateAt(u, k)' /\ SeenUpTo(u, k)'
      <4>1. d.event.kind = "changed"
        BY <1>7, <1>8, <3>3
      <4> DEFINE k == d.event.index
      <4>2. k \in 0..Len(history[u]) /\ k \in 1..Changes /\ q = StateAt(u, k)
        BY <1>3, <1>6, <4>1, StripeAssumption
      <4>3. SeenUpTo(u, k)'
        <5> SUFFICES ASSUME NEW i \in 1..Changes, Changed(u, i) \in seen' PROVE i <= k
          BY DEF SeenUpTo
        <5>1. CASE Changed(u, i) = d.event
          BY <4>2, <5>1, StripeAssumption DEF Changed
        <5>2. CASE Changed(u, i) \in seen
          <6>1. Changed(u, i) \notin Later(d.event)
            BY <3>1
          <6>2. /\ Changed(u, i).user = d.event.user /\ Changed(u, i).index = i
                /\ {d.event.kind, Changed(u, i).kind} = {"changed"}
            BY <4>1 DEF Changed, u
          <6>3. ~ (i > k)
            BY <5>2, <6>1, <6>2 DEF Later
          <6> QED BY <4>2, <6>3, StripeAssumption
        <5> QED BY <1>2, <5>1, <5>2
      <4>4. StateAt(u, k)' = StateAt(u, k)
        BY <1>2 DEF StateAt
      <4> QED BY <1>2, <1>8, <4>2, <4>3, <4>4
    <3> QED BY <3>2, <3>3
  <2> QED BY <2>1, <2>2
<1> QED BY <1>1, <1>2, <1>8, <1>9, <1>11, <1>13, <1>14, <1>15, DeliveryStep DEF u

\* An account update names the delivery that made it.
LEMMA UpdateFacts ==
  ASSUME LedgerTypes, NEW u \in Users, NEW i \in DOMAIN updates[u]
  PROVE  updates[u][i].by \in Delivery
<1>1. updates[u] \in Seq(L!Update)
  BY DEF LedgerTypes, L!TypeOK
<1>2. updates[u][i] \in L!Update
  BY <1>1
<1> QED BY <1>2 DEF L!Update

\* A step of the grant d waits for.
LEMMA LedgerMove ==
  ASSUME BillingInv, LedgerTypes', NEW d \in Delivery,
         at[d] \in {"grant", "granting"}, at' = [at EXCEPT ![d] = "granting"],
         session' = session, history' = history, emitted' = emitted, acked' = acked,
         seen' = seen, snap' = snap, inOrder' = inOrder, billing' = billing,
         premium' = premium,
         \A e \in Delivery \ {d} : pc'[e] = pc[e] /\ calls'[e] = calls[e] /\ pos'[e] = pos[e],
         \A v \in Users : DOMAIN updates[v] \subseteq DOMAIN updates'[v],
         DeliveryAt(d)', UpdatesAreOwn'
  PROVE  BillingInv'
<1>1. /\ BillingTypes /\ DeliveryAt(d) /\ SnapAt(d) /\ d.event \in Events
      /\ d.event.user \in Users /\ Follows(d.event.user) /\ at \in [Delivery -> Places]
  BY OneDelivery
<1>2. at'[d] = "granting" /\ \A e \in Delivery \ {d} : at'[e] = at[e]
  BY <1>1
<1>3. BillingTypes'
  BY <1>1 DEF BillingTypes, Places
<1>4. Owned(d) /\ \A e \in Delivery \ {d} : Owned(e)' <=> Owned(e)
  BY <1>2 DEF Owned, Handling
<1>5. ~ Sub(d.event)
  BY <1>1, EventFacts DEF DeliveryAt, PaidEvent, Sub
<1>6. DeliveriesAreSound'
  <2> SUFFICES ASSUME NEW e \in Delivery, e # d PROVE DeliveryAt(e)'
    BY DEF DeliveriesAreSound
  <2>1. DeliveryAt(e) /\ e.event.user \in Users
    BY OneDelivery
  <2>2. PlanOf(e)' = PlanOf(e)
    BY DEF PlanOf, L!PurchasePlan, L!LedgerCall, L!CheckoutRef
  <2> QED BY <1>2, <1>4, <2>1, <2>2 DEF DeliveryAt
<1>7. OwnedOnce'
  <2>1. OwnedOnce
    BY DEF BillingInv, GrantInv
  <2> QED BY <1>4, <2>1 DEF OwnedOnce
<1>8. EmittedArePaid'
  <2>1. EmittedArePaid
    BY DEF BillingInv, GrantInv
  <2> QED BY <2>1 DEF EmittedArePaid, PaidAt
<1>9. SnapsAreSound'
  <2> SUFFICES ASSUME NEW e \in Delivery PROVE SnapAt(e)'
    BY DEF SnapsAreSound
  <2>1. SnapAt(e)
    BY OneDelivery
  <2> QED BY <1>2, <2>1 DEF SnapAt
<1>10. HistoriesAreEmitted'
  <2>1. HistoriesAreEmitted
    BY DEF BillingInv
  <2> QED BY <2>1 DEF HistoriesAreEmitted, EmittedAt
<1>11. AllFollow'
  <2> SUFFICES ASSUME NEW u \in Users PROVE Follows(u)'
    BY DEF AllFollow
  <2>1. Follows(u)
    BY DEF BillingInv, AllFollow
  <2> QED BY <1>2, <1>5, <2>1, OthersFollow
<1> QED BY <1>3, <1>6, <1>7, <1>8, <1>9, <1>10, <1>11 DEF BillingInv, GrantInv

\* grantCredits begins.
LEMMA StartGrantStep ==
  ASSUME BillingInv, NEW d \in Delivery, StartGrant(d)
  PROVE  BillingInv'
<1>1. /\ BillingTypes /\ LedgerTypes /\ DeliveryAt(d) /\ d.event \in Events
      /\ at \in [Delivery -> Places]
  BY OneDelivery
<1>2. /\ at[d] = "grant" /\ at' = [at EXCEPT ![d] = "granting"]
      /\ session' = session /\ history' = history /\ emitted' = emitted /\ acked' = acked
      /\ seen' = seen /\ snap' = snap /\ inOrder' = inOrder /\ billing' = billing
      /\ premium' = premium
      /\ L!Begin(d, L!PurchasePlan(d.event.user, d.event.session))
  BY DEF StartGrant, stripeVars, tableVars
<1>3. PaidEvent(d.event) /\ d.event \in seen /\ d.event \in emitted
  BY <1>1, <1>2 DEF DeliveryAt, Owned, Handling
<1>4. d.event.user \in Users /\ d.event.session \in Sessions
  BY <1>1, <1>3, PaidEventFacts
<1>5. /\ LedgerTypes' /\ pc[d] = "idle" /\ pc'[d] = "look"
      /\ calls'[d] = L!PurchasePlan(d.event.user, d.event.session) /\ updates' = updates
      /\ \A e \in Delivery \ {d} : pc'[e] = pc[e] /\ calls'[e] = calls[e] /\ pos'[e] = pos[e]
  BY <1>1, <1>2, <1>4, BeginFacts
<1>6. PlanOf(d)' = PlanOf(d) /\ calls'[d] = PlanOf(d)
  BY <1>5 DEF PlanOf, L!PurchasePlan, L!LedgerCall, L!CheckoutRef
<1>7. at'[d] = "granting"
  BY <1>1, <1>2
<1>8. DeliveryAt(d)'
  BY <1>2, <1>3, <1>5, <1>6, <1>7 DEF DeliveryAt
<1>9. UpdatesAreOwn'
  <2> SUFFICES ASSUME NEW u \in Users, NEW i \in DOMAIN updates[u]
      PROVE  LET e == updates[u][i].by
             IN /\ e.event.user = u
                /\ updates[u][i].ref = L!CheckoutRef(u, e.event.session)
                /\ pc'[e] \in Moved
                /\ \A j \in DOMAIN updates[u] : updates[u][j].by = e => i = j
    BY <1>5 DEF UpdatesAreOwn, UpdatesAt, L!CheckoutRef
  <2>1. UpdatesAt(u)
    BY DEF BillingInv, GrantInv, UpdatesAreOwn
  <2>2. updates[u][i].by \in Delivery
    BY <1>1, UpdateFacts
  <2>3. pc'[updates[u][i].by] = pc[updates[u][i].by]
    BY <1>5, <2>1, <2>2 DEF UpdatesAt, Moved
  <2> QED BY <2>1, <2>3 DEF UpdatesAt
<1> QED BY <1>2, <1>5, <1>8, <1>9, LedgerMove

\* A statement of grantCredits: the account's update, when it comes, is the delivery's
\* first.
LEMMA GrantStepStep ==
  ASSUME BillingInv, NEW d \in Delivery, GrantStep(d)
  PROVE  BillingInv'
<1> DEFINE u == d.event.user
<1>1. /\ BillingTypes /\ LedgerTypes /\ DeliveryAt(d) /\ d.event \in Events
      /\ at \in [Delivery -> Places] /\ u \in Users
  BY OneDelivery
<1>2. /\ at[d] = "granting" /\ at' = at /\ L!Step(d)
      /\ session' = session /\ history' = history /\ emitted' = emitted /\ acked' = acked
      /\ seen' = seen /\ snap' = snap /\ inOrder' = inOrder /\ billing' = billing
      /\ premium' = premium
  BY DEF GrantStep, stripeVars, tableVars, webhookVars
<1>3. Owned(d) /\ pc[d] # "idle" /\ d.event \in seen /\ d.event \in emitted
      /\ PaidEvent(d.event)
  BY <1>1, <1>2 DEF DeliveryAt, Owned, Handling
<1>4. d.event.session \in Sessions
  BY <1>1, <1>3, PaidEventFacts
<1>5. pc[d] \in L!Live /\ calls[d] = PlanOf(d)
  <2>1. pc[d] \in L!Live
    BY <1>2 DEF L!Step, L!LookFound, L!LookMissed, L!ApplyGrant, L!ApplyDebit, L!Refuse,
                L!WriteRow, L!DuplicateRow, L!Abort, L!Live
  <2> QED BY <1>1, <2>1 DEF DeliveryAt
<1>6. /\ LedgerStep(d)
      /\ (updates' = updates /\ pos' = pos /\ pc'[d] # "write") \/ Credited(d, u)
  BY <1>1, <1>2, <1>4, <1>5, StepFacts DEF PlanOf, DeliveryAt
<1>7. /\ updates \in [Users -> Seq(L!Update)] /\ pos \in [Delivery -> Nat]
      /\ pc \in [Delivery -> L!Live \cup {"idle", "done", "refused", "rejected", "failed", "cut"}]
  BY <1>1 DEF LedgerTypes, L!TypeOK
<1>8. PlanOf(d)' = PlanOf(d)
  BY DEF PlanOf, L!PurchasePlan, L!LedgerCall, L!CheckoutRef
<1>9. /\ LedgerTypes' /\ (pc'[d] \in L!Live => calls'[d] = PlanOf(d)) /\ pc'[d] # "idle"
      /\ (pc[d] \in Moved => pc'[d] \in Moved)
      /\ \A e \in Delivery \ {d} : pc'[e] = pc[e] /\ calls'[e] = calls[e] /\ pos'[e] = pos[e]
  BY <1>5, <1>6 DEF LedgerStep, L!Live
<1> HIDE DEF u
<1>10. CASE updates' = updates /\ pos' = pos /\ pc'[d] # "write"
  <2>1. DeliveryAt(d)'
    BY <1>2, <1>3, <1>8, <1>9, <1>10 DEF DeliveryAt
  <2>2. UpdatesAreOwn'
    <3> SUFFICES ASSUME NEW v \in Users, NEW i \in DOMAIN updates[v]
        PROVE  LET e == updates[v][i].by
               IN /\ e.event.user = v
                  /\ updates[v][i].ref = L!CheckoutRef(v, e.event.session)
                  /\ pc'[e] \in Moved
                  /\ \A j \in DOMAIN updates[v] : updates[v][j].by = e => i = j
      BY <1>10 DEF UpdatesAreOwn, UpdatesAt, L!CheckoutRef
    <3>1. UpdatesAt(v)
      BY DEF BillingInv, GrantInv, UpdatesAreOwn
    <3>2. updates[v][i].by \in Delivery
      BY <1>1, UpdateFacts
    <3>3. pc'[updates[v][i].by] \in Moved
      BY <1>9, <3>1, <3>2 DEF UpdatesAt
    <3> QED BY <3>1, <3>3 DEF UpdatesAt
  <2> QED BY <1>1, <1>2, <1>9, <1>10, <2>1, <2>2, LedgerMove
<1>11. CASE Credited(d, u)
  <2>1. pc[d] = "apply" /\ pc'[d] = "write" /\ pos'[d] = Len(updates[u]) + 1
    BY <1>11 DEF Credited
  <2>2. PICK row \in L!Update :
          /\ row.by = d /\ row.ref = PlanOf(d)[1].ref
          /\ updates' = [updates EXCEPT ![u] = Append(updates[u], row)]
    BY <1>11 DEF Credited
  <2>3. row.ref = L!CheckoutRef(u, d.event.session)
    BY <1>1, <1>4, <2>2, PlanFacts DEF PlanOf, u
  <2>4. /\ updates'[u] = Append(updates[u], row) /\ updates[u] \in Seq(L!Update)
        /\ \A v \in Users \ {u} : updates'[v] = updates[v]
    BY <1>1, <1>7, <2>2
  <2>5. /\ Len(updates[u]) \in Nat /\ DOMAIN updates[u] = 1..Len(updates[u])
        /\ DOMAIN updates'[u] = 1..(Len(updates[u]) + 1)
        /\ updates'[u][Len(updates[u]) + 1] = row
        /\ \A i \in 1..Len(updates[u]) : updates'[u][i] = updates[u][i]
    BY <2>4
  <2>6. \A v \in Users : DOMAIN updates[v] \subseteq DOMAIN updates'[v]
    BY <2>4, <2>5
  <2>7. DeliveryAt(d)'
    <3>1. pos'[d] \in DOMAIN updates'[u]
      BY <2>1, <2>5
    <3> QED BY <1>2, <1>3, <1>8, <1>9, <2>1, <3>1 DEF DeliveryAt, u
  <2>8. \A v \in Users : \A i \in DOMAIN updates[v] :
          updates[v][i].by \in Delivery /\ updates[v][i].by # d
    <3> SUFFICES ASSUME NEW v \in Users, NEW i \in DOMAIN updates[v]
        PROVE  updates[v][i].by \in Delivery /\ updates[v][i].by # d
      OBVIOUS
    <3>1. UpdatesAt(v)
      BY DEF BillingInv, GrantInv, UpdatesAreOwn
    <3>2. updates[v][i].by \in Delivery
      BY <1>1, UpdateFacts
    <3> QED BY <2>1, <3>1, <3>2 DEF UpdatesAt, Moved
  <2>9. UpdatesAreOwn'
    <3> SUFFICES ASSUME NEW v \in Users PROVE UpdatesAt(v)'
      BY DEF UpdatesAreOwn
    <3>1. UpdatesAt(v)
      BY DEF BillingInv, GrantInv, UpdatesAreOwn
    <3>2. ASSUME NEW i \in DOMAIN updates[v], updates'[v][i] = updates[v][i]
          PROVE  LET e == updates'[v][i].by
                 IN /\ e.event.user = v
                    /\ updates'[v][i].ref = L!CheckoutRef(v, e.event.session)
                    /\ pc'[e] \in Moved /\ e # d
                    /\ \A j \in DOMAIN updates[v] : updates[v][j].by = e => i = j
      <4>1. pc'[updates[v][i].by] = pc[updates[v][i].by]
        BY <1>9, <2>8
      <4> QED BY <2>8, <3>1, <3>2, <4>1 DEF UpdatesAt
    <3>3. CASE v # u
      BY <2>4, <3>2, <3>3 DEF UpdatesAt, L!CheckoutRef
    <3>4. CASE v = u
      <4> SUFFICES ASSUME NEW i \in DOMAIN updates'[u]
          PROVE  LET e == updates'[u][i].by
                 IN /\ e.event.user = u
                    /\ updates'[u][i].ref = L!CheckoutRef(u, e.event.session)
                    /\ pc'[e] \in Moved
                    /\ \A j \in DOMAIN updates'[u] : updates'[u][j].by = e => i = j
        BY <3>4 DEF UpdatesAt, L!CheckoutRef
      <4>1. CASE i \in DOMAIN updates[u]
        <5>1. \A j \in DOMAIN updates'[u] :
                \/ j \in DOMAIN updates[u] /\ updates'[u][j] = updates[u][j]
                \/ updates'[u][j].by = d
          BY <2>2, <2>5
        <5>2. updates'[u][i] = updates[u][i]
          BY <2>5, <4>1
        <5> QED BY <3>2, <3>4, <4>1, <5>1, <5>2
      <4>2. CASE i = Len(updates[u]) + 1
        <5>1. \A j \in DOMAIN updates'[u] : updates'[u][j].by = d => j = i
          BY <2>5, <2>8, <1>1, <4>2
        <5> QED BY <2>1, <2>2, <2>3, <2>5, <4>2, <5>1 DEF Moved, u
      <4> QED BY <2>5, <4>1, <4>2
    <3> QED BY <3>3, <3>4
  <2>10. at' = [at EXCEPT ![d] = "granting"]
    BY <1>1, <1>2
  <2> QED BY <1>2, <1>9, <2>6, <2>7, <2>9, <2>10, LedgerMove
<1> QED BY <1>6, <1>10, <1>11

-----------------------------------------------------------------------------
(* Stripe's steps. *)

\* Whatever Stripe does, it adds events and states and takes none back.
LEMMA StripeKept ==
  ASSUME BillingInv, BillingTypes', EmittedArePaid', HistoriesAreEmitted',
         webhookVars' = webhookVars, tableVars' = tableVars, ledgerVars' = ledgerVars,
         emitted \subseteq emitted',
         \A u \in Users : /\ Len(history[u]) <= Len(history'[u])
                         /\ \A k \in 1..Len(history[u]) : history'[u][k] = history[u][k]
  PROVE  BillingInv'
<1>1. /\ seen' = seen /\ at' = at /\ snap' = snap /\ inOrder' = inOrder
      /\ billing' = billing /\ premium' = premium
      /\ balance' = balance /\ purchased' = purchased /\ spent' = spent /\ ledger' = ledger
      /\ pc' = pc /\ calls' = calls /\ pos' = pos /\ updates' = updates /\ settled' = settled
  BY DEF webhookVars, tableVars, ledgerVars
<1>2. LedgerTypes'
  <2>1. LedgerTypes
    BY DEF BillingInv, GrantInv
  <2> QED BY <1>1, <2>1 DEF LedgerTypes, L!TypeOK
<1>3. DeliveriesAreSound'
  <2> SUFFICES ASSUME NEW e \in Delivery PROVE DeliveryAt(e)'
    BY DEF DeliveriesAreSound
  <2>1. DeliveryAt(e)
    BY OneDelivery
  <2>2. PlanOf(e)' = PlanOf(e)
    BY DEF PlanOf, L!PurchasePlan, L!LedgerCall, L!CheckoutRef
  <2>3. Owned(e)' <=> Owned(e)
    BY <1>1 DEF Owned
  <2> QED BY <1>1, <2>1, <2>2, <2>3 DEF DeliveryAt
<1>4. OwnedOnce'
  <2>1. OwnedOnce
    BY DEF BillingInv, GrantInv
  <2> QED BY <1>1, <2>1 DEF OwnedOnce, Owned
<1>5. UpdatesAreOwn'
  <2>1. UpdatesAreOwn
    BY DEF BillingInv, GrantInv
  <2> QED BY <1>1, <2>1 DEF UpdatesAreOwn, UpdatesAt
<1>6. \A u \in Users : Len(history[u]) \in Nat /\ Len(history'[u]) \in Nat
  <2>1. BillingTypes
    BY DEF BillingInv, GrantInv
  <2> QED BY <2>1 DEF BillingTypes
<1>7. SnapsAreSound'
  <2> SUFFICES ASSUME NEW e \in Delivery PROVE SnapAt(e)'
    BY DEF SnapsAreSound
  <2>1. SnapAt(e) /\ DeliveryAt(e) /\ EmittedAt(e.event.user) /\ e.event \in Events
        /\ e.event.user \in Users
    BY OneDelivery
  <2>2. ASSUME at[e] # "waiting", e.event.kind = "changed"
        PROVE  history'[e.event.user][e.event.index] = history[e.event.user][e.event.index]
    <3>1. e.event = Changed(e.event.user, e.event.index) /\ e.event.index \in 1..Changes
      BY <2>1, <2>2, EventFacts
    <3>2. e.event \in emitted
      BY <2>1, <2>2 DEF DeliveryAt
    <3>3. e.event.index \in 1..Len(history[e.event.user])
      BY <1>6, <2>1, <3>1, <3>2, StripeAssumption DEF EmittedAt
    <3> QED BY <2>1, <3>3
  <2> QED BY <1>1, <2>1, <2>2 DEF SnapAt
<1>8. AllFollow'
  <2> SUFFICES ASSUME NEW u \in Users, inOrder[u], Unfailed(u)
      PROVE  /\ \A d, e \in Working(u) : d = e
             /\ Working(u) = {} => \E k \in 0..Len(history'[u]) : Shown(u, k)' /\ SeenUpTo(u, k)
             /\ \A d \in Working(u) :
                  /\ snap[d] # None =>
                       \E k \in 0..Len(history'[u]) : snap[d] = StateAt(u, k)' /\ SeenUpTo(u, k)
                  /\ at[d] = "entitle" => billing[u] = snap[d]
    BY <1>1 DEF AllFollow, Follows, Unfailed, Working, Busy, SeenUpTo
  <2>1. Follows(u)
    BY DEF BillingInv, AllFollow
  <2>2. \A k \in 0..Len(history[u]) : k \in 0..Len(history'[u])
    BY <1>6
  <2>3. \A k \in 0..Len(history[u]) : StateAt(u, k)' = StateAt(u, k)
    BY <1>6 DEF StateAt
  <2>4. \A k \in 0..Len(history[u]) : Shown(u, k) => Shown(u, k)'
    BY <1>1, <2>3 DEF Shown
  <2> QED BY <2>1, <2>2, <2>3, <2>4 DEF Follows
<1> QED BY <1>2, <1>3, <1>4, <1>5, <1>7, <1>8 DEF BillingInv, GrantInv

\* A pack event changes neither history nor its events.
LEMMA PackEvent ==
  ASSUME BillingInv, NEW u \in Users, NEW s \in Sessions,
         NEW e \in Events, e = Completed(u, s) \/ e = Async(u, s),
         NEW state \in {"unpaid", "paid"}, state = "unpaid" => s \in Delayed,
         session' = [session EXCEPT ![u][s] = state],
         session[u][s] # "paid",
         PaidEvent(e) => state = "paid",
         emitted' = emitted \cup {e}, history' = history, acked' = acked,
         webhookVars' = webhookVars, tableVars' = tableVars, ledgerVars' = ledgerVars
  PROVE  BillingInv'
<1>1. /\ session \in [Users -> [Sessions -> {"open", "unpaid", "paid"}]]
      /\ BillingTypes /\ EmittedArePaid /\ HistoriesAreEmitted
  BY DEF BillingInv, GrantInv, BillingTypes
<1>2. /\ session' \in [Users -> [Sessions -> {"open", "unpaid", "paid"}]]
      /\ session'[u][s] = state
      /\ \A v \in Users, q \in Sessions :
           (v # u \/ q # s) => session'[v][q] = session[v][q]
  BY <1>1
<1>3. BillingTypes'
  BY <1>1, <1>2 DEF BillingTypes, webhookVars, tableVars
<1>4. EmittedArePaid'
  <2> SUFFICES ASSUME NEW v \in Users, NEW q \in Sessions PROVE PaidAt(v, q)'
    BY DEF EmittedArePaid
  <2>1. PaidAt(v, q)
    BY <1>1 DEF EmittedArePaid
  <2>2. CASE v = u /\ q = s
    BY <1>2, <2>1, <2>2 DEF PaidAt, PaidEvent, Completed, Async
  <2>3. CASE v # u \/ q # s
    BY <1>2, <2>1, <2>3 DEF PaidAt, Completed, Async
  <2> QED BY <2>2, <2>3
<1>5. HistoriesAreEmitted'
  <2>1. \A v \in Users : (Subscribed(v) \in emitted' => Subscribed(v) \in emitted)
          /\ \A i \in 1..Changes : Changed(v, i) \in emitted' <=> Changed(v, i) \in emitted
    BY DEF Subscribed, Changed, Completed, Async
  <2> QED BY <1>1, <2>1 DEF HistoriesAreEmitted, EmittedAt
<1>6. \A v \in Users : Len(history[v]) \in Nat
  BY <1>1 DEF BillingTypes
<1> QED BY <1>3, <1>4, <1>5, <1>6, StripeKept

\* The user completes the hosted page: paid at once, or later if delayed.
LEMMA CompleteSessionStep ==
  ASSUME BillingInv, NEW u \in Users, NEW s \in Sessions, CompleteSession(u, s)
  PROVE  BillingInv'
<1> DEFINE state == IF s \in Delayed THEN "unpaid" ELSE "paid"
<1>1. /\ session[u][s] # "paid" /\ session' = [session EXCEPT ![u][s] = state]
      /\ emitted' = emitted \cup {Completed(u, s)} /\ history' = history /\ acked' = acked
      /\ webhookVars' = webhookVars /\ tableVars' = tableVars /\ ledgerVars' = ledgerVars
  BY DEF CompleteSession
<1>2. Completed(u, s) \in Events /\ (PaidEvent(Completed(u, s)) => state = "paid")
  BY DEF Events, PaidEvent, Completed
<1> QED BY <1>1, <1>2, PackEvent

\* The money of a delayed session arrives.
LEMMA SettleSessionStep ==
  ASSUME BillingInv, NEW u \in Users, NEW s \in Sessions, SettleSession(u, s)
  PROVE  BillingInv'
<1>1. /\ session[u][s] # "paid" /\ session' = [session EXCEPT ![u][s] = "paid"]
      /\ emitted' = emitted \cup {Async(u, s)} /\ history' = history /\ acked' = acked
      /\ webhookVars' = webhookVars /\ tableVars' = tableVars /\ ledgerVars' = ledgerVars
  BY DEF SettleSession
<1>2. s \in Delayed
  BY DEF SettleSession, BillingInv, GrantInv, EmittedArePaid, PaidAt
<1>3. Async(u, s) \in Events
  BY <1>2 DEF Events, Async
<1> QED BY <1>1, <1>3, PackEvent

\* A new state is the history's last, with an event of its own.
LEMMA ChangeSubscriptionStep ==
  ASSUME BillingInv, NEW u \in Users, NEW status \in Statuses, ChangeSubscription(u, status)
  PROVE  BillingInv'
<1> DEFINE i == Len(history[u]) + 1
           new == [status |-> status, until |-> i]
           start == IF i = 1 THEN {Subscribed(u)} ELSE {}
<1>1. /\ i <= Changes /\ history' = [history EXCEPT ![u] = Append(history[u], new)]
      /\ emitted' = emitted \cup {Changed(u, i)} \cup start
      /\ session' = session /\ acked' = acked
      /\ webhookVars' = webhookVars /\ tableVars' = tableVars /\ ledgerVars' = ledgerVars
  BY DEF ChangeSubscription
<1>2. /\ BillingTypes /\ EmittedArePaid /\ HistoriesAreEmitted
      /\ history \in [Users -> Seq(SubState)]
      /\ \A v \in Users : Len(history[v]) \in Nat /\ Len(history[v]) <= Changes
  BY DEF BillingInv, GrantInv, BillingTypes
<1>3. Len(history[u]) \in Nat /\ i \in Nat /\ i \in 1..Changes /\ new \in SubState
      /\ history[u] \in Seq(SubState)
  <2>1. Len(history[u]) \in Nat /\ i \in 1..Changes /\ history[u] \in Seq(SubState)
    BY <1>1, <1>2, StripeAssumption
  <2> QED BY <2>1 DEF SubState
<1>4. start \in {{}, {Subscribed(u)}} /\ (Subscribed(u) \in start => i = 1)
      /\ (Len(history[u]) # 0 => start = {})
  BY <1>3
<1> HIDE DEF new, start
<1>5. /\ history' \in [Users -> Seq(SubState)] /\ history'[u] = Append(history[u], new)
      /\ \A v \in Users \ {u} : history'[v] = history[v]
  BY <1>1, <1>2, <1>3
<1>6. /\ Len(history'[u]) = i
      /\ \A k \in 1..Len(history[u]) : history'[u][k] = history[u][k]
  BY <1>3, <1>5
<1>7. Changed(u, i) \in Events /\ start \subseteq Events
  BY <1>3, <1>4 DEF Events
<1>8. BillingTypes'
  <2>1. emitted' \subseteq Events /\ emitted \subseteq emitted'
    BY <1>1, <1>2, <1>7 DEF BillingTypes
  <2>2. \A v \in Users : Len(history'[v]) <= Changes
    BY <1>1, <1>2, <1>5, <1>6
  <2> QED BY <1>1, <1>2, <1>5, <2>1, <2>2 DEF BillingTypes, webhookVars, tableVars
<1>9. EmittedArePaid'
  <2>1. \A v \in Users, s \in Sessions :
          /\ Completed(v, s) \in emitted' => Completed(v, s) \in emitted
          /\ Async(v, s) \in emitted' => Async(v, s) \in emitted
    BY <1>1, <1>4 DEF Subscribed, Changed, Completed, Async
  <2> QED BY <1>1, <1>2, <2>1 DEF EmittedArePaid, PaidAt
<1>10. HistoriesAreEmitted'
  <2> SUFFICES ASSUME NEW v \in Users PROVE EmittedAt(v)'
    BY DEF HistoriesAreEmitted
  <2>1. EmittedAt(v)
    BY <1>2 DEF HistoriesAreEmitted
  <2>2. \A k \in 1..Changes :
          Changed(v, k) \in emitted' <=> Changed(v, k) \in emitted \/ (v = u /\ k = i)
    BY <1>1, <1>4 DEF Changed, Subscribed
  <2>3. Subscribed(v) \in emitted' => Subscribed(v) \in emitted \/ v = u
    BY <1>1, <1>4 DEF Changed, Subscribed
  <2>4. CASE v = u
    <3>1. \A k \in 1..Changes : k <= i <=> k <= Len(history[u]) \/ k = i
      BY <1>3
    <3> QED BY <1>3, <1>6, <2>1, <2>2, <2>4, <3>1 DEF EmittedAt
  <2>5. CASE v # u
    BY <1>5, <2>1, <2>2, <2>3, <2>5 DEF EmittedAt
  <2> QED BY <2>4, <2>5
<1>11. \A v \in Users : /\ Len(history[v]) <= Len(history'[v])
                        /\ \A k \in 1..Len(history[v]) : history'[v][k] = history[v][k]
  <2>1. Len(history[u]) <= Len(history'[u])
    BY <1>3, <1>6
  <2>2. \A v \in Users \ {u} : Len(history[v]) <= Len(history'[v])
    BY <1>2, <1>5
  <2> QED BY <1>5, <1>6, <2>1, <2>2
<1>12. emitted \subseteq emitted'
  BY <1>1
<1> QED BY <1>1, <1>8, <1>9, <1>10, <1>11, <1>12, StripeKept

-----------------------------------------------------------------------------
(* The invariant, and what follows. *)

\* Nothing has happened: nothing shows, as the empty history says.
LEMMA Initially == Init => BillingInv
<1> SUFFICES ASSUME Init PROVE BillingInv
  OBVIOUS
<1>1. /\ session = [u \in Users |-> [s \in Sessions |-> "open"]]
      /\ history = [u \in Users |-> <<>>]
      /\ emitted = {} /\ acked = {} /\ seen = {}
      /\ at = [d \in Delivery |-> "waiting"]
      /\ snap = [d \in Delivery |-> None]
      /\ billing = [u \in Users |-> None]
      /\ premium = [u \in Users |-> [active |-> FALSE, until |-> 0]]
      /\ inOrder = [u \in Users |-> TRUE]
  BY DEF Init
<1>2. /\ balance = [u \in Users |-> 0] /\ purchased = [u \in Users |-> 0]
      /\ spent = [u \in Users |-> 0] /\ ledger = {}
      /\ pc = [r \in Delivery |-> "idle"] /\ calls = [r \in Delivery |-> <<>>]
      /\ pos = [r \in Delivery |-> 0] /\ updates = [u \in Users |-> <<>>]
      /\ settled = [r \in Delivery |-> {}]
  BY DEF Init, L!Init
<1>3. BillingTypes
  BY <1>1, StripeAssumption DEF BillingTypes, Places
<1>4. LedgerTypes
  BY <1>2 DEF LedgerTypes, L!TypeOK
<1>5. DeliveriesAreSound /\ OwnedOnce
  BY <1>1, <1>2 DEF DeliveriesAreSound, DeliveryAt, OwnedOnce, Owned, Handling, L!Live
<1>6. UpdatesAreOwn
  BY <1>2 DEF UpdatesAreOwn, UpdatesAt
<1>7. EmittedArePaid
  BY <1>1 DEF EmittedArePaid, PaidAt
<1>8. SnapsAreSound
  BY <1>1 DEF SnapsAreSound, SnapAt
<1>9. HistoriesAreEmitted
  BY <1>1 DEF HistoriesAreEmitted, EmittedAt
<1>10. AllFollow
  <2> SUFFICES ASSUME NEW u \in Users PROVE Follows(u)
    BY DEF AllFollow
  <2>1. Working(u) = {}
    BY <1>1 DEF Working, Busy
  <2>2. Shown(u, 0) /\ SeenUpTo(u, 0)
    BY <1>1 DEF Shown, StateAt, SeenUpTo, None, Entitled
  <2>3. 0 \in 0..Len(history[u])
    BY <1>1
  <2> QED BY <2>1, <2>2, <2>3 DEF Follows
<1> QED BY <1>3, <1>4, <1>5, <1>6, <1>7, <1>8, <1>9, <1>10 DEF BillingInv, GrantInv

\* A step that changes nothing keeps the invariant.
LEMMA Stuttering ==
  ASSUME BillingInv, UNCHANGED vars
  PROVE  BillingInv'
<1>1. /\ webhookVars' = webhookVars /\ tableVars' = tableVars /\ ledgerVars' = ledgerVars
      /\ session' = session /\ history' = history /\ emitted' = emitted /\ acked' = acked
  BY DEF vars, stripeVars
<1>2. BillingTypes /\ EmittedArePaid /\ HistoriesAreEmitted
  BY DEF BillingInv, GrantInv
<1>3. BillingTypes' /\ EmittedArePaid' /\ HistoriesAreEmitted'
  BY <1>1, <1>2 DEF BillingTypes, EmittedArePaid, PaidAt, HistoriesAreEmitted, EmittedAt,
                    webhookVars, tableVars
<1>4. \A v \in Users : Len(history[v]) \in Nat
  BY <1>2 DEF BillingTypes
<1> QED BY <1>1, <1>3, <1>4, StripeKept

\* Every step keeps the invariant.
LEMMA Inductive == BillingInv /\ [Next]_vars => BillingInv'
<1> SUFFICES ASSUME BillingInv, [Next]_vars PROVE BillingInv'
  OBVIOUS
<1>1. CASE UNCHANGED vars
  BY <1>1, Stuttering
<1>2. ASSUME StripeStep PROVE BillingInv'
  BY <1>2, CompleteSessionStep, SettleSessionStep, ChangeSubscriptionStep DEF StripeStep
<1>3. ASSUME NEW d \in Delivery, Deliver(d) \/ Handle(d) PROVE BillingInv'
  <2>1. CASE Deliver(d)
    BY <2>1, DeliverStep
  <2>2. CASE MarkDuplicate(d) \/ MarkFresh(d)
    BY <2>2, MarkDuplicateStep, MarkFreshStep
  <2>3. CASE SaveCustomer(d) \/ StartGrant(d) \/ GrantStep(d) \/ Granted(d)
    BY <2>3, SaveCustomerStep, StartGrantStep, GrantStepStep, GrantedStep
  <2>4. CASE Retrieve(d) \/ WriteAccount(d) \/ WriteEntitlement(d)
    BY <2>4, RetrieveStep, WriteAccountStep, WriteEntitlementStep
  <2>5. CASE Respond(d) \/ Fail(d)
    BY <2>5, RespondStep, FailStep
  <2> QED BY <1>3, <2>1, <2>2, <2>3, <2>4, <2>5 DEF Handle
<1> QED BY <1>1, <1>2, <1>3 DEF Next

\* The strengthening of the properties below holds throughout every behaviour.
THEOREM Invariance == Spec => []BillingInv
<1>1. BillingInv /\ [Next]_vars => BillingInv'
  BY Inductive
<1> QED BY Initially, <1>1, PTL DEF Spec

\* The types of every table and of the ledger's statements hold for any instance, and a
\* grant's statements run only while its delivery waits for them.
THEOREM BillingTypesHold == Spec => []TypeOK
<1>1. BillingInv => TypeOK
  BY DEF BillingInv, GrantInv, BillingTypes, LedgerTypes, DeliveriesAreSound, DeliveryAt,
         TypeOK, Places
<1> QED BY <1>1, Invariance, PTL

\* An update under a session's reference is made by a delivery of the session's one paid
\* event.
LEMMA CreditFacts ==
  ASSUME BillingInv, NEW u \in Users, NEW s \in Sessions, NEW i \in CreditsOf(u, s)
  PROVE  LET d == updates[u][i].by
         IN /\ d \in Delivery /\ d.event \in Events /\ d.event \in seen /\ Owned(d)
            /\ PaidEvent(d.event) /\ d.event.user = u /\ d.event.session = s
            /\ i \in DOMAIN updates[u]
            /\ \A j \in DOMAIN updates[u] : updates[u][j].by = d => i = j
<1> DEFINE d == updates[u][i].by
<1>1. i \in DOMAIN updates[u] /\ updates[u][i].ref = L!CheckoutRef(u, s)
  BY DEF CreditsOf
<1>2. d \in Delivery
  BY <1>1, UpdateFacts DEF BillingInv, GrantInv
<1>3. /\ d.event.user = u
      /\ updates[u][i].ref = L!CheckoutRef(u, d.event.session)
      /\ pc[d] \in Moved
      /\ \A j \in DOMAIN updates[u] : updates[u][j].by = d => i = j
  BY <1>1 DEF BillingInv, GrantInv, UpdatesAreOwn, UpdatesAt
<1> HIDE DEF d
<1>4. d.event.session = s
  BY <1>1, <1>3 DEF L!CheckoutRef
<1>5. pc[d] # "idle" /\ DeliveryAt(d) /\ d.event \in Events
  BY <1>2, <1>3, OneDelivery DEF Moved
<1>6. Owned(d) /\ d.event \in seen /\ PaidEvent(d.event)
  BY <1>5 DEF DeliveryAt, Owned
<1> QED BY <1>1, <1>2, <1>3, <1>4, <1>5, <1>6 DEF d

\* Of all the deliveries of all a session's events, at most one moves the balance under
\* the session's reference, however they interleave and wherever they die.
THEOREM SessionsAreCreditedOnce == Spec => []CreditedAtMostOnce
<1>1. ASSUME BillingInv, NEW u \in Users, NEW s \in Sessions
      PROVE  Cardinality(CreditsOf(u, s)) <= 1
  <2>1. \A i, j \in CreditsOf(u, s) : i = j
    <3> SUFFICES ASSUME NEW i \in CreditsOf(u, s), NEW j \in CreditsOf(u, s) PROVE i = j
      OBVIOUS
    <3>1. updates[u][i].by.event = updates[u][j].by.event
      BY <1>1, CreditFacts, PaidEventIsOne
    <3>2. updates[u][i].by = updates[u][j].by
      BY <1>1, <3>1, CreditFacts DEF BillingInv, GrantInv, OwnedOnce
    <3> QED BY <1>1, <3>2, CreditFacts
  <2>2. CASE CreditsOf(u, s) = {}
    BY <2>2, FS_EmptySet
  <2>3. CASE CreditsOf(u, s) # {}
    <3>1. PICK i \in CreditsOf(u, s) : TRUE
      BY <2>3
    <3>2. CreditsOf(u, s) = {i}
      BY <2>1, <3>1
    <3> QED BY <3>2, FS_Singleton
  <2> QED BY <2>2, <2>3
<1>2. BillingInv => CreditedAtMostOnce
  BY <1>1 DEF CreditedAtMostOnce
<1> QED BY <1>2, Invariance, PTL

\* Credits follow money: an update under a session's reference exists only once Stripe
\* has the session's payment.
THEOREM CreditsArePaid == Spec => []CreditedOnlyIfPaid
<1>1. ASSUME BillingInv, NEW u \in Users, NEW s \in Sessions, CreditsOf(u, s) # {}
      PROVE  session[u][s] = "paid"
  <2>1. PICK i \in CreditsOf(u, s) : TRUE
    BY <1>1
  <2>2. PICK e \in Events : /\ e \in seen /\ PaidEvent(e) /\ e.user = u /\ e.session = s
    BY <1>1, <2>1, CreditFacts
  <2>3. e \in emitted
    BY <1>1, <2>2 DEF BillingInv, GrantInv, BillingTypes
  <2>4. (e = Completed(u, s) /\ s \notin Delayed) \/ e = Async(u, s)
    BY <2>2, EventFacts DEF PaidEvent
  <2> QED BY <1>1, <2>3, <2>4 DEF BillingInv, GrantInv, EmittedArePaid, PaidAt
<1>2. BillingInv => CreditedOnlyIfPaid
  BY <1>1 DEF CreditedOnlyIfPaid
<1> QED BY <1>2, Invariance, PTL

\* When all of a user's subscription events have been marked, in order, and none was
\* lost or is being worked on, both tables show the subscription's present state.
THEOREM EntitlementIsCurrent == Spec => []EntitlementFollowsStripe
<1>1. ASSUME BillingInv, NEW u \in Users,
             NEW mine, mine = {e \in emitted : e.user = u /\ e.kind \in {"subscribed", "changed"}},
             mine # {}, mine \subseteq seen, inOrder[u], Busy(u) = {}, \A e \in mine : ~ Lost(e)
      PROVE  /\ billing[u] = Now(u)
             /\ premium[u] = [active |-> Entitled(Now(u).status), until |-> Now(u).until]
  <2>1. BillingTypes /\ Follows(u) /\ EmittedAt(u)
    BY <1>1 DEF BillingInv, GrantInv, AllFollow, HistoriesAreEmitted
  <2>2. Len(history[u]) \in Nat /\ Len(history[u]) <= Changes
    BY <2>1 DEF BillingTypes
  <2>3. Len(history[u]) # 0
    <3>1. PICK e \in mine : TRUE
      BY <1>1
    <3>2. e \in emitted /\ e.user = u /\ e.kind \in {"subscribed", "changed"} /\ e \in Events
      BY <1>1, <3>1, <2>1 DEF BillingTypes
    <3>3. e = Subscribed(u) \/ (e = Changed(u, e.index) /\ e.index \in 1..Changes)
      BY <3>2, EventFacts
    <3> QED BY <2>1, <2>2, <3>2, <3>3, StripeAssumption DEF EmittedAt
  <2>4. Unfailed(u)
    <3> SUFFICES ASSUME NEW d \in Delivery, d.event.user = u, Sub(d.event), at[d] = "failed"
                 PROVE  FALSE
      BY DEF Unfailed
    <3>1. d.event \in emitted
      BY <1>1, OneDelivery DEF DeliveryAt
    <3>2. d.event \in mine
      BY <1>1, <3>1 DEF Sub
    <3> QED BY <1>1, <3>2 DEF Lost
  <2>5. PICK k \in 0..Len(history[u]) : Shown(u, k) /\ SeenUpTo(u, k)
    <3>1. Working(u) = {}
      BY <1>1 DEF Working
    <3> QED BY <1>1, <2>1, <2>4, <3>1 DEF Follows
  <2>6. Len(history[u]) <= k
    <3>1. Len(history[u]) \in 1..Changes
      BY <2>2, <2>3, StripeAssumption
    <3>2. Changed(u, Len(history[u])) \in emitted
      BY <2>1, <2>2, <3>1 DEF EmittedAt
    <3>3. Changed(u, Len(history[u])) \in mine
      BY <1>1, <3>2 DEF Changed
    <3> QED BY <1>1, <2>5, <3>1, <3>3 DEF SeenUpTo
  <2>7. k = Len(history[u])
    BY <2>2, <2>5, <2>6
  <2> QED BY <2>3, <2>5, <2>7 DEF Shown, StateAt, Now
<1>2. BillingInv => EntitlementFollowsStripe
  BY <1>1 DEF EntitlementFollowsStripe
<1> QED BY <1>2, Invariance, PTL
=============================================================================
