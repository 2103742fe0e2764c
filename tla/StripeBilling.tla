--------------------------- MODULE StripeBilling ---------------------------
(***************************************************************************)
(* Payment closure: Stripe settles a checkout session or changes a         *)
(* subscription, emits events, and delivers each event to                  *)
(* app/api/stripe/webhook/route.ts until it gets a 2xx -- possibly more    *)
(* than once, concurrently and in any order.  The handler first inserts    *)
(* the event id into rmf_stripe_events and only then does the work: the    *)
(* credit grant of CreditLedger, or the two upserts of                     *)
(* setSubscriptionState.  Every statement is a step; a handler may die or  *)
(* throw after any of them.                                                *)
(*                                                                         *)
(* Sessions and subscriptions are created by this server with              *)
(* client_reference_id and metadata.rmf_user_id set, so the handler always *)
(* knows the user; a user has one Stripe customer.                         *)
(***************************************************************************)
EXTENDS Integers, Sequences, FiniteSets

CONSTANTS Users, Sessions, OperatorRefs,
          SignupCredits, PackCredits, Cost, OperatorAmount,
          Delayed,      \* the sessions whose payment method settles later
          Changes,      \* bound: states a user's subscription goes through at Stripe
          Attempts      \* bound: times Stripe delivers one event

ASSUME StripeAssumption ==
  /\ PackCredits \in Nat \ {0}
  /\ Delayed \subseteq Sessions
  /\ Changes \in Nat
  /\ Attempts \in Nat \ {0}

VARIABLES session,      \* Stripe: state of a user's checkout session
          history,      \* Stripe: the states a user's subscription went through
          emitted,      \* Stripe: events created
          acked,        \* Stripe: events answered with a 2xx
          seen,         \* rmf_stripe_events
          at,           \* the step a delivery is at
          snap,         \* the subscription object a delivery works on
          linked,       \* rmf_billing_accounts: the users whose customer id is saved
          billing,      \* rmf_billing_accounts: status and period end
          premium,      \* rmf_entitlements, feature premium
          inOrder,      \* history: a user's subscription events were handled one by
                        \* one, in Stripe's order
          balance, purchased, spent, ledger, pc, calls, pos, updates, settled

Completed(u, s) == [kind |-> "completed", user |-> u, session |-> s]
Async(u, s) == [kind |-> "async", user |-> u, session |-> s]
Subscribed(u) == [kind |-> "subscribed", user |-> u]
Changed(u, i) == [kind |-> "changed", user |-> u, index |-> i]
Events ==
  {Completed(u, s) : u \in Users, s \in Sessions}
    \cup {Async(u, s) : u \in Users, s \in Delayed}
    \cup {Subscribed(u) : u \in Users}
    \cup {Changed(u, i) : u \in Users, i \in 1..Changes}

Delivery == [event : Events, attempt : 1..Attempts]

L == INSTANCE CreditLedger WITH Requests <- Delivery

stripeVars == <<session, history, emitted, acked>>
webhookVars == <<seen, at, snap, inOrder>>
tableVars == <<linked, billing, premium>>
ledgerVars == <<balance, purchased, spent, ledger, pc, calls, pos, updates, settled>>
vars == <<stripeVars, webhookVars, tableVars, ledgerVars>>

None == [status |-> "none", until |-> 0]
Statuses == {"active", "canceled"}
Entitled(status) == status = "active"
Now(u) == history[u][Len(history[u])]

\* Mutants: payment_status is not looked at; the asynchronous event is not handled.
CompletedIsPaid(e) == e.kind \in {"completed", "async"}
PaidAtOnceOnly(e) == e.kind = "completed" /\ e.session \notin Delayed

\* The payload of a pack event is fixed when Stripe creates it: completion of a
\* delayed session carries payment_status "unpaid".
PaidEvent(e) ==
  \/ e.kind = "completed" /\ e.session \notin Delayed
  \/ e.kind = "async"

-----------------------------------------------------------------------------
Init ==
  /\ session = [u \in Users |-> [s \in Sessions |-> "open"]]
  /\ history = [u \in Users |-> <<>>]
  /\ emitted = {} /\ acked = {} /\ seen = {}
  /\ at = [d \in Delivery |-> "waiting"]
  /\ snap = [d \in Delivery |-> None]
  /\ linked = {}
  /\ billing = [u \in Users |-> None]
  /\ premium = [u \in Users |-> [active |-> FALSE, until |-> 0]]
  /\ inOrder = [u \in Users |-> TRUE]
  /\ L!Init

-----------------------------------------------------------------------------
\* Stripe.

\* The user finishes the hosted checkout page of a credit pack.
CompleteSession(u, s) ==
  /\ session[u][s] = "open"
  /\ session' = [session EXCEPT ![u][s] = IF s \in Delayed THEN "unpaid" ELSE "paid"]
  /\ emitted' = emitted \cup {Completed(u, s)}
  /\ UNCHANGED <<history, acked, webhookVars, tableVars, ledgerVars>>

SettleSession(u, s) ==
  /\ session[u][s] = "unpaid"
  /\ session' = [session EXCEPT ![u][s] = "paid"]
  /\ emitted' = emitted \cup {Async(u, s)}
  /\ UNCHANGED <<history, acked, webhookVars, tableVars, ledgerVars>>

\* A subscription is created, renewed or canceled; its first state also completes
\* the subscription checkout.
ChangeSubscription(u, status) ==
  LET i == Len(history[u]) + 1
  IN /\ i <= Changes
     /\ i = 1 => status = "active"
     /\ history' = [history EXCEPT ![u] = Append(@, [status |-> status, until |-> i])]
     /\ emitted' = emitted \cup {Changed(u, i)} \cup (IF i = 1 THEN {Subscribed(u)} ELSE {})
     /\ UNCHANGED <<session, acked, webhookVars, tableVars, ledgerVars>>

\* Stripe may send an event again although it was answered.
Deliver(d) ==
  /\ at[d] = "waiting"
  /\ d.event \in emitted
  /\ \A e \in Delivery : e.event = d.event /\ e.attempt < d.attempt => at[e] # "waiting"
  /\ at' = [at EXCEPT ![d] = "mark"]
  /\ UNCHANGED <<stripeVars, seen, snap, inOrder, tableVars, ledgerVars>>

-----------------------------------------------------------------------------
\* The webhook handler.

Answer(d) ==
  /\ acked' = acked \cup {d.event}
  /\ UNCHANGED <<session, history, emitted>>

\* on conflict do nothing ... returning: not fresh, so answer duplicate: true.
MarkDuplicate(d) ==
  /\ at[d] = "mark"
  /\ d.event \in seen
  /\ at' = [at EXCEPT ![d] = "answered"]
  /\ Answer(d)
  /\ UNCHANGED <<seen, snap, inOrder, tableVars, ledgerVars>>

\* Subscription events of u being worked on, and those u's history puts after e.
Busy(u) == {d \in Delivery : d.event.user = u /\ at[d] \in {"customer", "retrieve", "account", "entitle"}}
Later(e) == {f \in seen : /\ f.user = e.user
                          /\ {e.kind, f.kind} = {"changed"}
                          /\ f.index > e.index}

\* Mutant: the event id is inserted whether or not it is there.
MarkAlways(d) ==
  /\ at[d] = "mark"
  /\ seen' = seen \cup {d.event}
  /\ at' = [at EXCEPT ![d] = "customer"]
  /\ snap' = [snap EXCEPT ![d] =
       IF d.event.kind = "changed" THEN history[d.event.user][d.event.index] ELSE @]
  /\ UNCHANGED <<inOrder, stripeVars, tableVars, ledgerVars>>

\* on conflict do nothing ... returning: fresh, so the work is this delivery's.
MarkFresh(d) ==
  /\ at[d] = "mark"
  /\ d.event \notin seen
  /\ seen' = seen \cup {d.event}
  /\ at' = [at EXCEPT ![d] = "customer"]
  /\ snap' = [snap EXCEPT ![d] =
       IF d.event.kind = "changed" THEN history[d.event.user][d.event.index] ELSE @]
  /\ inOrder' = [inOrder EXCEPT ![d.event.user] =
       @ /\ (d.event.kind \in {"subscribed", "changed"} =>
              Busy(d.event.user) = {} /\ Later(d.event) = {})]
  /\ UNCHANGED <<stripeVars, tableVars, ledgerVars>>

\* What a fresh event leads to once the customer id is saved; a subscription
\* checkout saves it again with the object it retrieves.
Work(d) ==
  CASE d.event.kind \in {"completed", "async"} -> IF PaidEvent(d.event) THEN "grant" ELSE "answer"
    [] d.event.kind = "subscribed" -> IF snap[d] = None THEN "retrieve" ELSE "account"
    [] d.event.kind = "changed" -> "account"

SaveCustomer(d) ==
  /\ at[d] = "customer"
  /\ linked' = linked \cup {d.event.user}
  /\ at' = [at EXCEPT ![d] = Work(d)]
  /\ UNCHANGED <<stripeVars, seen, snap, inOrder, billing, premium, ledgerVars>>

\* grantCredits(userId, credits, `stripe_checkout:${session.id}`).
StartGrant(d) ==
  /\ at[d] = "grant"
  /\ L!Begin(d, L!PurchasePlan(d.event.user, d.event.session))
  /\ at' = [at EXCEPT ![d] = "granting"]
  /\ UNCHANGED <<stripeVars, seen, snap, inOrder, tableVars>>

GrantStep(d) ==
  /\ at[d] = "granting"
  /\ L!Step(d)
  /\ UNCHANGED <<stripeVars, webhookVars, tableVars>>

Granted(d) ==
  /\ at[d] = "granting"
  /\ pc[d] = "done"
  /\ at' = [at EXCEPT ![d] = "answer"]
  /\ UNCHANGED <<stripeVars, seen, snap, inOrder, tableVars, ledgerVars>>

\* stripe().subscriptions.retrieve: the state at the time of the call.
Retrieve(d) ==
  /\ at[d] = "retrieve"
  /\ snap' = [snap EXCEPT ![d] = Now(d.event.user)]
  /\ at' = [at EXCEPT ![d] = "customer"]
  /\ UNCHANGED <<stripeVars, seen, inOrder, tableVars, ledgerVars>>

\* setSubscriptionState, first upsert: status and period are overwritten.
WriteAccount(d) ==
  /\ at[d] = "account"
  /\ billing' = [billing EXCEPT ![d.event.user] = snap[d]]
  /\ at' = [at EXCEPT ![d] = "entitle"]
  /\ UNCHANGED <<stripeVars, seen, snap, inOrder, linked, premium, ledgerVars>>

\* Mutant: the entitlement is only ever switched on.
EntitleOnly(d) ==
  /\ at[d] = "entitle"
  /\ premium' = [premium EXCEPT ![d.event.user] =
       [active |-> @.active \/ Entitled(snap[d].status), until |-> snap[d].until]]
  /\ at' = [at EXCEPT ![d] = "answer"]
  /\ UNCHANGED <<stripeVars, seen, snap, inOrder, linked, billing, ledgerVars>>

\* Second upsert: active and expires_at of the same object.
WriteEntitlement(d) ==
  /\ at[d] = "entitle"
  /\ premium' = [premium EXCEPT ![d.event.user] =
       [active |-> Entitled(snap[d].status), until |-> snap[d].until]]
  /\ at' = [at EXCEPT ![d] = "answer"]
  /\ UNCHANGED <<stripeVars, seen, snap, inOrder, linked, billing, ledgerVars>>

Respond(d) ==
  /\ at[d] = "answer"
  /\ at' = [at EXCEPT ![d] = "answered"]
  /\ Answer(d)
  /\ UNCHANGED <<seen, snap, inOrder, tableVars, ledgerVars>>

\* Mutant: the grant is not awaited.
FailBeforeGrant(d) ==
  /\ at[d] \notin {"waiting", "answered", "unmarked", "failed"}
  /\ at' = [at EXCEPT ![d] = IF @ = "mark" THEN "unmarked" ELSE "failed"]
  /\ UNCHANGED <<stripeVars, seen, snap, inOrder, tableVars, ledgerVars>>

\* A statement or the Stripe call throws (500), or the isolate dies: no 2xx.
\* What was written, the mark included, stays.
Fail(d) ==
  /\ \/ at[d] \in {"mark", "customer", "grant", "retrieve", "account", "entitle", "answer"}
     \/ at[d] = "granting" /\ pc[d] \in {"failed", "cut", "rejected"}
  /\ at' = [at EXCEPT ![d] = IF @ = "mark" THEN "unmarked" ELSE "failed"]
  /\ UNCHANGED <<stripeVars, seen, snap, inOrder, tableVars, ledgerVars>>

-----------------------------------------------------------------------------
StripeStep ==
  \E u \in Users :
    \/ \E s \in Sessions : CompleteSession(u, s) \/ SettleSession(u, s)
    \/ \E status \in Statuses : ChangeSubscription(u, status)

Handle(d) ==
  \/ MarkDuplicate(d)
  \/ MarkFresh(d)
  \/ SaveCustomer(d)
  \/ StartGrant(d)
  \/ GrantStep(d)
  \/ Granted(d)
  \/ Retrieve(d)
  \/ WriteAccount(d)
  \/ WriteEntitlement(d)
  \/ Respond(d)
  \/ Fail(d)

Next == StripeStep \/ \E d \in Delivery : Deliver(d) \/ Handle(d)

\* Stripe redelivers an event that has no 2xx yet, and a handler that is running
\* takes its next step; nothing obliges Stripe to repeat an answered event.
Fairness ==
  \A d \in Delivery :
    /\ WF_vars(Deliver(d) /\ d.event \notin acked)
    /\ WF_vars(Handle(d))

Spec == Init /\ [][Next]_vars /\ Fairness

-----------------------------------------------------------------------------
CreditsOf(u, s) == {i \in DOMAIN updates[u] : updates[u][i].ref = L!CheckoutRef(u, s)}

\* Types; a grant's statements run only while its delivery waits for them.
TypeOK ==
  /\ session \in [Users -> [Sessions -> {"open", "unpaid", "paid"}]]
  /\ acked \subseteq emitted /\ seen \subseteq emitted /\ emitted \subseteq Events
  /\ at \in [Delivery -> {"waiting", "mark", "customer", "grant", "granting", "retrieve", "account",
                          "entitle", "answer", "answered", "unmarked", "failed"}]
  /\ L!TypeOK
  /\ \A d \in Delivery : pc[d] \in L!Live => at[d] = "granting"

\* However often, and however concurrently, its events are delivered, and wherever
\* handlers die, a checkout session moves its user's balance at most once.
CreditedAtMostOnce ==
  \A u \in Users, s \in Sessions : Cardinality(CreditsOf(u, s)) <= 1

\* Credits are granted only for money Stripe has: never for a completed checkout
\* whose payment is still pending.
CreditedOnlyIfPaid ==
  \A u \in Users, s \in Sessions : CreditsOf(u, s) # {} => session[u][s] = "paid"

\* A delivery of e died after its mark, or every delivery died before it.
Lost(e) ==
  \/ \E d \in Delivery : d.event = e /\ at[d] = "failed"
  \/ \A d \in Delivery : d.event = e => at[d] = "unmarked"

\* Once a user's subscription events have all been handled, one by one, in Stripe's
\* order and none was lost, both tables show the subscription as it is now: a
\* cancellation ends the entitlement, whichever of the events brought it.
EntitlementFollowsStripe ==
  \A u \in Users :
    LET mine == {e \in emitted : e.user = u /\ e.kind \in {"subscribed", "changed"}}
    IN mine # {} /\ mine \subseteq seen /\ inOrder[u] /\ Busy(u) = {}
         /\ (\A e \in mine : ~Lost(e))
       => /\ billing[u] = Now(u)
          /\ premium[u] = [active |-> Entitled(Now(u).status), until |-> Now(u).until]

\* Money is not lost in transit: a paid pack is credited, unless a delivery of its
\* event died after the mark, or every delivery died before it.
PaidIsCreditedUnlessLost ==
  \A u \in Users, s \in Sessions :
    session[u][s] = "paid" ~>
      (CreditsOf(u, s) # {} \/ Lost(IF s \in Delayed THEN Async(u, s) ELSE Completed(u, s)))

\* STRIPE_BILLING_CONTEXT.md, "Payment closure": checkout -> verified webhook ->
\* durable ledger -> balance.  The code does not keep it: the mark survives a
\* handler that dies, and turns every redelivery into a duplicate.
PaidIsCredited ==
  \A u \in Users, s \in Sessions : session[u][s] = "paid" ~> CreditsOf(u, s) # {}
=============================================================================
