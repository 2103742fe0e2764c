----------------------------- MODULE Checkout ------------------------------
(***************************************************************************)
(* How a user comes to a Stripe customer and to premium: the subscription  *)
(* checkout (app/api/billing/checkout), the credit checkouts               *)
(* (app/api/billing/credits/checkout and lib/creditCheckout.ts, which MCP  *)
(* calls), the portal and getEntitlements, with the webhook's writes to    *)
(* the same two rows.  Each statement and each call of Stripe is a step;   *)
(* requests of one user overlap, and any of them may stop anywhere.        *)
(*                                                                         *)
(* StripeBilling looks closely at the delivery of the events; here an      *)
(* event is handled once, or given up half-way, and a subscription that is *)
(* live has not reached the end of its period.                             *)
(***************************************************************************)
EXTENDS Integers, Sequences, FiniteSets

LOCAL L == INSTANCE SequencesExt

CONSTANTS Queue,    \* requests of one user in the order they begin; each names what
                    \* it creates
          Wants,    \* what each may ask for
          NoOne,    \* no customer
          MaxStops, \* bound: requests and handlers that stop half-way
          MaxHands, \* bound: events handled at a time
          MaxPaid,  \* bound: sessions paid
          MaxOver   \* bound: subscriptions that end

Buyers == L!ToSet(Queue)

ASSUME CheckoutAssumption ==
  /\ NoOne \notin Buyers /\ MaxStops \in Nat /\ MaxHands \in Nat
  /\ MaxPaid \in Nat /\ MaxOver \in Nat
  /\ \A b \in Buyers : Wants[b] \subseteq {"premium", "pack", "portal"}

VARIABLES want,      \* the route a request invoked
          spot,      \* the statement it is at
          holds,     \* the customer it works with
          customer,  \* rmf_billing_accounts: stripe_customer_id of the user's row
          premium,   \* rmf_entitlements: the premium feature is active
          customers, \* Stripe's customers, by the request that made them
          sold,      \* Stripe's checkout sessions: none, open or paid
          owned,     \* the customer of each session
          subs,      \* Stripe's subscriptions, by the request whose session it was
          news,      \* per event: none, sent, the handler's next statement, done or lost
          carries,   \* the subscription status a handler holds
          stops,
          previous,  \* history: makers of customers that had ended when one began
          unsaved,   \* history: requests that stopped before they saved their customer
          doubled    \* history: subscriptions live and handled when premium was not seen,
                     \* until the next statement

checkoutReqVars == <<want, spot, holds, unsaved, previous>>
stripeVars == <<customers, sold, owned, subs>>
rowVars == <<customer, premium>>
checkoutVars == <<checkoutReqVars, stripeVars, rowVars, news, carries, stops, doubled>>

Events == {"paid", "live", "over"} \X Buyers

-----------------------------------------------------------------------------
CheckoutInit ==
  /\ want = [b \in Buyers |-> "none"] /\ spot = [b \in Buyers |-> "idle"]
  /\ holds = [b \in Buyers |-> NoOne]
  /\ customer = NoOne /\ premium = FALSE
  /\ customers = {} /\ sold = [b \in Buyers |-> "none"] /\ owned = [b \in Buyers |-> NoOne]
  /\ subs = [b \in Buyers |-> "none"]
  /\ news = [e \in Events |-> "none"] /\ carries = [e \in Events |-> "none"]
  /\ stops = 0
  /\ previous = [b \in Buyers |-> {}] /\ unsaved = {}
  /\ doubled = [b \in Buyers |-> {}]

Reach(b, s) == spot' = [spot EXCEPT ![b] = s]
Depart(b) == Reach(b, "done") /\ holds' = [holds EXCEPT ![b] = NoOne]

\* A signed-in user; Stripe is configured.
Shop(b, what) ==
  /\ spot[b] = "idle"
  /\ \E i \in DOMAIN Queue : Queue[i] = b /\ \A j \in 1..(i - 1) : spot[Queue[j]] # "idle"
  /\ want' = [want EXCEPT ![b] = what]
  /\ previous' = [previous EXCEPT ![b] = {q \in customers : spot[q] = "done"}]
  /\ Reach(b, IF what = "premium" THEN "entitlements" ELSE "account")
  /\ UNCHANGED <<holds, unsaved, stripeVars, rowVars, news, carries, stops, doubled>>

\* Subscriptions Stripe has live and whose events have all been handled.
Settled == {s \in Buyers : subs[s] = "active" /\ \A e \in Events : e[2] = s => news[e] \in {"none", "done"}}

\* Mutant: the answer of getEntitlements is not looked at.
LookAway(b) ==
  /\ spot[b] = "entitlements"
  /\ Reach(b, "account")
  /\ doubled' = [doubled EXCEPT ![b] = Settled]
  /\ UNCHANGED <<want, holds, unsaved, previous, stripeVars, rowVars, news, carries, stops>>

\* getEntitlements: a user who has premium is not sold it again (409).
LookUp(b) ==
  /\ spot[b] = "entitlements"
  /\ Reach(b, IF premium THEN "done" ELSE "account")
  /\ doubled' = [doubled EXCEPT ![b] = IF premium THEN {} ELSE Settled]
  /\ UNCHANGED <<want, holds, unsaved, previous, stripeVars, rowVars, news, carries, stops>>

\* Mutant: the customer on record is not looked for.
ReadNothing(b) ==
  /\ spot[b] = "account"
  /\ Reach(b, "create")
  /\ doubled' = [doubled EXCEPT ![b] = {}]
  /\ UNCHANGED <<want, holds, unsaved, previous, stripeVars, rowVars, news, carries, stops>>

\* billingAccount; there is no portal without a customer (404).
ReadAccount(b) ==
  /\ spot[b] = "account"
  /\ holds' = [holds EXCEPT ![b] = customer]
  /\ Reach(b, IF customer # NoOne THEN "session" ELSE IF want[b] = "portal" THEN "done" ELSE "create")
  /\ doubled' = [doubled EXCEPT ![b] = {}]
  /\ UNCHANGED <<want, unsaved, previous, stripeVars, rowVars, news, carries, stops>>

\* customers.create ...
CreateCustomer(b) ==
  /\ spot[b] = "create"
  /\ customers' = customers \cup {b}
  /\ holds' = [holds EXCEPT ![b] = b]
  /\ Reach(b, "save")
  /\ UNCHANGED <<want, unsaved, previous, sold, owned, subs, rowVars, news, carries, stops, doubled>>

\* ... and saveStripeCustomer, whatever the row says by now.
SaveNewCustomer(b) ==
  /\ spot[b] = "save"
  /\ customer' = holds[b]
  /\ Reach(b, "session")
  /\ UNCHANGED <<want, holds, unsaved, previous, stripeVars, premium, news, carries, stops, doubled>>

\* checkout.sessions.create, or billingPortal.sessions.create.
OpenSession(b) ==
  /\ spot[b] = "session"
  /\ IF want[b] = "portal" THEN UNCHANGED <<sold, owned>>
     ELSE /\ sold' = [sold EXCEPT ![b] = "open"]
          /\ owned' = [owned EXCEPT ![b] = holds[b]]
  /\ Depart(b)
  /\ UNCHANGED <<want, unsaved, previous, customers, subs, rowVars, news, carries, stops, doubled>>

\* A statement or a call is rejected, or the isolate ends.
StopShopping(b) ==
  /\ spot[b] \notin {"idle", "done"}
  /\ stops < MaxStops /\ stops' = stops + 1
  /\ unsaved' = IF spot[b] = "save" THEN unsaved \cup {b} ELSE unsaved
  /\ Depart(b) /\ doubled' = [doubled EXCEPT ![b] = {}]
  /\ UNCHANGED <<want, previous, stripeVars, rowVars, news, carries>>

-----------------------------------------------------------------------------
\* Stripe: the user pays an open session; a subscription begins, and ends.
Pay(b) ==
  /\ sold[b] = "open" /\ Cardinality({q \in Buyers : sold[q] = "paid"}) < MaxPaid
  /\ sold' = [sold EXCEPT ![b] = "paid"]
  /\ IF want[b] = "premium"
     THEN /\ subs' = [subs EXCEPT ![b] = "active"]
          /\ news' = [news EXCEPT ![<<"paid", b>>] = "sent", ![<<"live", b>>] = "sent"]
     ELSE news' = [news EXCEPT ![<<"paid", b>>] = "sent"] /\ UNCHANGED subs
  /\ UNCHANGED <<checkoutReqVars, customers, owned, rowVars, carries, stops, doubled>>

Cancel(b) ==
  /\ subs[b] = "active"
  /\ Cardinality({q \in Buyers : subs[q] = "canceled"}) < MaxOver
  /\ subs' = [subs EXCEPT ![b] = "canceled"]
  /\ news' = [news EXCEPT ![<<"over", b>>] = "sent"]
  /\ UNCHANGED <<checkoutReqVars, customers, sold, owned, rowVars, carries, stops, doubled>>

Handled == {e \in Events : news[e] \in {"retrieve", "sync", "row", "entitle"}}
Carried(e) == CASE e[1] = "paid" -> subs[e[2]] [] e[1] = "live" -> "active" [] e[1] = "over" -> "canceled"

\* The event is taken.  A session's event saves its customer and goes on to retrieve
\* the subscription as it is by then; without one its credits are granted, elsewhere.
\* A subscription's event carries its status.
TakeEvent(e) ==
  /\ news[e] = "sent" /\ Cardinality(Handled) < MaxHands
  /\ IF e[1] = "paid"
     THEN /\ customer' = owned[e[2]]
          /\ news' = [news EXCEPT ![e] = IF want[e[2]] = "premium" THEN "retrieve" ELSE "done"]
          /\ UNCHANGED carries
     ELSE /\ news' = [news EXCEPT ![e] = "sync"]
          /\ carries' = [carries EXCEPT ![e] = Carried(e)]
          /\ UNCHANGED customer
  /\ UNCHANGED <<checkoutReqVars, stripeVars, premium, stops, doubled>>

RetrieveSub(e) ==
  /\ news[e] = "retrieve"
  /\ carries' = [carries EXCEPT ![e] = Carried(e)]
  /\ news' = [news EXCEPT ![e] = "sync"]
  /\ UNCHANGED <<checkoutReqVars, stripeVars, rowVars, stops, doubled>>

\* syncSubscription saves the customer ...
SaveSynced(e) ==
  /\ news[e] = "sync"
  /\ customer' = owned[e[2]]
  /\ news' = [news EXCEPT ![e] = "row"]
  /\ UNCHANGED <<checkoutReqVars, stripeVars, premium, carries, stops, doubled>>

\* ... setSubscriptionState saves it again with the account's row ...
SyncAccount(e) ==
  /\ news[e] = "row"
  /\ customer' = owned[e[2]]
  /\ news' = [news EXCEPT ![e] = "entitle"]
  /\ UNCHANGED <<checkoutReqVars, stripeVars, premium, carries, stops, doubled>>

\* ... and the entitlement, for the user's last event whichever subscription it is of.
SyncEntitlement(e) ==
  /\ news[e] = "entitle"
  /\ premium' = (carries[e] = "active")
  /\ news' = [news EXCEPT ![e] = "done"] /\ carries' = [carries EXCEPT ![e] = "none"]
  /\ UNCHANGED <<checkoutReqVars, stripeVars, customer, stops, doubled>>

\* The handler stops half-way: its event is marked as processed and does not come again.
LoseEvent(e) ==
  /\ e \in Handled
  /\ stops < MaxStops /\ stops' = stops + 1
  /\ news' = [news EXCEPT ![e] = "lost"] /\ carries' = [carries EXCEPT ![e] = "none"]
  /\ UNCHANGED <<checkoutReqVars, stripeVars, rowVars, doubled>>

CheckoutNext ==
  \/ \E b \in Buyers :
       \/ \E what \in Wants[b] : Shop(b, what)
       \/ LookUp(b) \/ ReadAccount(b) \/ CreateCustomer(b) \/ SaveNewCustomer(b)
       \/ OpenSession(b) \/ StopShopping(b)
       \/ Pay(b) \/ Cancel(b)
  \/ \E e \in Events :
       \/ TakeEvent(e) \/ RetrieveSub(e) \/ SaveSynced(e) \/ SyncAccount(e)
         \/ SyncEntitlement(e) \/ LoseEvent(e)

CheckoutSpec == CheckoutInit /\ [][CheckoutNext]_checkoutVars

-----------------------------------------------------------------------------
CheckoutTypeOK ==
  /\ customer \in customers \cup {NoOne}
  /\ spot \in [Buyers -> {"idle", "entitlements", "account", "create", "save", "session", "done"}]
  /\ \A b \in Buyers : owned[b] \in customers \cup {NoOne}
  /\ news \in [Events -> {"none", "sent", "retrieve", "sync", "row", "entitle", "done", "lost"}]

\* Two Stripe customers of one user: only if the checkouts that made them overlapped,
\* or the earlier one stopped before it had saved its own.
OneCustomerUnlessOverlapped ==
  \A a, b \in customers : a # b /\ a \in previous[b] => a \in unsaved

\* A checkout for premium goes past the entitlements of a user whose paid, live and
\* completely handled subscription they should show only after two were sold: the
\* other one has ended and its event took the entitlement of both.
PremiumSoldTwiceOnlyAfterDouble ==
  \A b \in Buyers : \A s \in doubled[b] : \E t \in Buyers \ {s} : subs[t] # "none" /\ t # b

\* app/api/billing/checkout/route.ts:39 and :55, lib/creditCheckout.ts:24: what the
\* checkouts look for before they create it exists once, unless requests overlapped.
SoldOnceUnlessOverlapped == OneCustomerUnlessOverlapped /\ PremiumSoldTwiceOnlyAfterDouble
=============================================================================
