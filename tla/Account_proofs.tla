---------------------------- MODULE Account_proofs ----------------------------
(***************************************************************************)
(* Theorems about what an account buys and what it pays for.  Checkout:    *)
(* what the checkouts look for before they create it exists once.          *)
(* PaidActions: the records of the metered routes are paid for, and agree  *)
(* with each other and with what the caller was told.  The two modules     *)
(* share no variable.  The theorems hold for any requests, in any order of *)
(* their statements and calls, wherever they stop.                         *)
(***************************************************************************)
EXTENDS Checkout, PaidActions, FiniteSetTheorems, SequenceTheorems, WellFoundedInduction, TLAPS

-----------------------------------------------------------------------------
(* Checkout. *)

Statuses == {"none", "active", "canceled"}
Spots == {"idle", "entitlements", "account", "create", "save", "session", "done"}
HandlerSteps == {"none", "sent", "retrieve", "sync", "row", "entitle", "done", "lost"}

ShopTypes ==
  /\ want \in [Buyers -> {"none", "premium", "pack", "portal"}]
  /\ spot \in [Buyers -> Spots]
  /\ holds \in [Buyers -> Buyers \cup {NoOne}]
  /\ previous \in [Buyers -> SUBSET Buyers]
  /\ doubled \in [Buyers -> SUBSET Buyers]
StripeTypes ==
  /\ customer \in customers \cup {NoOne} /\ premium \in BOOLEAN
  /\ customers \subseteq Buyers
  /\ sold \in [Buyers -> {"none", "open", "paid"}]
  /\ owned \in [Buyers -> Buyers \cup {NoOne}]
  /\ \A b \in Buyers : owned[b] \in customers \cup {NoOne}
  /\ subs \in [Buyers -> Statuses]
  /\ news \in [Events -> HandlerSteps]
  /\ carries \in [Events -> Statuses]
CheckoutTypes == ShopTypes /\ StripeTypes

\* A request and what it holds: only one that created a customer and went past its save
\* without stopping there is sure to be on record.
ShopperAt(b) ==
  /\ spot[b] # "done" => sold[b] = "none"
  /\ spot[b] \in {"idle", "entitlements", "account", "create"} => b \notin customers
  /\ spot[b] = "save" => holds[b] = b /\ b \in customers
  /\ spot[b] = "session" => holds[b] \in customers
  /\ b \in customers /\ spot[b] # "save" /\ b \notin unsaved => customer # NoOne

\* What had ended when b began is finished for good, and b creates a customer only after
\* it found none on record: none of those had saved its own.
PreviousAt(b) ==
  /\ \A a \in previous[b] : a \in customers /\ spot[a] = "done"
  /\ spot[b] = "create" \/ b \in customers => previous[b] \subseteq unsaved

\* A session, its subscription and the first events of both.
SaleAt(b) ==
  /\ sold[b] # "none" => owned[b] \in customers
  /\ subs[b] # "none" => sold[b] = "paid" /\ news[<<"live", b>>] # "none"
  /\ sold[b] = "paid" /\ want[b] = "premium" => subs[b] # "none"

\* An event is of a session that was paid, and what its handler carries was true of it.
NewsAt(e) ==
  /\ news[e] # "none" => sold[e[2]] = "paid"
  /\ news[e] # "none" /\ e[1] = "over" => subs[e[2]] = "canceled"
  /\ news[e] = "retrieve" => e[1] = "paid" /\ want[e[2]] = "premium"
  /\ news[e] \in {"sync", "row", "entitle"} =>
       /\ carries[e] # "none"
       /\ carries[e] = "canceled" => subs[e[2]] = "canceled"

\* A live subscription that was handled shows, unless another one's end was handled.
ShownAt(s) ==
  subs[s] = "active" /\ news[<<"live", s>>] = "done" /\ ~premium =>
    \E t \in Buyers \ {s} : subs[t] = "canceled"
DoubledAt(b) == \A s \in doubled[b] : \E t \in Buyers \ {s} : subs[t] # "none" /\ t # b

ShoppersAreSound == \A b \in Buyers : ShopperAt(b) /\ PreviousAt(b)
SalesAreSound ==
  /\ \A b \in Buyers : SaleAt(b) /\ ShownAt(b)
  /\ \A e \in Events : NewsAt(e)
DoublesAreExplained == \A b \in Buyers : DoubledAt(b)

CheckoutInv == CheckoutTypes /\ ShoppersAreSound /\ SalesAreSound /\ DoublesAreExplained

-----------------------------------------------------------------------------
(* What the steps leave as it is. *)

\* The types of the rows the steps read and write.
LEMMA CheckoutTypeFacts ==
  ASSUME CheckoutTypes
  PROVE  /\ want \in [Buyers -> {"none", "premium", "pack", "portal"}]
         /\ spot \in [Buyers -> Spots] /\ holds \in [Buyers -> Buyers \cup {NoOne}]
         /\ previous \in [Buyers -> SUBSET Buyers] /\ doubled \in [Buyers -> SUBSET Buyers]
         /\ customer \in customers \cup {NoOne} /\ premium \in BOOLEAN
         /\ customers \subseteq Buyers /\ sold \in [Buyers -> {"none", "open", "paid"}]
         /\ owned \in [Buyers -> Buyers \cup {NoOne}] /\ subs \in [Buyers -> Statuses]
         /\ \A b \in Buyers : owned[b] \in customers \cup {NoOne}
         /\ news \in [Events -> HandlerSteps] /\ carries \in [Events -> Statuses]
  BY DEF CheckoutTypes, ShopTypes, StripeTypes

\* An event is a kind and a buyer; a session's customer is one.
LEMMA EventFacts ==
  /\ \A e \in Events : e[1] \in {"paid", "live", "over"} /\ e[2] \in Buyers
  /\ \A b \in Buyers : /\ <<"paid", b>> \in Events /\ <<"live", b>> \in Events
                       /\ <<"over", b>> \in Events
  /\ NoOne \notin Buyers
  BY CheckoutAssumption DEF Events

\* The other requests when one takes a step.
LEMMA OthersShop ==
  ASSUME CheckoutTypes, ShoppersAreSound, NEW b \in Buyers, spot[b] # "done",
         \A c \in Buyers \ {b} : /\ spot'[c] = spot[c] /\ holds'[c] = holds[c]
                                 /\ previous'[c] = previous[c] /\ sold'[c] = sold[c],
         customers \subseteq customers', customers' \subseteq customers \cup {b},
         unsaved \subseteq unsaved', customer # NoOne => customer' # NoOne
  PROVE  \A c \in Buyers \ {b} : ShopperAt(c)' /\ PreviousAt(c)'
<1> SUFFICES ASSUME NEW c \in Buyers \ {b} PROVE ShopperAt(c)' /\ PreviousAt(c)'
  OBVIOUS
<1>1. ShopperAt(c) /\ PreviousAt(c)
  BY DEF ShoppersAreSound
<1>2. ShopperAt(c)'
  BY <1>1 DEF ShopperAt
<1>3. \A a \in previous[c] : a \in Buyers
  BY CheckoutTypeFacts
<1>4. PreviousAt(c)'
  BY <1>1, <1>3 DEF PreviousAt
<1> QED BY <1>2, <1>4

\* All requests when Stripe or a handler takes a step.
LEMMA ShoppersKept ==
  ASSUME ShoppersAreSound, UNCHANGED <<spot, holds, previous, customers, unsaved>>,
         \A b \in Buyers : sold'[b] = "none" <=> sold[b] = "none",
         customer # NoOne => customer' # NoOne
  PROVE  ShoppersAreSound'
<1> SUFFICES ASSUME NEW b \in Buyers PROVE ShopperAt(b)' /\ PreviousAt(b)'
  BY DEF ShoppersAreSound
<1>1. ShopperAt(b) /\ PreviousAt(b)
  BY DEF ShoppersAreSound
<1> QED BY <1>1 DEF ShopperAt, PreviousAt

\* Sales and events when a request takes a step.
LEMMA SalesKept ==
  ASSUME SalesAreSound, UNCHANGED <<subs, news, carries, premium>>,
         customers \subseteq customers',
         \A b \in Buyers : /\ sold'[b] = "paid" <=> sold[b] = "paid"
                           /\ sold[b] = "paid" => want'[b] = want[b]
                           /\ sold'[b] # "none" => owned'[b] \in customers'
  PROVE  SalesAreSound'
<1>1. ASSUME NEW b \in Buyers PROVE SaleAt(b)' /\ ShownAt(b)'
  <2>1. SaleAt(b) /\ ShownAt(b)
    BY DEF SalesAreSound
  <2> QED BY <2>1 DEF SaleAt, ShownAt
<1>2. ASSUME NEW e \in Events PROVE NewsAt(e)'
  <2>1. NewsAt(e) /\ e[2] \in Buyers
    BY EventFacts DEF SalesAreSound
  <2> QED BY <2>1 DEF NewsAt
<1> QED BY <1>1, <1>2 DEF SalesAreSound

\* Explanations stay: a subscription that began is never undone.
LEMMA DoublesKept ==
  ASSUME DoublesAreExplained, NEW B \in SUBSET Buyers,
         \A b \in B : doubled'[b] \subseteq doubled[b],
         \A t \in Buyers : subs[t] # "none" => subs'[t] # "none"
  PROVE  \A b \in B : DoubledAt(b)'
<1> SUFFICES ASSUME NEW b \in B PROVE DoubledAt(b)'
  OBVIOUS
<1>1. DoubledAt(b)
  BY DEF DoublesAreExplained
<1> QED BY <1>1 DEF DoubledAt

\* The initial state satisfies the invariant.
LEMMA CheckoutStarts == CheckoutInit => CheckoutInv
<1> SUFFICES ASSUME CheckoutInit PROVE CheckoutInv
  OBVIOUS
<1>1. CheckoutTypes
  BY DEF CheckoutInit, CheckoutTypes, ShopTypes, StripeTypes, Statuses, Spots, HandlerSteps
<1>2. ShoppersAreSound
  BY DEF CheckoutInit, ShoppersAreSound, ShopperAt, PreviousAt
<1>3. SalesAreSound
  BY EventFacts DEF CheckoutInit, SalesAreSound, SaleAt, ShownAt, NewsAt
<1>4. DoublesAreExplained
  BY DEF CheckoutInit, DoublesAreExplained, DoubledAt
<1> QED BY <1>1, <1>2, <1>3, <1>4 DEF CheckoutInv

\* A step that changes nothing.
LEMMA CheckoutStutters == CheckoutInv /\ UNCHANGED checkoutVars => CheckoutInv'
<1> SUFFICES ASSUME CheckoutInv, UNCHANGED checkoutVars PROVE CheckoutInv'
  OBVIOUS
<1>0. CheckoutTypes /\ ShoppersAreSound /\ SalesAreSound /\ DoublesAreExplained
  BY DEF CheckoutInv
<1>1. /\ UNCHANGED <<want, spot, holds, unsaved, previous, customers, sold, owned, subs>>
      /\ UNCHANGED <<customer, premium, news, carries, stops, doubled>>
  BY DEF checkoutVars, checkoutReqVars, stripeVars, rowVars
<1>2. CheckoutTypes'
  BY <1>0, <1>1 DEF CheckoutTypes, ShopTypes, StripeTypes
<1>3. ShoppersAreSound'
  BY <1>0, <1>1, ShoppersKept
<1>4. SalesAreSound'
  BY <1>0, <1>1, SalesKept DEF SalesAreSound, SaleAt
<1>5. DoublesAreExplained'
  BY <1>0, <1>1 DEF DoublesAreExplained, DoubledAt
<1> QED BY <1>2, <1>3, <1>4, <1>5 DEF CheckoutInv

-----------------------------------------------------------------------------
(* The steps of a request. *)

\* The request takes its step and stays what it is to the others.
LEMMA RequestStep ==
  ASSUME CheckoutInv, NEW b \in Buyers, spot[b] # "done", CheckoutTypes',
         UNCHANGED <<subs, news, carries, premium>>,
         \A c \in Buyers \ {b} :
           /\ spot'[c] = spot[c] /\ holds'[c] = holds[c] /\ previous'[c] = previous[c]
           /\ sold'[c] = sold[c] /\ want'[c] = want[c] /\ owned'[c] = owned[c]
           /\ doubled'[c] = doubled[c],
         sold'[b] # "paid", sold'[b] # "none" => owned'[b] \in customers',
         customers \subseteq customers', customers' \subseteq customers \cup {b},
         unsaved \subseteq unsaved', customer # NoOne => customer' # NoOne,
         ShopperAt(b)', PreviousAt(b)', DoubledAt(b)'
  PROVE  CheckoutInv'
<1>0. CheckoutTypes /\ ShoppersAreSound /\ SalesAreSound /\ DoublesAreExplained
  BY DEF CheckoutInv
<1>1. ShoppersAreSound'
  BY <1>0, OthersShop DEF ShoppersAreSound
<1>2. SalesAreSound'
  <2>1. sold[b] = "none"
    BY <1>0 DEF ShoppersAreSound, ShopperAt
  <2>2. \A c \in Buyers : sold[c] # "none" => owned[c] \in customers
    BY <1>0 DEF SalesAreSound, SaleAt
  <2> QED BY <2>1, <2>2, <1>0, SalesKept
<1>3. DoublesAreExplained'
  <2>1. \A c \in Buyers \ {b} : DoubledAt(c)'
    BY <1>0, DoublesKept
  <2> QED BY <2>1 DEF DoublesAreExplained
<1> QED BY <1>1, <1>2, <1>3 DEF CheckoutInv

\* A request begins.
LEMMA ShopStep ==
  ASSUME CheckoutInv, NEW b \in Buyers, NEW what \in Wants[b], Shop(b, what)
  PROVE  CheckoutInv'
<1>0. CheckoutTypes /\ ShoppersAreSound /\ SalesAreSound /\ DoublesAreExplained
  BY DEF CheckoutInv
<1>1. /\ spot[b] = "idle"
      /\ want' = [want EXCEPT ![b] = what]
      /\ previous' = [previous EXCEPT ![b] = {q \in customers : spot[q] = "done"}]
      /\ spot' = [spot EXCEPT ![b] = IF what = "premium" THEN "entitlements" ELSE "account"]
      /\ UNCHANGED <<holds, unsaved, customers, sold, owned, subs>>
      /\ UNCHANGED <<customer, premium, news, carries, doubled>>
  BY DEF Shop, Reach, stripeVars, rowVars
<1>2. /\ spot'[b] \in {"entitlements", "account"}
      /\ previous'[b] = {q \in customers : spot[q] = "done"}
      /\ \A c \in Buyers \ {b} :
           want'[c] = want[c] /\ previous'[c] = previous[c] /\ spot'[c] = spot[c]
  BY <1>0, <1>1, CheckoutTypeFacts
<1>3. CheckoutTypes'
  <2>1. what \in {"premium", "pack", "portal"} /\ {q \in customers : spot[q] = "done"} \in SUBSET Buyers
    BY <1>0, CheckoutTypeFacts, CheckoutAssumption
  <2>2. ShopTypes'
    BY <2>1, <1>0, <1>1 DEF CheckoutTypes, ShopTypes, Spots
  <2> QED BY <2>2, <1>0, <1>1 DEF CheckoutTypes, StripeTypes
<1>4. sold[b] = "none" /\ b \notin customers
  BY <1>0, <1>1 DEF ShoppersAreSound, ShopperAt
<1>5. ShopperAt(b)'
  BY <1>1, <1>2, <1>4 DEF ShopperAt
<1>6. PreviousAt(b)'
  BY <1>0, <1>1, <1>2, <1>4, CheckoutTypeFacts DEF PreviousAt
<1>7. DoubledAt(b)'
  BY <1>0, <1>1 DEF DoublesAreExplained, DoubledAt
<1> QED BY <1>0, <1>1, <1>2, <1>3, <1>4, <1>5, <1>6, <1>7, RequestStep

\* A step of a request that leaves Stripe and the two rows alone.
LEMMA LookStep ==
  ASSUME CheckoutInv, NEW b \in Buyers, NEW to \in {"account", "create", "session", "done"},
         NEW found \in customers \cup {NoOne},
         spot[b] \in {"entitlements", "account"}, spot' = [spot EXCEPT ![b] = to],
         holds' = holds \/ holds' = [holds EXCEPT ![b] = found],
         doubled' \in [Buyers -> SUBSET Buyers],
         \A c \in Buyers \ {b} : doubled'[c] = doubled[c],
         UNCHANGED <<want, unsaved, previous, customers, sold, owned, subs>>,
         UNCHANGED <<customer, premium, news, carries>>,
         to = "create" => customer = NoOne,
         to = "session" => holds'[b] \in customers, DoubledAt(b)'
  PROVE  CheckoutInv'
<1>0. CheckoutTypes /\ ShoppersAreSound /\ SalesAreSound /\ DoublesAreExplained
  BY DEF CheckoutInv
<1>1. /\ spot'[b] = to
      /\ \A c \in Buyers \ {b} : spot'[c] = spot[c] /\ holds'[c] = holds[c]
  BY <1>0, CheckoutTypeFacts
<1>2. found \in Buyers \cup {NoOne}
  BY <1>0, CheckoutTypeFacts
<1>3. CheckoutTypes'
  BY <1>0, <1>2 DEF CheckoutTypes, ShopTypes, StripeTypes, Spots
<1>4. sold[b] = "none" /\ b \notin customers
  BY <1>0 DEF ShoppersAreSound, ShopperAt
<1>5. ShopperAt(b)'
  BY <1>1, <1>4 DEF ShopperAt
<1>6. PreviousAt(b)'
  <2>1. \A a \in previous[b] : a \in customers /\ spot[a] = "done" /\ a # b /\ a \in Buyers
    BY <1>0, CheckoutTypeFacts DEF ShoppersAreSound, PreviousAt
  <2>2. ASSUME to = "create" PROVE previous[b] \subseteq unsaved
    BY <2>1, <2>2, <1>0 DEF ShoppersAreSound, ShopperAt
  <2> QED BY <2>1, <2>2, <1>1, <1>4 DEF PreviousAt
<1> QED BY <1>0, <1>1, <1>3, <1>4, <1>5, <1>6, RequestStep

\* The entitlements are read.
LEMMA LookUpStep ==
  ASSUME CheckoutInv, NEW b \in Buyers, LookUp(b)
  PROVE  CheckoutInv'
<1>0. CheckoutTypes /\ ShoppersAreSound /\ SalesAreSound /\ DoublesAreExplained
  BY DEF CheckoutInv
<1>1. PICK to \in {"account", "done"} : spot' = [spot EXCEPT ![b] = to]
  BY DEF LookUp, Reach
<1>2. /\ spot[b] = "entitlements"
      /\ doubled' = [doubled EXCEPT ![b] = IF premium THEN {} ELSE Settled]
      /\ UNCHANGED <<want, holds, unsaved, previous, customers, sold, owned, subs>>
      /\ UNCHANGED <<customer, premium, news, carries>>
  BY DEF LookUp, stripeVars, rowVars
<1>3. Settled \in SUBSET Buyers
  BY DEF Settled
<1>4. /\ doubled' \in [Buyers -> SUBSET Buyers]
      /\ doubled'[b] = (IF premium THEN {} ELSE Settled)
      /\ \A c \in Buyers \ {b} : doubled'[c] = doubled[c]
  BY <1>0, <1>2, <1>3, CheckoutTypeFacts
<1>5. DoubledAt(b)'
  <2> SUFFICES ASSUME ~premium, NEW s \in Settled
               PROVE  \E t \in Buyers \ {s} : subs[t] # "none" /\ t # b
    BY <1>2, <1>4 DEF DoubledAt
  <2>1. s \in Buyers /\ subs[s] = "active" /\ <<"live", s>> \in Events
    BY EventFacts DEF Settled
  <2>2. news[<<"live", s>>] \in {"none", "done"}
    BY <2>1 DEF Settled
  <2>3. news[<<"live", s>>] = "done"
    BY <2>1, <2>2, <1>0 DEF SalesAreSound, SaleAt
  <2>4. PICK t \in Buyers \ {s} : subs[t] = "canceled"
    BY <2>1, <2>3, <1>0 DEF SalesAreSound, ShownAt
  <2>5. subs[b] = "none"
    BY <1>0, <1>2 DEF ShoppersAreSound, ShopperAt, SalesAreSound, SaleAt
  <2> QED BY <2>4, <2>5
<1>6. NoOne \in customers \cup {NoOne}
  OBVIOUS
<1> QED BY <1>1, <1>2, <1>4, <1>5, <1>6, LookStep

\* The account is read.
LEMMA ReadAccountStep ==
  ASSUME CheckoutInv, NEW b \in Buyers, ReadAccount(b)
  PROVE  CheckoutInv'
<1>0. CheckoutTypes /\ ShoppersAreSound /\ SalesAreSound /\ DoublesAreExplained
  BY DEF CheckoutInv
<1>1. PICK to \in {"create", "session", "done"} :
        /\ spot' = [spot EXCEPT ![b] = to]
        /\ to = "session" => customer # NoOne
        /\ to = "create" => customer = NoOne
  BY DEF ReadAccount, Reach
<1>2. /\ spot[b] = "account"
      /\ holds' = [holds EXCEPT ![b] = customer]
      /\ doubled' = [doubled EXCEPT ![b] = {}]
      /\ UNCHANGED <<want, unsaved, previous, customers, sold, owned, subs>>
      /\ UNCHANGED <<customer, premium, news, carries>>
  BY DEF ReadAccount, stripeVars, rowVars
<1>3. /\ customer \in customers \cup {NoOne} /\ holds'[b] = customer
      /\ doubled' \in [Buyers -> SUBSET Buyers] /\ doubled'[b] = {}
      /\ \A c \in Buyers \ {b} : doubled'[c] = doubled[c]
  BY <1>0, <1>2, CheckoutTypeFacts
<1>4. DoubledAt(b)'
  BY <1>3 DEF DoubledAt
<1>5. to = "session" => holds'[b] \in customers
  BY <1>1, <1>3
<1>6. to \in {"account", "create", "session", "done"} /\ spot[b] \in {"entitlements", "account"}
  BY <1>2
<1> QED BY <1>1, <1>2, <1>3, <1>4, <1>5, <1>6, LookStep

\* A customer is created.
LEMMA CreateCustomerStep ==
  ASSUME CheckoutInv, NEW b \in Buyers, CreateCustomer(b)
  PROVE  CheckoutInv'
<1>0. CheckoutTypes /\ ShoppersAreSound /\ SalesAreSound /\ DoublesAreExplained
  BY DEF CheckoutInv
<1>1. /\ spot[b] = "create"
      /\ customers' = customers \cup {b}
      /\ holds' = [holds EXCEPT ![b] = b] /\ spot' = [spot EXCEPT ![b] = "save"]
      /\ UNCHANGED <<want, unsaved, previous, sold, owned, subs>>
      /\ UNCHANGED <<customer, premium, news, carries, doubled>>
  BY DEF CreateCustomer, Reach, rowVars
<1>2. /\ spot'[b] = "save" /\ holds'[b] = b
      /\ \A c \in Buyers \ {b} : spot'[c] = spot[c] /\ holds'[c] = holds[c]
  BY <1>0, <1>1, CheckoutTypeFacts
<1>3. CheckoutTypes'
  <2>1. ShopTypes'
    BY <1>0, <1>1 DEF CheckoutTypes, ShopTypes, Spots
  <2> QED BY <2>1, <1>0, <1>1 DEF CheckoutTypes, StripeTypes
<1>4. sold[b] = "none" /\ PreviousAt(b)
  BY <1>0, <1>1 DEF ShoppersAreSound, ShopperAt
<1>5. ShopperAt(b)'
  BY <1>1, <1>2, <1>4 DEF ShopperAt
<1>6. PreviousAt(b)'
  BY <1>0, <1>1, <1>4, CheckoutTypeFacts DEF PreviousAt
<1>7. DoubledAt(b)'
  BY <1>0, <1>1 DEF DoublesAreExplained, DoubledAt
<1> QED BY <1>0, <1>1, <1>2, <1>3, <1>4, <1>5, <1>6, <1>7, RequestStep

\* The customer is saved.
LEMMA SaveNewCustomerStep ==
  ASSUME CheckoutInv, NEW b \in Buyers, SaveNewCustomer(b)
  PROVE  CheckoutInv'
<1>0. CheckoutTypes /\ ShoppersAreSound /\ SalesAreSound /\ DoublesAreExplained
  BY DEF CheckoutInv
<1>1. /\ spot[b] = "save" /\ customer' = holds[b] /\ spot' = [spot EXCEPT ![b] = "session"]
      /\ UNCHANGED <<want, holds, unsaved, previous, customers, sold, owned, subs>>
      /\ UNCHANGED <<premium, news, carries, doubled>>
  BY DEF SaveNewCustomer, Reach, stripeVars
<1>2. /\ spot'[b] = "session" /\ \A c \in Buyers \ {b} : spot'[c] = spot[c]
  BY <1>0, <1>1, CheckoutTypeFacts
<1>3. /\ sold[b] = "none" /\ PreviousAt(b) /\ holds[b] = b /\ b \in customers /\ b # NoOne
  BY <1>0, <1>1, EventFacts DEF ShoppersAreSound, ShopperAt
<1>4. CheckoutTypes'
  <2>1. ShopTypes'
    BY <1>0, <1>1 DEF CheckoutTypes, ShopTypes, Spots
  <2> QED BY <2>1, <1>0, <1>1, <1>3 DEF CheckoutTypes, StripeTypes
<1>5. ShopperAt(b)'
  BY <1>1, <1>2, <1>3 DEF ShopperAt
<1>6. PreviousAt(b)'
  <2>1. b \notin previous[b]
    BY <1>1, <1>3 DEF PreviousAt
  <2> QED BY <2>1, <1>0, <1>1, <1>2, <1>3, CheckoutTypeFacts DEF PreviousAt
<1>7. DoubledAt(b)'
  BY <1>0, <1>1 DEF DoublesAreExplained, DoubledAt
<1> QED BY <1>0, <1>1, <1>2, <1>3, <1>4, <1>5, <1>6, <1>7, RequestStep

\* The session is created.
LEMMA OpenSessionStep ==
  ASSUME CheckoutInv, NEW b \in Buyers, OpenSession(b)
  PROVE  CheckoutInv'
<1>0. CheckoutTypes /\ ShoppersAreSound /\ SalesAreSound /\ DoublesAreExplained
  BY DEF CheckoutInv
<1>1. /\ spot[b] = "session"
      /\ \/ UNCHANGED <<sold, owned>>
         \/ sold' = [sold EXCEPT ![b] = "open"] /\ owned' = [owned EXCEPT ![b] = holds[b]]
      /\ spot' = [spot EXCEPT ![b] = "done"] /\ holds' = [holds EXCEPT ![b] = NoOne]
      /\ UNCHANGED <<want, unsaved, previous, customers, subs>>
      /\ UNCHANGED <<customer, premium, news, carries, doubled>>
  BY DEF OpenSession, Depart, Reach, rowVars
<1>2. ShopperAt(b) /\ PreviousAt(b) /\ holds[b] \in customers /\ sold[b] = "none"
  BY <1>0, <1>1 DEF ShoppersAreSound, ShopperAt
<1>3. /\ spot'[b] = "done"
      /\ \A c \in Buyers \ {b} : /\ spot'[c] = spot[c] /\ holds'[c] = holds[c]
                                 /\ sold'[c] = sold[c] /\ owned'[c] = owned[c]
      /\ sold'[b] \in {"none", "open"}
      /\ sold'[b] = "open" => owned'[b] = holds[b]
  BY <1>0, <1>1, <1>2, CheckoutTypeFacts
<1>4. CheckoutTypes'
  <2>1. ShopTypes'
    BY <1>0, <1>1 DEF CheckoutTypes, ShopTypes, Spots
  <2>2. /\ sold' \in [Buyers -> {"none", "open", "paid"}]
        /\ owned' \in [Buyers -> Buyers \cup {NoOne}]
        /\ \A c \in Buyers : owned'[c] \in customers' \cup {NoOne}
    BY <1>0, <1>1, <1>2, CheckoutTypeFacts
  <2> QED BY <2>1, <2>2, <1>0, <1>1 DEF CheckoutTypes, StripeTypes
<1>5. ShopperAt(b)'
  BY <1>1, <1>2, <1>3 DEF ShopperAt
<1>6. PreviousAt(b)'
  <2>1. b \notin previous[b]
    BY <1>1, <1>2 DEF PreviousAt
  <2> QED BY <2>1, <1>0, <1>1, <1>2, <1>3, CheckoutTypeFacts DEF PreviousAt
<1>7. DoubledAt(b)'
  BY <1>0, <1>1 DEF DoublesAreExplained, DoubledAt
<1>8. sold'[b] # "paid" /\ (sold'[b] # "none" => owned'[b] \in customers')
  BY <1>1, <1>2, <1>3
<1>9. \A c \in Buyers \ {b} :
        /\ spot'[c] = spot[c] /\ holds'[c] = holds[c] /\ previous'[c] = previous[c]
        /\ sold'[c] = sold[c] /\ want'[c] = want[c] /\ owned'[c] = owned[c]
        /\ doubled'[c] = doubled[c]
  BY <1>1, <1>3
<1>10. /\ customers \subseteq customers' /\ customers' \subseteq customers \cup {b}
       /\ unsaved \subseteq unsaved' /\ (customer # NoOne => customer' # NoOne)
  BY <1>1
<1> QED BY <1>1, <1>4, <1>5, <1>6, <1>7, <1>8, <1>9, <1>10, RequestStep

\* A request stops half-way: before the save, nobody finds its customer.
LEMMA StopShoppingStep ==
  ASSUME CheckoutInv, NEW b \in Buyers, StopShopping(b)
  PROVE  CheckoutInv'
<1>0. CheckoutTypes /\ ShoppersAreSound /\ SalesAreSound /\ DoublesAreExplained
  BY DEF CheckoutInv
<1>1. /\ spot[b] \notin {"idle", "done"}
      /\ unsaved' = IF spot[b] = "save" THEN unsaved \cup {b} ELSE unsaved
      /\ spot' = [spot EXCEPT ![b] = "done"] /\ holds' = [holds EXCEPT ![b] = NoOne]
      /\ doubled' = [doubled EXCEPT ![b] = {}]
      /\ UNCHANGED <<want, previous, customers, sold, owned, subs>>
      /\ UNCHANGED <<customer, premium, news, carries>>
  BY DEF StopShopping, Depart, Reach, stripeVars, rowVars
<1>2. ShopperAt(b) /\ PreviousAt(b) /\ sold[b] = "none"
  BY <1>0, <1>1 DEF ShoppersAreSound, ShopperAt
<1>3. /\ spot'[b] = "done" /\ doubled'[b] = {}
      /\ \A c \in Buyers \ {b} : /\ spot'[c] = spot[c] /\ holds'[c] = holds[c]
                                 /\ doubled'[c] = doubled[c]
  BY <1>0, <1>1, CheckoutTypeFacts
<1>4. CheckoutTypes'
  <2>1. ShopTypes'
    BY <1>0, <1>1 DEF CheckoutTypes, ShopTypes, Spots
  <2> QED BY <2>1, <1>0, <1>1 DEF CheckoutTypes, StripeTypes
<1>5. ShopperAt(b)'
  BY <1>1, <1>2, <1>3 DEF ShopperAt
<1>6. PreviousAt(b)'
  <2>1. b \notin previous[b]
    BY <1>1, <1>2 DEF PreviousAt
  <2> QED BY <2>1, <1>0, <1>1, <1>2, <1>3, CheckoutTypeFacts DEF PreviousAt
<1>7. DoubledAt(b)'
  BY <1>3 DEF DoubledAt
<1> QED BY <1>0, <1>1, <1>2, <1>3, <1>4, <1>5, <1>6, <1>7, RequestStep

-----------------------------------------------------------------------------
(* The steps of Stripe and of the handlers. *)

\* Stripe's step or a handler's changes what is known of sales and events only.
LEMMA SaleStep ==
  ASSUME CheckoutInv, UNCHANGED <<want, spot, holds, previous, customers, unsaved, doubled>>,
         \A b \in Buyers : sold'[b] = "none" <=> sold[b] = "none",
         customer # NoOne => customer' # NoOne,
         \A t \in Buyers : subs[t] # "none" => subs'[t] # "none",
         StripeTypes', SalesAreSound'
  PROVE  CheckoutInv'
<1>0. CheckoutTypes /\ ShoppersAreSound /\ DoublesAreExplained
  BY DEF CheckoutInv
<1>1. CheckoutTypes'
  BY <1>0 DEF CheckoutTypes, ShopTypes
<1>2. ShoppersAreSound'
  BY <1>0, ShoppersKept
<1>3. DoublesAreExplained'
  BY <1>0 DEF DoublesAreExplained, DoubledAt
<1> QED BY <1>1, <1>2, <1>3 DEF CheckoutInv

\* A session is paid, and a subscription begins with it.
LEMMA PayStep ==
  ASSUME CheckoutInv, NEW b \in Buyers, Pay(b)
  PROVE  CheckoutInv'
<1>0. CheckoutTypes /\ SalesAreSound
  BY DEF CheckoutInv
<1>1. /\ sold[b] = "open" /\ sold' = [sold EXCEPT ![b] = "paid"]
      /\ \/ /\ want[b] = "premium" /\ subs' = [subs EXCEPT ![b] = "active"]
            /\ news' = [news EXCEPT ![<<"paid", b>>] = "sent", ![<<"live", b>>] = "sent"]
         \/ /\ want[b] # "premium" /\ UNCHANGED subs
            /\ news' = [news EXCEPT ![<<"paid", b>>] = "sent"]
      /\ UNCHANGED <<want, spot, holds, unsaved, previous, customers, owned>>
      /\ UNCHANGED <<customer, premium, carries, doubled>>
  BY DEF Pay, checkoutReqVars, rowVars
<1>2. /\ <<"paid", b>> \in Events /\ <<"live", b>> \in Events /\ <<"over", b>> \in Events
      /\ subs[b] = "none"
  BY <1>0, <1>1, EventFacts DEF SalesAreSound, SaleAt
<1>3. /\ sold'[b] = "paid" /\ \A c \in Buyers \ {b} : sold'[c] = sold[c]
      /\ \A c \in Buyers \ {b} : subs'[c] = subs[c]
      /\ subs'[b] = "active" <=> want[b] = "premium"
      /\ subs'[b] \in {"none", "active"}
      /\ \A e \in Events : news'[e] = news[e] \/ (news'[e] = "sent" /\ e[2] = b /\ e[1] # "over")
      /\ subs'[b] = "active" => news'[<<"live", b>>] = "sent"
  <2>1. /\ sold'[b] = "paid" /\ \A c \in Buyers \ {b} : sold'[c] = sold[c]
        /\ \A c \in Buyers \ {b} : subs'[c] = subs[c]
        /\ subs'[b] = "active" <=> want[b] = "premium"
        /\ subs'[b] \in {"none", "active"}
    BY <1>0, <1>1, <1>2, CheckoutTypeFacts
  <2>2. \A e \in Events : e[2] = b \/ (e # <<"paid", b>> /\ e # <<"live", b>>)
    OBVIOUS
  <2>3. /\ \A e \in Events \ {<<"paid", b>>, <<"live", b>>} : news'[e] = news[e]
        /\ news'[<<"paid", b>>] = "sent"
        /\ want[b] = "premium" => news'[<<"live", b>>] = "sent"
        /\ want[b] # "premium" => news'[<<"live", b>>] = news[<<"live", b>>]
    BY <1>0, <1>1, <1>2, CheckoutTypeFacts
  <2> QED BY <2>1, <2>2, <2>3, <1>1
<1>4. StripeTypes'
  <2>1. /\ sold' \in [Buyers -> {"none", "open", "paid"}] /\ subs' \in [Buyers -> Statuses]
        /\ news' \in [Events -> HandlerSteps]
    BY <1>0, <1>1, CheckoutTypeFacts DEF Statuses, HandlerSteps
  <2> QED BY <2>1, <1>0, <1>1 DEF CheckoutTypes, StripeTypes
<1>5. \A e \in Events : e[2] = b => news[e] = "none"
  BY <1>0, <1>1 DEF SalesAreSound, NewsAt
<1>6. ASSUME NEW c \in Buyers PROVE SaleAt(c)' /\ ShownAt(c)'
  <2>1. SaleAt(c) /\ ShownAt(c) /\ <<"live", c>> \in Events
    BY <1>0, EventFacts DEF SalesAreSound
  <2>2. CASE c = b
    <3>1. SaleAt(c)'
      BY <2>1, <2>2, <1>1, <1>3 DEF SaleAt
    <3>2. ShownAt(c)'
      BY <2>2, <1>3 DEF ShownAt
    <3> QED BY <3>1, <3>2
  <2>3. CASE c # b
    <3>1. news'[<<"live", c>>] = news[<<"live", c>>]
      BY <2>1, <2>3, <1>3
    <3>2. SaleAt(c)'
      BY <2>1, <2>3, <3>1, <1>1, <1>3 DEF SaleAt
    <3>3. \A t \in Buyers : subs[t] = "canceled" => subs'[t] = "canceled"
      BY <1>2, <1>3
    <3>4. ShownAt(c)'
      BY <2>1, <2>3, <3>1, <3>3, <1>1, <1>3 DEF ShownAt
    <3> QED BY <3>2, <3>4
  <2> QED BY <2>2, <2>3
<1>7. ASSUME NEW e \in Events PROVE NewsAt(e)'
  <2>1. NewsAt(e) /\ e[2] \in Buyers
    BY <1>0, EventFacts DEF SalesAreSound
  <2>2. CASE e[2] = b
    BY <2>1, <2>2, <1>1, <1>3, <1>5 DEF NewsAt
  <2>3. CASE e[2] # b
    BY <2>1, <2>3, <1>1, <1>3 DEF NewsAt
  <2> QED BY <2>2, <2>3
<1>8. SalesAreSound'
  BY <1>6, <1>7 DEF SalesAreSound
<1> QED BY <1>1, <1>2, <1>3, <1>4, <1>8, SaleStep

\* A subscription ends.
LEMMA CancelStep ==
  ASSUME CheckoutInv, NEW b \in Buyers, Cancel(b)
  PROVE  CheckoutInv'
<1>0. CheckoutTypes /\ SalesAreSound
  BY DEF CheckoutInv
<1>1. /\ subs[b] = "active" /\ subs' = [subs EXCEPT ![b] = "canceled"]
      /\ news' = [news EXCEPT ![<<"over", b>>] = "sent"]
      /\ UNCHANGED <<want, spot, holds, unsaved, previous, customers, sold, owned>>
      /\ UNCHANGED <<customer, premium, carries, doubled>>
  BY DEF Cancel, checkoutReqVars, rowVars
<1>2. /\ <<"over", b>> \in Events /\ sold[b] = "paid"
      /\ subs'[b] = "canceled" /\ \A c \in Buyers \ {b} : subs'[c] = subs[c]
      /\ news'[<<"over", b>>] = "sent"
      /\ \A e \in Events \ {<<"over", b>>} : news'[e] = news[e]
  BY <1>0, <1>1, CheckoutTypeFacts, EventFacts DEF SalesAreSound, SaleAt
<1>3. StripeTypes'
  <2>1. subs' \in [Buyers -> Statuses] /\ news' \in [Events -> HandlerSteps]
    BY <1>0, <1>1, CheckoutTypeFacts DEF Statuses, HandlerSteps
  <2> QED BY <2>1, <1>0, <1>1 DEF CheckoutTypes, StripeTypes
<1>4. ASSUME NEW c \in Buyers PROVE SaleAt(c)' /\ ShownAt(c)'
  <2>1. SaleAt(c) /\ ShownAt(c) /\ news'[<<"live", c>>] = news[<<"live", c>>]
    BY <1>0, <1>2, EventFacts DEF SalesAreSound
  <2>2. SaleAt(c)'
    BY <2>1, <1>1, <1>2 DEF SaleAt
  <2>3. ShownAt(c)'
    BY <2>1, <1>1, <1>2 DEF ShownAt
  <2> QED BY <2>2, <2>3
<1>5. ASSUME NEW e \in Events PROVE NewsAt(e)'
  <2>1. NewsAt(e) /\ e[2] \in Buyers
    BY <1>0, EventFacts DEF SalesAreSound
  <2>2. CASE e = <<"over", b>>
    BY <2>2, <1>1, <1>2 DEF NewsAt
  <2>3. CASE e # <<"over", b>>
    BY <2>1, <2>3, <1>1, <1>2 DEF NewsAt
  <2> QED BY <2>2, <2>3
<1>6. SalesAreSound'
  BY <1>4, <1>5 DEF SalesAreSound
<1> QED BY <1>1, <1>2, <1>3, <1>6, SaleStep

\* A handler's step on its event: what it saves is the customer of a paid session, and
\* what it carries was true of the subscription.
LEMMA HandlerStep ==
  ASSUME CheckoutInv, NEW e \in Events, NEW to \in HandlerSteps \ {"none"},
         news[e] # "none", news' = [news EXCEPT ![e] = to],
         customer' \in {customer, owned[e[2]]},
         NEW status \in Statuses, carries' = carries \/ carries' = [carries EXCEPT ![e] = status],
         UNCHANGED <<want, spot, holds, unsaved, previous, customers, sold, owned, subs, doubled>>,
         premium' \in BOOLEAN,
         to = "retrieve" => e[1] = "paid" /\ want[e[2]] = "premium",
         to \in {"sync", "row", "entitle"} =>
           carries'[e] # "none" /\ (carries'[e] = "canceled" => subs[e[2]] = "canceled"),
         \A s \in Buyers : ShownAt(s)'
  PROVE  CheckoutInv'
<1>0. CheckoutTypes /\ SalesAreSound
  BY DEF CheckoutInv
<1>1. /\ news'[e] = to /\ \A d \in Events \ {e} : news'[d] = news[d] /\ carries'[d] = carries[d]
  BY <1>0, CheckoutTypeFacts
<1>2. e[2] \in Buyers /\ sold[e[2]] = "paid" /\ owned[e[2]] \in customers
  BY <1>0, EventFacts DEF SalesAreSound, NewsAt, SaleAt
<1>3. customer' \in customers' \cup {NoOne} /\ (customer # NoOne => customer' # NoOne)
  BY <1>0, <1>2, CheckoutTypeFacts, EventFacts
<1>4. StripeTypes'
  BY <1>0, <1>3 DEF CheckoutTypes, StripeTypes
<1>5. ASSUME NEW c \in Buyers PROVE SaleAt(c)'
  <2>1. SaleAt(c) /\ (news[<<"live", c>>] # "none" => news'[<<"live", c>>] # "none")
    BY <1>0, <1>1, EventFacts DEF SalesAreSound
  <2> QED BY <2>1 DEF SaleAt
<1>6. ASSUME NEW d \in Events PROVE NewsAt(d)'
  <2>1. NewsAt(d)
    BY <1>0 DEF SalesAreSound
  <2>2. CASE d = e
    BY <2>1, <2>2, <1>1, <1>2 DEF NewsAt
  <2>3. CASE d # e
    BY <2>1, <2>3, <1>1 DEF NewsAt
  <2> QED BY <2>2, <2>3
<1>7. SalesAreSound'
  BY <1>5, <1>6 DEF SalesAreSound
<1> QED BY <1>3, <1>4, <1>7, SaleStep

\* A step that does not finish a live event shows what was shown.
LEMMA ShownKept ==
  ASSUME CheckoutInv, NEW e \in Events, NEW to \in HandlerSteps \ {"done"},
         news' = [news EXCEPT ![e] = to], UNCHANGED <<subs, premium>>
  PROVE  \A s \in Buyers : ShownAt(s)'
<1> SUFFICES ASSUME NEW s \in Buyers PROVE ShownAt(s)'
  OBVIOUS
<1>1. ShownAt(s) /\ <<"live", s>> \in Events /\ news \in [Events -> HandlerSteps]
  BY CheckoutTypeFacts, EventFacts DEF CheckoutInv, SalesAreSound
<1>2. news'[<<"live", s>>] = "done" => news[<<"live", s>>] = "done"
  BY <1>1
<1> QED BY <1>1, <1>2 DEF ShownAt

\* The event is taken: a session's saves its customer, a subscription's its status.
LEMMA TakeEventStep ==
  ASSUME CheckoutInv, NEW e \in Events, TakeEvent(e)
  PROVE  CheckoutInv'
<1>0. CheckoutTypes /\ SalesAreSound
  BY DEF CheckoutInv
<1>1. /\ news[e] = "sent"
      /\ UNCHANGED <<want, spot, holds, unsaved, previous, customers, sold, owned, subs>>
      /\ UNCHANGED <<premium, doubled>>
  BY DEF TakeEvent, checkoutReqVars, stripeVars
<1>2. e[1] \in {"paid", "live", "over"} /\ e[2] \in Buyers /\ NewsAt(e)
  BY <1>0, EventFacts DEF SalesAreSound
<1>3. CASE e[1] = "paid"
  <2>1. PICK to \in {"retrieve", "done"} :
          /\ news' = [news EXCEPT ![e] = to]
          /\ to = "retrieve" => want[e[2]] = "premium"
    BY <1>3 DEF TakeEvent
  <2>2. customer' = owned[e[2]] /\ carries' = carries
    BY <1>3 DEF TakeEvent
  <2>3. \A s \in Buyers : ShownAt(s)'
    <3> SUFFICES ASSUME NEW s \in Buyers PROVE ShownAt(s)'
      OBVIOUS
    <3>1. ShownAt(s) /\ news'[<<"live", s>>] = news[<<"live", s>>]
      BY <2>1, <1>0, <1>3, EventFacts DEF SalesAreSound
    <3> QED BY <3>1, <1>1 DEF ShownAt
  <2>4. premium' \in BOOLEAN /\ to \in HandlerSteps \ {"none"} /\ news[e] # "none"
    BY <1>0, <1>1, CheckoutTypeFacts DEF HandlerSteps
  <2>5. "none" \in Statuses
    BY DEF Statuses
  <2> QED BY <2>1, <2>2, <2>3, <2>4, <2>5, <1>1, <1>3, HandlerStep
<1>4. CASE e[1] # "paid"
  <2>1. /\ news' = [news EXCEPT ![e] = "sync"] /\ customer' = customer
        /\ carries' = [carries EXCEPT ![e] = Carried(e)]
    BY <1>4 DEF TakeEvent
  <2>2. Carried(e) \in {"active", "canceled"} /\ (Carried(e) = "canceled" => e[1] = "over")
    BY <1>2, <1>4 DEF Carried
  <2>3. "sync" \in HandlerSteps \ {"none"} /\ "sync" \in HandlerSteps \ {"done"} /\ Carried(e) \in Statuses
    BY <2>2 DEF HandlerSteps, Statuses
  <2>4. carries'[e] = Carried(e) /\ premium' \in BOOLEAN
    BY <2>1, <1>0, <1>1, CheckoutTypeFacts
  <2>5. Carried(e) = "canceled" => subs[e[2]] = "canceled"
    BY <2>2, <1>1, <1>2 DEF NewsAt
  <2>6. \A s \in Buyers : ShownAt(s)'
    BY <2>1, <2>3, <1>1, ShownKept
  <2>7. news[e] # "none" /\ customer' \in {customer, owned[e[2]]}
    BY <2>1, <1>1
  <2>8. /\ "sync" \in {"sync", "row", "entitle"} =>
             carries'[e] # "none" /\ (carries'[e] = "canceled" => subs[e[2]] = "canceled")
        /\ "sync" = "retrieve" => e[1] = "paid" /\ want[e[2]] = "premium"
    BY <2>2, <2>4, <2>5
  <2> QED BY <2>1, <2>3, <2>4, <2>6, <2>7, <2>8, <1>1, HandlerStep
<1> QED BY <1>3, <1>4

\* The subscription is retrieved, as it is by now.
LEMMA RetrieveSubStep ==
  ASSUME CheckoutInv, NEW e \in Events, RetrieveSub(e)
  PROVE  CheckoutInv'
<1>0. CheckoutTypes /\ SalesAreSound
  BY DEF CheckoutInv
<1>1. /\ news[e] = "retrieve" /\ news' = [news EXCEPT ![e] = "sync"]
      /\ carries' = [carries EXCEPT ![e] = Carried(e)]
      /\ UNCHANGED <<want, spot, holds, unsaved, previous, customers, sold, owned, subs>>
      /\ UNCHANGED <<customer, premium, doubled>>
  BY DEF RetrieveSub, checkoutReqVars, stripeVars, rowVars
<1>2. e[2] \in Buyers /\ e[1] = "paid" /\ want[e[2]] = "premium" /\ sold[e[2]] = "paid"
  BY <1>0, <1>1, EventFacts DEF SalesAreSound, NewsAt
<1>3. Carried(e) = subs[e[2]] /\ subs[e[2]] # "none" /\ subs[e[2]] \in Statuses
  BY <1>0, <1>2, CheckoutTypeFacts DEF Carried, SalesAreSound, SaleAt
<1>4. carries'[e] = Carried(e) /\ premium' \in BOOLEAN
  BY <1>0, <1>1, CheckoutTypeFacts
<1>5. "sync" \in HandlerSteps \ {"none"} /\ "sync" \in HandlerSteps \ {"done"}
  BY DEF HandlerSteps
<1>6. \A s \in Buyers : ShownAt(s)'
  BY <1>1, <1>5, ShownKept
<1>7. /\ "sync" \in {"sync", "row", "entitle"} =>
           carries'[e] # "none" /\ (carries'[e] = "canceled" => subs[e[2]] = "canceled")
      /\ "sync" = "retrieve" => e[1] = "paid" /\ want[e[2]] = "premium"
  BY <1>3, <1>4
<1> QED BY <1>1, <1>3, <1>4, <1>5, <1>6, <1>7, HandlerStep

\* The customer is saved, twice.
LEMMA SaveSteps ==
  ASSUME CheckoutInv, NEW e \in Events, SaveSynced(e) \/ SyncAccount(e)
  PROVE  CheckoutInv'
<1>0. CheckoutTypes /\ SalesAreSound
  BY DEF CheckoutInv
<1>1. PICK to \in {"row", "entitle"} : news' = [news EXCEPT ![e] = to]
  BY DEF SaveSynced, SyncAccount
<1>2. /\ news[e] \in {"sync", "row"} /\ customer' = owned[e[2]]
      /\ UNCHANGED <<want, spot, holds, unsaved, previous, customers, sold, owned, subs>>
      /\ UNCHANGED <<premium, carries, doubled>>
  BY DEF SaveSynced, SyncAccount, checkoutReqVars, stripeVars
<1>3. /\ to \in HandlerSteps \ {"none"} /\ to \in HandlerSteps \ {"done"} /\ "none" \in Statuses
      /\ to # "retrieve" /\ news[e] # "none"
  BY <1>2 DEF HandlerSteps, Statuses
<1>4. \A s \in Buyers : ShownAt(s)'
  BY <1>1, <1>2, <1>3, ShownKept
<1>5. /\ premium' \in BOOLEAN
      /\ carries'[e] # "none" /\ (carries'[e] = "canceled" => subs[e[2]] = "canceled")
  BY <1>0, <1>2, CheckoutTypeFacts DEF SalesAreSound, NewsAt
<1> QED BY <1>1, <1>2, <1>3, <1>4, <1>5, HandlerStep

\* The entitlement is written: a live subscription's handled events show it, and only the
\* end of another takes it away.
LEMMA SyncEntitlementStep ==
  ASSUME CheckoutInv, NEW e \in Events, SyncEntitlement(e)
  PROVE  CheckoutInv'
<1>0. CheckoutTypes /\ SalesAreSound
  BY DEF CheckoutInv
<1>1. /\ news[e] = "entitle" /\ premium' = (carries[e] = "active")
      /\ news' = [news EXCEPT ![e] = "done"] /\ carries' = [carries EXCEPT ![e] = "none"]
      /\ UNCHANGED <<want, spot, holds, unsaved, previous, customers, sold, owned, subs>>
      /\ UNCHANGED <<customer, doubled>>
  BY DEF SyncEntitlement, checkoutReqVars, stripeVars
<1>2. /\ e[2] \in Buyers /\ carries[e] \in {"active", "canceled"}
      /\ carries[e] = "canceled" => subs[e[2]] = "canceled"
  BY <1>0, <1>1, CheckoutTypeFacts, EventFacts DEF SalesAreSound, NewsAt, Statuses
<1>3. ASSUME NEW s \in Buyers PROVE ShownAt(s)'
  <2> SUFFICES ASSUME subs[s] = "active", ~premium'
               PROVE  \E t \in Buyers \ {s} : subs[t] = "canceled"
    BY <1>1 DEF ShownAt
  <2>1. subs[e[2]] = "canceled"
    BY <1>1, <1>2
  <2> QED BY <2>1, <1>2
<1>4. "done" \in HandlerSteps \ {"none"} /\ "none" \in Statuses
  BY DEF HandlerSteps, Statuses
<1>5. premium' \in BOOLEAN
  BY <1>1
<1> QED BY <1>1, <1>3, <1>4, <1>5, HandlerStep

\* A handler stops half-way.
LEMMA LoseEventStep ==
  ASSUME CheckoutInv, NEW e \in Events, LoseEvent(e)
  PROVE  CheckoutInv'
<1>0. CheckoutTypes
  BY DEF CheckoutInv
<1>1. /\ news[e] \in {"retrieve", "sync", "row", "entitle"}
      /\ news' = [news EXCEPT ![e] = "lost"] /\ carries' = [carries EXCEPT ![e] = "none"]
      /\ UNCHANGED <<want, spot, holds, unsaved, previous, customers, sold, owned, subs>>
      /\ UNCHANGED <<customer, premium, doubled>>
  BY DEF LoseEvent, Handled, checkoutReqVars, stripeVars, rowVars
<1>2. "lost" \in HandlerSteps \ {"none"} /\ "lost" \in HandlerSteps \ {"done"} /\ "none" \in Statuses
  BY DEF HandlerSteps, Statuses
<1>3. \A s \in Buyers : ShownAt(s)'
  BY <1>1, <1>2, ShownKept
<1>4. premium' \in BOOLEAN /\ news[e] # "none"
  BY <1>0, <1>1, CheckoutTypeFacts
<1> QED BY <1>1, <1>2, <1>3, <1>4, HandlerStep

\* Every step keeps the invariant.
LEMMA CheckoutInductive == CheckoutInv /\ [CheckoutNext]_checkoutVars => CheckoutInv'
<1> SUFFICES ASSUME CheckoutInv, [CheckoutNext]_checkoutVars PROVE CheckoutInv'
  OBVIOUS
<1>1. CASE UNCHANGED checkoutVars
  BY <1>1, CheckoutStutters
<1>2. ASSUME NEW b \in Buyers, NEW what \in Wants[b], Shop(b, what) PROVE CheckoutInv'
  BY <1>2, ShopStep
<1>3. ASSUME NEW b \in Buyers,
             LookUp(b) \/ ReadAccount(b) \/ CreateCustomer(b) \/ SaveNewCustomer(b)
               \/ OpenSession(b) \/ StopShopping(b) \/ Pay(b) \/ Cancel(b)
      PROVE  CheckoutInv'
  BY <1>3, LookUpStep, ReadAccountStep, CreateCustomerStep, SaveNewCustomerStep,
     OpenSessionStep, StopShoppingStep, PayStep, CancelStep
<1>4. ASSUME NEW e \in Events,
             TakeEvent(e) \/ RetrieveSub(e) \/ SaveSynced(e) \/ SyncAccount(e)
               \/ SyncEntitlement(e) \/ LoseEvent(e)
      PROVE  CheckoutInv'
  BY <1>4, TakeEventStep, RetrieveSubStep, SaveSteps, SyncEntitlementStep, LoseEventStep
<1> QED BY <1>1, <1>2, <1>3, <1>4 DEF CheckoutNext

\* The strengthening of the property below holds throughout every behaviour.
THEOREM CheckoutInvariance == CheckoutSpec => []CheckoutInv
<1>1. CheckoutInit => CheckoutInv
  BY CheckoutStarts
<1>2. CheckoutInv /\ [CheckoutNext]_checkoutVars => CheckoutInv'
  BY CheckoutInductive
<1> QED BY <1>1, <1>2, PTL DEF CheckoutSpec

\* Two customers of one user come only of requests that overlapped or of one that stopped
\* before it saved its own; and premium is sold over a live and handled subscription only
\* when a second one's end has hidden it.
THEOREM SoldOnce == CheckoutSpec => []SoldOnceUnlessOverlapped
<1>1. CheckoutInv => SoldOnceUnlessOverlapped
  <2> SUFFICES ASSUME CheckoutInv
               PROVE  OneCustomerUnlessOverlapped /\ PremiumSoldTwiceOnlyAfterDouble
    BY DEF SoldOnceUnlessOverlapped
  <2>1. OneCustomerUnlessOverlapped
    <3> SUFFICES ASSUME NEW a \in customers, NEW b \in customers, a \in previous[b]
                 PROVE  a \in unsaved
      BY DEF OneCustomerUnlessOverlapped
    <3>1. b \in Buyers
      BY CheckoutTypeFacts DEF CheckoutInv
    <3> QED BY <3>1 DEF CheckoutInv, ShoppersAreSound, PreviousAt
  <2>2. PremiumSoldTwiceOnlyAfterDouble
    BY DEF PremiumSoldTwiceOnlyAfterDouble, CheckoutInv, DoublesAreExplained, DoubledAt
  <2> QED BY <2>1, <2>2
<1> QED BY <1>1, CheckoutInvariance, PTL

-----------------------------------------------------------------------------
(* The metered routes. *)

Routes == {"compare", "test", "plan", "checkin"}
Positions == {"idle", "peek", "charge", "reread", "pick", "insert", "advance", "run", "vision",
              "store", "complete", "note", "reply", "done", "fail", "sorry"}
Answers == {"none", "refused", "denied", "unmet", "ok", "failed", "error", "timeout", "lost"}
JobStates == {"none", "queued", "running", "completed", "failed", "erased"}
PlanRow == [by : Requests \cup {Earlier}, status : {"active", "completed"}, day : Nat, start : Nat]
UseRow == [plan : Int, day : Int]

RouteTypes ==
  /\ kind \in [Requests -> {"none"} \cup Routes] /\ at \in [Requests -> Positions]
  /\ answer \in [Requests -> Answers] /\ names \in [Requests -> Int]
  /\ uses \in [Requests -> UseRow] /\ sawPlans \in [Requests -> Nat]
RecordTypes ==
  /\ charged \subseteq Requests /\ result \subseteq Requests /\ noted \subseteq Requests
  /\ job \in [Requests -> JobStates] /\ plans \in Seq(PlanRow)
  /\ \A r \in Requests : checkin[r] \in UseRow \cup {<<>>}
  /\ today \in Nat /\ erasing \in {"no", "jobs", "profile", "done"}
  /\ DOMAIN checkin = Requests
PaidTypes == RouteTypes /\ RecordTypes

\* The account: what was charged is what left it.
BooksBalance ==
  /\ balance \in [{Owner} -> Nat] /\ spent \in [{Owner} -> Nat] /\ purchased \in [{Owner} -> Nat]
  /\ IsFiniteSet(charged)
  /\ spent[Owner] = Cost * Cardinality(charged)
  /\ balance[Owner] + spent[Owner] = purchased[Owner]

\* Where a request may be; past its charge it is charged, before it has no record.
Unpaid == {"idle", "peek", "charge"}
RouteAt(r) ==
  /\ kind[r] = "none" <=> at[r] = "idle"
  /\ at[r] \in {"run", "vision", "store", "complete", "fail", "sorry"} => Compares(r)
  /\ at[r] \in {"pick", "advance"} => kind[r] = "checkin"
  /\ at[r] = "reread" => kind[r] # "compare"
  /\ at[r] = "vision" => kind[r] = "compare"
  /\ at[r] \in Unpaid => r \notin charged
  /\ at[r] \notin Unpaid \cup {"done"} => r \in charged
  /\ answer[r] \in {"refused", "denied", "ok", "failed"} => at[r] = "done"
  /\ answer[r] \in {"refused", "denied"} => r \notin charged
  /\ r \notin charged => job[r] = "none" /\ checkin[r] = <<>> /\ r \notin noted

\* A job: each of its statements finds what the ones before it wrote, or it was erased.
JobAt(r) ==
  Compares(r) =>
    /\ at[r] \in {"peek", "charge", "reread", "insert"} => job[r] = "none"
    /\ at[r] \in {"run", "vision", "store", "complete"} => job[r] # "none"
    /\ at[r] = "complete" => job[r] = "erased" \/ r \in result
    /\ at[r] = "note" => job[r] \in {"completed", "erased"}
    /\ at[r] = "reply" =>
         job[r] = "erased" \/ (job[r] = "completed" /\ (r \in noted \/ erasing # "no"))
    /\ at[r] = "sorry" => job[r] \in {"failed", "erased"}
    /\ job[r] = "completed" => r \in result
    /\ answer[r] = "failed" => job[r] \in {"failed", "erased"}
    /\ answer[r] = "ok" =>
         job[r] = "erased" \/ (job[r] = "completed" /\ (r \in noted \/ erasing # "no"))

\* A check-in: what it uses exists and is not ahead of the calendar, and its row stays.
Dated(u) ==
  /\ u.plan \in DOMAIN plans /\ u.day \in 0..TargetDays
  /\ plans[u.plan].start + u.day <= today
CheckinAt(r) ==
  /\ checkin[r] = <<>> \/ (checkin[r] = uses[r] /\ kind[r] = "checkin")
  /\ at[r] \in {"peek", "charge", "reread", "pick", "insert"} => checkin[r] = <<>>
  /\ at[r] = "advance" => checkin[r] = uses[r]
  /\ at[r] = "pick" => uses[r].plan \in {0} \cup DOMAIN plans
  /\ kind[r] = "checkin" /\ at[r] \in {"insert", "advance"} => Dated(uses[r])

\* A plan's day is that of a check-in; only one with its whole term is completed.
PlanAt(p) ==
  /\ plans[p].day > 0 => \E r \in Requests : checkin[r] = [plan |-> p, day |-> plans[p].day]
  /\ plans[p].day <= TargetDays /\ plans[p].start + plans[p].day <= today
  /\ plans[p].status = "completed" <=> plans[p].day = TargetDays

\* Plan q was completed, and is active again only because a slower check-in set it back.
Reverted(q) ==
  \E r, s \in Requests : /\ checkin[r] # <<>> /\ checkin[r].plan = q /\ checkin[r].day < TargetDays
                         /\ checkin[s] # <<>> /\ checkin[s].plan = q /\ checkin[s].day = TargetDays
Passed(n) == \A q \in 1..n : plans[q].status = "completed" \/ Reverted(q)

\* The plans the creator of a plan had read are passed, when it inserts its own and ever after.
SeenAt(r) ==
  kind[r] = "plan" /\ at[r] = "insert" => sawPlans[r] <= Len(plans) /\ Passed(sawPlans[r])
CreatorAt(p) ==
  LET r == plans[p].by IN
  /\ r = Earlier => p = 1
  /\ r # Earlier =>
       /\ kind[r] = "plan" /\ at[r] \in {"note", "reply", "done"} /\ r \in charged
       /\ sawPlans[r] < p /\ Passed(sawPlans[r])

RequestsAreSound == \A r \in Requests : RouteAt(r) /\ JobAt(r) /\ CheckinAt(r) /\ SeenAt(r)
PlansAreSound == \A p \in DOMAIN plans : PlanAt(p) /\ CreatorAt(p)
PaidInv == PaidTypes /\ BooksBalance /\ RequestsAreSound /\ PlansAreSound

-----------------------------------------------------------------------------
(* The order of a route's statements. *)

\* No route repeats a statement.
LEMMA RoutesRepeatNothing ==
  \A k \in Routes : \A i, j \in DOMAIN Steps[k] : Steps[k][i] = Steps[k][j] => i = j
<1>1. ASSUME NEW s,
             s = <<"peek", "charge", "insert", "run", "vision", "store",
                   "complete", "note", "reply", "done">>,
             NEW i \in DOMAIN s, NEW j \in DOMAIN s, s[i] = s[j]
      PROVE  i = j
  <2>1. i \in {1, 2, 3, 4, 5, 6, 7, 8, 9, 10} /\ j \in {1, 2, 3, 4, 5, 6, 7, 8, 9, 10}
    BY <1>1
  <2> QED BY <1>1, <2>1
<1>2. ASSUME NEW s,
             s = <<"peek", "charge", "reread", "insert", "run", "store",
                   "complete", "note", "reply", "done">>,
             NEW i \in DOMAIN s, NEW j \in DOMAIN s, s[i] = s[j]
      PROVE  i = j
  <2>1. i \in {1, 2, 3, 4, 5, 6, 7, 8, 9, 10} /\ j \in {1, 2, 3, 4, 5, 6, 7, 8, 9, 10}
    BY <1>2
  <2> QED BY <1>2, <2>1
<1>3. ASSUME NEW s, s = <<"peek", "charge", "reread", "insert", "note", "reply", "done">>,
             NEW i \in DOMAIN s, NEW j \in DOMAIN s, s[i] = s[j]
      PROVE  i = j
  <2>1. i \in {1, 2, 3, 4, 5, 6, 7} /\ j \in {1, 2, 3, 4, 5, 6, 7}
    BY <1>3
  <2> QED BY <1>3, <2>1
<1>4. ASSUME NEW s, s = <<"peek", "charge", "reread", "pick", "insert", "advance",
                          "note", "reply", "done">>,
             NEW i \in DOMAIN s, NEW j \in DOMAIN s, s[i] = s[j]
      PROVE  i = j
  <2>1. i \in {1, 2, 3, 4, 5, 6, 7, 8, 9} /\ j \in {1, 2, 3, 4, 5, 6, 7, 8, 9}
    BY <1>4
  <2> QED BY <1>4, <2>1
<1> QED BY <1>1, <1>2, <1>3, <1>4 DEF Steps, Routes

\* So the statement after the k-th is the next.
LEMMA NextStatement ==
  ASSUME NEW r, kind[r] \in Routes
  PROVE  \A k \in DOMAIN Steps[kind[r]] :
           Steps[kind[r]][k] = at[r] => After(r) = Steps[kind[r]][k + 1]
<1> SUFFICES ASSUME NEW k \in DOMAIN Steps[kind[r]], Steps[kind[r]][k] = at[r]
             PROVE  After(r) = Steps[kind[r]][k + 1]
  OBVIOUS
<1>1. PICK s : s = Steps[kind[r]]
  OBVIOUS
<1>2. After(r) = s[(CHOOSE i \in DOMAIN s : s[i] = at[r]) + 1]
  BY <1>1 DEF After
<1>3. (CHOOSE i \in DOMAIN s : s[i] = at[r]) = k
  BY <1>1, RoutesRepeatNothing
<1> QED BY <1>1, <1>2, <1>3

\* The statements of POST /api/compare.
LEMMA AfterCompare ==
  ASSUME NEW r, kind[r] = "compare"
  PROVE  /\ at[r] = "charge" => After(r) = "insert"
         /\ at[r] = "insert" => After(r) = "run"
         /\ at[r] = "run" => After(r) = "vision"
         /\ at[r] = "vision" => After(r) = "store"
         /\ at[r] = "store" => After(r) = "complete"
         /\ at[r] = "complete" => After(r) = "note"
         /\ at[r] = "note" => After(r) = "reply"
<1>1. PICK s : s = Steps[kind[r]]
  OBVIOUS
<1>2. /\ DOMAIN s = 1..10 /\ s[2] = "charge" /\ s[3] = "insert" /\ s[4] = "run"
      /\ s[5] = "vision" /\ s[6] = "store" /\ s[7] = "complete" /\ s[8] = "note"
      /\ s[9] = "reply"
  BY <1>1 DEF Steps
<1>3. \A k \in DOMAIN s : s[k] = at[r] => After(r) = s[k + 1]
  BY <1>1, NextStatement DEF Routes
<1> QED BY <1>2, <1>3

\* The statements of /api/compare/test.
LEMMA AfterTest ==
  ASSUME NEW r, kind[r] = "test"
  PROVE  /\ at[r] = "charge" => After(r) = "reread"
         /\ at[r] = "reread" => After(r) = "insert"
         /\ at[r] = "insert" => After(r) = "run"
         /\ at[r] = "run" => After(r) = "store"
         /\ at[r] = "store" => After(r) = "complete"
         /\ at[r] = "complete" => After(r) = "note"
         /\ at[r] = "note" => After(r) = "reply"
<1>1. PICK s : s = Steps[kind[r]]
  OBVIOUS
<1>2. /\ DOMAIN s = 1..10 /\ s[2] = "charge" /\ s[3] = "reread" /\ s[4] = "insert"
      /\ s[5] = "run" /\ s[6] = "store" /\ s[7] = "complete" /\ s[8] = "note"
      /\ s[9] = "reply"
  BY <1>1 DEF Steps
<1>3. \A k \in DOMAIN s : s[k] = at[r] => After(r) = s[k + 1]
  BY <1>1, NextStatement DEF Routes
<1> QED BY <1>2, <1>3

\* The statements of /api/appearance.
LEMMA AfterPlan ==
  ASSUME NEW r, kind[r] = "plan"
  PROVE  /\ at[r] = "charge" => After(r) = "reread"
         /\ at[r] = "reread" => After(r) = "insert"
         /\ at[r] = "insert" => After(r) = "note"
         /\ at[r] = "note" => After(r) = "reply"
<1>1. PICK s : s = Steps[kind[r]]
  OBVIOUS
<1>2. /\ DOMAIN s = 1..7 /\ s[2] = "charge" /\ s[3] = "reread" /\ s[4] = "insert"
      /\ s[5] = "note" /\ s[6] = "reply"
  BY <1>1 DEF Steps
<1>3. \A k \in DOMAIN s : s[k] = at[r] => After(r) = s[k + 1]
  BY <1>1, NextStatement DEF Routes
<1> QED BY <1>2, <1>3

\* The statements of a check-in.
LEMMA AfterCheckin ==
  ASSUME NEW r, kind[r] = "checkin"
  PROVE  /\ at[r] = "charge" => After(r) = "reread"
         /\ at[r] = "pick" => After(r) = "insert"
         /\ at[r] = "insert" => After(r) = "advance"
         /\ at[r] = "advance" => After(r) = "note"
         /\ at[r] = "note" => After(r) = "reply"
<1>1. PICK s : s = Steps[kind[r]]
  OBVIOUS
<1>2. /\ DOMAIN s = 1..9 /\ s[2] = "charge" /\ s[3] = "reread" /\ s[4] = "pick" /\ s[5] = "insert"
      /\ s[6] = "advance" /\ s[7] = "note" /\ s[8] = "reply"
  BY <1>1 DEF Steps
<1>3. \A k \in DOMAIN s : s[k] = at[r] => After(r) = s[k + 1]
  BY <1>1, NextStatement DEF Routes
<1> QED BY <1>2, <1>3

-----------------------------------------------------------------------------
(* Facts about the model's operators. *)

\* What the types of a request's variables say of their values.
LEMMA RouteFacts ==
  ASSUME PaidTypes, NEW r \in Requests
  PROVE  /\ kind[r] \in {"none"} \cup Routes /\ at[r] \in Positions /\ answer[r] \in Answers
         /\ names[r] \in Int /\ uses[r] \in UseRow /\ sawPlans[r] \in Nat
         /\ uses[r].plan \in Int /\ uses[r].day \in Int /\ job[r] \in JobStates
         /\ checkin[r] \in UseRow \cup {<<>>}
         /\ DOMAIN at = Requests /\ DOMAIN answer = Requests /\ DOMAIN kind = Requests
         /\ DOMAIN names = Requests /\ DOMAIN uses = Requests /\ DOMAIN sawPlans = Requests
         /\ DOMAIN job = Requests
<1>1. uses[r] \in UseRow
  BY DEF PaidTypes, RouteTypes
<1> QED BY <1>1 DEF PaidTypes, RouteTypes, RecordTypes, UseRow

\* And those of a plan's row.
LEMMA PlanFacts ==
  ASSUME PaidTypes
  PROVE  /\ Len(plans) \in Nat /\ DOMAIN plans = 1..Len(plans) /\ today \in Nat
         /\ \A p \in DOMAIN plans :
              /\ plans[p] \in PlanRow /\ plans[p].by \in Requests \cup {Earlier}
              /\ plans[p].status \in {"active", "completed"}
              /\ plans[p].day \in Nat /\ plans[p].start \in Nat
<1>1. \A p \in DOMAIN plans : plans[p] \in PlanRow
  BY DEF PaidTypes, RecordTypes
<1> QED BY <1>1 DEF PaidTypes, RecordTypes, PlanRow

\* Every nonempty set of plans has a newest.
LEMMA NewestExists ==
  ASSUME NEW n \in Nat, NEW S \in SUBSET (1..n), S # {}
  PROVE  \E i \in S : \A j \in S : j <= i
<1> DEFINE Above(x) == {y \in S : y > x}
           T == {Above(x) : x \in S}
           R == StrictSubsetOrdering(S)
<1>1. IsFiniteSet(S)
  <2>1. IsFiniteSet(1..n)
    BY FS_Interval
  <2> QED BY <2>1, FS_Subset
<1>2. T \subseteq FiniteSubsetsOf(S) /\ T # {}
  <2>1. ASSUME NEW x \in S
        PROVE  Above(x) \in SUBSET S /\ IsFiniteSet(Above(x))
    <3>1. Above(x) \in SUBSET S
      OBVIOUS
    <3> HIDE DEF Above
    <3> QED BY <1>1, <3>1, FS_Subset
  <2> QED BY <2>1 DEF FiniteSubsetsOf
<1>3. IsWellFoundedOn(R, FiniteSubsetsOf(S))
  BY <1>1, FS_StrictSubsetOrderingWellFounded
<1>4. PICK A \in T : \A B \in T : ~ (<<B, A>> \in R)
  <2> HIDE DEF T, R
  <2> QED BY <1>2, <1>3, WFMin
<1>5. PICK x \in S : A = Above(x)
  BY <1>4
<1>6. \A y \in S : x >= y
  <2> SUFFICES ASSUME NEW y \in S, y > x PROVE FALSE
    OBVIOUS
  <2>1. Above(y) \subseteq S /\ Above(x) \subseteq S
    OBVIOUS
  <2>2. Above(y) \subseteq Above(x) /\ Above(y) # Above(x)
    <3>1. \A z \in S : z \in Int
      OBVIOUS
    <3>2. y \in Above(x) /\ y \notin Above(y)
      BY <3>1
    <3>3. \A z \in S : z > y => z > x
      BY <3>1
    <3> QED BY <3>2, <3>3
  <2>3. <<Above(y), Above(x)>> \in R
    BY <2>1, <2>2 DEF StrictSubsetOrdering
  <2>4. Above(y) \in T
    OBVIOUS
  <2> QED BY <1>4, <1>5, <2>3, <2>4
<1> QED BY <1>6

\* readAppearanceHistorySnapshot finds a plan exactly if one is active.
LEMMA ActivePlanIsThere ==
  ASSUME PaidTypes
  PROVE  /\ ActivePlan \in {0} \cup DOMAIN plans
         /\ ActivePlan = 0 => \A p \in DOMAIN plans : plans[p].status = "completed"
<1> DEFINE active == {i \in DOMAIN plans : plans[i].status = "active"}
<1>1. Len(plans) \in Nat /\ DOMAIN plans = 1..Len(plans)
  BY PlanFacts
<1>2. ActivePlan = IF active = {} THEN 0 ELSE CHOOSE i \in active : \A j \in active : j <= i
  BY DEF ActivePlan
<1>3. CASE active = {}
  <2>1. \A p \in DOMAIN plans : plans[p].status # "active"
    BY <1>3
  <2> QED BY <1>2, <1>3, <2>1, PlanFacts
<1>4. CASE active # {}
  <2>1. \E i \in active : \A j \in active : j <= i
    BY <1>1, <1>4, NewestExists
  <2>2. ActivePlan \in active
    BY <1>2, <1>4, <2>1
  <2>3. ActivePlan \in 1..Len(plans)
    BY <1>1, <2>2
  <2> QED BY <1>1, <2>3
<1> QED BY <1>3, <1>4

-----------------------------------------------------------------------------
(* What a step leaves alone. *)

\* No plan is lost or started over, no check-in row changes, and a completed plan is
\* set back only as Reverted says.
PlansOnlyGrow ==
  /\ Len(plans) <= Len(plans)' /\ today <= today'
  /\ \A p \in DOMAIN plans : plans'[p].start = plans[p].start
  /\ \A q \in Requests : checkin[q] # <<>> => checkin'[q] = checkin[q]
  /\ \A p \in DOMAIN plans :
       plans[p].status = "completed" => plans'[p].status = "completed" \/ Reverted(p)'

\* Everything about the other requests, and the privacy delete.
OthersRest(r) ==
  /\ \A q \in Requests \ {r} :
       /\ kind'[q] = kind[q] /\ at'[q] = at[q] /\ answer'[q] = answer[q]
       /\ uses'[q] = uses[q] /\ sawPlans'[q] = sawPlans[q] /\ job'[q] = job[q]
       /\ checkin'[q] = checkin[q]
       /\ q \in charged' <=> q \in charged
       /\ q \in result' <=> q \in result
       /\ q \in noted' <=> q \in noted
  /\ erasing' = erasing

\* Plans once passed remain passed.
LEMMA PassedStays ==
  ASSUME PaidTypes, PlansOnlyGrow, NEW n \in Nat, n <= Len(plans), Passed(n)
  PROVE  Passed(n)'
<1>1. n' = n
  OBVIOUS
<1>2. SUFFICES ASSUME NEW q \in 1..n
               PROVE  (plans[q].status = "completed" \/ Reverted(q))'
  BY DEF Passed
<1>3. q \in DOMAIN plans
  BY PlanFacts
<1>4. CASE plans[q].status = "completed"
  BY <1>3, <1>4 DEF PlansOnlyGrow
<1>5. CASE Reverted(q)
  <2>1. PICK a, b \in Requests :
          /\ checkin[a] # <<>> /\ checkin[a].plan = q /\ checkin[a].day < TargetDays
          /\ checkin[b] # <<>> /\ checkin[b].plan = q /\ checkin[b].day = TargetDays
    BY <1>5 DEF Reverted
  <2>2. checkin'[a] = checkin[a] /\ checkin'[b] = checkin[b]
    BY <2>1 DEF PlansOnlyGrow
  <2> QED BY <2>1, <2>2 DEF Reverted
<1> QED BY <1>4, <1>5, <1>2 DEF Passed

\* A plan and a day that were real remain real.
LEMMA DatedStays ==
  ASSUME PaidTypes, PaidTypes', PlansOnlyGrow, NEW u, u.day \in Int, Dated(u)
  PROVE  /\ u.plan \in DOMAIN plans' /\ u.day \in 0..TargetDays
         /\ plans'[u.plan].start + u.day <= today'
<1>1. u.plan \in DOMAIN plans /\ plans[u.plan].start + u.day <= today /\ u.day \in 0..TargetDays
  BY DEF Dated
<1>2. DOMAIN plans = 1..Len(plans) /\ Len(plans) \in Nat /\ today \in Nat
  BY PlanFacts
<1>3. (DOMAIN plans = 1..Len(plans) /\ Len(plans) \in Nat /\ today \in Nat)'
  BY DEF PaidTypes, RecordTypes
<1>4. u.plan \in DOMAIN plans'
  BY <1>1, <1>2, <1>3 DEF PlansOnlyGrow
<1>5. plans'[u.plan].start = plans[u.plan].start /\ plans[u.plan].start \in Nat
  BY <1>1, PlanFacts DEF PlansOnlyGrow
<1> QED BY <1>1, <1>2, <1>3, <1>4, <1>5 DEF PlansOnlyGrow

\* The others are as sound as they were.
LEMMA OthersAreSound ==
  ASSUME PaidInv, PaidTypes', PlansOnlyGrow, NEW r \in Requests, OthersRest(r),
         NEW q \in Requests, q # r
  PROVE  (RouteAt(q) /\ JobAt(q) /\ CheckinAt(q) /\ SeenAt(q))'
<1>0. PaidTypes /\ RouteAt(q) /\ JobAt(q) /\ CheckinAt(q) /\ SeenAt(q)
  BY DEF PaidInv, RequestsAreSound
<1>1. /\ kind'[q] = kind[q] /\ at'[q] = at[q] /\ answer'[q] = answer[q]
      /\ uses'[q] = uses[q] /\ sawPlans'[q] = sawPlans[q] /\ job'[q] = job[q]
      /\ checkin'[q] = checkin[q] /\ erasing' = erasing
  BY DEF OthersRest
<1>2. /\ q \in charged' <=> q \in charged
      /\ q \in result' <=> q \in result
      /\ q \in noted' <=> q \in noted
  BY DEF OthersRest
<1>3. RouteAt(q)'
  BY <1>0, <1>1, <1>2 DEF RouteAt, Compares
<1>4. JobAt(q)'
  BY <1>0, <1>1, <1>2 DEF JobAt, Compares
<1>5. CheckinAt(q)'
  <2>1. (checkin[q] = <<>> \/ (checkin[q] = uses[q] /\ kind[q] = "checkin"))'
    BY <1>0, <1>1 DEF CheckinAt
  <2>2. (at[q] \in {"peek", "charge", "reread", "pick", "insert"} => checkin[q] = <<>>)'
    BY <1>0, <1>1 DEF CheckinAt
  <2>3. (at[q] = "advance" => checkin[q] = uses[q])'
    BY <1>0, <1>1 DEF CheckinAt
  <2>4. (at[q] = "pick" => uses[q].plan \in {0} \cup DOMAIN plans)'
    <3>1. DOMAIN plans \subseteq DOMAIN plans'
      <4>1. DOMAIN plans = 1..Len(plans) /\ Len(plans) \in Nat
        BY <1>0, PlanFacts
      <4>2. (DOMAIN plans = 1..Len(plans) /\ Len(plans) \in Nat)'
        BY DEF PaidTypes, RecordTypes
      <4> QED BY <4>1, <4>2 DEF PlansOnlyGrow
    <3> QED BY <1>0, <1>1, <3>1 DEF CheckinAt
  <2>5. (kind[q] = "checkin" /\ at[q] \in {"insert", "advance"} => Dated(uses[q]))'
    <3>1. SUFFICES ASSUME kind[q] = "checkin" /\ at[q] \in {"insert", "advance"}
                   PROVE  Dated(uses[q])'
      BY <1>1
    <3>2. Dated(uses[q]) /\ uses[q].day \in Int
      BY <1>0, <3>1, RouteFacts DEF CheckinAt
    <3>3. /\ uses[q].plan \in DOMAIN plans' /\ uses[q].day \in 0..TargetDays
          /\ plans'[uses[q].plan].start + uses[q].day <= today'
      BY <1>0, <3>2, DatedStays
    <3> QED BY <1>1, <3>3 DEF Dated
  <2> QED BY <2>1, <2>2, <2>3, <2>4, <2>5 DEF CheckinAt
<1>6. SeenAt(q)'
  <2>1. SUFFICES ASSUME kind[q] = "plan" /\ at[q] = "insert"
                 PROVE  (sawPlans[q] <= Len(plans) /\ Passed(sawPlans[q]))'
    BY <1>1 DEF SeenAt
  <2>2. sawPlans[q] <= Len(plans) /\ Passed(sawPlans[q]) /\ sawPlans[q] \in Nat
    BY <1>0, <2>1, RouteFacts DEF SeenAt
  <2>3. Len(plans) \in Nat /\ Len(plans)' \in Nat
    BY <1>0 DEF PaidTypes, RecordTypes
  <2>4. PICK n \in Nat : n = sawPlans[q]
    BY <2>2
  <2>5. Passed(n)'
    BY <1>0, <2>2, <2>4, PassedStays
  <2>6. sawPlans'[q] = n
    BY <1>1, <2>4
  <2>7. sawPlans'[q] <= Len(plans)'
    BY <2>2, <2>3, <2>4, <2>6 DEF PlansOnlyGrow
  <2> QED BY <2>5, <2>6, <2>7 DEF Passed
<1> QED BY <1>3, <1>4, <1>5, <1>6

\* A request past the plan it created stays where it is or goes on to its end.
CreatorStays(r) ==
  kind[r] = "plan" /\ at[r] \in {"note", "reply", "done"} =>
    /\ kind'[r] = "plan" /\ at'[r] \in {"note", "reply", "done"}
    /\ sawPlans'[r] = sawPlans[r]

\* A plan whose creator did not begin again still has a creator that had passed the older ones.
LEMMA CreatorsStay ==
  ASSUME PaidInv, PlansOnlyGrow, charged \subseteq charged',
         \A r \in Requests : CreatorStays(r),
         NEW p \in DOMAIN plans, plans'[p].by = plans[p].by
  PROVE  CreatorAt(p)'
<1>0. PaidTypes /\ CreatorAt(p)
  BY DEF PaidInv, PlansAreSound
<1>1. PICK c : c = plans[p].by
  OBVIOUS
<1>2. CASE c = Earlier
  BY <1>0, <1>1, <1>2 DEF CreatorAt
<1>3. CASE c # Earlier
  <2>1. /\ kind[c] = "plan" /\ at[c] \in {"note", "reply", "done"} /\ c \in charged
        /\ sawPlans[c] < p /\ Passed(sawPlans[c])
    BY <1>0, <1>1, <1>3 DEF CreatorAt
  <2>2. c \in Requests /\ Len(plans) \in Nat /\ p \in 1..Len(plans)
    BY <1>0, <1>1, <1>3, PlanFacts
  <2>3. kind'[c] = "plan" /\ at'[c] \in {"note", "reply", "done"} /\ sawPlans'[c] = sawPlans[c]
    BY <2>1, <2>2 DEF CreatorStays
  <2>4. PICK n \in Nat : n = sawPlans[c]
    BY <1>0, <2>2, RouteFacts
  <2>5. n <= Len(plans)
    BY <2>1, <2>2, <2>4
  <2>6. Passed(n)'
    BY <1>0, <2>1, <2>4, <2>5, PassedStays
  <2>7. Passed(sawPlans[c])'
    BY <2>3, <2>4, <2>6 DEF Passed
  <2>8. plans'[p].by = c /\ c' = c
    BY <1>1
  <2> QED BY <1>3, <2>1, <2>3, <2>7, <2>8 DEF CreatorAt
<1> QED BY <1>2, <1>3

\* A plan that a step leaves as it was is as real as it was.
LEMMA PlanStays ==
  ASSUME PaidInv, PlansOnlyGrow, PaidTypes', NEW p \in DOMAIN plans, plans'[p] = plans[p]
  PROVE  PlanAt(p)'
<1>0. PaidTypes /\ PlanAt(p)
  BY DEF PaidInv, PlansAreSound
<1>1. plans[p].day > 0 => \E q \in Requests : checkin'[q] = [plan |-> p, day |-> plans[p].day]
  <2>1. SUFFICES ASSUME plans[p].day > 0
                 PROVE  \E q \in Requests : checkin'[q] = [plan |-> p, day |-> plans[p].day]
    OBVIOUS
  <2>2. PICK v : v = [plan |-> p, day |-> plans[p].day]
    OBVIOUS
  <2>3. PICK q \in Requests : checkin[q] = v
    BY <1>0, <2>1, <2>2 DEF PlanAt
  <2>4. checkin[q] # <<>>
    <3>1. v.plan = p /\ p \in 1..Len(plans)
      BY <1>0, <2>2, PlanFacts
    <3>2. v # <<>>
      BY <2>2
    <3> QED BY <2>3, <3>2
  <2>5. checkin'[q] = v
    BY <2>3, <2>4 DEF PlansOnlyGrow
  <2> QED BY <2>2, <2>5
<1>2. /\ plans[p].day \in Nat /\ plans[p].start \in Nat /\ today \in Nat /\ today' \in Nat
  BY <1>0, PlanFacts DEF PaidTypes, RecordTypes
<1>3. plans[p].start + plans[p].day <= today'
  BY <1>0, <1>2 DEF PlanAt, PlansOnlyGrow
<1> QED BY <1>0, <1>1, <1>3 DEF PlanAt

\* A step of one request that leaves the plans alone: what is left to show is that the
\* request itself is sound where it arrives.
LEMMA RequestRuns ==
  ASSUME PaidInv, PaidTypes', BooksBalance', NEW r \in Requests, OthersRest(r),
         plans' = plans, today' = today, charged \subseteq charged', CreatorStays(r),
         checkin[r] # <<>> => checkin'[r] = checkin[r],
         (RouteAt(r) /\ JobAt(r) /\ CheckinAt(r) /\ SeenAt(r))'
  PROVE  PaidInv'
<1>0. PaidTypes
  BY DEF PaidInv
<1>1. PlansOnlyGrow
  <2>1. Len(plans) <= Len(plans)' /\ today <= today'
    <3>1. Len(plans) \in Nat /\ today \in Nat
      BY <1>0, PlanFacts
    <3> QED BY <3>1
  <2>2. \A q \in Requests : checkin[q] # <<>> => checkin'[q] = checkin[q]
    BY DEF OthersRest
  <2> QED BY <2>1, <2>2 DEF PlansOnlyGrow
<1>2. RequestsAreSound'
  <2>1. \A q \in Requests : q # r => (RouteAt(q) /\ JobAt(q) /\ CheckinAt(q) /\ SeenAt(q))'
    BY <1>1, OthersAreSound
  <2> QED BY <2>1 DEF RequestsAreSound
<1>3. \A q \in Requests : CreatorStays(q)
  BY DEF OthersRest, CreatorStays
<1>4. PlansAreSound'
  <2>1. \A p \in DOMAIN plans : PlanAt(p)'
    BY <1>1, PlanStays
  <2>2. \A p \in DOMAIN plans : CreatorAt(p)'
    BY <1>1, <1>3, CreatorsStay
  <2>3. DOMAIN plans' = DOMAIN plans
    OBVIOUS
  <2> QED BY <2>1, <2>2, <2>3 DEF PlansAreSound
<1> QED BY <1>2, <1>4 DEF PaidInv

\* The same for a step that moves the request and its answer, and nothing else.
LEMMA Goes ==
  ASSUME PaidInv, NEW r \in Requests, NEW s \in Positions, NEW a \in Answers,
         at' = [at EXCEPT ![r] = s], answer' = [answer EXCEPT ![r] = a],
         UNCHANGED <<kind, names, uses, sawPlans, tableVars, today>>,
         kind[r] = "plan" /\ at[r] \in {"note", "reply", "done"} => s \in {"note", "reply", "done"},
         (RouteAt(r) /\ JobAt(r) /\ CheckinAt(r) /\ SeenAt(r))'
  PROVE  PaidInv'
<1>0. PaidTypes /\ BooksBalance
  BY DEF PaidInv
<1>1. /\ UNCHANGED <<kind, names, uses, sawPlans, job, result, noted, profiled, compared,
                     erasing, plans, checkin, charged, balance, purchased, spent, today>>
  BY DEF tableVars, jobVars, learnVars, planVars, accountVars
<1>2. PaidTypes'
  BY <1>0, <1>1 DEF PaidTypes, RouteTypes, RecordTypes
<1>3. BooksBalance'
  BY <1>0, <1>1 DEF BooksBalance
<1>4. at'[r] = s /\ answer'[r] = a
  BY <1>0, RouteFacts
<1>5. OthersRest(r)
  BY <1>1 DEF OthersRest
<1>6. CreatorStays(r)
  BY <1>1, <1>4 DEF CreatorStays
<1> QED BY <1>1, <1>2, <1>3, <1>5, <1>6, RequestRuns

-----------------------------------------------------------------------------
(* The steps of a route that write no record. *)

\* A request ends and its caller, if nobody told it anything yet, is told what is true.
LEMMA Ends ==
  ASSUME PaidInv, NEW r \in Requests, at[r] # "idle",
         NEW what \in Answers \ {"none", "timeout", "lost"},
         what \in {"refused", "denied"} => r \notin charged,
         what = "ok" => at[r] = "reply", what = "failed" => at[r] = "sorry",
         Goto(r, "done"), Tell(r, what),
         UNCHANGED <<kind, names, uses, sawPlans, tableVars, today>>
  PROVE  PaidInv'
<1>0. PaidTypes /\ RouteAt(r) /\ JobAt(r) /\ CheckinAt(r) /\ SeenAt(r)
  BY DEF PaidInv, RequestsAreSound
<1>1. PICK a \in Answers : a = IF answer[r] = "none" THEN what ELSE answer[r]
  BY <1>0, RouteFacts
<1>2. at' = [at EXCEPT ![r] = "done"] /\ answer' = [answer EXCEPT ![r] = a]
  BY <1>1 DEF Goto, Tell
<1>3. at'[r] = "done" /\ answer'[r] = a
  BY <1>0, <1>2, RouteFacts
<1>4. /\ kind' = kind /\ uses' = uses /\ job' = job /\ result' = result /\ noted' = noted
      /\ charged' = charged /\ checkin' = checkin /\ erasing' = erasing
  BY DEF tableVars, jobVars, learnVars, planVars
<1>5. RouteAt(r)'
  BY <1>0, <1>1, <1>3, <1>4 DEF RouteAt, Compares, Unpaid
<1>6. JobAt(r)'
  BY <1>0, <1>1, <1>3, <1>4 DEF JobAt, Compares
<1>7. CheckinAt(r)'
  BY <1>0, <1>3, <1>4 DEF CheckinAt
<1>8. SeenAt(r)'
  BY <1>3 DEF SeenAt
<1> QED BY <1>2, <1>5, <1>6, <1>7, <1>8, Goes DEF Positions

\* A request arrives: it has no record yet.
LEMMA BeginStep ==
  ASSUME PaidInv, NEW r \in Requests, NEW k \in Kinds[r],
         NEW id \in {NoSuchPlan, 0} \cup DOMAIN plans, Begin(r, k, id)
  PROVE  PaidInv'
<1>0. PaidTypes /\ BooksBalance /\ RouteAt(r) /\ JobAt(r) /\ CheckinAt(r) /\ SeenAt(r)
  BY DEF PaidInv, RequestsAreSound
<1>1. /\ at[r] = "idle" /\ kind' = [kind EXCEPT ![r] = k] /\ names' = [names EXCEPT ![r] = id]
      /\ at' = [at EXCEPT ![r] = "peek"]
      /\ UNCHANGED <<answer, uses, sawPlans, job, result, noted, profiled, compared, erasing,
                     plans, checkin, charged, balance, purchased, spent, today>>
  BY DEF Begin, Goto, tableVars, jobVars, learnVars, planVars, accountVars, boundVars
<1>2. k \in Routes
  BY PaidAssumption DEF Routes
<1>3. id \in Int
  BY <1>0, PlanFacts DEF NoSuchPlan
<1>4. kind'[r] = k /\ at'[r] = "peek" /\ kind[r] = "none"
  BY <1>0, <1>1, RouteFacts DEF RouteAt
<1>5. PaidTypes'
  BY <1>0, <1>1, <1>2, <1>3 DEF PaidTypes, RouteTypes, RecordTypes, Positions
<1>6. BooksBalance'
  BY <1>0, <1>1 DEF BooksBalance
<1>7. r \notin charged /\ job[r] = "none" /\ checkin[r] = <<>> /\ r \notin noted
  BY <1>0, <1>1 DEF RouteAt, Unpaid
<1>8. RouteAt(r)'
  BY <1>0, <1>1, <1>2, <1>4, <1>7 DEF RouteAt, Compares, Unpaid, Routes
<1>9. JobAt(r)'
  <2>1. answer[r] \notin {"ok", "failed"}
    BY <1>0, <1>1 DEF RouteAt
  <2> QED BY <1>1, <1>4, <1>7, <2>1 DEF JobAt, Compares
<1>10. CheckinAt(r)' /\ SeenAt(r)'
  BY <1>1, <1>4, <1>7 DEF CheckinAt, SeenAt
<1>11. OthersRest(r) /\ CreatorStays(r)
  BY <1>1, <1>4 DEF OthersRest, CreatorStays
<1> QED BY <1>1, <1>5, <1>6, <1>8, <1>9, <1>10, <1>11, RequestRuns

\* Reading a snapshot moves no clock.
LEMMA SeesKeepsTime ==
  ASSUME NEW r, NEW view, Sees(r, view)
  PROVE  UNCHANGED today
BY DEF Sees, Trouble, boundVars

\* The first reading moves the request and nothing else.
LEMMA PeekStep ==
  ASSUME PaidInv, NEW r \in Requests, Peek(r)
  PROVE  PaidInv'
<1>0. PaidTypes /\ RouteAt(r) /\ JobAt(r) /\ CheckinAt(r) /\ SeenAt(r)
  BY DEF PaidInv, RequestsAreSound
<1>1. /\ at[r] = "peek" /\ at' = [at EXCEPT ![r] = "charge"] /\ today' = today
      /\ UNCHANGED <<requestVars, tableVars>>
  BY SeesKeepsTime DEF Peek, Goto
<1>2. /\ UNCHANGED <<kind, answer, names, uses, sawPlans, job, result, noted, erasing,
                     checkin, charged>>
  BY <1>1 DEF requestVars, tableVars, jobVars, learnVars, planVars
<1>3. answer' = [answer EXCEPT ![r] = answer[r]] /\ answer[r] \in Answers /\ at'[r] = "charge"
  BY <1>0, <1>1, <1>2, RouteFacts DEF PaidTypes, RouteTypes
<1>4. RouteAt(r)'
  BY <1>0, <1>1, <1>2, <1>3 DEF RouteAt, Compares, Unpaid
<1>5. JobAt(r)'
  BY <1>0, <1>1, <1>2, <1>3 DEF JobAt, Compares
<1>6. CheckinAt(r)' /\ SeenAt(r)'
  BY <1>0, <1>1, <1>2, <1>3 DEF CheckinAt, SeenAt
<1> QED BY <1>1, <1>2, <1>3, <1>4, <1>5, <1>6, Goes DEF Positions

\* A request refused before its charge took nothing.
LEMMA RefuseStep ==
  ASSUME PaidInv, NEW r \in Requests, Refuse(r)
  PROVE  PaidInv'
<1>1. /\ at[r] = "peek" /\ Goto(r, "done") /\ Tell(r, "refused") /\ today' = today
      /\ UNCHANGED <<kind, names, uses, sawPlans, tableVars>>
  BY SeesKeepsTime DEF Refuse
<1>2. r \notin charged
  BY <1>1 DEF PaidInv, RequestsAreSound, RouteAt, Unpaid
<1> QED BY <1>1, <1>2, Ends DEF Answers

\* Nor did one whose balance does not cover the action.
LEMMA DenyStep ==
  ASSUME PaidInv, NEW r \in Requests, Deny(r)
  PROVE  PaidInv'
<1>1. /\ at[r] = "charge" /\ Goto(r, "done") /\ Tell(r, "denied") /\ today' = today
      /\ UNCHANGED <<kind, names, uses, sawPlans, tableVars>>
  BY DEF Deny, boundVars
<1>2. r \notin charged
  BY <1>1 DEF PaidInv, RequestsAreSound, RouteAt, Unpaid
<1> QED BY <1>1, <1>2, Ends DEF Answers

\* A request whose history is gone ends, charged and without a record.
LEMMA UnmetStep ==
  ASSUME PaidInv, NEW r \in Requests, Unmet(r)
  PROVE  PaidInv'
<1>1. /\ at[r] = "reread" /\ Goto(r, "done") /\ Tell(r, "unmet") /\ today' = today
      /\ UNCHANGED <<kind, names, uses, sawPlans, tableVars>>
  BY SeesKeepsTime DEF Unmet
<1> QED BY <1>1, Ends DEF Answers

\* 200 is told of a completed job, 500 of one that was set to failed.
LEMMA ReplyStep ==
  ASSUME PaidInv, NEW r \in Requests, Reply(r)
  PROVE  PaidInv'
<1>1. PICK what : what = IF at[r] = "reply" THEN "ok" ELSE "failed"
  OBVIOUS
<1>2. /\ at[r] \in {"reply", "sorry"} /\ Goto(r, "done") /\ Tell(r, what) /\ today' = today
      /\ UNCHANGED <<kind, names, uses, sawPlans, tableVars>>
  BY <1>1 DEF Reply, boundVars
<1>3. what \in {"ok", "failed"} /\ (what = "ok" => at[r] = "reply")
  BY <1>1
<1>4. what = "failed" => at[r] = "sorry"
  BY <1>1, <1>2
<1> QED BY <1>2, <1>3, <1>4, Ends DEF Answers

\* A rejected statement: to the catch in the try block of a job, to the end anywhere else.
LEMMA RejectedStep ==
  ASSUME PaidInv, NEW r \in Requests, Rejected(r)
  PROVE  PaidInv'
<1>0. PaidTypes /\ RouteAt(r) /\ JobAt(r) /\ CheckinAt(r) /\ SeenAt(r)
  BY DEF PaidInv, RequestsAreSound
<1>1. /\ at[r] \notin {"idle", "vision", "done"} /\ today' = today
      /\ UNCHANGED <<kind, names, uses, sawPlans, tableVars>>
  BY DEF Rejected, Trouble, boundVars
<1>2. CASE InTry(r)
  <2>1. at' = [at EXCEPT ![r] = "fail"] /\ answer' = answer
    BY <1>2 DEF Rejected, Goto
  <2>2. /\ UNCHANGED <<kind, answer, names, uses, sawPlans, job, result, noted, erasing,
                       checkin, charged>>
    BY <1>1, <2>1 DEF tableVars, jobVars, learnVars, planVars
  <2>3. answer' = [answer EXCEPT ![r] = answer[r]] /\ answer[r] \in Answers /\ at'[r] = "fail"
    BY <1>0, <2>1, RouteFacts DEF PaidTypes, RouteTypes
  <2>4. Compares(r) /\ at[r] \in {"run", "vision", "store", "complete", "note"}
    BY <1>2 DEF InTry
  <2>5. RouteAt(r)'
    BY <1>0, <2>2, <2>3, <2>4 DEF RouteAt, Compares, Unpaid
  <2>6. JobAt(r)'
    BY <1>0, <2>2, <2>3, <2>4 DEF JobAt, Compares
  <2>7. CheckinAt(r)' /\ SeenAt(r)'
    BY <1>0, <2>2, <2>3 DEF CheckinAt, SeenAt
  <2>8. kind[r] # "plan"
    BY <2>4 DEF Compares
  <2> QED BY <1>1, <2>1, <2>3, <2>5, <2>6, <2>7, <2>8, Goes DEF Positions
<1>3. CASE ~InTry(r)
  <2>1. Goto(r, "done") /\ Tell(r, "error")
    BY <1>3 DEF Rejected
  <2> QED BY <1>1, <2>1, Ends DEF Answers
<1> QED BY <1>2, <1>3

\* The timer speaks for the request; its work goes on.
LEMMA TimeoutStep ==
  ASSUME PaidInv, NEW r \in Requests, Timeout(r)
  PROVE  PaidInv'
<1>0. PaidTypes /\ RouteAt(r) /\ JobAt(r) /\ CheckinAt(r) /\ SeenAt(r)
  BY DEF PaidInv, RequestsAreSound
<1>1. /\ at[r] \notin {"idle", "done"} /\ answer[r] = "none" /\ today' = today
      /\ answer' = [answer EXCEPT ![r] = "timeout"]
      /\ UNCHANGED <<kind, at, names, uses, sawPlans, tableVars>>
  <2>1. Tell(r, "timeout") /\ answer[r] = "none"
    BY DEF Timeout
  <2>2. answer' = [answer EXCEPT ![r] = "timeout"]
    BY <1>0, <2>1, RouteFacts DEF Tell
  <2> QED BY <2>1, <2>2 DEF Timeout, Running, boundVars
<1>2. /\ UNCHANGED <<kind, at, names, uses, sawPlans, job, result, noted, erasing,
                     checkin, charged>>
  BY <1>1 DEF tableVars, jobVars, learnVars, planVars
<1>3. at' = [at EXCEPT ![r] = at[r]] /\ at[r] \in Positions /\ answer'[r] = "timeout"
  BY <1>0, <1>1, RouteFacts DEF PaidTypes, RouteTypes
<1>4. RouteAt(r)'
  BY <1>0, <1>2, <1>3 DEF RouteAt, Compares, Unpaid
<1>5. JobAt(r)'
  BY <1>0, <1>2, <1>3 DEF JobAt, Compares
<1>6. CheckinAt(r)' /\ SeenAt(r)'
  <2>1. plans' = plans /\ today' = today
    BY <1>1 DEF tableVars, planVars
  <2> QED BY <1>0, <1>2, <2>1 DEF CheckinAt, SeenAt, Dated, Passed, Reverted
<1> QED BY <1>1, <1>3, <1>4, <1>5, <1>6, Goes DEF Answers

\* The image analysis writes nothing.
LEMMA VisionStep ==
  ASSUME PaidInv, NEW r \in Requests, Vision(r)
  PROVE  PaidInv'
<1>0. PaidTypes /\ RouteAt(r) /\ JobAt(r) /\ CheckinAt(r) /\ SeenAt(r)
  BY DEF PaidInv, RequestsAreSound
<1>1. /\ at[r] = "vision" /\ at' = [at EXCEPT ![r] = After(r)] /\ today' = today
      /\ UNCHANGED <<requestVars, tableVars>>
  BY DEF Vision, Goto, boundVars
<1>2. kind[r] = "compare" /\ After(r) = "store"
  BY <1>0, <1>1, AfterCompare DEF RouteAt
<1>3. UNCHANGED <<kind, answer, names, uses, sawPlans, job, result, noted, erasing, checkin, charged>>
  BY <1>1 DEF requestVars, tableVars, jobVars, learnVars, planVars
<1>4. answer' = [answer EXCEPT ![r] = answer[r]] /\ answer[r] \in Answers /\ at'[r] = "store"
  BY <1>0, <1>1, <1>2, <1>3, RouteFacts DEF PaidTypes, RouteTypes
<1>5. RouteAt(r)' /\ JobAt(r)'
  BY <1>0, <1>1, <1>2, <1>3, <1>4 DEF RouteAt, JobAt, Compares, Unpaid
<1>6. CheckinAt(r)' /\ SeenAt(r)'
  BY <1>0, <1>1, <1>2, <1>3, <1>4 DEF CheckinAt, SeenAt
<1> QED BY <1>1, <1>2, <1>3, <1>4, <1>5, <1>6, Goes DEF Positions

\* consumeCredits: what leaves the account is the cost of one more request.
LEMMA ChargeStep ==
  ASSUME PaidInv, NEW r \in Requests, Charge(r)
  PROVE  PaidInv'
<1>0. PaidTypes /\ BooksBalance /\ RouteAt(r) /\ JobAt(r) /\ CheckinAt(r) /\ SeenAt(r)
  BY DEF PaidInv, RequestsAreSound
<1>1. /\ at[r] = "charge" /\ at' = [at EXCEPT ![r] = After(r)] /\ charged' = charged \cup {r}
      /\ balance[Owner] >= Cost /\ balance' = [balance EXCEPT ![Owner] = @ - Cost]
      /\ spent' = [spent EXCEPT ![Owner] = @ + Cost] /\ purchased' = purchased
      /\ UNCHANGED <<kind, answer, names, uses, sawPlans, job, result, noted, profiled, compared,
                     erasing, plans, checkin, today>>
  BY DEF Charge, Goto, Account!Spend, requestVars, jobVars, learnVars, planVars, boundVars
<1>2. kind[r] \in Routes /\ r \notin charged
  BY <1>0, <1>1, RouteFacts DEF RouteAt, Unpaid
<1>3. After(r) = IF kind[r] = "compare" THEN "insert" ELSE "reread"
  BY <1>1, <1>2, AfterCompare, AfterTest, AfterPlan, AfterCheckin DEF Routes
<1>4. at'[r] = After(r) /\ After(r) \in {"insert", "reread"}
  BY <1>0, <1>1, <1>3, RouteFacts
<1>5. PaidTypes'
  BY <1>0, <1>1, <1>4 DEF PaidTypes, RouteTypes, RecordTypes, Positions
<1>6. BooksBalance'
  <2>1. PICK n \in Nat : n = Cardinality(charged)
    BY <1>0, FS_CardinalityType DEF BooksBalance
  <2>2. IsFiniteSet(charged') /\ Cardinality(charged') = n + 1
    BY <1>0, <1>1, <1>2, <2>1, FS_AddElement DEF BooksBalance
  <2>3. Cost \in Nat /\ balance[Owner] \in Nat /\ spent[Owner] \in Nat /\ purchased[Owner] \in Nat
    BY <1>0, PaidAssumption DEF BooksBalance
  <2>4. balance'[Owner] = balance[Owner] - Cost /\ spent'[Owner] = spent[Owner] + Cost
    BY <1>0, <1>1 DEF BooksBalance
  <2>5. Cost * (n + 1) = Cost * n + Cost
    BY <2>1, <2>3
  <2>6. spent'[Owner] = Cost * Cardinality(charged')
    BY <1>0, <2>1, <2>2, <2>4, <2>5 DEF BooksBalance
  <2>7. balance'[Owner] + spent'[Owner] = purchased'[Owner]
    BY <1>0, <1>1, <2>3, <2>4 DEF BooksBalance
  <2>8. /\ balance' \in [{Owner} -> Nat] /\ spent' \in [{Owner} -> Nat]
        /\ purchased' \in [{Owner} -> Nat]
    BY <1>0, <1>1, <2>3 DEF BooksBalance
  <2> QED BY <2>2, <2>6, <2>7, <2>8 DEF BooksBalance
<1>7. RouteAt(r)'
  BY <1>0, <1>1, <1>2, <1>3, <1>4 DEF RouteAt, Compares, Unpaid, Routes
<1>8. JobAt(r)'
  <2>1. job[r] = "none" /\ answer[r] \notin {"ok", "failed"}
    BY <1>0, <1>1, <1>2 DEF RouteAt
  <2> QED BY <1>1, <1>4, <2>1 DEF JobAt, Compares
<1>9. CheckinAt(r)' /\ SeenAt(r)'
  BY <1>0, <1>1, <1>2, <1>3, <1>4 DEF CheckinAt, SeenAt, RouteAt
<1>10. OthersRest(r) /\ CreatorStays(r)
  BY <1>1 DEF OthersRest, CreatorStays
<1> QED BY <1>1, <1>5, <1>6, <1>7, <1>8, <1>9, <1>10, RequestRuns

\* The second reading: an appearance route that goes on to insert a plan has passed the
\* plans it saw.
LEMMA RereadStep ==
  ASSUME PaidInv, NEW r \in Requests, Reread(r)
  PROVE  PaidInv'
<1>0. PaidTypes /\ BooksBalance /\ RouteAt(r) /\ JobAt(r) /\ CheckinAt(r) /\ SeenAt(r)
  BY DEF PaidInv, RequestsAreSound
<1>1. PICK view \in {Whole} \cup Blurred :
        /\ Sees(r, view)
        /\ CASE kind[r] = "test" -> Learned /\ Goto(r, After(r)) /\ UNCHANGED uses
             [] kind[r] = "plan" ->
                  /\ view.plan # 0 \/ view.history
                  /\ Goto(r, IF view.plan # 0 THEN "reply" ELSE After(r))
                  /\ UNCHANGED uses
             [] kind[r] = "checkin" ->
                  /\ view.history
                  /\ uses' = [uses EXCEPT ![r].plan = view.plan]
                  /\ Goto(r, "pick")
        /\ sawPlans' = [sawPlans EXCEPT ![r] = IF view.plan = ActivePlan THEN Len(plans) ELSE 0]
  BY DEF Reread
<1>2. view.plan \in {0} \cup DOMAIN plans
  BY <1>0, <1>1, ActivePlanIsThere DEF Whole, Blurred
<1>3. /\ at[r] = "reread"
      /\ UNCHANGED <<kind, answer, names, job, result, noted, profiled, compared,
                     erasing, plans, checkin, charged, balance, purchased, spent, today>>
  BY <1>1, SeesKeepsTime DEF Reread, tableVars, jobVars, learnVars, planVars, accountVars
<1>4. kind[r] \in {"test", "plan", "checkin"} /\ r \in charged
  BY <1>0, <1>3, RouteFacts DEF RouteAt, Routes, Unpaid
<1>5. PICK n \in Nat : n = IF view.plan = ActivePlan THEN Len(plans) ELSE 0
  BY <1>0, PlanFacts
<1>6. sawPlans' = [sawPlans EXCEPT ![r] = n] /\ sawPlans'[r] = n
  BY <1>0, <1>1, <1>5, RouteFacts
<1>7. \E s \in {"insert", "pick", "reply"} :
        /\ at' = [at EXCEPT ![r] = s]
        /\ s = "pick" <=> kind[r] = "checkin"
        /\ s = "insert" /\ kind[r] = "plan" => view.plan = 0
        /\ s = "reply" => kind[r] = "plan"
  <2>1. CASE kind[r] = "test"
    BY <1>1, <1>3, <2>1, AfterTest DEF Goto
  <2>2. CASE kind[r] = "plan"
    BY <1>1, <1>3, <2>2, AfterPlan DEF Goto
  <2>3. CASE kind[r] = "checkin"
    BY <1>1, <1>3, <2>3 DEF Goto
  <2> QED BY <1>4, <2>1, <2>2, <2>3
<1>8. PICK s \in {"insert", "pick", "reply"} :
        /\ at' = [at EXCEPT ![r] = s]
        /\ s = "pick" <=> kind[r] = "checkin"
        /\ s = "insert" /\ kind[r] = "plan" => view.plan = 0
        /\ s = "reply" => kind[r] = "plan"
  BY <1>7
<1>9. at'[r] = s
  BY <1>0, <1>8, RouteFacts
<1>10. /\ kind[r] # "checkin" => uses' = uses
       /\ kind[r] = "checkin" => uses' = [uses EXCEPT ![r].plan = view.plan]
  BY <1>1, <1>4
<1>11. uses' \in [Requests -> UseRow] /\ (kind[r] = "checkin" => uses'[r].plan = view.plan)
  <2>1. uses \in [Requests -> UseRow]
    BY <1>0 DEF PaidTypes, RouteTypes
  <2>2. view.plan \in Int
    BY <1>0, <1>2, PlanFacts
  <2> QED BY <1>10, <2>1, <2>2 DEF UseRow
<1>12. PaidTypes'
  <2>1. at' \in [Requests -> Positions]
    BY <1>0, <1>8 DEF PaidTypes, RouteTypes, Positions
  <2>2. RouteTypes'
    BY <1>0, <1>3, <1>6, <1>11, <2>1 DEF PaidTypes, RouteTypes
  <2> QED BY <1>0, <1>3, <2>2 DEF PaidTypes, RecordTypes
<1>13. BooksBalance'
  BY <1>0, <1>3 DEF BooksBalance
<1>14. RouteAt(r)'
  BY <1>0, <1>3, <1>4, <1>8, <1>9 DEF RouteAt, Compares, Unpaid
<1>15. JobAt(r)'
  <2>1. answer[r] \notin {"ok", "failed"} /\ (Compares(r) => job[r] = "none")
    BY <1>0, <1>3 DEF RouteAt, JobAt
  <2> QED BY <1>3, <1>8, <1>9, <2>1 DEF JobAt, Compares
<1>16. CheckinAt(r)'
  <2>1. checkin'[r] = <<>>
    BY <1>0, <1>3 DEF CheckinAt
  <2> QED BY <1>2, <1>3, <1>8, <1>9, <1>11, <2>1 DEF CheckinAt
<1>17. SeenAt(r)'
  <2>1. SUFFICES ASSUME kind[r] = "plan", s = "insert"
                 PROVE  (sawPlans[r] <= Len(plans) /\ Passed(sawPlans[r]))'
    BY <1>3, <1>9 DEF SeenAt
  <2>2. view.plan = 0
    BY <1>8, <2>1
  <2>3. Len(plans) \in Nat /\ DOMAIN plans = 1..Len(plans)
    BY <1>0, PlanFacts
  <2>4. n <= Len(plans)
    <3>1. n = Len(plans) \/ n = 0
      BY <1>5
    <3>2. Len(plans) \in Nat
      BY <2>3
    <3> QED BY <3>1, <3>2
  <2>5. Passed(n)'
    <3>1. CASE view.plan = ActivePlan
      <4>1. n = Len(plans) /\ \A p \in DOMAIN plans : plans[p].status = "completed"
        BY <1>0, <1>5, <2>2, <3>1, ActivePlanIsThere
      <4>2. \A p \in 1..n : plans[p].status = "completed"
        BY <2>3, <4>1
      <4> QED BY <1>3, <4>2 DEF Passed
    <3>2. CASE view.plan # ActivePlan
      <4>1. n = 0
        BY <1>5, <3>2
      <4>2. \A p \in 1..n : FALSE
        BY <4>1
      <4> QED BY <4>2 DEF Passed
    <3> QED BY <3>1, <3>2
  <2> QED BY <1>3, <1>6, <2>4, <2>5 DEF Passed
<1>18. OthersRest(r)
  <2>1. \A q \in Requests \ {r} : uses'[q] = uses[q]
    BY <1>0, <1>10, RouteFacts
  <2>2. \A q \in Requests \ {r} : sawPlans'[q] = sawPlans[q] /\ at'[q] = at[q]
    BY <1>0, <1>6, <1>8, RouteFacts
  <2> QED BY <1>3, <2>1, <2>2 DEF OthersRest
<1>19. CreatorStays(r)
  BY <1>3 DEF CreatorStays
<1> QED BY <1>3, <1>12, <1>13, <1>14, <1>15, <1>16, <1>17, <1>18, <1>19, RequestRuns

\* A check-in settles on a plan that exists, and on a day the calendar has reached.
LEMMA PickStep ==
  ASSUME PaidInv, NEW r \in Requests, Pick(r)
  PROVE  PaidInv'
<1>0. PaidTypes /\ BooksBalance /\ PlansAreSound
      /\ RouteAt(r) /\ JobAt(r) /\ CheckinAt(r) /\ SeenAt(r)
  BY DEF PaidInv, RequestsAreSound
<1>1. PICK p : p = IF names[r] = 0 THEN uses[r].plan
                   ELSE IF names[r] \in DOMAIN plans THEN names[r] ELSE 0
  OBVIOUS
<1>2. /\ at[r] = "pick" /\ kind[r] = "checkin"
      /\ UNCHANGED <<kind, names, sawPlans, tableVars, today>>
  BY <1>0 DEF Pick, RouteAt, boundVars
<1>3. CASE p = 0
  <2>1. Goto(r, "done") /\ Tell(r, "unmet") /\ UNCHANGED uses
    BY <1>1, <1>3 DEF Pick
  <2> QED BY <1>2, <2>1, Ends DEF Answers
<1>4. CASE p # 0
  <2>1. PICK d : d = DayIndex(p)
    OBVIOUS
  <2>2. PICK u : u = [plan |-> p, day |-> d]
    OBVIOUS
  <2>3. /\ Goto(r, After(r)) /\ answer' = answer
        /\ uses' = [uses EXCEPT ![r] = u]
    BY <1>1, <1>4, <2>1, <2>2 DEF Pick
  <2>4. /\ at' = [at EXCEPT ![r] = "insert"]
        /\ UNCHANGED <<job, result, noted, profiled, compared, erasing, plans, checkin, charged,
                       balance, purchased, spent>>
    BY <1>2, <2>3, AfterCheckin DEF Goto, tableVars, jobVars, learnVars, planVars, accountVars
  <2>5. p \in DOMAIN plans
    BY <1>0, <1>1, <1>2, <1>4 DEF CheckinAt
  <2>6. DOMAIN plans = 1..Len(plans) /\ Len(plans) \in Nat /\ today \in Nat
        /\ plans[p].start \in Nat /\ plans[p].day \in Nat /\ TargetDays \in Nat
    BY <1>0, <2>5, PlanFacts, PaidAssumption
  <2>7. plans[p].start <= today
    <3>1. plans[p].start + plans[p].day <= today
      BY <1>0, <2>5 DEF PlansAreSound, PlanAt
    <3> QED BY <2>6, <3>1
  <2>8. d \in 0..TargetDays /\ plans[p].start + d <= today
    BY <2>1, <2>6, <2>7 DEF DayIndex
  <2>9. u.plan = p /\ u.day = d /\ u \in UseRow
    BY <2>2, <2>5, <2>6, <2>8 DEF UseRow
  <2>10. at'[r] = "insert" /\ uses'[r] = u
    BY <1>0, <2>3, <2>4, RouteFacts
  <2>11. PaidTypes'
    BY <1>0, <1>2, <2>3, <2>4, <2>9 DEF PaidTypes, RouteTypes, RecordTypes, Positions
  <2>12. BooksBalance'
    BY <1>0, <2>4 DEF BooksBalance
  <2>13. RouteAt(r)'
    BY <1>0, <1>2, <2>3, <2>4, <2>10 DEF RouteAt, Compares, Unpaid
  <2>14. JobAt(r)' /\ SeenAt(r)' /\ CreatorStays(r)
    BY <1>2, <2>10 DEF JobAt, SeenAt, Compares, CreatorStays
  <2>15. checkin[r] = <<>>
    BY <1>0, <1>2 DEF CheckinAt
  <2>16. Dated(u)'
    BY <1>2, <2>4, <2>5, <2>8, <2>9 DEF Dated
  <2>17. CheckinAt(r)'
    BY <1>2, <2>4, <2>10, <2>15, <2>16 DEF CheckinAt, Dated
  <2>18. OthersRest(r)
    BY <1>2, <2>3, <2>4 DEF OthersRest
  <2> QED BY <1>2, <2>4, <2>11, <2>12, <2>13, <2>14, <2>17, <2>18, RequestRuns
<1> QED BY <1>3, <1>4

-----------------------------------------------------------------------------
(* The steps that write a job, a result or a follow-up row. *)

\* Such a step touches rows of its own request only.
LEMMA Writes ==
  ASSUME PaidInv, NEW r \in Requests, NEW s \in Positions, NEW j \in JobStates,
         at' = [at EXCEPT ![r] = s], job' = [job EXCEPT ![r] = j],
         result' \in {result, result \cup {r}}, noted' \in {noted, noted \cup {r}},
         UNCHANGED <<kind, answer, names, uses, sawPlans, erasing, plans, checkin, charged,
                     accountVars, today>>,
         kind[r] = "plan" /\ at[r] \in {"note", "reply", "done"} => s \in {"note", "reply", "done"},
         s \notin {"pick", "insert", "advance", "peek", "charge", "reread"},
         (RouteAt(r) /\ JobAt(r))'
  PROVE  PaidInv'
<1>0. PaidTypes /\ BooksBalance /\ CheckinAt(r)
  BY DEF PaidInv, RequestsAreSound
<1>1. at'[r] = s
  BY <1>0, RouteFacts
<1>2. PaidTypes'
  BY <1>0 DEF PaidTypes, RouteTypes, RecordTypes
<1>3. BooksBalance'
  BY <1>0 DEF BooksBalance, accountVars
<1>4. CheckinAt(r)' /\ SeenAt(r)'
  BY <1>0, <1>1 DEF CheckinAt, SeenAt
<1>5. OthersRest(r) /\ CreatorStays(r)
  BY <1>1 DEF OthersRest, CreatorStays
<1> QED BY <1>2, <1>3, <1>4, <1>5, RequestRuns

\* A queued job belongs to a request that paid.
LEMMA InsertJobStep ==
  ASSUME PaidInv, NEW r \in Requests, InsertJob(r)
  PROVE  PaidInv'
<1>0. PaidTypes /\ RouteAt(r) /\ JobAt(r)
  BY DEF PaidInv, RequestsAreSound
<1>1. /\ at[r] = "insert" /\ Compares(r) /\ at' = [at EXCEPT ![r] = After(r)]
      /\ job' = [job EXCEPT ![r] = "queued"] /\ result' = result /\ noted' = noted
      /\ UNCHANGED <<kind, answer, names, uses, sawPlans, erasing, plans, checkin, charged,
                     accountVars, today>>
  BY DEF InsertJob, Goto, requestVars, learnVars, planVars, boundVars
<1>2. After(r) = "run" /\ at'[r] = After(r) /\ job'[r] = "queued" /\ r \in charged
  BY <1>0, <1>1, AfterCompare, AfterTest, RouteFacts DEF Compares, RouteAt, Unpaid
<1>3. RouteAt(r)'
  BY <1>0, <1>1, <1>2 DEF RouteAt, Compares, Unpaid
<1>4. JobAt(r)'
  <2>1. answer[r] \notin {"ok", "failed"}
    BY <1>0, <1>1 DEF RouteAt
  <2> QED BY <1>1, <1>2, <2>1 DEF JobAt, Compares
<1> QED BY <1>1, <1>2, <1>3, <1>4, Writes DEF Positions, JobStates, Compares

\* An update by id changes a row that is there.
LEMMA SetJobFacts ==
  ASSUME PaidTypes, NEW r \in Requests, NEW status \in JobStates, SetJob(r, status)
  PROVE  \E j \in JobStates : /\ job' = [job EXCEPT ![r] = j] /\ job'[r] = j
                              /\ j = status \/ (j = "erased" /\ job[r] = "erased")
<1>1. PICK j \in JobStates : j = IF job[r] = "erased" THEN "erased" ELSE status
  BY RouteFacts DEF JobStates
<1>2. job' = [job EXCEPT ![r] = j] /\ job'[r] = j
  BY <1>1, RouteFacts DEF SetJob
<1> QED BY <1>1, <1>2

\* The job runs, or the row is gone and the update finds nothing.
LEMMA RunJobStep ==
  ASSUME PaidInv, NEW r \in Requests, RunJob(r)
  PROVE  PaidInv'
<1>0. PaidTypes /\ RouteAt(r) /\ JobAt(r)
  BY DEF PaidInv, RequestsAreSound
<1>1. /\ at[r] = "run" /\ at' = [at EXCEPT ![r] = After(r)] /\ SetJob(r, "running")
      /\ result' = result /\ noted' = noted
      /\ UNCHANGED <<kind, answer, names, uses, sawPlans, erasing, plans, checkin, charged,
                     accountVars, today>>
  BY DEF RunJob, Goto, requestVars, learnVars, planVars, boundVars
<1>2. Compares(r) /\ r \in charged
  BY <1>0, <1>1 DEF RouteAt, Unpaid
<1>3. /\ After(r) \in {"vision", "store"} /\ at'[r] = After(r)
      /\ After(r) = "vision" => kind[r] = "compare"
  BY <1>0, <1>1, <1>2, AfterCompare, AfterTest, RouteFacts DEF Compares
<1>4. PICK j \in JobStates : /\ job' = [job EXCEPT ![r] = j] /\ job'[r] = j
                             /\ j = "running" \/ (j = "erased" /\ job[r] = "erased")
  BY <1>0, <1>1, SetJobFacts DEF JobStates
<1>5. RouteAt(r)'
  BY <1>0, <1>1, <1>2, <1>3 DEF RouteAt, Compares, Unpaid
<1>6. JobAt(r)'
  <2>1. answer[r] \notin {"ok", "failed"}
    BY <1>0, <1>1 DEF RouteAt
  <2> QED BY <1>1, <1>3, <1>4, <2>1 DEF JobAt, Compares
<1>7. kind[r] # "plan"
  BY <1>2 DEF Compares
<1> QED BY <1>1, <1>3, <1>4, <1>5, <1>6, <1>7, Writes DEF Positions

\* The result comes before the job is completed.
LEMMA StoreResultStep ==
  ASSUME PaidInv, NEW r \in Requests, StoreResult(r)
  PROVE  PaidInv'
<1>0. PaidTypes /\ RouteAt(r) /\ JobAt(r)
  BY DEF PaidInv, RequestsAreSound
<1>1. /\ at[r] = "store" /\ at' = [at EXCEPT ![r] = After(r)]
      /\ job' = job /\ result' = result \cup {r} /\ noted' = noted
      /\ UNCHANGED <<kind, answer, names, uses, sawPlans, erasing, plans, checkin, charged,
                     accountVars, today>>
  BY DEF StoreResult, Goto, requestVars, learnVars, planVars, boundVars
<1>2. Compares(r) /\ r \in charged
  BY <1>0, <1>1 DEF RouteAt, Unpaid
<1>3. After(r) = "complete" /\ at'[r] = After(r)
  BY <1>0, <1>1, <1>2, AfterCompare, AfterTest, RouteFacts DEF Compares
<1>4. job' = [job EXCEPT ![r] = job[r]] /\ job[r] \in JobStates
  BY <1>0, <1>1, RouteFacts DEF PaidTypes, RecordTypes
<1>5. RouteAt(r)'
  BY <1>0, <1>1, <1>2, <1>3 DEF RouteAt, Compares, Unpaid
<1>6. JobAt(r)'
  <2>1. answer[r] \notin {"ok", "failed"}
    BY <1>0, <1>1 DEF RouteAt
  <2> QED BY <1>0, <1>1, <1>3, <2>1 DEF JobAt, Compares
<1>7. kind[r] # "plan"
  BY <1>2 DEF Compares
<1> QED BY <1>1, <1>3, <1>4, <1>5, <1>6, <1>7, Writes DEF Positions

\* So a completed job has its result.
LEMMA CompleteJobStep ==
  ASSUME PaidInv, NEW r \in Requests, CompleteJob(r)
  PROVE  PaidInv'
<1>0. PaidTypes /\ RouteAt(r) /\ JobAt(r)
  BY DEF PaidInv, RequestsAreSound
<1>1. /\ at[r] = "complete" /\ at' = [at EXCEPT ![r] = After(r)] /\ SetJob(r, "completed")
      /\ result' = result /\ noted' = noted
      /\ UNCHANGED <<kind, answer, names, uses, sawPlans, erasing, plans, checkin, charged,
                     accountVars, today>>
  BY DEF CompleteJob, Goto, requestVars, learnVars, planVars, boundVars
<1>2. Compares(r) /\ r \in charged
  BY <1>0, <1>1 DEF RouteAt, Unpaid
<1>3. After(r) = "note" /\ at'[r] = After(r)
  BY <1>0, <1>1, <1>2, AfterCompare, AfterTest, RouteFacts DEF Compares
<1>4. PICK j \in JobStates : /\ job' = [job EXCEPT ![r] = j] /\ job'[r] = j
                             /\ j = "completed" \/ (j = "erased" /\ job[r] = "erased")
  BY <1>0, <1>1, SetJobFacts DEF JobStates
<1>5. RouteAt(r)'
  BY <1>0, <1>1, <1>2, <1>3 DEF RouteAt, Compares, Unpaid
<1>6. JobAt(r)'
  <2>1. answer[r] \notin {"ok", "failed"}
    BY <1>0, <1>1 DEF RouteAt
  <2>2. job[r] = "erased" \/ r \in result
    BY <1>0, <1>1, <1>2 DEF JobAt
  <2>3. job'[r] = "completed" => r \in result'
    <3>1. CASE job[r] = "erased"
      <4>1. job'[r] = "erased"
        BY <1>0, <1>1, <3>1, RouteFacts DEF SetJob
      <4> QED BY <4>1
    <3> QED BY <1>1, <2>2, <3>1
  <2> QED BY <1>1, <1>3, <1>4, <2>1, <2>3 DEF JobAt, Compares
<1>7. kind[r] # "plan"
  BY <1>2 DEF Compares
<1> QED BY <1>1, <1>3, <1>4, <1>5, <1>6, <1>7, Writes DEF Positions

\* The catch sets the job to failed, or finds it erased.
LEMMA FailJobStep ==
  ASSUME PaidInv, NEW r \in Requests, FailJob(r)
  PROVE  PaidInv'
<1>0. PaidTypes /\ RouteAt(r) /\ JobAt(r)
  BY DEF PaidInv, RequestsAreSound
<1>1. /\ at[r] = "fail" /\ at' = [at EXCEPT ![r] = "sorry"] /\ SetJob(r, "failed")
      /\ result' = result /\ noted' = noted
      /\ UNCHANGED <<kind, answer, names, uses, sawPlans, erasing, plans, checkin, charged,
                     accountVars, today>>
  BY DEF FailJob, Goto, requestVars, learnVars, planVars, boundVars
<1>2. Compares(r) /\ r \in charged /\ at'[r] = "sorry"
  BY <1>0, <1>1, RouteFacts DEF RouteAt, Unpaid
<1>4. PICK j \in JobStates : /\ job' = [job EXCEPT ![r] = j] /\ job'[r] = j
                             /\ j = "failed" \/ (j = "erased" /\ job[r] = "erased")
  BY <1>0, <1>1, SetJobFacts DEF JobStates
<1>5. RouteAt(r)'
  BY <1>0, <1>1, <1>2 DEF RouteAt, Compares, Unpaid
<1>6. JobAt(r)'
  <2>1. answer[r] \notin {"ok", "failed"}
    BY <1>0, <1>1 DEF RouteAt
  <2> QED BY <1>1, <1>2, <1>4, <2>1 DEF JobAt, Compares
<1>7. kind[r] # "plan"
  BY <1>2 DEF Compares
<1> QED BY <1>1, <1>2, <1>4, <1>5, <1>6, <1>7, Writes DEF Positions

\* The follow-up row comes last before the answer.
LEMMA NoteStep ==
  ASSUME PaidInv, NEW r \in Requests, Note(r)
  PROVE  PaidInv'
<1>0. PaidTypes /\ RouteAt(r) /\ JobAt(r)
  BY DEF PaidInv, RequestsAreSound
<1>1. /\ at[r] = "note" /\ at' = [at EXCEPT ![r] = After(r)] /\ noted' = noted \cup {r}
      /\ job' = job /\ result' = result
      /\ UNCHANGED <<kind, answer, names, uses, sawPlans, erasing, plans, checkin, charged,
                     accountVars, today>>
  BY DEF Note, Goto, requestVars, jobVars, planVars, boundVars
<1>2. kind[r] \in Routes /\ r \in charged
  BY <1>0, <1>1, RouteFacts DEF RouteAt, Unpaid
<1>3. After(r) = "reply" /\ at'[r] = After(r)
  BY <1>0, <1>1, <1>2, AfterCompare, AfterTest, AfterPlan, AfterCheckin, RouteFacts DEF Routes
<1>4. job' = [job EXCEPT ![r] = job[r]] /\ job[r] \in JobStates
  BY <1>0, <1>1, RouteFacts DEF PaidTypes, RecordTypes
<1>5. RouteAt(r)'
  BY <1>0, <1>1, <1>2, <1>3 DEF RouteAt, Compares, Unpaid
<1>6. JobAt(r)'
  <2>1. answer[r] \notin {"ok", "failed"}
    BY <1>0, <1>1 DEF RouteAt
  <2> QED BY <1>0, <1>1, <1>3, <2>1 DEF JobAt, Compares
<1> QED BY <1>1, <1>3, <1>4, <1>5, <1>6, Writes DEF Positions

-----------------------------------------------------------------------------
(* The steps that write a plan or a check-in. *)

\* A check-in row repeats the plan and the day its request picked.
LEMMA InsertCheckinStep ==
  ASSUME PaidInv, NEW r \in Requests, InsertCheckin(r)
  PROVE  PaidInv'
<1>0. PaidTypes /\ BooksBalance /\ RouteAt(r) /\ JobAt(r) /\ CheckinAt(r) /\ SeenAt(r)
  BY DEF PaidInv, RequestsAreSound
<1>1. /\ at[r] = "insert" /\ kind[r] = "checkin" /\ at' = [at EXCEPT ![r] = After(r)]
      /\ checkin' = [checkin EXCEPT ![r] = uses[r]]
      /\ UNCHANGED <<kind, answer, names, uses, sawPlans, job, result, noted, erasing, plans,
                     charged, accountVars, today>>
  BY DEF InsertCheckin, Goto, requestVars, jobVars, learnVars, boundVars
<1>2. /\ After(r) = "advance" /\ at'[r] = After(r) /\ r \in charged
      /\ checkin'[r] = uses[r] /\ checkin[r] = <<>> /\ Dated(uses[r])
  <2>1. After(r) = "advance" /\ at'[r] = After(r)
    BY <1>0, <1>1, AfterCheckin, RouteFacts
  <2>2. r \in charged
    BY <1>0, <1>1 DEF RouteAt, Unpaid
  <2>3. checkin'[r] = uses[r]
    BY <1>0, <1>1 DEF PaidTypes, RecordTypes
  <2> QED BY <1>0, <1>1, <2>1, <2>2, <2>3 DEF CheckinAt
<1>3. PaidTypes'
  <2>1. RouteTypes'
    BY <1>0, <1>1, <1>2 DEF PaidTypes, RouteTypes, Positions
  <2>2. RecordTypes'
    BY <1>0, <1>1, RouteFacts DEF PaidTypes, RecordTypes
  <2> QED BY <2>1, <2>2 DEF PaidTypes
<1>4. BooksBalance'
  BY <1>0, <1>1 DEF BooksBalance, accountVars
<1>5. RouteAt(r)'
  BY <1>0, <1>1, <1>2 DEF RouteAt, Compares, Unpaid
<1>6. JobAt(r)' /\ SeenAt(r)' /\ CreatorStays(r)
  BY <1>1, <1>2 DEF JobAt, SeenAt, Compares, CreatorStays
<1>7. CheckinAt(r)'
  BY <1>1, <1>2 DEF CheckinAt, Dated
<1>8. OthersRest(r)
  BY <1>0, <1>1 DEF OthersRest, PaidTypes, RecordTypes
<1> QED BY <1>1, <1>2, <1>3, <1>4, <1>5, <1>6, <1>7, <1>8, RequestRuns

\* A new plan: the ones its request had read are passed.
LEMMA InsertPlanStep ==
  ASSUME PaidInv, NEW r \in Requests, InsertPlan(r)
  PROVE  PaidInv'
<1>0. PaidTypes /\ BooksBalance /\ RouteAt(r) /\ JobAt(r) /\ CheckinAt(r) /\ SeenAt(r)
  BY DEF PaidInv, RequestsAreSound
<1>1. PICK row : row = [by |-> r, status |-> "active", day |-> 0, start |-> today]
  OBVIOUS
<1>2. /\ at[r] = "insert" /\ kind[r] = "plan" /\ at' = [at EXCEPT ![r] = After(r)]
      /\ plans' = Append(plans, row)
      /\ UNCHANGED <<kind, answer, names, uses, sawPlans, job, result, noted, erasing, checkin,
                     charged, accountVars, today>>
  BY <1>1 DEF InsertPlan, Goto, requestVars, jobVars, learnVars, boundVars
<1>3. After(r) = "note" /\ at'[r] = After(r) /\ r \in charged
  BY <1>0, <1>2, AfterPlan, RouteFacts DEF RouteAt, Unpaid
<1>4. PICK n \in Nat : n = Len(plans) /\ DOMAIN plans = 1..n
  BY <1>0, PlanFacts
<1>5. row \in PlanRow /\ today \in Nat
  BY <1>0, <1>1, PlanFacts DEF PlanRow
<1>6. /\ plans' \in Seq(PlanRow) /\ Len(plans)' = n + 1 /\ DOMAIN plans' = 1..(n + 1)
      /\ \A p \in DOMAIN plans : plans'[p] = plans[p]
      /\ plans'[n + 1] = row
  <2>1. plans \in Seq(PlanRow)
    BY <1>0 DEF PaidTypes, RecordTypes
  <2>2. plans' \in Seq(PlanRow) /\ Len(plans') = n + 1
    BY <1>2, <1>4, <1>5, <2>1, AppendProperties
  <2>3. \A p \in 1..n : plans'[p] = plans[p]
    BY <1>2, <1>4, <1>5, <2>1, AppendProperties
  <2>4. plans'[n + 1] = row
    BY <1>2, <1>4, <1>5, <2>1, AppendProperties
  <2>5. DOMAIN plans' = 1..(n + 1)
    BY <2>2
  <2> QED BY <1>4, <2>2, <2>3, <2>4, <2>5
<1>7. PaidTypes'
  <2>1. RouteTypes'
    BY <1>0, <1>2, <1>3 DEF PaidTypes, RouteTypes, Positions
  <2> QED BY <1>0, <1>2, <1>6, <2>1 DEF PaidTypes, RecordTypes
<1>8. PlansOnlyGrow
  BY <1>2, <1>4, <1>5, <1>6 DEF PlansOnlyGrow
<1>9. OthersRest(r)
  BY <1>2 DEF OthersRest
<1>10. \A q \in Requests : CreatorStays(q)
  BY <1>2, <1>9 DEF OthersRest, CreatorStays
<1>11. RequestsAreSound'
  <2>1. RouteAt(r)'
    BY <1>0, <1>2, <1>3 DEF RouteAt, Compares, Unpaid
  <2>2. JobAt(r)' /\ SeenAt(r)'
    BY <1>2, <1>3 DEF JobAt, SeenAt, Compares
  <2>3. CheckinAt(r)'
    BY <1>0, <1>2, <1>3 DEF CheckinAt
  <2>4. \A q \in Requests : q # r => (RouteAt(q) /\ JobAt(q) /\ CheckinAt(q) /\ SeenAt(q))'
    BY <1>7, <1>8, <1>9, OthersAreSound
  <2> QED BY <2>1, <2>2, <2>3, <2>4 DEF RequestsAreSound
<1>12. \A p \in DOMAIN plans : PlanAt(p)' /\ CreatorAt(p)'
  <2>1. \A p \in DOMAIN plans : PlanAt(p)'
    BY <1>6, <1>7, <1>8, PlanStays
  <2>2. charged \subseteq charged'
    BY <1>2
  <2>3. \A p \in DOMAIN plans : CreatorAt(p)'
    BY <1>6, <1>8, <1>10, <2>2, CreatorsStay
  <2> QED BY <2>1, <2>3
<1>13. PlanAt(n + 1)'
  <2>1. row.day = 0 /\ row.start = today /\ row.status = "active"
    BY <1>1
  <2>2. TargetDays \in Nat /\ TargetDays # 0
    BY PaidAssumption
  <2> QED BY <1>2, <1>5, <1>6, <2>1, <2>2 DEF PlanAt
<1>14. CreatorAt(n + 1)'
  <2>1. plans'[n + 1].by = r /\ r # Earlier
    BY <1>1, <1>6, PaidAssumption
  <2>2. PICK m \in Nat : m = sawPlans[r]
    BY <1>0, RouteFacts
  <2>3. m <= n /\ Passed(m)
    BY <1>0, <1>2, <1>4, <2>2 DEF SeenAt
  <2>4. Passed(m)'
    BY <1>0, <1>4, <1>8, <2>3, PassedStays
  <2>5. sawPlans'[r] = m /\ m < n + 1
    BY <1>2, <2>2, <2>3
  <2>6. Passed(sawPlans[r])'
    BY <2>4, <2>5 DEF Passed
  <2> QED BY <1>2, <1>3, <2>1, <2>5, <2>6 DEF CreatorAt
<1>15. PlansAreSound'
  <2>1. \A p \in 1..(n + 1) : p \in DOMAIN plans \/ p = n + 1
    BY <1>4
  <2>2. \A p \in 1..(n + 1) : PlanAt(p)' /\ CreatorAt(p)'
    BY <1>12, <1>13, <1>14, <2>1
  <2> QED BY <1>6, <2>2 DEF PlansAreSound
<1>16. BooksBalance'
  BY <1>0, <1>2 DEF BooksBalance, accountVars
<1> QED BY <1>7, <1>11, <1>15, <1>16 DEF PaidInv

\* The update of a plan: a slower check-in may set a completed plan back, and only that may.
LEMMA AdvanceStep ==
  ASSUME PaidInv, NEW r \in Requests, Advance(r)
  PROVE  PaidInv'
<1>0. PaidTypes /\ BooksBalance /\ PlansAreSound
      /\ RouteAt(r) /\ JobAt(r) /\ CheckinAt(r) /\ SeenAt(r)
  BY DEF PaidInv, RequestsAreSound
<1>1. PICK u : u = uses[r]
  OBVIOUS
<1>2. PICK st : st = IF u.day >= TargetDays THEN "completed" ELSE "active"
  OBVIOUS
<1>3. /\ at[r] = "advance" /\ at' = [at EXCEPT ![r] = After(r)]
      /\ plans' = [plans EXCEPT ![u.plan].day = u.day, ![u.plan].status = st]
      /\ UNCHANGED <<kind, answer, names, uses, sawPlans, job, result, noted, erasing, checkin,
                     charged, accountVars, today>>
  BY <1>1, <1>2 DEF Advance, Goto, requestVars, jobVars, learnVars, boundVars
<1>4. kind[r] = "checkin" /\ checkin[r] = u /\ Dated(u) /\ u \in UseRow /\ r \in charged
  BY <1>0, <1>1, <1>3, RouteFacts DEF RouteAt, CheckinAt, Unpaid
<1>5. After(r) = "note" /\ at'[r] = After(r)
  BY <1>0, <1>3, <1>4, AfterCheckin, RouteFacts
<1>6. PICK p : p = u.plan
  OBVIOUS
<1>7. PICK d : d = u.day
  OBVIOUS
<1>8. p \in DOMAIN plans /\ d \in 0..TargetDays /\ plans[p].start + d <= today
  BY <1>4, <1>6, <1>7 DEF Dated
<1>9. /\ TargetDays \in Nat \ {0} /\ d \in Nat /\ today \in Nat
      /\ st = "completed" <=> d = TargetDays
      /\ st \in {"active", "completed"}
  BY <1>0, <1>2, <1>7, <1>8, PaidAssumption, PlanFacts
<1>10. PICK n \in Nat : n = Len(plans) /\ DOMAIN plans = 1..n
  BY <1>0, PlanFacts
<1>11. PICK row : row = [by |-> plans[p].by, status |-> st, day |-> d, start |-> plans[p].start]
  OBVIOUS
<1>12. plans' = [plans EXCEPT ![p] = row]
  <2>1. plans \in Seq(PlanRow) /\ plans[p] \in PlanRow
    BY <1>0, <1>8, PlanFacts DEF PaidTypes, RecordTypes
  <2>2. PICK old \in PlanRow : old = plans[p]
    BY <2>1
  <2>3. [plans[p] EXCEPT !.day = d, !.status = st] = row
    <3>1. PICK new : new = [old EXCEPT !.day = d, !.status = st]
      OBVIOUS
    <3>2. /\ new \in PlanRow /\ new.by = old.by /\ new.status = st /\ new.day = d
          /\ new.start = old.start
      BY <1>9, <3>1 DEF PlanRow
    <3>3. new = [by |-> new.by, status |-> new.status, day |-> new.day, start |-> new.start]
      BY <3>2 DEF PlanRow
    <3> QED BY <1>11, <2>2, <3>1, <3>2, <3>3
  <2>4. plans' = [plans EXCEPT ![p] = [plans[p] EXCEPT !.day = d, !.status = st]]
    BY <1>3, <1>6, <1>7, <1>8
  <2> QED BY <2>3, <2>4
<1>13. row \in PlanRow /\ row.by = plans[p].by /\ row.status = st /\ row.day = d
       /\ row.start = plans[p].start
  BY <1>0, <1>8, <1>9, <1>11, PlanFacts DEF PlanRow
<1>14. /\ plans' \in Seq(PlanRow) /\ Len(plans)' = n /\ DOMAIN plans' = 1..n
       /\ \A q \in 1..n : q # p => plans'[q] = plans[q]
       /\ plans'[p] = row
  <2>1. plans \in Seq(PlanRow) /\ p \in 1..Len(plans)
    BY <1>0, <1>8, <1>10 DEF PaidTypes, RecordTypes
  <2>2. plans' \in Seq(PlanRow) /\ Len(plans') = n
    BY <1>10, <1>12, <1>13, <2>1, ExceptSeq
  <2>3. \A q \in 1..n : plans'[q] = IF q = p THEN row ELSE plans[q]
    BY <1>10, <1>12, <1>13, <2>1, ExceptSeq
  <2>4. DOMAIN plans' = 1..n
    BY <2>2
  <2> QED BY <1>8, <1>10, <2>2, <2>3, <2>4
<1>15. PaidTypes'
  <2>1. RouteTypes'
    BY <1>0, <1>3, <1>5 DEF PaidTypes, RouteTypes, Positions
  <2> QED BY <1>0, <1>3, <1>14, <2>1 DEF PaidTypes, RecordTypes
<1>16. plans[p].status = "completed" => st = "completed" \/ Reverted(p)'
  <2>1. SUFFICES ASSUME plans[p].status = "completed", st # "completed"
                 PROVE  Reverted(p)'
    OBVIOUS
  <2>2. d < TargetDays
    BY <1>8, <1>9, <2>1
  <2>3. plans[p].day = TargetDays /\ plans[p].day > 0
    <3>1. PlanAt(p)
      BY <1>0, <1>8 DEF PlansAreSound
    <3>2. plans[p].day = TargetDays
      BY <2>1, <3>1 DEF PlanAt
    <3>3. TargetDays > 0
      BY PaidAssumption
    <3> QED BY <3>2, <3>3
  <2>4. PICK v : v = [plan |-> p, day |-> TargetDays]
    OBVIOUS
  <2>5. \E q \in Requests : checkin[q] = v
    BY <1>0, <1>8, <2>3, <2>4 DEF PlansAreSound, PlanAt
  <2>6. PICK q \in Requests : checkin[q] = v
    BY <2>5
  <2>7. v.plan = p /\ v.day = TargetDays /\ v # <<>>
    BY <2>4
  <2>8. u # <<>>
    BY <1>4 DEF UseRow
  <2> QED BY <1>3, <1>4, <1>6, <1>7, <2>2, <2>6, <2>7, <2>8 DEF Reverted
<1>17. PlansOnlyGrow
  <2>1. \A q \in DOMAIN plans : plans'[q].start = plans[q].start
    BY <1>10, <1>13, <1>14
  <2>2. \A q \in DOMAIN plans :
          plans[q].status = "completed" => plans'[q].status = "completed" \/ Reverted(q)'
    BY <1>10, <1>13, <1>14, <1>16
  <2>3. Len(plans) <= Len(plans)' /\ today <= today'
    BY <1>3, <1>9, <1>10, <1>14
  <2> QED BY <1>3, <2>1, <2>2, <2>3 DEF PlansOnlyGrow
<1>18. OthersRest(r)
  BY <1>3 DEF OthersRest
<1>19. \A q \in Requests : CreatorStays(q)
  BY <1>3, <1>18 DEF OthersRest, CreatorStays
<1>20. RequestsAreSound'
  <2>1. RouteAt(r)'
    BY <1>0, <1>3, <1>4, <1>5 DEF RouteAt, Compares, Unpaid
  <2>2. JobAt(r)' /\ SeenAt(r)'
    BY <1>3, <1>4, <1>5 DEF JobAt, SeenAt, Compares
  <2>3. CheckinAt(r)'
    BY <1>0, <1>3, <1>5 DEF CheckinAt
  <2>4. \A q \in Requests : q # r => (RouteAt(q) /\ JobAt(q) /\ CheckinAt(q) /\ SeenAt(q))'
    BY <1>15, <1>17, <1>18, OthersAreSound
  <2> QED BY <2>1, <2>2, <2>3, <2>4 DEF RequestsAreSound
<1>21. \A q \in DOMAIN plans : CreatorAt(q)'
  <2>1. \A q \in DOMAIN plans : plans'[q].by = plans[q].by
    BY <1>10, <1>13, <1>14
  <2> QED BY <1>3, <1>17, <1>19, <2>1, CreatorsStay
<1>22. PlanAt(p)'
  <2>1. d > 0 => checkin'[r] = [plan |-> p, day |-> d]
    BY <1>3, <1>4, <1>6, <1>7 DEF UseRow
  <2>2. d <= TargetDays
    BY <1>8, <1>9
  <2>3. plans'[p].day = d /\ plans'[p].start = plans[p].start /\ plans'[p].status = st
    BY <1>13, <1>14
  <2>4. (plans[p].day > 0 => \E q \in Requests : checkin[q] = [plan |-> p, day |-> plans[p].day])'
    BY <2>1, <2>3
  <2>5. (plans[p].day <= TargetDays /\ plans[p].start + plans[p].day <= today)'
    BY <1>3, <1>8, <2>2, <2>3
  <2>6. (plans[p].status = "completed" <=> plans[p].day = TargetDays)'
    BY <1>9, <2>3
  <2> QED BY <2>4, <2>5, <2>6 DEF PlanAt
<1>23. \A q \in DOMAIN plans : q # p => PlanAt(q)'
  BY <1>10, <1>14, <1>15, <1>17, PlanStays
<1>24. PlansAreSound'
  BY <1>10, <1>14, <1>21, <1>22, <1>23 DEF PlansAreSound
<1>25. BooksBalance'
  BY <1>0, <1>3 DEF BooksBalance, accountVars
<1> QED BY <1>15, <1>20, <1>24, <1>25 DEF PaidInv

-----------------------------------------------------------------------------
(* The steps that are no request's. *)

\* The platform kills an isolate: each of its requests is at its end, and nothing else moved.
LEMMA KilledStep ==
  ASSUME PaidInv, NEW i \in Isolates, Killed(i)
  PROVE  PaidInv'
<1>0. PaidTypes /\ BooksBalance /\ RequestsAreSound /\ PlansAreSound
  BY DEF PaidInv
<1>1. /\ at' = [r \in Requests |-> IF r \in Running /\ Home[r] = i THEN "done" ELSE at[r]]
      /\ answer' = [r \in Requests |->
           IF r \in Running /\ Home[r] = i /\ answer[r] = "none" THEN "lost" ELSE answer[r]]
      /\ UNCHANGED <<kind, names, uses, sawPlans, job, result, noted, profiled, compared, erasing,
                     plans, checkin, charged, accountVars, today>>
  BY DEF Killed, Trouble, tableVars, jobVars, learnVars, planVars
<1>2. \A r \in Requests :
        /\ at'[r] = at[r] \/ (at[r] # "idle" /\ at'[r] = "done")
        /\ answer'[r] = answer[r] \/ answer'[r] = "lost"
  BY <1>1 DEF Running
<1>3. PaidTypes'
  <2>1. at' \in [Requests -> Positions] /\ answer' \in [Requests -> Answers]
    BY <1>0, <1>1, RouteFacts DEF Positions, Answers
  <2> QED BY <1>0, <1>1, <2>1 DEF PaidTypes, RouteTypes, RecordTypes
<1>4. BooksBalance'
  BY <1>0, <1>1 DEF BooksBalance, accountVars
<1>5. PlansOnlyGrow
  <2>1. Len(plans) \in Nat /\ today \in Nat
    BY <1>0, PlanFacts
  <2> QED BY <1>1, <2>1 DEF PlansOnlyGrow
<1>6. RequestsAreSound'
  <2>1. SUFFICES ASSUME NEW r \in Requests
                 PROVE  (RouteAt(r) /\ JobAt(r) /\ CheckinAt(r) /\ SeenAt(r))'
    BY DEF RequestsAreSound
  <2>2. RouteAt(r) /\ JobAt(r) /\ CheckinAt(r) /\ SeenAt(r)
    BY <1>0 DEF RequestsAreSound
  <2>3. /\ at'[r] = at[r] \/ (at[r] # "idle" /\ at'[r] = "done")
        /\ answer'[r] = answer[r] \/ answer'[r] = "lost"
    BY <1>2
  <2>4. RouteAt(r)'
    BY <1>1, <2>2, <2>3 DEF RouteAt, Compares, Unpaid
  <2>5. JobAt(r)'
    BY <1>1, <2>2, <2>3 DEF JobAt, Compares
  <2>6. CheckinAt(r)' /\ SeenAt(r)'
    BY <1>1, <2>2, <2>3 DEF CheckinAt, SeenAt, Dated, Passed, Reverted
  <2> QED BY <2>4, <2>5, <2>6
<1>7. \A r \in Requests : CreatorStays(r)
  BY <1>1, <1>2 DEF CreatorStays
<1>8. PlansAreSound'
  <2>1. \A p \in DOMAIN plans : PlanAt(p)'
    BY <1>0, <1>1, <1>3, <1>5, PlanStays
  <2>2. \A p \in DOMAIN plans : CreatorAt(p)'
    BY <1>1, <1>5, <1>7, CreatorsStay
  <2> QED BY <1>1, <2>1, <2>2 DEF PlansAreSound
<1> QED BY <1>3, <1>4, <1>6, <1>8 DEF PaidInv

\* DELETE /api/memory/context: the history goes, the account and the plans stay.
LEMMA EraseStep ==
  ASSUME PaidInv, Erase
  PROVE  PaidInv'
<1>0. PaidTypes /\ BooksBalance /\ RequestsAreSound /\ PlansAreSound
  BY DEF PaidInv
<1>1. /\ UNCHANGED <<kind, at, answer, names, uses, sawPlans, plans, checkin, charged,
                     accountVars, today>>
      /\ \/ erasing' = "jobs" /\ noted' = {} /\ job' = job /\ result' = result
         \/ /\ erasing = "jobs" /\ erasing' = "profile" /\ noted' = noted /\ result' = {}
            /\ job' = [r \in Requests |-> IF job[r] = "none" THEN "none" ELSE "erased"]
         \/ /\ erasing = "profile" /\ erasing' = "done" /\ noted' = noted
            /\ job' = job /\ result' = result
  BY DEF Erase, Trouble, requestVars, planVars, jobVars, boundVars
<1>2. PaidTypes'
  <2>1. job' \in [Requests -> JobStates] /\ result' \subseteq Requests /\ noted' \subseteq Requests
        /\ erasing' \in {"no", "jobs", "profile", "done"}
    <3>1. job \in [Requests -> JobStates] /\ result \subseteq Requests /\ noted \subseteq Requests
      BY <1>0 DEF PaidTypes, RecordTypes
    <3> QED BY <1>1, <3>1 DEF JobStates
  <2> QED BY <1>0, <1>1, <2>1 DEF PaidTypes, RouteTypes, RecordTypes
<1>3. BooksBalance'
  BY <1>0, <1>1 DEF BooksBalance, accountVars
<1>4. PlansOnlyGrow
  <2>1. Len(plans) \in Nat /\ today \in Nat
    BY <1>0, PlanFacts
  <2> QED BY <1>1, <2>1 DEF PlansOnlyGrow
<1>5. RequestsAreSound'
  <2>1. SUFFICES ASSUME NEW r \in Requests
                 PROVE  (RouteAt(r) /\ JobAt(r) /\ CheckinAt(r) /\ SeenAt(r))'
    BY DEF RequestsAreSound
  <2>2. RouteAt(r) /\ JobAt(r) /\ CheckinAt(r) /\ SeenAt(r)
    BY <1>0 DEF RequestsAreSound
  <2>3. \/ erasing' = "jobs" /\ r \notin noted' /\ job'[r] = job[r] /\ result' = result
        \/ /\ erasing' = "profile" /\ (r \in noted' <=> r \in noted)
           /\ erasing # "no"
           /\ job'[r] = (IF job[r] = "none" THEN "none" ELSE "erased")
        \/ /\ erasing' = "done" /\ (r \in noted' <=> r \in noted) /\ job'[r] = job[r]
           /\ result' = result /\ erasing # "no"
    BY <1>1
  <2>4. RouteAt(r)'
    BY <1>1, <2>2, <2>3 DEF RouteAt, Compares, Unpaid
  <2>5. JobAt(r)'
    <3>1. CASE erasing' = "jobs" /\ r \notin noted' /\ job'[r] = job[r] /\ result' = result
      BY <1>1, <2>2, <3>1 DEF JobAt, Compares
    <3>2. CASE job'[r] = (IF job[r] = "none" THEN "none" ELSE "erased")
      <4>1. SUFFICES ASSUME Compares(r) PROVE JobAt(r)'
        BY <1>1 DEF JobAt, Compares
      <4>2. CASE job[r] = "none"
        <5>1. /\ at[r] \notin {"run", "vision", "store", "complete", "note", "reply", "sorry"}
              /\ answer[r] # "ok" /\ answer[r] # "failed"
          BY <2>2, <4>1, <4>2 DEF JobAt
        <5>2. job'[r] = "none"
          BY <3>2, <4>2
        <5> QED BY <1>1, <5>1, <5>2 DEF JobAt
      <4>3. CASE job[r] # "none"
        <5>1. job'[r] = "erased"
          BY <3>2, <4>3
        <5> QED BY <1>1, <2>2, <4>1, <4>3, <5>1 DEF JobAt, Compares
      <4> QED BY <4>2, <4>3
    <3>3. CASE erasing' = "done" /\ (r \in noted' <=> r \in noted) /\ job'[r] = job[r] /\ result' = result
      BY <1>1, <2>2, <3>3 DEF JobAt, Compares
    <3> QED BY <2>3, <3>1, <3>2, <3>3
  <2>6. CheckinAt(r)' /\ SeenAt(r)'
    BY <1>1, <2>2 DEF CheckinAt, SeenAt, Dated, Passed, Reverted
  <2> QED BY <2>4, <2>5, <2>6
<1>6. \A r \in Requests : CreatorStays(r)
  BY <1>1 DEF CreatorStays
<1>7. PlansAreSound'
  <2>1. \A p \in DOMAIN plans : PlanAt(p)'
    BY <1>0, <1>1, <1>2, <1>4, PlanStays
  <2>2. \A p \in DOMAIN plans : CreatorAt(p)'
    BY <1>1, <1>4, <1>6, CreatorsStay
  <2> QED BY <1>1, <2>1, <2>2 DEF PlansAreSound
<1> QED BY <1>2, <1>3, <1>5, <1>7 DEF PaidInv

\* A day goes by: what was not ahead of the calendar still is not.
LEMMA NextDayStep == PaidInv /\ NextDay => PaidInv'
<1> SUFFICES ASSUME PaidInv, NextDay PROVE PaidInv'
  OBVIOUS
<1>0. PaidTypes /\ BooksBalance /\ RequestsAreSound /\ PlansAreSound
  BY DEF PaidInv
<1>1. /\ today' = today + 1 /\ today \in Nat
      /\ UNCHANGED <<kind, at, answer, names, uses, sawPlans, job, result, noted, erasing,
                     plans, checkin, charged, accountVars>>
  BY <1>0, PlanFacts DEF NextDay, requestVars, tableVars, jobVars, learnVars, planVars
<1>2. PaidTypes'
  BY <1>0, <1>1 DEF PaidTypes, RouteTypes, RecordTypes
<1>3. BooksBalance'
  BY <1>0, <1>1 DEF BooksBalance, accountVars
<1>4. PlansOnlyGrow
  <2>1. Len(plans) \in Nat
    BY <1>0, PlanFacts
  <2> QED BY <1>1, <2>1 DEF PlansOnlyGrow
<1>5. RequestsAreSound'
  <2>1. SUFFICES ASSUME NEW r \in Requests
                 PROVE  (RouteAt(r) /\ JobAt(r) /\ CheckinAt(r) /\ SeenAt(r))'
    BY DEF RequestsAreSound
  <2>2. RouteAt(r) /\ JobAt(r) /\ CheckinAt(r) /\ SeenAt(r)
    BY <1>0 DEF RequestsAreSound
  <2>3. RouteAt(r)' /\ JobAt(r)' /\ SeenAt(r)'
    BY <1>1, <2>2 DEF RouteAt, JobAt, SeenAt, Compares, Passed, Reverted
  <2>4. CheckinAt(r)'
    <3>1. SUFFICES ASSUME Dated(uses[r]) PROVE Dated(uses[r])'
      BY <1>1, <2>2 DEF CheckinAt
    <3>2. uses[r].day \in Int
      BY <1>0, RouteFacts
    <3>3. /\ uses[r].plan \in DOMAIN plans' /\ uses[r].day \in 0..TargetDays
          /\ plans'[uses[r].plan].start + uses[r].day <= today'
      BY <1>0, <1>2, <1>4, <3>1, <3>2, DatedStays
    <3> QED BY <1>1, <3>3 DEF Dated
  <2> QED BY <2>3, <2>4
<1>6. \A r \in Requests : CreatorStays(r)
  BY <1>1 DEF CreatorStays
<1>7. PlansAreSound'
  <2>1. \A p \in DOMAIN plans : PlanAt(p)'
    BY <1>0, <1>1, <1>2, <1>4, PlanStays
  <2>2. \A p \in DOMAIN plans : CreatorAt(p)'
    BY <1>1, <1>4, <1>6, CreatorsStay
  <2> QED BY <1>1, <2>1, <2>2 DEF PlansAreSound
<1> QED BY <1>2, <1>3, <1>5, <1>7 DEF PaidInv

\* A stuttering step.
LEMMA PaidStutters == PaidInv /\ UNCHANGED paidVars => PaidInv'
<1> SUFFICES ASSUME PaidInv, UNCHANGED paidVars PROVE PaidInv'
  OBVIOUS
<1>0. PaidTypes /\ BooksBalance /\ RequestsAreSound /\ PlansAreSound
  BY DEF PaidInv
<1>1. /\ UNCHANGED <<kind, at, answer, charged, job, result, noted, erasing, plans, checkin, names>>
      /\ UNCHANGED <<uses, today, sawPlans, balance, purchased, spent>>
  BY DEF paidVars
<1>2. PaidTypes' /\ BooksBalance'
  BY <1>0, <1>1 DEF PaidTypes, RouteTypes, RecordTypes, BooksBalance
<1>3. RequestsAreSound'
  BY <1>0, <1>1 DEF RequestsAreSound, RouteAt, JobAt, CheckinAt, SeenAt, Compares, Dated, Passed,
                    Reverted
<1>4. PlansAreSound'
  BY <1>0, <1>1 DEF PlansAreSound, PlanAt, CreatorAt, Passed, Reverted
<1> QED BY <1>2, <1>3, <1>4 DEF PaidInv

\* The accounts a model starts with, with the plan some of them have.
LEMMA PaidStarts == PaidInit => PaidInv
<1> SUFFICES ASSUME PaidInit PROVE PaidInv
  OBVIOUS
<1>1. plans \in Seq(PlanRow) /\ \A p \in DOMAIN plans :
        /\ p = 1 /\ plans[p].by = Earlier /\ plans[p].status = "active"
        /\ plans[p].day = 0 /\ plans[p].start = 0
  <2>1. PICK row : row = [by |-> Earlier, status |-> "active", day |-> 0, start |-> 0]
    OBVIOUS
  <2>2. row \in PlanRow
    BY <2>1 DEF PlanRow
  <2>3. plans = <<>> \/ plans = <<row>>
    BY <2>1 DEF PaidInit
  <2>4. CASE plans = <<>>
    <3>1. DOMAIN plans = 1..0
      BY <2>4
    <3> QED BY <2>4, <3>1
  <2>5. CASE plans = <<row>>
    <3>1. DOMAIN plans = {1} /\ plans[1] = row /\ plans \in Seq(PlanRow)
      BY <2>2, <2>5
    <3>2. row.by = Earlier /\ row.status = "active" /\ row.day = 0 /\ row.start = 0
      BY <2>1
    <3> QED BY <3>1, <3>2
  <2> QED BY <2>3, <2>4, <2>5
<1>2. /\ kind = [r \in Requests |-> "none"] /\ at = [r \in Requests |-> "idle"]
      /\ answer = [r \in Requests |-> "none"] /\ names = [r \in Requests |-> 0]
      /\ uses = [r \in Requests |-> [plan |-> 0, day |-> 0]]
      /\ sawPlans = [r \in Requests |-> 0] /\ job = [r \in Requests |-> "none"]
      /\ charged = {} /\ result = {} /\ noted = {} /\ erasing = "no"
      /\ checkin = [r \in Requests |-> <<>>] /\ today = 0
  BY DEF PaidInit
<1>3. PaidTypes
  <2>1. RouteTypes
    BY <1>2 DEF RouteTypes, UseRow, Positions, Answers
  <2>2. RecordTypes
    BY <1>1, <1>2 DEF RecordTypes, JobStates
  <2> QED BY <2>1, <2>2 DEF PaidTypes
<1>4. BooksBalance
  <2>1. /\ balance \in [{Owner} -> Credits] /\ purchased = balance /\ spent = [u \in {Owner} |-> 0]
    BY DEF PaidInit
  <2>2. IsFiniteSet(charged) /\ Cardinality(charged) = 0
    BY <1>2, FS_EmptySet
  <2>3. Cost * 0 = 0 /\ Credits \subseteq Nat
    BY PaidAssumption
  <2>4. balance[Owner] \in Nat /\ spent[Owner] = 0 /\ purchased[Owner] = balance[Owner]
    BY <2>1, <2>3
  <2>5. balance \in [{Owner} -> Nat] /\ purchased \in [{Owner} -> Nat] /\ spent \in [{Owner} -> Nat]
    BY <2>1, <2>3
  <2>6. spent[Owner] = Cost * Cardinality(charged)
    BY <2>2, <2>3, <2>4
  <2>7. balance[Owner] + spent[Owner] = purchased[Owner]
    BY <2>4
  <2> QED BY <2>2, <2>5, <2>6, <2>7 DEF BooksBalance
<1>5. RequestsAreSound
  BY <1>2 DEF RequestsAreSound, RouteAt, JobAt, CheckinAt, SeenAt, Compares, Unpaid
<1>6. PlansAreSound
  <2>1. TargetDays \in Nat /\ TargetDays # 0
    BY PaidAssumption
  <2> QED BY <1>1, <1>2, <2>1 DEF PlansAreSound, PlanAt, CreatorAt
<1> QED BY <1>3, <1>4, <1>5, <1>6 DEF PaidInv

-----------------------------------------------------------------------------
(* What follows for the metered routes. *)

\* Every step keeps the inductive invariant.
LEMMA PaidInductive == PaidInv /\ [PaidNext]_paidVars => PaidInv'
<1> SUFFICES ASSUME PaidInv, [PaidNext]_paidVars PROVE PaidInv'
  OBVIOUS
<1>1. CASE UNCHANGED paidVars
  BY <1>1, PaidStutters
<1>2. ASSUME NEW r \in Requests, NEW k \in Kinds[r], NEW id \in {NoSuchPlan, 0} \cup DOMAIN plans,
             Begin(r, k, id)
      PROVE  PaidInv'
  BY <1>2, BeginStep
<1>3. ASSUME NEW r \in Requests, Work(r)
      PROVE  PaidInv'
  <2>1. CASE Peek(r) \/ Refuse(r) \/ Charge(r) \/ Deny(r)
    BY <2>1, PeekStep, RefuseStep, ChargeStep, DenyStep
  <2>2. CASE Reread(r) \/ Unmet(r) \/ Pick(r)
    BY <2>2, RereadStep, UnmetStep, PickStep
  <2>3. CASE InsertJob(r) \/ InsertPlan(r) \/ InsertCheckin(r) \/ Advance(r)
    BY <2>3, InsertJobStep, InsertPlanStep, InsertCheckinStep, AdvanceStep
  <2>4. CASE RunJob(r) \/ Vision(r) \/ StoreResult(r) \/ CompleteJob(r)
    BY <2>4, RunJobStep, VisionStep, StoreResultStep, CompleteJobStep
  <2>5. CASE Note(r) \/ Reply(r) \/ Rejected(r) \/ FailJob(r)
    BY <2>5, NoteStep, ReplyStep, RejectedStep, FailJobStep
  <2> QED BY <1>3, <2>1, <2>2, <2>3, <2>4, <2>5 DEF Work
<1>4. ASSUME NEW r \in Requests, Timeout(r)
      PROVE  PaidInv'
  BY <1>4, TimeoutStep
<1>5. ASSUME NEW i \in Isolates, Killed(i)
      PROVE  PaidInv'
  BY <1>5, KilledStep
<1>6. CASE Erase
  BY <1>6, EraseStep
<1>7. CASE NextDay
  BY <1>7, NextDayStep
<1> QED BY <1>1, <1>2, <1>3, <1>4, <1>5, <1>6, <1>7 DEF PaidNext

\* The inductive invariant of the metered routes.
THEOREM PaidInvariance == PaidSpec => []PaidInv
<1>1. PaidInit => PaidInv
  BY PaidStarts
<1>2. PaidInv /\ [PaidNext]_paidVars => PaidInv'
  BY PaidInductive
<1> QED BY <1>1, <1>2, PTL DEF PaidSpec

\* Nothing is recorded on credit, whatever timed out, was killed, erased or raced.
THEOREM RecordsArePaid == PaidSpec => []EveryRecordIsPaid
<1>1. PaidInv => EveryRecordIsPaid
  <2> SUFFICES ASSUME PaidInv PROVE EveryRecordIsPaid
    OBVIOUS
  <2>0. PaidTypes /\ BooksBalance /\ RequestsAreSound /\ PlansAreSound
    BY DEF PaidInv
  <2>1. ASSUME NEW r \in Requests \ charged
        PROVE  job[r] = "none" /\ checkin[r] = <<>> /\ r \notin noted
    BY <2>0 DEF RequestsAreSound, RouteAt
  <2>2. ASSUME NEW r \in Requests \ charged, NEW p \in DOMAIN plans
        PROVE  plans[p].by # r
    <3>1. r # Earlier
      BY PaidAssumption
    <3> QED BY <2>0, <3>1 DEF PlansAreSound, CreatorAt
  <2>3. balance[Owner] >= 0
    BY <2>0 DEF BooksBalance
  <2>4. \A r \in charged : answer[r] \notin {"refused", "denied"}
    BY <2>0 DEF RequestsAreSound, RouteAt, PaidTypes, RecordTypes
  <2>5. spent[Owner] = Cost * Cardinality(charged)
        /\ balance[Owner] + spent[Owner] = purchased[Owner]
    BY <2>0 DEF BooksBalance
  <2> QED BY <2>1, <2>2, <2>3, <2>4, <2>5 DEF EveryRecordIsPaid
<1> QED BY <1>1, PaidInvariance, PTL

\* A job's status, its result, its follow-up row and what its caller was told agree.
THEOREM JobsTellTheTruth == PaidSpec => []JobsAreHonest
<1>1. PaidInv => JobsAreHonest
  BY DEF PaidInv, RequestsAreSound, JobAt, JobsAreHonest
<1> QED BY <1>1, PaidInvariance, PTL

\* A plan's day is one of its check-ins' and never ahead of the calendar.
THEOREM PlanDays == PaidSpec => []PlanDaysAreReal
<1>1. PaidInv => PlanDaysAreReal
  BY DEF PaidInv, PlansAreSound, PlanAt, PlanDaysAreReal
<1> QED BY <1>1, PaidInvariance, PTL

\* Two plans are active together only for one of the three reasons the property names.
THEOREM OnePlan == PaidSpec => []OneActivePlanUnlessRaced
<1>1. PaidInv => OneActivePlanUnlessRaced
  <2> SUFFICES ASSUME PaidInv, NEW p \in DOMAIN plans, NEW q \in DOMAIN plans, q < p,
                      plans[p].status = "active", plans[q].status = "active", ~Raced(p, q)
               PROVE  \E r \in Requests : uses[r].plan = q /\ uses[r].day < TargetDays
                        /\ \E s \in Requests \ {r} : uses[s].plan = q /\ uses[s].day = TargetDays
    BY DEF OneActivePlanUnlessRaced
  <2>0. PaidTypes /\ CreatorAt(p) /\ RequestsAreSound
    BY DEF PaidInv, PlansAreSound
  <2>1. PICK c : c = plans[p].by
    OBVIOUS
  <2>2. PICK n \in Nat : n = Len(plans) /\ DOMAIN plans = 1..n
    BY <2>0, PlanFacts
  <2>3. p \in 1..n /\ q \in 1..n /\ p # 1
    BY <2>2
  <2>4. c # Earlier /\ c \in Requests
    BY <2>0, <2>1, <2>3, PlanFacts DEF CreatorAt
  <2>5. PICK m \in Nat : m = sawPlans[c]
    BY <2>0, <2>4, RouteFacts
  <2>6. ~(m < q)
    BY <2>1, <2>4, <2>5 DEF Raced
  <2>7. Passed(m)
    BY <2>0, <2>1, <2>4, <2>5 DEF CreatorAt
  <2>8. q \in 1..m
    BY <2>3, <2>6
  <2>9. Reverted(q)
    BY <2>7, <2>8 DEF Passed
  <2>10. PICK r, s \in Requests :
           /\ checkin[r] # <<>> /\ checkin[r].plan = q /\ checkin[r].day < TargetDays
           /\ checkin[s] # <<>> /\ checkin[s].plan = q /\ checkin[s].day = TargetDays
    BY <2>9 DEF Reverted
  <2>11. checkin[r] = uses[r] /\ checkin[s] = uses[s]
    BY <2>0, <2>10 DEF RequestsAreSound, CheckinAt
  <2>12. r # s
    <3>1. TargetDays \in Nat
      BY PaidAssumption
    <3> QED BY <2>10, <3>1
  <2> QED BY <2>10, <2>11, <2>12
<1> QED BY <1>1, PaidInvariance, PTL
=============================================================================
