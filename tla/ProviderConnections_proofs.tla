--------------------- MODULE ProviderConnections_proofs ---------------------
(***************************************************************************)
(* Theorems about ProviderConnections: the schema slot of lib/db.ts keeps  *)
(* the attempts of dropped clients apart, for any number of requests,      *)
(* attempts and resets.  And about PersonalIntelligence: what is completed *)
(* or decided under a row lock stays what it was reported to be.  And about*)
(* PersonalEvidence: what is concluded from rounded averages is what the   *)
(* true ones say, for lists of any length.                                 *)
(***************************************************************************)
EXTENDS ProviderConnections, PersonalIntelligence, PersonalEvidence, Sums_proofs,
        FiniteSetTheorems, SequenceTheorems, TLAPS

Attempt == [gen : Nat, state : {"pending", "ready", "failed"}]

SlotTypes ==
  /\ attempts \in Seq(Attempt)
  /\ generation \in Nat
  /\ slot \in [attempt : Nat, gen : Nat]
  /\ awaits \in [Users -> Nat]
  /\ joined \in [Users -> Nat]

\* Attempts belong to clients there have been; the slot knows the client of its own.
Recorded ==
  /\ \A a \in DOMAIN attempts : attempts[a].gen <= generation
  /\ slot.attempt # 0 =>
       slot.attempt \in DOMAIN attempts /\ slot.gen = attempts[slot.attempt].gen

\* The slot holds the attempt of the present client that has not failed.
Held ==
  \A a \in DOMAIN attempts :
    attempts[a].gen = generation /\ attempts[a].state # "failed" =>
      slot.attempt = a /\ slot.gen = generation

\* A client's attempts but the last have failed.
Succession ==
  \A a, b \in DOMAIN attempts :
    (a < b /\ attempts[a].gen = attempts[b].gen) => attempts[a].state = "failed"

\* Whoever awaits a promise joined it under its own client.
Joined ==
  \A u \in Users : awaits[u] # 0 =>
    awaits[u] \in DOMAIN attempts /\ attempts[awaits[u]].gen = joined[u]

SlotInv == SlotTypes /\ Recorded /\ Held /\ Succession /\ Joined

\* No attempt yet, and an empty slot.
LEMMA SlotInitially == ProviderInit => SlotInv
  BY DEF ProviderInit, SlotInv, SlotTypes, Recorded, Held, Succession, Joined

\* What appending an attempt does to the sequence of attempts.
LEMMA Appended ==
  ASSUME NEW s \in Seq(Attempt), NEW e \in Attempt
  PROVE  /\ Append(s, e) \in Seq(Attempt)
         /\ DOMAIN s = 1..Len(s) /\ Len(s) \in Nat
         /\ DOMAIN Append(s, e) = 1..(Len(s) + 1)
         /\ Append(s, e)[Len(s) + 1] = e
         /\ \A a \in DOMAIN s : Append(s, e)[a] = s[a]
  OBVIOUS

\* What settling one does.
LEMMA Settled ==
  ASSUME NEW s \in Seq(Attempt), NEW a \in DOMAIN s, NEW what \in {"ready", "failed"},
         NEW t, t = [s EXCEPT ![a].state = what]
  PROVE  /\ t \in Seq(Attempt) /\ DOMAIN t = DOMAIN s
         /\ t[a].state = what /\ t[a].gen = s[a].gen
         /\ \A b \in DOMAIN s : b # a => t[b] = s[b]
  <1>1. s[a] \in Attempt /\ [s[a] EXCEPT !.state = what] \in Attempt
    <2>1. s[a] \in Attempt
      OBVIOUS
    <2> QED BY <2>1 DEF Attempt
  <1>2. t = [s EXCEPT ![a] = [s[a] EXCEPT !.state = what]]
    OBVIOUS
  <1>3. t[a] = [s[a] EXCEPT !.state = what]
    BY <1>2
  <1>4. t[a].state = what /\ t[a].gen = s[a].gen
    BY <1>1, <1>3 DEF Attempt
  <1>5. t \in Seq(Attempt) /\ DOMAIN t = DOMAIN s
    BY <1>1, <1>2
  <1> QED BY <1>2, <1>4, <1>5

\* A step that leaves the attempts, the slot and the promises joined alone, and may
\* begin a new client.
LEMMA ElsewhereStep ==
  ASSUME SlotInv, attempts' = attempts, slot' = slot, awaits' = awaits, joined' = joined,
         generation' = generation \/ generation' = generation + 1
  PROVE  SlotInv'
  <1>1. SlotTypes'
    BY DEF SlotInv, SlotTypes
  <1>2. \A a \in DOMAIN attempts : attempts[a].gen \in Nat /\ attempts[a].gen <= generation
    <2>1. \A a \in DOMAIN attempts : attempts[a] \in Attempt
      BY DEF SlotInv, SlotTypes
    <2> QED BY <2>1 DEF SlotInv, Recorded, Attempt
  <1>3. generation \in Nat
    BY DEF SlotInv, SlotTypes
  <1>4. Recorded'
    <2>1. \A a \in DOMAIN attempts : attempts[a].gen <= generation'
      BY <1>2, <1>3
    <2>2. slot.attempt # 0 =>
            slot.attempt \in DOMAIN attempts /\ slot.gen = attempts[slot.attempt].gen
      BY DEF SlotInv, Recorded
    <2> QED BY <2>1, <2>2 DEF Recorded
  <1>5. Held'
    BY <1>2, <1>3 DEF SlotInv, Held
  <1>6. Succession' /\ Joined'
    BY DEF SlotInv, Succession, Joined
  <1> QED BY <1>1, <1>4, <1>5, <1>6 DEF SlotInv

\* runOncePerDbClient: a request joins the attempt of its client, or begins one.
LEMMA EnterStep ==
  ASSUME SlotInv, NEW u \in Users, EnterSchema(u)
  PROVE  SlotInv'
  <1>1. /\ generation' = generation /\ generation \in Nat
        /\ joined' = [joined EXCEPT ![u] = generation]
        /\ joined' \in [Users -> Nat] /\ joined'[u] = generation
        /\ \A w \in Users : w # u => joined'[w] = joined[w]
    BY DEF EnterSchema, SlotInv, SlotTypes
  <1>2. attempts \in Seq(Attempt) /\ DOMAIN attempts = 1..Len(attempts) /\ Len(attempts) \in Nat
    BY DEF SlotInv, SlotTypes
  <1>3. CASE slot.attempt # 0 /\ slot.gen = generation
    <2>1. /\ attempts' = attempts /\ slot' = slot /\ awaits' = [awaits EXCEPT ![u] = slot.attempt]
      BY <1>3 DEF EnterSchema, slotVars
    <2>2. slot.attempt \in DOMAIN attempts /\ attempts[slot.attempt].gen = generation
      BY <1>3 DEF SlotInv, Recorded
    <2>3. /\ awaits' \in [Users -> Nat] /\ awaits'[u] = slot.attempt
          /\ \A w \in Users : w # u => awaits'[w] = awaits[w]
      BY <2>1 DEF SlotInv, SlotTypes
    <2>4. SlotTypes'
      BY <1>1, <2>1, <2>3 DEF SlotInv, SlotTypes
    <2>5. Recorded' /\ Held' /\ Succession'
      BY <1>1, <2>1 DEF SlotInv, Recorded, Held, Succession
    <2>6. Joined'
      <3> SUFFICES ASSUME NEW w \in Users, awaits'[w] # 0
                   PROVE  awaits'[w] \in DOMAIN attempts /\ attempts[awaits'[w]].gen = joined'[w]
        BY <2>1 DEF Joined
      <3>1. CASE w = u
        BY <1>1, <2>2, <2>3, <3>1
      <3>2. CASE w # u
        BY <1>1, <2>3, <3>2 DEF SlotInv, Joined
      <3> QED BY <3>1, <3>2
    <2> QED BY <2>4, <2>5, <2>6 DEF SlotInv
  <1>4. CASE ~(slot.attempt # 0 /\ slot.gen = generation)
    <2> DEFINE n == Len(attempts) + 1
               e == [gen |-> generation, state |-> "pending"]
    <2>1. /\ attempts' = Append(attempts, e)
          /\ slot' = [attempt |-> n, gen |-> generation]
          /\ awaits' = [awaits EXCEPT ![u] = n]
      BY <1>4 DEF EnterSchema
    <2>2. e \in Attempt /\ e.gen = generation /\ e.state = "pending" /\ n \in Nat /\ n # 0
      BY <1>1, <1>2 DEF Attempt
    <2>3. slot'.attempt = n /\ slot'.gen = generation /\ slot' \in [attempt : Nat, gen : Nat]
      BY <1>1, <2>1, <2>2
    <2> HIDE DEF e
    <2>4. /\ attempts' \in Seq(Attempt) /\ DOMAIN attempts' = 1..n
          /\ attempts'[n] = e
          /\ \A a \in DOMAIN attempts : attempts'[a] = attempts[a]
      BY <1>2, <2>1, <2>2, Appended
    <2>5. \A a \in DOMAIN attempts' : a = n \/ (a \in DOMAIN attempts /\ a < n)
      BY <1>2, <2>4
    <2>6. /\ awaits' \in [Users -> Nat] /\ awaits'[u] = n
          /\ \A w \in Users : w # u => awaits'[w] = awaits[w]
      BY <2>1, <2>2 DEF SlotInv, SlotTypes
    <2>7. \A a \in DOMAIN attempts : attempts[a].gen = generation => attempts[a].state = "failed"
      <3>1. \A a \in DOMAIN attempts : a # 0
        BY <1>2
      <3> QED BY <1>4, <3>1 DEF SlotInv, Held
    <2> HIDE DEF n
    <2>8. SlotTypes'
      BY <1>1, <2>3, <2>4, <2>6 DEF SlotTypes
    <2>9. Recorded'
      <3>1. \A a \in DOMAIN attempts' : attempts'[a].gen <= generation
        BY <1>1, <2>2, <2>4, <2>5 DEF SlotInv, Recorded
      <3>2. n \in DOMAIN attempts' /\ slot'.gen = attempts'[n].gen
        BY <1>2, <2>2, <2>3, <2>4 DEF n
      <3> QED BY <1>1, <2>3, <3>1, <3>2 DEF Recorded
    <2>10. Held'
      BY <1>1, <2>3, <2>4, <2>5, <2>7 DEF Held
    <2>11. Succession'
      <3> SUFFICES ASSUME NEW a \in DOMAIN attempts', NEW b \in DOMAIN attempts',
                          a < b, attempts'[a].gen = attempts'[b].gen
                   PROVE  attempts'[a].state = "failed"
        BY DEF Succession
      <3>1. a \in DOMAIN attempts /\ attempts'[a] = attempts[a]
        BY <1>2, <2>4, <2>5 DEF n
      <3>2. CASE b = n
        BY <2>2, <2>4, <2>7, <3>1, <3>2
      <3>3. CASE b \in DOMAIN attempts
        BY <2>4, <3>1, <3>3 DEF SlotInv, Succession
      <3> QED BY <2>5, <3>2, <3>3
    <2>12. Joined'
      <3> SUFFICES ASSUME NEW w \in Users, awaits'[w] # 0
                   PROVE  awaits'[w] \in DOMAIN attempts' /\ attempts'[awaits'[w]].gen = joined'[w]
        BY DEF Joined
      <3>1. CASE w = u
        BY <1>1, <1>2, <2>2, <2>4, <2>6, <3>1 DEF n
      <3>2. CASE w # u
        <4>1. awaits[w] \in DOMAIN attempts /\ attempts[awaits[w]].gen = joined[w]
          BY <2>6, <3>2 DEF SlotInv, Joined
        <4> QED BY <1>1, <1>2, <2>4, <2>6, <3>2, <4>1 DEF n
      <3> QED BY <3>1, <3>2
    <2> QED BY <2>8, <2>9, <2>10, <2>11, <2>12 DEF SlotInv
  <1> QED BY <1>3, <1>4

\* An attempt settles, however late; a failure gives the slot up only for its own client.
LEMMA SettleStep ==
  ASSUME SlotInv, NEW a \in DOMAIN attempts, Settle(a)
  PROVE  SlotInv'
  <1>1. /\ attempts[a].state = "pending" /\ generation' = generation
        /\ awaits' = awaits /\ joined' = joined
    BY DEF Settle
  <1>2. attempts \in Seq(Attempt)
    BY DEF SlotInv, SlotTypes
  <1>3. PICK what \in {"ready", "failed"} :
          /\ attempts' = [attempts EXCEPT ![a].state = what]
          /\ \/ slot' = slot /\ (what = "failed" => slot.gen # attempts[a].gen)
             \/ what = "failed" /\ slot.gen = attempts[a].gen /\ slot' = [attempt |-> 0, gen |-> 0]
    BY DEF Settle
  <1>4. /\ attempts' \in Seq(Attempt) /\ DOMAIN attempts' = DOMAIN attempts
        /\ attempts'[a].state = what /\ attempts'[a].gen = attempts[a].gen
        /\ \A b \in DOMAIN attempts : b # a => attempts'[b] = attempts[b]
    BY <1>2, <1>3, Settled
  <1>5. \A b \in DOMAIN attempts : /\ attempts'[b].gen = attempts[b].gen
                                   /\ attempts[b].state = "failed" => attempts'[b].state = "failed"
    BY <1>1, <1>4
  <1>6. SlotTypes'
    BY <1>1, <1>3, <1>4 DEF SlotInv, SlotTypes
  <1>7. Recorded'
    <2>1. slot'.attempt # 0 => slot' = slot
      BY <1>3
    <2> QED BY <1>1, <1>4, <1>5, <2>1 DEF SlotInv, Recorded
  <1>8. Held'
    <2> SUFFICES ASSUME NEW b \in DOMAIN attempts, attempts[b].gen = generation,
                        attempts'[b].state # "failed"
                 PROVE  slot'.attempt = b /\ slot'.gen = generation
      BY <1>1, <1>4, <1>5 DEF Held
    <2>1. slot.attempt = b /\ slot.gen = generation
      BY <1>5 DEF SlotInv, Held
    <2>2. slot' = slot
      <3> SUFFICES ASSUME what = "failed", slot.gen = attempts[a].gen PROVE FALSE
        BY <1>3
      <3>1. a # b
        BY <1>4
      <3>2. slot.attempt = a
        BY <1>1, <2>1 DEF SlotInv, Held
      <3> QED BY <2>1, <3>1, <3>2
    <2> QED BY <2>1, <2>2
  <1>9. Succession'
    BY <1>4, <1>5 DEF SlotInv, Succession
  <1>10. Joined'
    BY <1>1, <1>4, <1>5 DEF SlotInv, Joined
  <1> QED BY <1>6, <1>7, <1>8, <1>9, <1>10 DEF SlotInv

\* A request whose promise settled forgets it.
LEMMA AwaitedStep ==
  ASSUME SlotInv, NEW u \in Users, Awaited(u)
  PROVE  SlotInv'
  <1>1. /\ attempts' = attempts /\ slot' = slot /\ generation' = generation
        /\ awaits' = [awaits EXCEPT ![u] = 0] /\ joined' = [joined EXCEPT ![u] = 0]
    BY DEF Awaited, slotVars
  <1>2. SlotTypes'
    BY <1>1 DEF SlotInv, SlotTypes
  <1>3. Recorded' /\ Held' /\ Succession'
    BY <1>1 DEF SlotInv, Recorded, Held, Succession
  <1>4. \A w \in Users : awaits'[w] # 0 => awaits'[w] = awaits[w] /\ joined'[w] = joined[w]
    BY <1>1 DEF SlotInv, SlotTypes
  <1>5. Joined'
    BY <1>1, <1>4 DEF SlotInv, Joined
  <1> QED BY <1>2, <1>3, <1>5 DEF SlotInv

\* SlotInv is inductive.
LEMMA SlotInductive == SlotInv /\ [ProviderNext]_providerVars => SlotInv'
  <1> SUFFICES ASSUME SlotInv, [ProviderNext]_providerVars PROVE SlotInv'
    OBVIOUS
  <1>1. ASSUME NEW u \in Users,
               \/ \E what \in Does[u], state \in Users \cup {Signed} : Visit(u, what, state)
               \/ Sign(u) \/ Verify(u) \/ Exchange(u) \/ Change(u) \/ Severed(u)
        PROVE  SlotInv'
    <2>1. /\ attempts' = attempts /\ slot' = slot /\ awaits' = awaits /\ joined' = joined
          /\ generation' = generation
      BY <1>1 DEF Visit, Sign, Verify, Exchange, Change, Severed, slotVars
    <2> QED BY <2>1, ElsewhereStep
  <1>2. ASSUME NEW u \in Users, EnterSchema(u) PROVE SlotInv'
    BY <1>2, EnterStep
  <1>3. ASSUME NEW u \in Users, Awaited(u) PROVE SlotInv'
    BY <1>3, AwaitedStep
  <1>4. ASSUME NEW a \in DOMAIN attempts, Settle(a) PROVE SlotInv'
    BY <1>4, SettleStep
  <1>5. CASE DropClient \/ Elsewhere
    <2>1. /\ attempts' = attempts /\ slot' = slot /\ awaits' = awaits /\ joined' = joined
          /\ generation' = generation \/ generation' = generation + 1
      BY <1>5 DEF DropClient, Elsewhere, slotVars
    <2> QED BY <2>1, ElsewhereStep
  <1>6. CASE UNCHANGED providerVars
    <2>1. /\ attempts' = attempts /\ slot' = slot /\ awaits' = awaits /\ joined' = joined
          /\ generation' = generation
      BY <1>6 DEF providerVars, slotVars
    <2> QED BY <2>1, ElsewhereStep
  <1> QED BY <1>1, <1>2, <1>3, <1>4, <1>5, <1>6 DEF ProviderNext

\* The slot's invariant holds in every reachable state.
THEOREM SlotInvariance == ProviderSpec => []SlotInv
  BY SlotInitially, SlotInductive, PTL DEF ProviderSpec

\* runOncePerDbClient and resetDbClient (lib/db.ts): nobody joins the attempt of a dropped
\* client, and a client's schema runs again only after its attempt failed, even when
\* attempts of dropped clients settle late.
THEOREM SchemaRunsOncePerClient == ProviderSpec => []SchemaOncePerClient
  <1>1. SlotInv => SchemaOncePerClient
    BY DEF SlotInv, Succession, Joined, SchemaOncePerClient
  <1> QED BY <1>1, SlotInvariance, PTL

-----------------------------------------------------------------------------
(* The connection and the requests that change it. *)

LinkTypes ==
  /\ does \in [Users -> {"none", "connect", "callback", "disconnect", "list"}]
  /\ place \in [Users -> {"idle", "sign", "verify", "exchange", "schema", "await",
                          "statement", "done"}]
  /\ said \in [Users -> {"none", "ok", "not_configured", "refused", "tiktok_timeout",
                         "tiktok_error", "error", "timeout", "not_connected",
                         "connected", "revoked"}]
  /\ over \in [Users -> SUBSET Users]
  /\ tokens \in SUBSET Users
  /\ connection \in [status : {"connected"}, token : Users]
                    \cup [status : {"none", "revoked"}, token : {NoToken}]

\* Where a request is tells what it does; one that reaches the schema on a callback has
\* its token; "ok" is an ending.
UserAt(u) ==
  /\ place[u] = "idle" => does[u] = "none"
  /\ place[u] = "sign" => does[u] = "connect"
  /\ place[u] \in {"verify", "exchange"} => does[u] = "callback"
  /\ place[u] \in {"schema", "await", "statement"} =>
       /\ does[u] \in {"callback", "disconnect", "list"}
       /\ does[u] = "callback" => u \in tokens
  /\ said[u] = "ok" => place[u] = "done"

Ended == \A u \in Users : \A w \in over[u] : place[w] = "done"

LinkInv ==
  /\ LinkTypes
  /\ \A u \in Users : UserAt(u)
  /\ Ended
  /\ DisconnectSticksUnlessOverlapped

\* No connection, and no request.
LEMMA LinkInitially == ProviderInit => LinkInv
  <1> SUFFICES ASSUME ProviderInit PROVE LinkInv
    OBVIOUS
  <1>1. LinkTypes
    BY DEF ProviderInit, LinkTypes
  <1>2. (\A u \in Users : UserAt(u)) /\ Ended
    BY DEF ProviderInit, UserAt, Ended
  <1>3. DisconnectSticksUnlessOverlapped
    BY DEF ProviderInit, DisconnectSticksUnlessOverlapped
  <1> QED BY <1>1, <1>2, <1>3 DEF LinkInv

\* At most one request moves, and the connection does not.
LEMMA UserStep ==
  ASSUME LinkInv, LinkTypes', NEW u \in Users,
         does' = does, over' = over, connection' = connection, tokens \subseteq tokens',
         \A w \in Users : w # u => place'[w] = place[w] /\ said'[w] = said[w],
         place[u] = "done" => place'[u] = "done",
         UserAt(u)',
         said'[u] = "ok" => said[u] = "ok" \/ does[u] \notin {"callback", "disconnect"}
  PROVE  LinkInv'
  <1>1. \A w \in Users : UserAt(w)'
    <2> SUFFICES ASSUME NEW w \in Users, w # u PROVE UserAt(w)'
      OBVIOUS
    <2>1. UserAt(w)
      BY DEF LinkInv
    <2> QED BY <2>1 DEF UserAt
  <1>2. \A w \in Users : place[w] = "done" => place'[w] = "done"
    OBVIOUS
  <1>3. \A w \in Users : over[w] \subseteq Users
    BY DEF LinkInv, LinkTypes
  <1>4. Ended'
    BY <1>2, <1>3 DEF LinkInv, Ended
  <1>5. \A w \in Users : does[w] \in {"callback", "disconnect"} /\ said'[w] = "ok" => said[w] = "ok"
    OBVIOUS
  <1>6. DisconnectSticksUnlessOverlapped'
    <2>1. \A d \in Users : does[d] = "disconnect" /\ said'[d] = "ok" /\ connection.status = "connected" =>
            connection.token \notin over[d]
      BY <1>5 DEF LinkInv, DisconnectSticksUnlessOverlapped
    <2>2. /\ connection.status = "connected" <=> connection.token # NoToken
          /\ connection.token # NoToken => connection.token \in tokens'
      BY DEF LinkInv, DisconnectSticksUnlessOverlapped
    <2>3. \A c \in Users : does[c] = "callback" /\ said'[c] = "ok" =>
            \/ connection.token = c
            \/ \E d \in Users : does[d] = "disconnect" /\ d \notin over[c] /\ place'[d] = "done"
            \/ connection.token \in tokens' \ over[c]
      BY <1>2, <1>5 DEF LinkInv, DisconnectSticksUnlessOverlapped
    <2> QED BY <2>1, <2>2, <2>3 DEF DisconnectSticksUnlessOverlapped
  <1> QED BY <1>1, <1>4, <1>6 DEF LinkInv

\* A request arrives: it has said nothing, and no other had waited for it to end.
LEMMA VisitStep ==
  ASSUME LinkInv, NEW u \in Users, NEW what \in Does[u], NEW state, Visit(u, what, state)
  PROVE  LinkInv'
  <1>0. /\ what \in {"connect", "callback", "disconnect", "list"}
        /\ place[u] = "idle" /\ said[u] # "ok"
        /\ said' = said /\ tokens' = tokens /\ connection' = connection
    <2>1. UserAt(u)
      BY DEF LinkInv
    <2> QED BY <2>1, ProviderAssumption DEF UserAt, Visit
  <1>1. PICK p \in {"sign", "verify", "schema"} :
          /\ place' = [place EXCEPT ![u] = p]
          /\ p = "sign" => what = "connect"
          /\ p = "verify" => what = "callback"
          /\ p = "schema" => what \in {"disconnect", "list"}
    BY <1>0 DEF Visit, Move
  <1>2. /\ does' = [does EXCEPT ![u] = what]
        /\ over' = [over EXCEPT ![u] = {w \in Users : place[w] = "done"}]
    BY DEF Visit
  <1>3. LinkTypes'
    BY <1>0, <1>1, <1>2 DEF LinkInv, LinkTypes
  <1>4. /\ place'[u] = p /\ does'[u] = what /\ over'[u] = {w \in Users : place[w] = "done"}
        /\ \A w \in Users : w # u => place'[w] = place[w] /\ does'[w] = does[w] /\ over'[w] = over[w]
    BY <1>1, <1>2 DEF LinkInv, LinkTypes
  <1>5. \A w \in Users : UserAt(w)'
    <2> SUFFICES ASSUME NEW w \in Users PROVE UserAt(w)'
      OBVIOUS
    <2>1. CASE w = u
      BY <1>0, <1>1, <1>4, <2>1 DEF UserAt
    <2>2. CASE w # u
      <3>1. UserAt(w)
        BY DEF LinkInv
      <3> QED BY <1>0, <1>4, <2>2, <3>1 DEF UserAt
    <2> QED BY <2>1, <2>2
  <1>6. \A w \in Users : over[w] \subseteq Users /\ u \notin over[w]
    BY <1>0 DEF LinkInv, LinkTypes, Ended
  <1>7. Ended'
    <2> SUFFICES ASSUME NEW w \in Users, NEW x \in over'[w] PROVE place'[x] = "done"
      BY DEF Ended
    <2>1. CASE w = u
      BY <1>0, <1>4, <2>1
    <2>2. CASE w # u
      BY <1>4, <1>6, <2>2 DEF LinkInv, Ended
    <2> QED BY <2>1, <2>2
  <1>8. DisconnectSticksUnlessOverlapped'
    <2>1. \A d \in Users : said[d] = "ok" => does'[d] = does[d] /\ over'[d] = over[d]
      BY <1>0, <1>4
    <2>2. \A d \in Users : does'[d] = "disconnect" /\ said[d] = "ok" /\ connection.status = "connected" =>
            connection.token \notin over'[d]
      BY <2>1 DEF LinkInv, DisconnectSticksUnlessOverlapped
    <2>3. /\ connection.status = "connected" <=> connection.token # NoToken
          /\ connection.token # NoToken => connection.token \in tokens
      BY DEF LinkInv, DisconnectSticksUnlessOverlapped
    <2>4. \A d \in Users : place[d] = "done" => place'[d] = "done" /\ does'[d] = does[d]
      BY <1>0, <1>4
    <2>5. ASSUME NEW c \in Users, does'[c] = "callback", said[c] = "ok"
          PROVE  \/ connection.token = c
                 \/ \E d \in Users : does'[d] = "disconnect" /\ d \notin over'[c] /\ place'[d] = "done"
                 \/ connection.token \in tokens \ over'[c]
      <3>1. does[c] = "callback" /\ over'[c] = over[c]
        BY <2>1, <2>5
      <3>2. \/ connection.token = c
            \/ \E d \in Users : does[d] = "disconnect" /\ d \notin over[c] /\ place[d] = "done"
            \/ connection.token \in tokens \ over[c]
        BY <2>5, <3>1 DEF LinkInv, DisconnectSticksUnlessOverlapped
      <3> QED BY <2>4, <3>1, <3>2
    <2> QED BY <1>0, <2>2, <2>3, <2>5 DEF DisconnectSticksUnlessOverlapped
  <1> QED BY <1>3, <1>5, <1>7, <1>8 DEF LinkInv

\* A request moves on, or ends, on its way to its statement.
LEMMA OnTheWay ==
  ASSUME LinkInv, NEW u \in Users, NEW p \in {"exchange", "schema", "await", "statement", "done"},
         NEW what \in {"none", "ok", "not_configured", "refused", "tiktok_timeout", "tiktok_error",
                       "error", "not_connected", "connected", "revoked"},
         place[u] # "done", place' = [place EXCEPT ![u] = p],
         said' = [said EXCEPT ![u] = IF @ = "none" THEN what ELSE @] \/ said' = said,
         does' = does, over' = over, connection' = connection, tokens' \in SUBSET Users,
         tokens \subseteq tokens',
         what = "ok" => p = "done" /\ does[u] \notin {"callback", "disconnect"},
         p = "exchange" => place[u] = "verify",
         p = "schema" => place[u] = "exchange" /\ u \in tokens',
         p = "await" => place[u] = "schema",
         p = "statement" => place[u] = "await"
  PROVE  LinkInv'
  <1>1. /\ place'[u] = p /\ said'[u] \in {said[u], what}
        /\ \A w \in Users : w # u => place'[w] = place[w] /\ said'[w] = said[w]
    BY DEF LinkInv, LinkTypes
  <1>2. LinkTypes'
    BY DEF LinkInv, LinkTypes
  <1>3. UserAt(u) /\ said[u] # "ok"
    BY DEF LinkInv, UserAt
  <1>4. UserAt(u)'
    BY <1>1, <1>3 DEF UserAt
  <1> QED BY <1>1, <1>2, <1>3, <1>4, UserStep

\* The steps before the statement, and a statement that is severed.
LEMMA WayStep ==
  ASSUME LinkInv, NEW u \in Users,
         \/ Sign(u) \/ Verify(u) \/ Exchange(u) \/ EnterSchema(u) \/ Awaited(u) \/ Severed(u)
  PROVE  LinkInv'
  <1>0. UserAt(u) /\ tokens \in SUBSET Users
    BY DEF LinkInv, LinkTypes
  <1>1. does' = does /\ over' = over /\ connection' = connection
    BY DEF Sign, Verify, Exchange, EnterSchema, Awaited, Severed, userVars
  <1>2. CASE Sign(u)
    <2>1. place[u] = "sign" /\ does[u] = "connect"
      BY <1>0, <1>2 DEF Sign, UserAt
    <2>2. /\ place' = [place EXCEPT ![u] = "done"] /\ tokens' = tokens
          /\ \/ said' = [said EXCEPT ![u] = IF @ = "none" THEN "ok" ELSE @]
             \/ said' = [said EXCEPT ![u] = IF @ = "none" THEN "not_configured" ELSE @]
      BY <1>2 DEF Sign, Close, Move, Inform
    <2> QED BY <1>0, <1>1, <2>1, <2>2, OnTheWay
  <1>3. CASE Verify(u)
    <2>1. /\ place[u] = "verify" /\ tokens' = tokens
          /\ \/ /\ place' = [place EXCEPT ![u] = "done"]
                /\ said' = [said EXCEPT ![u] = IF @ = "none" THEN "refused" ELSE @]
             \/ place' = [place EXCEPT ![u] = "exchange"] /\ said' = said
      BY <1>3 DEF Verify, Close, Move, Inform
    <2> QED BY <1>0, <1>1, <2>1, OnTheWay
  <1>4. CASE Exchange(u)
    <2>1. /\ place[u] = "exchange"
          /\ \/ /\ tokens' = tokens \cup {u} /\ said' = said
                /\ place' = [place EXCEPT ![u] = "schema"]
             \/ /\ tokens' = tokens \cup {u} /\ place' = [place EXCEPT ![u] = "done"]
                /\ said' = [said EXCEPT ![u] = IF @ = "none" THEN "tiktok_timeout" ELSE @]
             \/ /\ tokens' = tokens /\ place' = [place EXCEPT ![u] = "done"]
                /\ said' = [said EXCEPT ![u] = IF @ = "none" THEN "tiktok_error" ELSE @]
      BY <1>4 DEF Exchange, Close, Move, Inform
    <2>2. tokens' \in SUBSET Users /\ tokens \subseteq tokens'
      BY <1>0, <2>1
    <2>3. CASE place' = [place EXCEPT ![u] = "schema"] /\ u \in tokens' /\ said' = said
      BY <1>1, <2>1, <2>2, <2>3, OnTheWay
    <2>4. CASE place' = [place EXCEPT ![u] = "done"]
      BY <1>1, <2>1, <2>2, <2>4, OnTheWay
    <2> QED BY <2>1, <2>3, <2>4
  <1>5. CASE EnterSchema(u)
    <2>1. /\ place[u] = "schema" /\ tokens' = tokens /\ said' = said
          /\ place' = [place EXCEPT ![u] = "await"]
      BY <1>5 DEF EnterSchema, Move
    <2> QED BY <1>0, <1>1, <2>1, OnTheWay
  <1>6. CASE Awaited(u)
    <2>1. /\ place[u] = "await" /\ tokens' = tokens
          /\ \/ place' = [place EXCEPT ![u] = "statement"] /\ said' = said
             \/ /\ place' = [place EXCEPT ![u] = "done"]
                /\ said' = [said EXCEPT ![u] = IF @ = "none" THEN "error" ELSE @]
      BY <1>6 DEF Awaited, Close, Move, Inform
    <2> QED BY <1>0, <1>1, <2>1, OnTheWay
  <1>7. CASE Severed(u)
    <2>1. /\ place[u] = "statement" /\ tokens' = tokens
          /\ place' = [place EXCEPT ![u] = "done"]
          /\ said' = [said EXCEPT ![u] = IF @ = "none" THEN "error" ELSE @]
      BY <1>7 DEF Severed, Close, Move, Inform
    <2> QED BY <1>0, <1>1, <2>1, OnTheWay
  <1> QED BY <1>2, <1>3, <1>4, <1>5, <1>6, <1>7

\* The statement: a callback connects, a disconnect revokes, and each ends.
LEMMA ChangeStep ==
  ASSUME LinkInv, NEW u \in Users, Change(u)
  PROVE  LinkInv'
  <1>0. /\ place[u] = "statement" /\ said[u] # "ok"
        /\ does[u] \in {"callback", "disconnect", "list"}
        /\ does[u] = "callback" => u \in tokens
    <2>1. UserAt(u)
      BY DEF LinkInv
    <2> QED BY <2>1 DEF UserAt, Change
  <1>1. /\ does' = does /\ over' = over /\ tokens' = tokens /\ tokens \in SUBSET Users
    BY DEF Change, userVars, LinkInv, LinkTypes
  <1>2. connection.status \in {"none", "connected", "revoked"}
    BY DEF LinkInv, LinkTypes
  <1>3. CASE does[u] = "list" \/ (does[u] = "disconnect" /\ connection.status = "none")
    <2>1. PICK what \in {"none", "not_configured", "not_connected", "connected", "revoked"} :
            /\ connection' = connection /\ place' = [place EXCEPT ![u] = "done"]
            /\ said' = [said EXCEPT ![u] = IF @ = "none" THEN what ELSE @]
      BY <1>2, <1>3 DEF Change, Close, Move, Inform
    <2> QED BY <1>0, <1>1, <2>1, OnTheWay
  <1>4. CASE does[u] = "callback" \/ (does[u] = "disconnect" /\ connection.status # "none")
    <2>1. /\ place' = [place EXCEPT ![u] = "done"]
          /\ said' = [said EXCEPT ![u] = IF @ = "none" THEN "ok" ELSE @]
          /\ \/ does[u] = "callback" /\ connection' = [status |-> "connected", token |-> u]
             \/ does[u] = "disconnect" /\ connection' = [status |-> "revoked", token |-> NoToken]
      BY <1>4 DEF Change, Close, Move, Inform
    <2>2. /\ place'[u] = "done"
          /\ \A w \in Users : w # u => place'[w] = place[w] /\ said'[w] = said[w]
      BY <2>1 DEF LinkInv, LinkTypes
    <2>3. LinkTypes'
      BY <1>1, <2>1 DEF LinkInv, LinkTypes
    <2>4. \A w \in Users : UserAt(w)'
      <3> SUFFICES ASSUME NEW w \in Users PROVE UserAt(w)'
        OBVIOUS
      <3>1. UserAt(w)
        BY DEF LinkInv
      <3> QED BY <1>1, <2>2, <3>1 DEF UserAt
    <2>5. \A w \in Users : over[w] \subseteq Users /\ u \notin over[w]
      BY <1>0 DEF LinkInv, LinkTypes, Ended
    <2>6. \A w \in Users : place[w] = "done" => place'[w] = "done"
      BY <2>2
    <2>7. Ended'
      BY <1>1, <2>5, <2>6 DEF LinkInv, Ended
    <2>8. DisconnectSticksUnlessOverlapped'
      <3>1. CASE does[u] = "callback" /\ connection' = [status |-> "connected", token |-> u]
        <4>1. connection'.status = "connected" /\ connection'.token = u
          BY <3>1
        <4>2. u # NoToken /\ u \in tokens
          BY <1>0, <3>1, ProviderAssumption DEF NoToken
        <4> QED BY <1>1, <2>5, <4>1, <4>2 DEF DisconnectSticksUnlessOverlapped
      <3>2. CASE does[u] = "disconnect" /\ connection' = [status |-> "revoked", token |-> NoToken]
        <4>1. connection'.status = "revoked" /\ connection'.token = NoToken
          BY <3>2
        <4> QED BY <1>1, <2>2, <2>5, <3>2, <4>1 DEF DisconnectSticksUnlessOverlapped
      <3> QED BY <2>1, <3>1, <3>2
    <2> QED BY <2>3, <2>4, <2>7, <2>8 DEF LinkInv
  <1> QED BY <1>0, <1>3, <1>4

\* A step of an attempt, of the clock or of the deployment.
LEMMA ApartStep ==
  ASSUME LinkInv, does' = does, place' = place, said' = said, over' = over, tokens' = tokens,
         connection' = connection
  PROVE  LinkInv'
  <1>1. LinkTypes' /\ Ended'
    BY DEF LinkInv, LinkTypes, Ended
  <1>2. \A u \in Users : UserAt(u)'
    <2> SUFFICES ASSUME NEW u \in Users PROVE UserAt(u)'
      OBVIOUS
    <2>1. UserAt(u)
      BY DEF LinkInv
    <2> QED BY <2>1 DEF UserAt
  <1>3. DisconnectSticksUnlessOverlapped'
    BY DEF LinkInv, DisconnectSticksUnlessOverlapped
  <1> QED BY <1>1, <1>2, <1>3 DEF LinkInv

\* A client is dropped: a caller under way may be told of a timeout.
LEMMA DropStep ==
  ASSUME LinkInv, DropClient
  PROVE  LinkInv'
  <1>1. /\ does' = does /\ place' = place /\ over' = over /\ tokens' = tokens
        /\ connection' = connection
    BY DEF DropClient, userVars
  <1>2. CASE said' = said
    BY <1>1, <1>2, ApartStep
  <1>3. ASSUME NEW u \in Users, said' = [said EXCEPT ![u] = IF @ = "none" THEN "timeout" ELSE @]
        PROVE  LinkInv'
    <2>1. LinkTypes'
      BY <1>1, <1>3 DEF LinkInv, LinkTypes
    <2>2. /\ said'[u] = "ok" => said[u] = "ok"
          /\ \A w \in Users : w # u => said'[w] = said[w]
      BY <1>3 DEF LinkInv, LinkTypes
    <2>3. UserAt(u)'
      <3>1. UserAt(u)
        BY DEF LinkInv
      <3> QED BY <1>1, <2>2, <3>1 DEF UserAt
    <2> QED BY <1>1, <2>1, <2>2, <2>3, UserStep
  <1> QED BY <1>2, <1>3 DEF DropClient, Going, Inform

\* LinkInv is inductive.
LEMMA LinkInductive == LinkInv /\ [ProviderNext]_providerVars => LinkInv'
  <1> SUFFICES ASSUME LinkInv, [ProviderNext]_providerVars PROVE LinkInv'
    OBVIOUS
  <1>1. ASSUME NEW u \in Users, NEW what \in Does[u], NEW state, Visit(u, what, state)
        PROVE  LinkInv'
    BY <1>1, VisitStep
  <1>2. ASSUME NEW u \in Users,
               \/ Sign(u) \/ Verify(u) \/ Exchange(u) \/ EnterSchema(u) \/ Awaited(u) \/ Severed(u)
        PROVE  LinkInv'
    BY <1>2, WayStep
  <1>3. ASSUME NEW u \in Users, Change(u) PROVE LinkInv'
    BY <1>3, ChangeStep
  <1>4. CASE (\E a \in DOMAIN attempts : Settle(a)) \/ Elsewhere \/ UNCHANGED providerVars
    <2>1. /\ does' = does /\ place' = place /\ said' = said /\ over' = over /\ tokens' = tokens
          /\ connection' = connection
      BY <1>4 DEF Settle, Elsewhere, providerVars, userVars
    <2> QED BY <2>1, ApartStep
  <1>5. CASE DropClient
    BY <1>5, DropStep
  <1> QED BY <1>1, <1>2, <1>3, <1>4, <1>5 DEF ProviderNext

\* The connection's invariant holds in every reachable state.
THEOREM LinkInvariance == ProviderSpec => []LinkInv
  BY LinkInitially, LinkInductive, PTL DEF ProviderSpec

\* upsertConnectedProvider and revokeProviderConnection: after a confirmed disconnect only
\* a callback that overlapped it can connect again, a connected row holds a granted token,
\* and a callback's "ok" is undone only by a later callback or an unfinished disconnect.
THEOREM DisconnectSticks == ProviderSpec => []DisconnectSticksUnlessOverlapped
  <1>1. LinkInv => DisconnectSticksUnlessOverlapped
    BY DEF LinkInv
  <1> QED BY <1>1, LinkInvariance, PTL

-----------------------------------------------------------------------------
(* Personal experiments and agent runs: rows decided under row locks. *)

StudyRow == [status : {None, "active", "completed"}, outcomes : SUBSET Requests]
ReceiptRow == [kind : {"read", "approve", "reject", "completion"}, verified : BOOLEAN, by : Requests]
Steps2 == {"idle", "history", "connection", "lock", "commit", "write", "view", "outcomes", "done"}

IntelTypes ==
  /\ act \in [Requests -> {None, "create", "record", "complete", "product", "social", "run",
                           "approve", "reject", "finish", "view"}]
  /\ on \in [Requests -> Rows] /\ at2 \in [Requests -> Steps2]
  /\ DOMAIN cites = Requests /\ DOMAIN plan = Requests /\ DOMAIN told = Requests
  /\ shown \in [Requests -> StudyRow] /\ study \in [Requests -> StudyRow]
  /\ DOMAIN run = Requests /\ \A p \in Requests : DOMAIN run[p] = {"type", "status", "closure"}
  /\ receipts \in [Requests -> Seq(ReceiptRow)]
  /\ owner \in [Requests -> Rows]

\* What a request does and holds, by the step it is at.
AskerAt(r) ==
  /\ at2[r] # "idle" => on[r] \in Requests
  /\ act[r] \in {"create", "run"} => on[r] = r
  /\ at2[r] = "history" => act[r] = "run"
  /\ at2[r] = "connection" => act[r] = "social"
  /\ at2[r] \in {"lock", "commit"} => act[r] \in {"record", "approve", "reject", "finish"}
  /\ at2[r] = "commit" => owner[on[r]] = r
  /\ at2[r] \in {"view", "outcomes"} => study[on[r]].status # None
  /\ act[r] = "complete" /\ at2[r] = "write" => study[on[r]].status # None
  /\ told[r] = "ok" => at2[r] = "done"

\* What it found when it took the lock is so until it commits.
StillOpen(r) ==
  at2[r] = "commit" =>
    /\ act[r] = "record" => study[on[r]].status = "active"
    /\ act[r] \in {"approve", "reject"} => run[on[r]].status = "awaiting_approval"
    /\ act[r] = "finish" => run[on[r]].status = "approved"

\* A row is made by the request it is named after, and locked by one transaction.
RowAt(o) ==
  /\ study[o].status # None => act[o] = "create" /\ at2[o] \notin {"idle", "write"}
  /\ run[o].status # None => act[o] = "run" /\ at2[o] = "done"
  /\ owner[o] # None => at2[owner[o]] = "commit" /\ on[owner[o]] = o

\* A study that was shown completed is, and its answer has the outcomes it still has.
ShownAt(r) ==
  /\ shown[r].status # None => at2[r] \in {"outcomes", "done"}
  /\ shown[r].status = "completed" =>
       /\ study[on[r]].status = "completed"
       /\ told[r] = "ok" => shown[r].outcomes = study[on[r]].outcomes

\* The receipts of a run: the reading, the decision, completions that showed nothing
\* and the one that did, last.
StoryAt(p) ==
  LET rs == receipts[p]
      n == Len(receipts[p])
      is == run[p].status
      found == run[p].type = "ask_history"
  IN /\ n = 0 => run[p].type = None /\ is = None
     /\ n >= 1 => rs[1].kind = "read"
     /\ n >= 2 => rs[2].kind \in {"approve", "reject"} /\ rs[2].verified
     /\ n >= 3 => rs[2].kind = "approve"
     /\ \A i \in 3..n : rs[i].kind = "completion" /\ (i < n => ~rs[i].verified)
     /\ found => n = 1 /\ is = "completed"
     /\ n = 1 /\ ~found => is = "awaiting_approval"
     /\ n = 2 => is = IF rs[2].kind = "approve" THEN "approved" ELSE "rejected"
     /\ n >= 3 => is = IF rs[n].verified THEN "completed" ELSE "approved"

IntelInv ==
  /\ IntelTypes
  /\ \A r \in Requests : AskerAt(r) /\ StillOpen(r) /\ RowAt(r) /\ ShownAt(r) /\ StoryAt(r)

LEMMA NoneIsNobody == None \notin Requests
BY ActsAssumption DEF None

LEMMA IntelInitial == IntelInit => IntelInv
<1> SUFFICES ASSUME IntelInit PROVE IntelInv
  OBVIOUS
<1> USE DEF IntelInit
<1>1. NoStudy \in StudyRow /\ NoStudy.status = None
  BY DEF NoStudy, StudyRow
<1>2. DOMAIN NoRun = {"type", "status", "closure"} /\ NoRun.type = None /\ NoRun.status = None
  BY DEF NoRun
<1>3. <<>> \in Seq(ReceiptRow) /\ Len(<<>>) = 0
  OBVIOUS
<1>4. \A p \in Requests :
        /\ act[p] = None /\ on[p] = None /\ at2[p] = "idle" /\ told[p] = None /\ shown[p] = NoStudy
        /\ study[p] = NoStudy /\ run[p] = NoRun /\ receipts[p] = <<>> /\ owner[p] = None
  OBVIOUS
<1>5. IntelTypes
  BY <1>1, <1>2, <1>3 DEF IntelTypes, Rows, Steps2
<1>6. \A r \in Requests : AskerAt(r) /\ StillOpen(r) /\ RowAt(r) /\ ShownAt(r)
  BY <1>1, <1>2, <1>4 DEF AskerAt, StillOpen, RowAt, ShownAt, None
<1>7. \A p \in Requests : StoryAt(p)
  BY <1>2, <1>3, <1>4 DEF StoryAt, None
<1> QED BY <1>5, <1>6, <1>7 DEF IntelInv

LEMMA StoryStays ==
  ASSUME NEW p, StoryAt(p), run'[p] = run[p], receipts'[p] = receipts[p]
  PROVE  StoryAt(p)'
BY DEF StoryAt

\* A step of request r that changes no row but o, and that one only while no other
\* transaction holds it.
LEMMA StepKeeps ==
  ASSUME IntelInv, IntelTypes', NEW r \in Requests, NEW o \in Requests,
         AskerAt(r)', StillOpen(r)', ShownAt(r)', RowAt(o)', StoryAt(o)',
         \A q \in Requests \ {r} :
           /\ act'[q] = act[q] /\ on'[q] = on[q] /\ at2'[q] = at2[q]
           /\ told'[q] = told[q] /\ shown'[q] = shown[q],
         \A p \in Requests \ {o} :
           study'[p] = study[p] /\ run'[p] = run[p] /\ receipts'[p] = receipts[p],
         \/ study'[o] = study[o] /\ run'[o] = run[o]
         \/ \A q \in Requests \ {r} : at2[q] = "commit" => on[q] # o,
         study[o].status # None => study'[o].status # None,
         study[o].status = "completed" => study'[o] = study[o],
         \A p \in Requests :
           \/ owner'[p] = owner[p]
           \/ owner[p] = None /\ owner'[p] = r
           \/ owner[p] = r /\ owner'[p] = None,
         \A p \in Requests : owner'[p] = r => at2'[r] = "commit" /\ on'[r] = p,
         at2[r] \notin {"idle", "write"} =>
           act'[r] = act[r] /\ (act[r] = "create" => at2'[r] \notin {"idle", "write"}),
         at2[r] = "done" => at2'[r] = "done"
  PROVE  IntelInv'
<1>1. /\ IntelTypes
      /\ \A q \in Requests : AskerAt(q) /\ StillOpen(q) /\ RowAt(q) /\ ShownAt(q) /\ StoryAt(q)
  BY DEF IntelInv
<1>2. \A q \in Requests : on[q] \in Requests => (study[on[q]].status # None => study'[on[q]].status # None)
  OBVIOUS
<1>3. ASSUME NEW q \in Requests \ {r} PROVE AskerAt(q)'
  <2>1. at2[q] = "commit" => owner'[on[q]] = q
    <3> SUFFICES ASSUME at2[q] = "commit" PROVE owner'[on[q]] = q
      OBVIOUS
    <3>1. on[q] \in Requests /\ owner[on[q]] = q
      BY <1>1 DEF AskerAt
    <3> QED BY <3>1, NoneIsNobody
  <2>2. at2[q] \in {"view", "outcomes"} \/ (act[q] = "complete" /\ at2[q] = "write") => on[q] \in Requests
    BY <1>1 DEF AskerAt
  <2> QED BY <1>1, <1>2, <2>1, <2>2 DEF AskerAt
<1>4. ASSUME NEW q \in Requests \ {r} PROVE StillOpen(q)'
  <2> SUFFICES ASSUME at2[q] = "commit" PROVE StillOpen(q)'
    BY DEF StillOpen
  <2>1. on[q] \in Requests
    BY <1>1 DEF AskerAt
  <2>2. study'[on[q]] = study[on[q]] /\ run'[on[q]] = run[on[q]]
    BY <2>1
  <2> QED BY <1>1, <2>2 DEF StillOpen
<1>5. ASSUME NEW p \in Requests \ {o} PROVE RowAt(p)'
  <2>1. study'[p].status # None => act'[p] = "create" /\ at2'[p] \notin {"idle", "write"}
    BY <1>1 DEF RowAt
  <2>2. run'[p].status # None => act'[p] = "run" /\ at2'[p] = "done"
    BY <1>1 DEF RowAt
  <2>3. owner'[p] # None => at2'[owner'[p]] = "commit" /\ on'[owner'[p]] = p
    <3>1. CASE owner'[p] = r
      BY <3>1
    <3>2. CASE owner'[p] # r /\ owner'[p] # None
      <4>1. owner'[p] = owner[p] /\ owner[p] \in Requests \ {r}
        BY <1>1, <3>2 DEF IntelTypes, Rows
      <4> QED BY <1>1, <3>2, <4>1 DEF RowAt
    <3> QED BY <3>1, <3>2
  <2> QED BY <2>1, <2>2, <2>3 DEF RowAt
<1>6. ASSUME NEW q \in Requests \ {r} PROVE ShownAt(q)'
  <2>1. shown[q].status = "completed" => study'[on[q]] = study[on[q]]
    <3> SUFFICES ASSUME shown[q].status = "completed" PROVE study'[on[q]] = study[on[q]]
      OBVIOUS
    <3>1. on[q] \in Requests /\ study[on[q]].status = "completed"
      BY <1>1 DEF ShownAt, AskerAt, None
    <3> QED BY <3>1
  <2> QED BY <1>1, <2>1 DEF ShownAt
<1>7. \A p \in Requests : StoryAt(p)'
  BY <1>1, StoryStays
<1>8. \A q \in Requests : AskerAt(q)' /\ StillOpen(q)' /\ RowAt(q)' /\ ShownAt(q)' /\ StoryAt(q)'
  BY <1>3, <1>4, <1>5, <1>6, <1>7
<1> QED BY <1>8 DEF IntelInv

\* A step that changes no row.
LEMMA RequestStep ==
  ASSUME IntelInv, IntelTypes', NEW r \in Requests,
         AskerAt(r)', StillOpen(r)', ShownAt(r)',
         UNCHANGED <<study, run, receipts>>,
         \A q \in Requests \ {r} :
           /\ act'[q] = act[q] /\ on'[q] = on[q] /\ at2'[q] = at2[q]
           /\ told'[q] = told[q] /\ shown'[q] = shown[q],
         \A p \in Requests :
           \/ owner'[p] = owner[p]
           \/ owner[p] = None /\ owner'[p] = r
           \/ owner[p] = r /\ owner'[p] = None,
         \A p \in Requests : owner'[p] = r => at2'[r] = "commit" /\ on'[r] = p,
         at2[r] \notin {"idle", "write"} =>
           act'[r] = act[r] /\ (act[r] = "create" => at2'[r] \notin {"idle", "write"}),
         at2[r] = "done" => at2'[r] = "done"
  PROVE  IntelInv'
<1>1. IntelTypes /\ RowAt(r) /\ StoryAt(r)
  BY DEF IntelInv
<1>2. StoryAt(r)'
  BY <1>1, StoryStays
<1>3. owner'[r] # None => at2'[owner'[r]] = "commit" /\ on'[owner'[r]] = r
  <2>1. CASE owner'[r] = r
    BY <2>1
  <2>2. CASE owner'[r] # r /\ owner'[r] # None
    <3>1. owner'[r] = owner[r] /\ owner[r] \in Requests \ {r}
      BY <1>1, <2>2 DEF IntelTypes, Rows
    <3> QED BY <1>1, <2>2, <3>1 DEF RowAt
  <2> QED BY <2>1, <2>2
<1>4. RowAt(r)'
  BY <1>1, <1>3 DEF RowAt
<1> QED BY <1>2, <1>4, StepKeeps

\* The bookkeeping of a request: its next step, and what its caller is told.
LEMMA StepFacts ==
  ASSUME IntelTypes, NEW r \in Requests, NEW s \in Steps2, Step2(r, s)
  PROVE  /\ at2' \in [Requests -> Steps2] /\ at2'[r] = s
         /\ \A q \in Requests \ {r} : at2'[q] = at2[q]
BY DEF Step2, IntelTypes

LEMMA SayFacts ==
  ASSUME IntelTypes, NEW r \in Requests, NEW what, Say(r, what)
  PROVE  /\ DOMAIN told' = Requests
         /\ told'[r] = IF told[r] = None THEN what ELSE told[r]
         /\ \A q \in Requests \ {r} : told'[q] = told[q]
BY DEF Say, IntelTypes

LEMMA EndFacts ==
  ASSUME IntelTypes, NEW r \in Requests, NEW what, End2(r, what)
  PROVE  /\ at2' \in [Requests -> Steps2] /\ at2'[r] = "done"
         /\ \A q \in Requests \ {r} : at2'[q] = at2[q]
         /\ DOMAIN told' = Requests
         /\ told'[r] = IF told[r] = None THEN what ELSE told[r]
         /\ \A q \in Requests \ {r} : told'[q] = told[q]
<1>1. "done" \in Steps2
  BY DEF Steps2
<1> QED BY <1>1, StepFacts, SayFacts DEF End2

LEMMA AskKeeps ==
  ASSUME IntelInv, NEW r \in Requests, NEW row \in Requests,
         NEW a \in {"create", "record", "complete", "product", "social", "run",
                    "approve", "reject", "finish", "view"},
         NEW first \in {"history", "connection", "lock", "write", "view"},
         Ask(r, a, row, first), DOMAIN cites' = Requests, DOMAIN plan' = Requests,
         a \in {"create", "run"} => row = r,
         first = "lock" => a \in {"record", "approve", "reject", "finish"},
         first = "history" => a = "run", first = "connection" => a = "social",
         first = "view" \/ (a = "complete" /\ first = "write") => study[row].status # None
  PROVE  IntelInv'
<1>1. /\ IntelTypes /\ AskerAt(r) /\ RowAt(r) /\ ShownAt(r)
      /\ \A q \in Requests : RowAt(q)
  BY DEF IntelInv
<1>2. /\ at2[r] = "idle" /\ act' = [act EXCEPT ![r] = a] /\ on' = [on EXCEPT ![r] = row]
      /\ Step2(r, first)
      /\ UNCHANGED <<told, shown, study, facts, linked, run, receipts, owner>>
  BY DEF Ask, intelRowVars
<1>3. /\ at2' \in [Requests -> Steps2] /\ at2'[r] = first
      /\ \A q \in Requests \ {r} : at2'[q] = at2[q]
  <2>1. first \in Steps2
    BY DEF Steps2
  <2> QED BY <1>1, <1>2, <2>1, StepFacts
<1>4. /\ act'[r] = a /\ on'[r] = row
      /\ \A q \in Requests \ {r} : act'[q] = act[q] /\ on'[q] = on[q]
      /\ on' \in [Requests -> Rows]
  BY <1>1, <1>2 DEF IntelTypes, Rows
<1>5. IntelTypes'
  BY <1>1, <1>2, <1>3, <1>4 DEF IntelTypes
<1>6. AskerAt(r)'
  BY <1>1, <1>2, <1>3, <1>4 DEF AskerAt
<1>7. StillOpen(r)'
  BY <1>3 DEF StillOpen
<1>8. ShownAt(r)'
  BY <1>1, <1>2 DEF ShownAt, None
<1>9. \A p \in Requests : owner[p] # r
  BY <1>1, <1>2, NoneIsNobody DEF RowAt
<1> QED BY <1>2, <1>3, <1>4, <1>5, <1>6, <1>7, <1>8, <1>9, RequestStep

LEMMA AskingKeeps ==
  ASSUME IntelInv, NEW r \in Requests, NEW row \in Requests, NEW a, NEW evidence, NEW goal,
         \/ AskView(r, row) \/ AskStudy(r, a, row) \/ AskProduct(r)
         \/ AskSocial(r, "connection") \/ AskSocial(r, "write")
         \/ AskRun(r, goal) \/ AskAgent(r, a, row, evidence)
  PROVE  IntelInv'
<1>1. DOMAIN cites = Requests /\ DOMAIN plan = Requests
  BY DEF IntelInv, IntelTypes
<1>2. CASE AskView(r, row)
  BY <1>1, <1>2, AskKeeps DEF AskView
<1>3. CASE AskStudy(r, a, row)
  BY <1>1, <1>3, AskKeeps DEF AskStudy
<1>4. CASE AskProduct(r)
  BY <1>1, <1>4, AskKeeps DEF AskProduct
<1>5. CASE AskSocial(r, "connection") \/ AskSocial(r, "write")
  BY <1>1, <1>5, AskKeeps DEF AskSocial
<1>6. CASE AskRun(r, goal)
  BY <1>1, <1>6, AskKeeps DEF AskRun
<1>7. CASE AskAgent(r, a, row, evidence)
  BY <1>1, <1>7, AskKeeps DEF AskAgent
<1> QED BY <1>2, <1>3, <1>4, <1>5, <1>6, <1>7

\* A request that goes on to another statement without touching a row or a lock.
LEMMA GoOn ==
  ASSUME IntelInv, NEW r \in Requests, at2[r] \notin {"idle", "commit", "done"},
         at2' \in [Requests -> Steps2], at2'[r] \in {"write", "outcomes", "done"},
         at2'[r] = "outcomes" => at2[r] = "view",
         \A q \in Requests \ {r} : at2'[q] = at2[q] /\ told'[q] = told[q] /\ shown'[q] = shown[q],
         UNCHANGED <<act, on, study, run, receipts, owner>>,
         DOMAIN told' = Requests, DOMAIN plan' = Requests, DOMAIN cites' = Requests,
         shown' \in [Requests -> StudyRow],
         told'[r] = "ok" => at2'[r] = "done", ShownAt(r)',
         at2'[r] = "write" => at2[r] \in {"history", "connection"}
  PROVE  IntelInv'
<1>1. /\ IntelTypes /\ AskerAt(r) /\ \A q \in Requests : RowAt(q)
  BY DEF IntelInv
<1>2. IntelTypes'
  BY <1>1 DEF IntelTypes
<1>3. AskerAt(r)'
  BY <1>1 DEF AskerAt
<1>4. StillOpen(r)'
  BY DEF StillOpen
<1>5. \A p \in Requests : owner[p] # r
  BY <1>1, NoneIsNobody DEF RowAt
<1>6. act[r] = "create" => at2'[r] \notin {"idle", "write"}
  BY <1>1 DEF AskerAt
<1> QED BY <1>2, <1>3, <1>4, <1>5, <1>6, RequestStep

LEMMA AskHistoryKeeps == ASSUME IntelInv, NEW r \in Requests, AskHistory(r) PROVE IntelInv'
<1>1. IntelTypes /\ AskerAt(r) /\ ShownAt(r)
  BY DEF IntelInv
<1>2. /\ at2[r] = "history" /\ Step2(r, "write") /\ DOMAIN plan' = Requests
      /\ UNCHANGED <<act, on, cites, told, shown, study, run, receipts, owner>>
  BY <1>1 DEF AskHistory, intelRowVars, IntelTypes
<1>3. /\ at2' \in [Requests -> Steps2] /\ at2'[r] = "write"
      /\ \A q \in Requests \ {r} : at2'[q] = at2[q]
  BY <1>1, <1>2, StepFacts DEF Steps2
<1>4. DOMAIN told' = Requests /\ DOMAIN cites' = Requests /\ shown' \in [Requests -> StudyRow]
  BY <1>1, <1>2 DEF IntelTypes
<1>5. told'[r] = "ok" => at2'[r] = "done"
  BY <1>1, <1>2 DEF AskerAt
<1>6. ShownAt(r)'
  BY <1>1, <1>2 DEF ShownAt, None
<1> QED BY <1>2, <1>3, <1>4, <1>5, <1>6, GoOn

LEMMA ReadConnectionKeeps == ASSUME IntelInv, NEW r \in Requests, ReadConnection(r) PROVE IntelInv'
<1>1. IntelTypes /\ AskerAt(r) /\ ShownAt(r)
  BY DEF IntelInv
<1>2. /\ at2[r] = "connection"
      /\ (Step2(r, "write") /\ told' = told) \/ End2(r, "refused")
      /\ UNCHANGED <<act, on, cites, plan, shown, study, run, receipts, owner>>
  BY DEF ReadConnection, intelReqVars, intelRowVars
<1>3. /\ at2' \in [Requests -> Steps2] /\ at2'[r] \in {"write", "done"} /\ DOMAIN told' = Requests
      /\ \A q \in Requests \ {r} : at2'[q] = at2[q] /\ told'[q] = told[q]
      /\ told'[r] \in {told[r], "refused"}
  <2>1. "write" \in Steps2 /\ DOMAIN told = Requests
    BY <1>1 DEF Steps2, IntelTypes
  <2> QED BY <1>1, <1>2, <2>1, StepFacts, EndFacts
<1>4. DOMAIN plan' = Requests /\ DOMAIN cites' = Requests /\ shown' \in [Requests -> StudyRow]
  BY <1>1, <1>2 DEF IntelTypes
<1>5. told'[r] = "ok" => at2'[r] = "done"
  BY <1>1, <1>2, <1>3 DEF AskerAt
<1>6. ShownAt(r)'
  BY <1>1, <1>2 DEF ShownAt, None
<1> QED BY <1>2, <1>3, <1>4, <1>5, <1>6, GoOn

\* The write of an outcome that stands alone ends its request.
LEMMA WriteFactKeeps ==
  ASSUME IntelInv, NEW r \in Requests, WriteProduct(r) \/ WriteSocial(r)
  PROVE  IntelInv'
<1>1. IntelTypes /\ AskerAt(r) /\ ShownAt(r)
  BY DEF IntelInv
<1>2. /\ at2[r] = "write" /\ End2(r, "ok")
      /\ UNCHANGED <<act, on, cites, plan, shown, study, run, receipts, owner>>
  BY DEF WriteProduct, WriteSocial, Write, intelReqVars
<1>3. /\ at2' \in [Requests -> Steps2] /\ at2'[r] = "done" /\ DOMAIN told' = Requests
      /\ \A q \in Requests \ {r} : at2'[q] = at2[q] /\ told'[q] = told[q]
  BY <1>1, <1>2, EndFacts
<1>4. DOMAIN plan' = Requests /\ DOMAIN cites' = Requests /\ shown' \in [Requests -> StudyRow]
  BY <1>1, <1>2 DEF IntelTypes
<1>5. ShownAt(r)'
  BY <1>1, <1>2 DEF ShownAt, None
<1> QED BY <1>2, <1>3, <1>4, <1>5, GoOn

LEMMA ViewRowKeeps == ASSUME IntelInv, NEW r \in Requests, ViewRow(r) PROVE IntelInv'
<1>1. IntelTypes /\ AskerAt(r) /\ ShownAt(r) /\ on[r] \in Requests
  BY DEF IntelInv, AskerAt, ViewRow
<1>2. /\ at2[r] = "view" /\ Step2(r, "outcomes")
      /\ shown' = [shown EXCEPT ![r].status = study[on[r]].status]
      /\ UNCHANGED <<act, on, cites, plan, told, study, run, receipts, owner>>
  BY DEF ViewRow, intelReqVars, intelRowVars
<1>3. /\ at2' \in [Requests -> Steps2] /\ at2'[r] = "outcomes"
      /\ \A q \in Requests \ {r} : at2'[q] = at2[q]
  BY <1>1, <1>2, StepFacts DEF Steps2
<1>4. /\ shown' \in [Requests -> StudyRow] /\ shown'[r].status = study[on[r]].status
      /\ \A q \in Requests \ {r} : shown'[q] = shown[q]
  <2>1. shown[r] \in StudyRow /\ study[on[r]] \in StudyRow
    BY <1>1 DEF IntelTypes
  <2>2. shown' = [shown EXCEPT ![r] = [shown[r] EXCEPT !.status = study[on[r]].status]]
    BY <1>2
  <2>3. PICK new : new = [shown[r] EXCEPT !.status = study[on[r]].status]
    OBVIOUS
  <2>4. new \in StudyRow /\ new.status = study[on[r]].status
    BY <2>1, <2>3 DEF StudyRow
  <2> QED BY <1>1, <2>2, <2>3, <2>4 DEF IntelTypes
<1>5. DOMAIN told' = Requests /\ DOMAIN plan' = Requests /\ DOMAIN cites' = Requests
  BY <1>1, <1>2 DEF IntelTypes
<1>6. told'[r] # "ok"
  BY <1>1, <1>2 DEF AskerAt
<1>7. ShownAt(r)'
  BY <1>2, <1>3, <1>4, <1>6 DEF ShownAt
<1> QED BY <1>2, <1>3, <1>4, <1>5, <1>6, <1>7, GoOn

LEMMA ViewOutcomesKeeps == ASSUME IntelInv, NEW r \in Requests, ViewOutcomes(r) PROVE IntelInv'
<1>1. IntelTypes /\ AskerAt(r) /\ ShownAt(r) /\ on[r] \in Requests
  BY DEF IntelInv, AskerAt, ViewOutcomes
<1>2. /\ at2[r] = "outcomes" /\ End2(r, "ok")
      /\ shown' = [shown EXCEPT ![r].outcomes = study[on[r]].outcomes]
      /\ UNCHANGED <<act, on, cites, plan, study, run, receipts, owner>>
  BY DEF ViewOutcomes, intelReqVars, intelRowVars
<1>3. /\ at2' \in [Requests -> Steps2] /\ at2'[r] = "done" /\ DOMAIN told' = Requests
      /\ \A q \in Requests \ {r} : at2'[q] = at2[q] /\ told'[q] = told[q]
  BY <1>1, <1>2, EndFacts
<1>4. /\ shown' \in [Requests -> StudyRow] /\ shown'[r].outcomes = study[on[r]].outcomes
      /\ shown'[r].status = shown[r].status
      /\ \A q \in Requests \ {r} : shown'[q] = shown[q]
  <2>1. shown[r] \in StudyRow /\ study[on[r]] \in StudyRow
    BY <1>1 DEF IntelTypes
  <2>2. shown' = [shown EXCEPT ![r] = [shown[r] EXCEPT !.outcomes = study[on[r]].outcomes]]
    BY <1>2
  <2>3. PICK new : new = [shown[r] EXCEPT !.outcomes = study[on[r]].outcomes]
    OBVIOUS
  <2>4. new \in StudyRow /\ new.outcomes = study[on[r]].outcomes /\ new.status = shown[r].status
    BY <2>1, <2>3 DEF StudyRow
  <2> QED BY <1>1, <2>2, <2>3, <2>4 DEF IntelTypes
<1>5. DOMAIN plan' = Requests /\ DOMAIN cites' = Requests
  BY <1>1, <1>2 DEF IntelTypes
<1>6. ShownAt(r)'
  BY <1>1, <1>2, <1>3, <1>4 DEF ShownAt
<1> QED BY <1>2, <1>3, <1>4, <1>5, <1>6, GoOn

LEMMA LockKeeps == ASSUME IntelInv, NEW r \in Requests, Lock(r) PROVE IntelInv'
<1>1. /\ IntelTypes /\ AskerAt(r) /\ ShownAt(r) /\ on[r] \in Requests
      /\ act[r] \in {"record", "approve", "reject", "finish"}
      /\ \A q \in Requests : RowAt(q)
  BY DEF IntelInv, AskerAt, Lock
<1>2. /\ at2[r] = "lock" /\ owner[on[r]] = None
      /\ UNCHANGED <<act, on, cites, plan, shown, study, run, receipts>>
  BY DEF Lock, intelReqVars, intelRowVars
<1>3. DOMAIN plan' = Requests /\ DOMAIN cites' = Requests /\ shown' \in [Requests -> StudyRow]
  BY <1>1, <1>2 DEF IntelTypes
<1>4. ShownAt(r)'
  BY <1>1, <1>2 DEF ShownAt, None
<1>5. CASE End2(r, "refused") /\ owner' = owner
  <2>1. /\ at2' \in [Requests -> Steps2] /\ at2'[r] = "done" /\ DOMAIN told' = Requests
        /\ \A q \in Requests \ {r} : at2'[q] = at2[q] /\ told'[q] = told[q]
    BY <1>1, <1>5, EndFacts
  <2> QED BY <1>2, <1>3, <1>4, <1>5, <2>1, GoOn
<1>6. CASE Open(r) /\ Step2(r, "commit") /\ owner' = [owner EXCEPT ![on[r]] = r] /\ told' = told
  <2>1. /\ at2' \in [Requests -> Steps2] /\ at2'[r] = "commit"
        /\ \A q \in Requests \ {r} : at2'[q] = at2[q]
    BY <1>1, <1>6, StepFacts DEF Steps2
  <2>2. /\ owner' \in [Requests -> Rows] /\ owner'[on[r]] = r
        /\ \A p \in Requests \ {on[r]} : owner'[p] = owner[p]
    BY <1>1, <1>6 DEF IntelTypes, Rows
  <2>3. IntelTypes'
    BY <1>1, <1>2, <1>6, <2>1, <2>2 DEF IntelTypes
  <2>4. AskerAt(r)'
    BY <1>1, <1>2, <1>6, <2>1, <2>2 DEF AskerAt
  <2>5. StillOpen(r)'
    <3>1. /\ act[r] = "record" => study[on[r]].status = "active"
          /\ act[r] \in {"approve", "reject"} => run[on[r]].status = "awaiting_approval"
          /\ act[r] = "finish" => run[on[r]].status = "approved"
      BY <1>1, <1>6 DEF Open
    <3> QED BY <1>2, <3>1 DEF StillOpen
  <2>6. \A p \in Requests \ {on[r]} : owner[p] # r
    BY <1>1, <1>2, NoneIsNobody DEF RowAt
  <2> QED BY <1>1, <1>2, <1>4, <1>6, <2>1, <2>2, <2>3, <2>4, <2>5, <2>6, RequestStep
<1> QED BY <1>5, <1>6 DEF Lock

LEMMA RolledBackKeeps == ASSUME IntelInv, NEW r \in Requests, RolledBack(r) PROVE IntelInv'
<1>1. IntelTypes /\ AskerAt(r) /\ ShownAt(r)
  BY DEF IntelInv
<1>2. /\ at2[r] # "idle" /\ at2[r] # "done" /\ End2(r, "error")
      /\ owner' = [o \in Requests |-> IF owner[o] = r THEN None ELSE owner[o]]
      /\ UNCHANGED <<act, on, cites, plan, shown, study, run, receipts>>
  BY DEF RolledBack, Busy, intelReqVars, intelRowVars
<1>3. /\ at2' \in [Requests -> Steps2] /\ at2'[r] = "done" /\ DOMAIN told' = Requests
      /\ told'[r] = IF told[r] = None THEN "error" ELSE told[r]
      /\ \A q \in Requests \ {r} : at2'[q] = at2[q] /\ told'[q] = told[q]
  BY <1>1, <1>2, EndFacts
<1>4. /\ owner' \in [Requests -> Rows]
      /\ \A p \in Requests : owner'[p] = owner[p] \/ (owner[p] = r /\ owner'[p] = None)
      /\ \A p \in Requests : owner'[p] # r
  BY <1>1, <1>2, NoneIsNobody DEF IntelTypes, Rows
<1>5. IntelTypes'
  BY <1>1, <1>2, <1>3, <1>4 DEF IntelTypes
<1>6. AskerAt(r)' /\ StillOpen(r)'
  BY <1>1, <1>2, <1>3 DEF AskerAt, StillOpen
<1>7. told'[r] # "ok"
  BY <1>1, <1>2, <1>3 DEF AskerAt
<1>8. ShownAt(r)'
  BY <1>1, <1>2, <1>3, <1>7 DEF ShownAt
<1> QED BY <1>2, <1>3, <1>4, <1>5, <1>6, <1>8, RequestStep

LEMMA TimeUpKeeps == ASSUME IntelInv, NEW r \in Requests, TimeUp(r) PROVE IntelInv'
<1>1. IntelTypes /\ AskerAt(r) /\ ShownAt(r) /\ StillOpen(r) /\ \A q \in Requests : RowAt(q)
  BY DEF IntelInv
<1>2. /\ Say(r, "timeout") /\ told[r] = None
      /\ UNCHANGED <<act, on, cites, plan, at2, shown, study, run, receipts, owner>>
  BY DEF TimeUp, intelReqVars, intelRowVars
<1>3. /\ DOMAIN told' = Requests /\ told'[r] = "timeout"
      /\ \A q \in Requests \ {r} : told'[q] = told[q]
  BY <1>1, <1>2, SayFacts
<1>4. IntelTypes'
  BY <1>1, <1>2, <1>3 DEF IntelTypes
<1>5. AskerAt(r)' /\ StillOpen(r)' /\ ShownAt(r)'
  BY <1>1, <1>2, <1>3 DEF AskerAt, StillOpen, ShownAt
<1>6. \A p \in Requests : owner[p] = r => at2[r] = "commit" /\ on[r] = p
  BY <1>1, NoneIsNobody DEF RowAt
<1> QED BY <1>2, <1>3, <1>4, <1>5, <1>6, RequestStep

\* Nothing of the requests, the runs and the studies moves.
LEMMA IntelStutter ==
  ASSUME IntelInv,
         UNCHANGED <<act, on, cites, plan, at2, told, shown, study, run, receipts, owner>>
  PROVE  IntelInv'
<1>1. IntelTypes'
  BY DEF IntelInv, IntelTypes
<1>2. ASSUME NEW r \in Requests
      PROVE  AskerAt(r)' /\ StillOpen(r)' /\ RowAt(r)' /\ ShownAt(r)' /\ StoryAt(r)'
  <2>1. AskerAt(r) /\ StillOpen(r) /\ RowAt(r) /\ ShownAt(r) /\ StoryAt(r)
    BY DEF IntelInv
  <2>2. StoryAt(r)'
    BY <2>1, StoryStays
  <2> QED BY <2>1, <2>2 DEF AskerAt, StillOpen, RowAt, ShownAt
<1> QED BY <1>1, <1>2 DEF IntelInv

\* The transaction that commits is the only one on its row, and leaves it unlocked.
LEMMA CommitFacts ==
  ASSUME IntelInv, NEW r \in Requests, Commit(r)
  PROVE  /\ at2[r] = "commit" /\ on[r] \in Requests
         /\ UNCHANGED <<act, on, cites, plan, shown>>
         /\ owner' \in [Requests -> Rows]
         /\ \A p \in Requests : owner'[p] = owner[p] \/ (owner[p] = r /\ owner'[p] = None)
         /\ \A p \in Requests : owner'[p] # r
         /\ \A q \in Requests \ {r} : at2[q] = "commit" => on[q] # on[r]
         /\ owner'[on[r]] = None
<1>1. IntelTypes /\ \A q \in Requests : AskerAt(q) /\ RowAt(q)
  BY DEF IntelInv
<1>2. /\ at2[r] = "commit" /\ UNCHANGED <<act, on, cites, plan, shown>>
      /\ owner' = [owner EXCEPT ![on[r]] = IF @ = r THEN None ELSE @]
  BY DEF Commit, intelReqVars
<1>3. on[r] \in Requests /\ owner[on[r]] = r
  BY <1>1, <1>2 DEF AskerAt
<1>4. owner' = [owner EXCEPT ![on[r]] = None]
  BY <1>2, <1>3
<1>5. \A p \in Requests : owner[p] = r => p = on[r]
  BY <1>1, NoneIsNobody DEF RowAt
<1>6. \A q \in Requests \ {r} : at2[q] = "commit" => on[q] # on[r]
  BY <1>1, <1>3 DEF AskerAt
<1> QED BY <1>1, <1>2, <1>3, <1>4, <1>5, <1>6, NoneIsNobody DEF IntelTypes, Rows

LEMMA CommitOutcomeKeeps == ASSUME IntelInv, NEW r \in Requests, CommitOutcome(r) PROVE IntelInv'
<1>0. PICK o \in Requests : o = on[r]
  BY CommitFacts DEF CommitOutcome
<1>1. IntelTypes /\ AskerAt(r) /\ StillOpen(r) /\ ShownAt(r)
  BY DEF IntelInv
<1>2. /\ act[r] = "record" /\ Commit(r) /\ Step2(r, "view")
      /\ study' = [study EXCEPT ![o].outcomes = @ \cup {r}]
      /\ UNCHANGED <<told, run, receipts>>
  BY <1>0 DEF CommitOutcome
<1>3. /\ at2[r] = "commit" /\ o \in Requests
      /\ UNCHANGED <<act, on, cites, plan, shown>>
      /\ owner' \in [Requests -> Rows]
      /\ \A p \in Requests : owner'[p] = owner[p] \/ (owner[p] = r /\ owner'[p] = None)
      /\ \A p \in Requests : owner'[p] # r
      /\ \A q \in Requests \ {r} : at2[q] = "commit" => on[q] # o
      /\ owner'[o] = None
  BY <1>0, <1>2, CommitFacts
<1>4. /\ at2' \in [Requests -> Steps2] /\ at2'[r] = "view"
      /\ \A q \in Requests \ {r} : at2'[q] = at2[q]
  BY <1>0, <1>1, <1>2, StepFacts DEF Steps2
<1>5. study[o].status = "active"
  BY <1>0, <1>1, <1>2, <1>3 DEF StillOpen
<1>6. /\ study' \in [Requests -> StudyRow] /\ study'[o].status = "active"
      /\ \A p \in Requests \ {o} : study'[p] = study[p]
  <2>1. study[o] \in StudyRow
    BY <1>0, <1>1, <1>3 DEF IntelTypes
  <2>2. study' = [study EXCEPT ![o] = [study[o] EXCEPT !.outcomes = @ \cup {r}]]
    BY <1>0, <1>2
  <2>3. PICK new : new = [study[o] EXCEPT !.outcomes = @ \cup {r}]
    OBVIOUS
  <2>4. new \in StudyRow /\ new.status = study[o].status
    BY <1>0, <2>1, <2>3 DEF StudyRow
  <2> QED BY <1>0, <1>1, <1>3, <1>5, <2>2, <2>3, <2>4 DEF IntelTypes
<1>7. IntelTypes'
  BY <1>0, <1>1, <1>2, <1>3, <1>4, <1>6 DEF IntelTypes
<1>8. AskerAt(r)'
  BY <1>0, <1>1, <1>2, <1>3, <1>4, <1>6 DEF AskerAt, None
<1>9. StillOpen(r)' /\ ShownAt(r)'
  BY <1>0, <1>1, <1>3, <1>4 DEF StillOpen, ShownAt, None
<1>10. StoryAt(o)'
  BY <1>0, <1>2, <1>3, StoryStays DEF IntelInv
<1>11. RowAt(o)'
  <2>1. RowAt(o) /\ o # r
    BY <1>0, <1>2, <1>3, <1>5 DEF IntelInv, RowAt, None
  <2> QED BY <1>0, <1>2, <1>3, <1>4, <1>5, <2>1 DEF RowAt, None
<1> QED BY <1>0, <1>2, <1>3, <1>4, <1>5, <1>6, <1>7, <1>8, <1>9, <1>10, <1>11, StepKeeps DEF None

LEMMA CreateStudyKeeps == ASSUME IntelInv, NEW r \in Requests, CreateStudy(r) PROVE IntelInv'
<1>1. IntelTypes /\ AskerAt(r) /\ ShownAt(r) /\ RowAt(r) /\ StoryAt(r)
      /\ \A q \in Requests : AskerAt(q) /\ StillOpen(q) /\ RowAt(q)
  BY DEF IntelInv
<1>2. /\ at2[r] = "write" /\ act[r] = "create" /\ Step2(r, "view") /\ on[r] = r
      /\ study' = [study EXCEPT ![r].status = "active"]
      /\ UNCHANGED <<act, on, cites, plan, shown, told, run, receipts, owner>>
  BY <1>1 DEF CreateStudy, Write, intelReqVars, AskerAt
<1>3. /\ at2' \in [Requests -> Steps2] /\ at2'[r] = "view"
      /\ \A q \in Requests \ {r} : at2'[q] = at2[q]
  BY <1>1, <1>2, StepFacts DEF Steps2
<1>4. /\ study' \in [Requests -> StudyRow] /\ study'[r].status = "active"
      /\ \A p \in Requests \ {r} : study'[p] = study[p]
  <2>1. study[r] \in StudyRow
    BY <1>1 DEF IntelTypes
  <2>2. study' = [study EXCEPT ![r] = [study[r] EXCEPT !.status = "active"]]
    BY <1>2
  <2>3. PICK new : new = [study[r] EXCEPT !.status = "active"]
    OBVIOUS
  <2>4. new \in StudyRow /\ new.status = "active"
    BY <2>1, <2>3 DEF StudyRow
  <2> QED BY <1>1, <2>2, <2>3, <2>4 DEF IntelTypes
<1>5. study[r].status = None /\ run[r].status = None
  BY <1>1, <1>2 DEF RowAt
<1>6. IntelTypes'
  BY <1>1, <1>2, <1>3, <1>4 DEF IntelTypes
<1>7. AskerAt(r)' /\ StillOpen(r)' /\ ShownAt(r)'
  BY <1>1, <1>2, <1>3, <1>4 DEF AskerAt, StillOpen, ShownAt, None
<1>8. StoryAt(r)'
  BY <1>1, <1>2, StoryStays
<1>9. \A p \in Requests : owner[p] # r
  BY <1>1, <1>2, NoneIsNobody DEF RowAt
<1>10. RowAt(r)'
  <2>1. owner[r] # None => owner[r] \in Requests \ {r}
    BY <1>1, <1>9 DEF IntelTypes, Rows
  <2> QED BY <1>1, <1>2, <1>3, <1>5, <2>1 DEF RowAt
<1>11. \A q \in Requests \ {r} : at2[q] = "commit" => on[q] # r
  <2> SUFFICES ASSUME NEW q \in Requests \ {r}, at2[q] = "commit", on[q] = r PROVE FALSE
    OBVIOUS
  <2>1. act[q] \in {"record", "approve", "reject", "finish"}
    BY <1>1 DEF AskerAt
  <2>2. study[r].status = "active" \/ run[r].status = "awaiting_approval" \/ run[r].status = "approved"
    BY <1>1, <2>1 DEF StillOpen
  <2> QED BY <1>5, <2>2 DEF None
<1> QED BY <1>2, <1>3, <1>4, <1>5, <1>6, <1>7, <1>8, <1>9, <1>10, <1>11, StepKeeps DEF None

LEMMA CompleteStudyKeeps == ASSUME IntelInv, NEW r \in Requests, CompleteStudy(r) PROVE IntelInv'
<1>0. PICK o \in Requests : o = on[r]
  BY DEF IntelInv, AskerAt, CompleteStudy, Write
<1>1. /\ IntelTypes /\ AskerAt(r) /\ ShownAt(r)
      /\ \A q \in Requests : AskerAt(q) /\ RowAt(q)
  BY DEF IntelInv
<1>2. /\ at2[r] = "write" /\ act[r] = "complete" /\ owner[o] = None /\ Step2(r, "view")
      /\ study' = [study EXCEPT ![o].status = "completed"]
      /\ UNCHANGED <<act, on, cites, plan, shown, told, run, receipts, owner>>
  BY <1>0 DEF CompleteStudy, Write, intelReqVars
<1>3. o \in Requests /\ study[o].status # None
  BY <1>0, <1>1, <1>2 DEF AskerAt
<1>4. /\ at2' \in [Requests -> Steps2] /\ at2'[r] = "view"
      /\ \A q \in Requests \ {r} : at2'[q] = at2[q]
  BY <1>0, <1>1, <1>2, StepFacts DEF Steps2
<1>5. /\ study' \in [Requests -> StudyRow] /\ study'[o].status = "completed"
      /\ study[o].status = "completed" => study'[o] = study[o]
      /\ \A p \in Requests \ {o} : study'[p] = study[p]
  <2>1. study[o] \in StudyRow
    BY <1>0, <1>1, <1>3 DEF IntelTypes
  <2>2. study' = [study EXCEPT ![o] = [study[o] EXCEPT !.status = "completed"]]
    BY <1>0, <1>2
  <2>3. PICK new : new = [study[o] EXCEPT !.status = "completed"]
    OBVIOUS
  <2>4. new \in StudyRow /\ new.status = "completed" /\ new.outcomes = study[o].outcomes
    BY <1>0, <2>1, <2>3 DEF StudyRow
  <2>5. study[o].status = "completed" => new = study[o]
    BY <1>0, <2>1, <2>4 DEF StudyRow
  <2> QED BY <1>0, <1>1, <1>3, <2>2, <2>3, <2>4, <2>5 DEF IntelTypes
<1>6. IntelTypes'
  BY <1>0, <1>1, <1>2, <1>4, <1>5 DEF IntelTypes
<1>7. AskerAt(r)' /\ StillOpen(r)' /\ ShownAt(r)'
  BY <1>0, <1>1, <1>2, <1>4, <1>5 DEF AskerAt, StillOpen, ShownAt, None
<1>8. StoryAt(o)'
  BY <1>0, <1>2, <1>3, StoryStays DEF IntelInv
<1>9. \A p \in Requests : owner[p] # r
  BY <1>0, <1>1, <1>2, NoneIsNobody DEF RowAt
<1>10. RowAt(o)'
  <2>1. RowAt(o) /\ o # r
    BY <1>0, <1>1, <1>2, <1>3 DEF RowAt
  <2>2. run[o].status # None => act[o] = "run" /\ at2[o] = "done"
    BY <1>0, <2>1 DEF RowAt
  <2> QED BY <1>0, <1>2, <1>3, <1>4, <2>1, <2>2 DEF RowAt
<1>11. \A q \in Requests \ {r} : at2[q] = "commit" => on[q] # o
  BY <1>0, <1>1, <1>2, NoneIsNobody DEF AskerAt
<1> QED BY <1>0, <1>2, <1>3, <1>4, <1>5, <1>6, <1>7, <1>8, <1>9, <1>10, <1>11, StepKeeps DEF None

\* A receipt more.
LEMMA ReceiptFacts ==
  ASSUME IntelTypes, NEW r \in Requests, NEW o \in Requests, o = on[r],
         NEW kind \in {"read", "approve", "reject", "completion"}, NEW verified \in BOOLEAN,
         Receipt(r, kind, verified)
  PROVE  /\ receipts' \in [Requests -> Seq(ReceiptRow)]
         /\ \A p \in Requests \ {o} : receipts'[p] = receipts[p]
         /\ Len(receipts[o]) \in Nat /\ Len(receipts'[o]) = Len(receipts[o]) + 1
         /\ \A i \in 1..Len(receipts[o]) : receipts'[o][i] = receipts[o][i]
         /\ receipts'[o][Len(receipts[o]) + 1].kind = kind
         /\ receipts'[o][Len(receipts[o]) + 1].verified = verified
<1>1. PICK rs \in Seq(ReceiptRow) : rs = receipts[o]
  BY DEF IntelTypes
<1>2. PICK e \in ReceiptRow : e = [kind |-> kind, verified |-> verified, by |-> r]
  BY DEF ReceiptRow
<1>3. e.kind = kind /\ e.verified = verified
  BY <1>2
<1>4. receipts' = [receipts EXCEPT ![o] = Append(rs, e)]
  BY <1>1, <1>2 DEF Receipt
<1>5. /\ Append(rs, e) \in Seq(ReceiptRow) /\ Len(Append(rs, e)) = Len(rs) + 1 /\ Len(rs) \in Nat
      /\ \A i \in 1..Len(rs) : Append(rs, e)[i] = rs[i]
      /\ Append(rs, e)[Len(rs) + 1] = e
  BY AppendProperties, LenProperties
<1>6. /\ receipts' \in [Requests -> Seq(ReceiptRow)] /\ receipts'[o] = Append(rs, e)
      /\ \A p \in Requests \ {o} : receipts'[p] = receipts[p]
  BY <1>4, <1>5 DEF IntelTypes
<1> QED BY <1>1, <1>3, <1>5, <1>6

\* The length of a run's receipts by its status.
LEMMA StoryLength ==
  ASSUME NEW p, StoryAt(p), Len(receipts[p]) \in Nat
  PROVE  /\ run[p].status = None => Len(receipts[p]) = 0
         /\ run[p].status = "awaiting_approval" => Len(receipts[p]) = 1 /\ run[p].type # "ask_history"
         /\ run[p].status = "approved" =>
              /\ Len(receipts[p]) >= 2 /\ receipts[p][2].kind = "approve"
              /\ Len(receipts[p]) >= 3 => ~receipts[p][Len(receipts[p])].verified
              /\ run[p].type # "ask_history"
<1>0. PICK n \in Nat : n = Len(receipts[p])
  OBVIOUS
<1>1. n = 0 \/ n = 1 \/ n = 2 \/ n >= 3
  OBVIOUS
<1>2. /\ n = 0 => run[p].type = None /\ run[p].status = None
      /\ n = 1 => run[p].status \in {"completed", "awaiting_approval"}
      /\ n = 2 => run[p].status = IF receipts[p][2].kind = "approve" THEN "approved" ELSE "rejected"
      /\ n >= 3 => /\ receipts[p][2].kind = "approve"
                   /\ run[p].status = IF receipts[p][n].verified THEN "completed" ELSE "approved"
      /\ run[p].type = "ask_history" => n = 1 /\ run[p].status = "completed"
  BY <1>0 DEF StoryAt
<1>3. n = 0 => ~(n >= 3) /\ ~(n >= 2) /\ n # 1
  OBVIOUS
<1>4. n = 1 => ~(n >= 3) /\ ~(n >= 2) /\ n # 0
  OBVIOUS
<1>5. n = 2 => ~(n >= 3) /\ n >= 2 /\ n # 0 /\ n # 1
  OBVIOUS
<1>6. n >= 3 => n >= 2 /\ n # 0 /\ n # 1 /\ n # 2
  OBVIOUS
<1> QED BY <1>0, <1>1, <1>2, <1>3, <1>4, <1>5, <1>6 DEF None

LEMMA CommitDecisionKeeps == ASSUME IntelInv, NEW r \in Requests, CommitDecision(r) PROVE IntelInv'
<1>0. PICK o \in Requests : o = on[r]
  BY CommitFacts DEF CommitDecision
<1>1. IntelTypes /\ AskerAt(r) /\ StillOpen(r) /\ ShownAt(r) /\ RowAt(o) /\ StoryAt(o)
  BY DEF IntelInv
<1> DEFINE s == IF act[r] = "approve" THEN "approved" ELSE "rejected"
<1>2. /\ act[r] \in {"approve", "reject"} /\ Commit(r) /\ End2(r, "ok")
      /\ run' = [run EXCEPT ![o].status = s, ![o].closure = s]
      /\ Receipt(r, act[r], TRUE) /\ study' = study
  BY <1>0 DEF CommitDecision
<1>3. /\ at2[r] = "commit"
      /\ UNCHANGED <<act, on, cites, plan, shown>>
      /\ owner' \in [Requests -> Rows]
      /\ \A p \in Requests : owner'[p] = owner[p] \/ (owner[p] = r /\ owner'[p] = None)
      /\ \A p \in Requests : owner'[p] # r
      /\ \A q \in Requests \ {r} : at2[q] = "commit" => on[q] # o
      /\ owner'[o] = None
  BY <1>0, <1>2, CommitFacts
<1>4. /\ at2' \in [Requests -> Steps2] /\ at2'[r] = "done" /\ DOMAIN told' = Requests
      /\ \A q \in Requests \ {r} : at2'[q] = at2[q] /\ told'[q] = told[q]
  BY <1>1, <1>2, EndFacts
<1>5. run[o].status = "awaiting_approval"
  BY <1>0, <1>1, <1>2, <1>3 DEF StillOpen
<1>6. /\ DOMAIN run' = Requests /\ \A p \in Requests : DOMAIN run'[p] = {"type", "status", "closure"}
      /\ run'[o].status = s /\ run'[o].type = run[o].type
      /\ \A p \in Requests \ {o} : run'[p] = run[p]
  <2> HIDE DEF s
  <2>1. PICK new : new = [[run[o] EXCEPT !.status = s] EXCEPT !.closure = s]
    OBVIOUS
  <2>2. DOMAIN new = {"type", "status", "closure"} /\ new.status = s /\ new.type = run[o].type
    BY <1>1, <2>1 DEF IntelTypes
  <2>3. run' = [run EXCEPT ![o] = new]
    BY <1>2, <2>1
  <2> QED BY <1>1, <2>2, <2>3 DEF IntelTypes
<1>7. /\ receipts' \in [Requests -> Seq(ReceiptRow)]
      /\ \A p \in Requests \ {o} : receipts'[p] = receipts[p]
      /\ Len(receipts[o]) \in Nat /\ Len(receipts'[o]) = Len(receipts[o]) + 1
      /\ \A i \in 1..Len(receipts[o]) : receipts'[o][i] = receipts[o][i]
      /\ receipts'[o][Len(receipts[o]) + 1].kind = act[r]
      /\ receipts'[o][Len(receipts[o]) + 1].verified = TRUE
  <2>1. PICK kind \in {"read", "approve", "reject", "completion"} : kind = act[r]
    BY <1>2
  <2>2. PICK verified \in BOOLEAN : verified = TRUE
    OBVIOUS
  <2>3. IntelTypes /\ o = on[r] /\ Receipt(r, kind, verified)
    BY <1>0, <1>1, <1>2, <2>1, <2>2
  <2>4. /\ receipts' \in [Requests -> Seq(ReceiptRow)]
        /\ \A p \in Requests \ {o} : receipts'[p] = receipts[p]
        /\ Len(receipts[o]) \in Nat /\ Len(receipts'[o]) = Len(receipts[o]) + 1
        /\ \A i \in 1..Len(receipts[o]) : receipts'[o][i] = receipts[o][i]
        /\ receipts'[o][Len(receipts[o]) + 1].kind = kind
        /\ receipts'[o][Len(receipts[o]) + 1].verified = verified
    BY <1>0, <2>1, <2>2, <2>3, ReceiptFacts, ZenonT(40)
  <2> QED BY <2>1, <2>2, <2>4
<1>8. IntelTypes'
  BY <1>1, <1>2, <1>3, <1>4, <1>6, <1>7 DEF IntelTypes
<1>9. AskerAt(r)' /\ StillOpen(r)' /\ ShownAt(r)'
  <2>1. on[r] \in Requests /\ shown[r].status = None
    BY <1>0, <1>1, <1>3 DEF ShownAt
  <2> QED BY <1>1, <1>2, <1>3, <1>4, <2>1 DEF AskerAt, StillOpen, ShownAt, None
<1>10. StoryAt(o)'
  <2>1. Len(receipts[o]) = 1 /\ run[o].type # "ask_history"
    BY <1>1, <1>5, <1>7, StoryLength
  <2>2. receipts[o][1].kind = "read"
    BY <1>1, <2>1 DEF StoryAt
  <2>3. /\ Len(receipts'[o]) = 2 /\ receipts'[o][1].kind = "read"
        /\ receipts'[o][2].kind = act[r] /\ receipts'[o][2].verified
    BY <1>7, <2>1, <2>2
  <2>4. run'[o].status = IF receipts'[o][2].kind = "approve" THEN "approved" ELSE "rejected"
    BY <1>6, <2>3
  <2> QED BY <1>2, <1>6, <2>1, <2>3, <2>4 DEF StoryAt
<1>11. RowAt(o)'
  <2>1. act[o] = "run" /\ at2[o] = "done" /\ o # r
    BY <1>1, <1>2, <1>5 DEF RowAt, None
  <2> QED BY <1>1, <1>2, <1>3, <1>4, <2>1 DEF RowAt
<1> HIDE DEF s
<1>12. /\ \A q \in Requests \ {r} :
            /\ act'[q] = act[q] /\ on'[q] = on[q] /\ at2'[q] = at2[q]
            /\ told'[q] = told[q] /\ shown'[q] = shown[q]
       /\ \A p \in Requests \ {o} :
            study'[p] = study[p] /\ run'[p] = run[p] /\ receipts'[p] = receipts[p]
       /\ study'[o] = study[o]
  BY <1>2, <1>3, <1>4, <1>6, <1>7
<1>13. /\ \A p \in Requests :
            \/ owner'[p] = owner[p]
            \/ owner[p] = None /\ owner'[p] = r
            \/ owner[p] = r /\ owner'[p] = None
       /\ \A p \in Requests : owner'[p] = r => at2'[r] = "commit" /\ on'[r] = p
       /\ act'[r] = act[r] /\ at2'[r] = "done"
  BY <1>3, <1>4
<1> QED BY <1>3, <1>8, <1>9, <1>10, <1>11, <1>12, <1>13, StepKeeps

LEMMA CommitCompletionKeeps == ASSUME IntelInv, NEW r \in Requests, CommitCompletion(r) PROVE IntelInv'
<1>0. PICK o \in Requests : o = on[r]
  BY CommitFacts DEF CommitCompletion
<1>1. IntelTypes /\ AskerAt(r) /\ StillOpen(r) /\ ShownAt(r) /\ RowAt(o) /\ StoryAt(o)
  BY DEF IntelInv
<1>2. PICK v \in BOOLEAN :
        /\ act[r] = "finish" /\ Commit(r) /\ (End2(r, "ok") \/ End2(r, "refused"))
        /\ run' = IF v THEN [run EXCEPT ![o].status = "completed", ![o].closure = "completed"] ELSE run
        /\ Receipt(r, "completion", v) /\ study' = study
  <2>1. CASE Verified(r)
    <3>1. Verified(r) = TRUE
      BY <2>1 DEF Verified
    <3>2. Receipt(r, "completion", TRUE)
      BY <3>1 DEF CommitCompletion
    <3>3. /\ act[r] = "finish" /\ Commit(r) /\ End2(r, "ok") /\ study' = study
          /\ run' = [run EXCEPT ![o].status = "completed", ![o].closure = "completed"]
      BY <1>0, <2>1 DEF CommitCompletion
    <3> QED BY <3>2, <3>3
  <2>2. CASE ~Verified(r)
    <3>1. Verified(r) = FALSE
      BY <2>2 DEF Verified
    <3>2. Receipt(r, "completion", FALSE)
      BY <3>1 DEF CommitCompletion
    <3>3. act[r] = "finish" /\ Commit(r) /\ End2(r, "refused") /\ study' = study /\ run' = run
      BY <2>2 DEF CommitCompletion
    <3> QED BY <3>2, <3>3
  <2> QED BY <2>1, <2>2
<1>3. /\ at2[r] = "commit"
      /\ UNCHANGED <<act, on, cites, plan, shown>>
      /\ owner' \in [Requests -> Rows]
      /\ \A p \in Requests : owner'[p] = owner[p] \/ (owner[p] = r /\ owner'[p] = None)
      /\ \A p \in Requests : owner'[p] # r
      /\ \A q \in Requests \ {r} : at2[q] = "commit" => on[q] # o
      /\ owner'[o] = None
  BY <1>0, <1>2, CommitFacts
<1>4. /\ at2' \in [Requests -> Steps2] /\ at2'[r] = "done" /\ DOMAIN told' = Requests
      /\ \A q \in Requests \ {r} : at2'[q] = at2[q] /\ told'[q] = told[q]
  BY <1>1, <1>2, EndFacts
<1>5. run[o].status = "approved"
  BY <1>0, <1>1, <1>2, <1>3 DEF StillOpen
<1>6. /\ DOMAIN run' = Requests /\ \A p \in Requests : DOMAIN run'[p] = {"type", "status", "closure"}
      /\ run'[o].status = (IF v THEN "completed" ELSE "approved") /\ run'[o].type = run[o].type
      /\ \A p \in Requests \ {o} : run'[p] = run[p]
  <2>1. CASE v
    <3>1. PICK new : new = [[run[o] EXCEPT !.status = "completed"] EXCEPT !.closure = "completed"]
      OBVIOUS
    <3>2. DOMAIN new = {"type", "status", "closure"} /\ new.status = "completed" /\ new.type = run[o].type
      BY <1>1, <3>1 DEF IntelTypes
    <3>3. run' = [run EXCEPT ![o] = new]
      BY <1>2, <2>1, <3>1
    <3> QED BY <1>1, <2>1, <3>2, <3>3 DEF IntelTypes
  <2>2. CASE ~v
    BY <1>1, <1>2, <1>5, <2>2 DEF IntelTypes
  <2> QED BY <2>1, <2>2
<1>7. /\ receipts' \in [Requests -> Seq(ReceiptRow)]
      /\ \A p \in Requests \ {o} : receipts'[p] = receipts[p]
      /\ Len(receipts[o]) \in Nat /\ Len(receipts'[o]) = Len(receipts[o]) + 1
      /\ \A i \in 1..Len(receipts[o]) : receipts'[o][i] = receipts[o][i]
      /\ receipts'[o][Len(receipts[o]) + 1].kind = "completion"
      /\ receipts'[o][Len(receipts[o]) + 1].verified = v
  BY <1>0, <1>1, <1>2, ReceiptFacts
<1>8. IntelTypes'
  BY <1>1, <1>2, <1>3, <1>4, <1>6, <1>7 DEF IntelTypes
<1>9. AskerAt(r)' /\ StillOpen(r)' /\ ShownAt(r)'
  <2>1. on[r] \in Requests /\ shown[r].status = None
    BY <1>0, <1>1, <1>3 DEF ShownAt
  <2> QED BY <1>1, <1>2, <1>3, <1>4, <2>1 DEF AskerAt, StillOpen, ShownAt, None
<1>10. StoryAt(o)'
  <2>1. PICK n \in Nat : n = Len(receipts[o])
    BY <1>7
  <2>2. /\ n >= 2 /\ receipts[o][2].kind = "approve" /\ run[o].type # "ask_history"
        /\ n >= 3 => ~receipts[o][n].verified
    BY <1>1, <1>5, <1>7, <2>1, StoryLength
  <2>3. /\ receipts[o][1].kind = "read" /\ receipts[o][2].verified
        /\ \A i \in 3..n : receipts[o][i].kind = "completion" /\ (i < n => ~receipts[o][i].verified)
    <3>1. n >= 1
      BY <2>2
    <3> QED BY <1>1, <2>1, <2>2, <3>1 DEF StoryAt
  <2>4. Len(receipts'[o]) = n + 1 /\ n + 1 >= 3 /\ n + 1 # 0 /\ n + 1 # 1 /\ n + 1 # 2
    BY <1>7, <2>1, <2>2
  <2>5. /\ receipts'[o][1] = receipts[o][1] /\ receipts'[o][2] = receipts[o][2]
        /\ \A i \in 3..n : receipts'[o][i] = receipts[o][i]
        /\ receipts'[o][n + 1].kind = "completion" /\ receipts'[o][n + 1].verified = v
    <3>1. 1 \in 1..n /\ 2 \in 1..n /\ 3..n \subseteq 1..n
      BY <2>2
    <3> QED BY <1>7, <2>1, <3>1
  <2>6. ASSUME NEW i \in 3..(n + 1)
        PROVE  receipts'[o][i].kind = "completion" /\ (i < n + 1 => ~receipts'[o][i].verified)
    <3>1. CASE i = n + 1
      BY <2>5, <3>1
    <3>2. CASE i < n
      <4>1. i \in 3..n
        BY <3>2
      <4> QED BY <2>3, <2>5, <3>2, <4>1
    <3>3. CASE i = n
      <4>1. i \in 3..n /\ n >= 3
        BY <3>3
      <4> QED BY <2>2, <2>3, <2>5, <3>3, <4>1
    <3> QED BY <3>1, <3>2, <3>3
  <2>7. run'[o].status = IF receipts'[o][n + 1].verified THEN "completed" ELSE "approved"
    BY <1>6, <2>5
  <2>8. run'[o].type # "ask_history"
    BY <1>6, <2>2
  <2> QED BY <2>2, <2>3, <2>4, <2>5, <2>6, <2>7, <2>8 DEF StoryAt
<1>11. RowAt(o)'
  <2>1. act[o] = "run" /\ at2[o] = "done" /\ o # r
    BY <1>1, <1>2, <1>5 DEF RowAt, None
  <2> QED BY <1>1, <1>2, <1>3, <1>4, <2>1 DEF RowAt
<1> QED BY <1>2, <1>3, <1>4, <1>6, <1>7, <1>8, <1>9, <1>10, <1>11, StepKeeps

LEMMA ProposeKeeps == ASSUME IntelInv, NEW r \in Requests, Propose(r) PROVE IntelInv'
<1>1. /\ IntelTypes /\ AskerAt(r) /\ ShownAt(r) /\ StoryAt(r)
      /\ \A q \in Requests : AskerAt(q) /\ StillOpen(q) /\ RowAt(q)
  BY DEF IntelInv
<1> DEFINE found == plan[r] = "ask_history"
           new == [type |-> plan[r],
                   status |-> IF found THEN "completed" ELSE "awaiting_approval",
                   closure |-> IF found THEN "evidence_found" ELSE "insufficient"]
<1>2. /\ at2[r] = "write" /\ act[r] = "run" /\ End2(r, "ok") /\ on[r] = r
      /\ Receipt(r, "read", TRUE)
      /\ run' = [run EXCEPT ![r] = new]
      /\ UNCHANGED <<act, on, cites, plan, shown, study, owner>>
  BY <1>1 DEF Propose, Write, intelReqVars, AskerAt
<1>3. /\ at2' \in [Requests -> Steps2] /\ at2'[r] = "done" /\ DOMAIN told' = Requests
      /\ \A q \in Requests \ {r} : at2'[q] = at2[q] /\ told'[q] = told[q]
  BY <1>1, <1>2, EndFacts
<1>4. study[r].status = None /\ run[r].status = None
  BY <1>1, <1>2 DEF RowAt
<1>5. /\ DOMAIN run' = Requests /\ \A p \in Requests : DOMAIN run'[p] = {"type", "status", "closure"}
      /\ run'[r] = new /\ \A p \in Requests \ {r} : run'[p] = run[p]
  <2>1. DOMAIN new = {"type", "status", "closure"}
    OBVIOUS
  <2> HIDE DEF new
  <2> QED BY <1>1, <1>2, <2>1 DEF IntelTypes
<1>6. /\ receipts' \in [Requests -> Seq(ReceiptRow)]
      /\ \A p \in Requests \ {r} : receipts'[p] = receipts[p]
      /\ Len(receipts[r]) \in Nat /\ Len(receipts'[r]) = Len(receipts[r]) + 1
      /\ receipts'[r][Len(receipts[r]) + 1].kind = "read"
  BY <1>1, <1>2, ReceiptFacts
<1>7. IntelTypes'
  BY <1>1, <1>2, <1>3, <1>5, <1>6 DEF IntelTypes
<1>8. AskerAt(r)' /\ StillOpen(r)' /\ ShownAt(r)'
  BY <1>1, <1>2, <1>3 DEF AskerAt, StillOpen, ShownAt, None
<1>9. StoryAt(r)'
  <2>1. Len(receipts[r]) = 0
    BY <1>1, <1>4, <1>6, StoryLength
  <2>2. Len(receipts'[r]) = 1 /\ receipts'[r][1].kind = "read"
    BY <1>6, <2>1
  <2>3. /\ run'[r].type = "ask_history" => run'[r].status = "completed"
        /\ run'[r].type # "ask_history" => run'[r].status = "awaiting_approval"
    BY <1>5
  <2> QED BY <2>2, <2>3 DEF StoryAt
<1>10. \A p \in Requests : owner[p] # r
  BY <1>1, <1>2, NoneIsNobody DEF RowAt
<1>11. RowAt(r)'
  <2>1. owner[r] # None => owner[r] \in Requests \ {r}
    BY <1>1, <1>10 DEF IntelTypes, Rows
  <2> QED BY <1>1, <1>2, <1>3, <1>4, <2>1 DEF RowAt
<1>12. \A q \in Requests \ {r} : at2[q] = "commit" => on[q] # r
  <2> SUFFICES ASSUME NEW q \in Requests \ {r}, at2[q] = "commit", on[q] = r PROVE FALSE
    OBVIOUS
  <2>1. act[q] \in {"record", "approve", "reject", "finish"}
    BY <1>1 DEF AskerAt
  <2>2. study[r].status = "active" \/ run[r].status = "awaiting_approval" \/ run[r].status = "approved"
    BY <1>1, <2>1 DEF StillOpen
  <2> QED BY <1>4, <2>2 DEF None
<1> HIDE DEF new
<1> QED BY <1>2, <1>3, <1>5, <1>6, <1>7, <1>8, <1>9, <1>10, <1>11, <1>12, StepKeeps

LEMMA IntelStep == IntelInv /\ [IntelNext]_<<intelVars, clientVars>> => IntelInv'
<1> SUFFICES ASSUME IntelInv, [IntelNext]_<<intelVars, clientVars>> PROVE IntelInv'
  OBVIOUS
<1>1. CASE UNCHANGED <<intelVars, clientVars>>
  BY <1>1, IntelStutter DEF intelVars, intelReqVars, intelRowVars
<1>2. CASE Outside
  BY <1>2, IntelStutter DEF Outside, intelReqVars
<1>3. ASSUME NEW r \in Requests, NEW row \in Requests, AskView(r, row) PROVE IntelInv'
  BY <1>3, AskingKeeps
<1>4. ASSUME NEW r \in Requests, NEW row \in Requests, NEW a, AskStudy(r, a, row) PROVE IntelInv'
  BY <1>4, AskingKeeps
<1>5. ASSUME NEW r \in Requests, NEW row \in Requests, NEW a, NEW evidence, AskAgent(r, a, row, evidence)
      PROVE  IntelInv'
  BY <1>5, AskingKeeps
<1>6. ASSUME NEW r \in Requests, NEW goal,
             \/ AskProduct(r) \/ AskSocial(r, "connection") \/ AskSocial(r, "write") \/ AskRun(r, goal)
      PROVE  IntelInv'
  BY <1>6, AskingKeeps
<1>7. ASSUME NEW r \in Requests,
             \/ AskHistory(r) \/ Lock(r) \/ CommitOutcome(r) \/ CommitDecision(r)
             \/ CommitCompletion(r) \/ CreateStudy(r) \/ CompleteStudy(r) \/ WriteProduct(r)
             \/ ReadConnection(r) \/ WriteSocial(r) \/ Propose(r) \/ ViewRow(r) \/ ViewOutcomes(r)
             \/ RolledBack(r) \/ TimeUp(r)
      PROVE  IntelInv'
  BY <1>7, AskHistoryKeeps, LockKeeps, CommitOutcomeKeeps, CommitDecisionKeeps,
     CommitCompletionKeeps, CreateStudyKeeps, CompleteStudyKeeps, WriteFactKeeps,
     ReadConnectionKeeps, ProposeKeeps, ViewRowKeeps, ViewOutcomesKeeps, RolledBackKeeps, TimeUpKeeps
<1> QED BY <1>1, <1>2, <1>3, <1>4, <1>5, <1>6, <1>7 DEF IntelNext

\* The inductive invariant of the studies and agent runs.
THEOREM IntelInvariance == IntelSpec => []IntelInv
<1> QED BY IntelInitial, IntelStep, PTL DEF IntelSpec

\* The receipts of one run, taken together, tell its status, and hold one decision and
\* at most one completion that counts.
LEMMA StoryIsReplayed ==
  ASSUME NEW p, StoryAt(p), receipts[p] \in Seq(ReceiptRow)
  PROVE  LET rs == receipts[p]
             only(kinds) == Cardinality({i \in DOMAIN rs : rs[i].kind \in kinds /\ rs[i].verified}) <= 1
         IN /\ run[p].type # "ask_history" => run[p].status = Replay(p)
            /\ run[p].type = "ask_history" => run[p].status = "completed" /\ Len(rs) = 1
            /\ only({"approve", "reject"}) /\ only({"completion"})
            /\ \A i \in DOMAIN rs : rs[i].kind = "completion" =>
                 \E j \in 1..i : rs[j].kind = "approve"
<1>1. PICK rs \in Seq(ReceiptRow) : rs = receipts[p]
  OBVIOUS
<1>2. PICK n \in Nat : n = Len(rs)
  BY LenProperties
<1>3. DOMAIN rs = 1..n
  BY <1>2, LenProperties
<1>4. /\ n >= 1 => rs[1].kind = "read"
      /\ n >= 2 => rs[2].kind \in {"approve", "reject"} /\ rs[2].verified
      /\ n >= 3 => rs[2].kind = "approve"
      /\ \A i \in 3..n : rs[i].kind = "completion" /\ (i < n => ~rs[i].verified)
  BY <1>1, <1>2 DEF StoryAt
<1>5. \A i \in DOMAIN rs : i = 1 \/ i = 2 \/ i \in 3..n
  BY <1>3
<1>6. \A i \in DOMAIN rs : rs[i].kind \in {"approve", "reject"} => i = 2
  BY <1>3, <1>4, <1>5
<1>7. \A i \in DOMAIN rs : rs[i].kind = "completion" => i \in 3..n
  <2>1. ASSUME NEW i \in DOMAIN rs, rs[i].kind = "completion" PROVE i \in 3..n
    <3>1. n >= 1 /\ (i = 2 => n >= 2)
      BY <1>2, <1>3
    <3> QED BY <1>4, <1>5, <2>1, <3>1
  <2> QED BY <2>1
<1>8. \A i \in DOMAIN rs : rs[i].kind = "completion" /\ rs[i].verified => i = n
  <2>1. \A i \in 3..n : i < n \/ i = n
    BY <1>2
  <2> QED BY <1>4, <1>7, <2>1
<1>9. ASSUME NEW T, T \subseteq {2} \/ T \subseteq {n} PROVE Cardinality(T) <= 1
  <2>1. ASSUME NEW x, T \subseteq {x} PROVE Cardinality(T) <= 1
    <3>1. IsFiniteSet({x}) /\ Cardinality({x}) = 1
      BY FS_Singleton
    <3> QED BY <2>1, <3>1, FS_Subset
  <2> QED BY <1>9, <2>1
<1>10. Cardinality({i \in DOMAIN rs : rs[i].kind \in {"approve", "reject"} /\ rs[i].verified}) <= 1
  <2>1. {i \in DOMAIN rs : rs[i].kind \in {"approve", "reject"} /\ rs[i].verified} \subseteq {2}
    BY <1>6
  <2> QED BY <1>9, <2>1
<1>11. Cardinality({i \in DOMAIN rs : rs[i].kind \in {"completion"} /\ rs[i].verified}) <= 1
  <2>1. {i \in DOMAIN rs : rs[i].kind \in {"completion"} /\ rs[i].verified} \subseteq {n}
    BY <1>8
  <2> QED BY <1>9, <2>1
<1>12. \A i \in DOMAIN rs : rs[i].kind = "completion" => \E j \in 1..i : rs[j].kind = "approve"
  <2> SUFFICES ASSUME NEW i \in DOMAIN rs, rs[i].kind = "completion"
               PROVE  \E j \in 1..i : rs[j].kind = "approve"
    OBVIOUS
  <2>1. i \in 3..n
    BY <1>7
  <2>2. n >= 3 /\ 2 \in 1..i
    BY <2>1
  <2> QED BY <1>4, <2>2
<1>13. /\ run[p].type = "ask_history" => run[p].status = "completed" /\ n = 1
       /\ n = 0 => run[p].status = None
       /\ n = 1 /\ run[p].type # "ask_history" => run[p].status = "awaiting_approval"
       /\ n = 2 => run[p].status = IF rs[2].kind = "approve" THEN "approved" ELSE "rejected"
       /\ n >= 3 => run[p].status = IF rs[n].verified THEN "completed" ELSE "approved"
  BY <1>1, <1>2 DEF StoryAt
<1>14. ASSUME run[p].type # "ask_history" PROVE run[p].status = Replay(p)
  <2> DEFINE decided == {i \in DOMAIN rs : rs[i].kind \in {"approve", "reject"}}
             closed == {i \in DOMAIN rs : rs[i].kind = "completion" /\ rs[i].verified}
  <2>0. Replay(p) =
          CASE rs = <<>> -> None
            [] closed # {} -> "completed"
            [] \E i \in decided : rs[i].kind = "reject" -> "rejected"
            [] closed = {} /\ decided # {} /\ \A i \in decided : rs[i].kind = "approve" -> "approved"
            [] OTHER -> "awaiting_approval"
    BY <1>1 DEF Replay
  <2>1. CASE n = 0
    <3>1. rs = <<>>
      BY <1>2, <2>1, EmptySeq
    <3>2. closed = {} /\ decided = {}
      BY <1>3, <2>1
    <3> QED BY <1>13, <2>0, <2>1, <3>1, <3>2
  <2>2. CASE n = 1
    <3>1. rs # <<>>
      <4>1. 1 \in DOMAIN rs
        BY <1>3, <2>2
      <4>2. 1 \notin DOMAIN <<>>
        OBVIOUS
      <4> QED BY <4>1, <4>2
    <3>2. closed = {} /\ decided = {}
      <4>1. \A i \in DOMAIN rs : rs[i].kind = "read"
        BY <1>3, <1>4, <2>2
      <4> QED BY <4>1
    <3> QED BY <1>13, <1>14, <2>0, <2>2, <3>1, <3>2
  <2>3. CASE n = 2
    <3>1. rs # <<>> /\ 2 \in DOMAIN rs
      <4>1. 2 \in DOMAIN rs
        BY <1>3, <2>3
      <4>2. 2 \notin DOMAIN <<>>
        OBVIOUS
      <4> QED BY <4>1, <4>2
    <3>2. closed = {}
      <4>1. \A i \in DOMAIN rs : i \notin 3..n
        BY <1>3, <2>3
      <4> QED BY <1>7, <4>1
    <3>3. decided = {2}
      BY <1>4, <1>6, <2>3, <3>1
    <3> QED BY <1>4, <1>13, <2>0, <2>3, <3>1, <3>2, <3>3
  <2>4. CASE n >= 3
    <3>1. rs # <<>> /\ 2 \in DOMAIN rs /\ n \in DOMAIN rs /\ n \in 3..n
      BY <1>2, <1>3, <2>4
    <3>2. rs[2].kind = "approve"
      BY <1>4, <2>4
    <3>3. decided = {2}
      BY <1>6, <3>1, <3>2
    <3>4. CASE rs[n].verified
      <4>1. closed # {}
        BY <1>4, <3>1, <3>4
      <4>2. ~ \E i \in decided : rs[i].kind = "reject"
        BY <3>2, <3>3
      <4>3. run[p].status = "completed"
        BY <1>13, <2>4, <3>4
      <4> HIDE DEF closed, decided
      <4> QED BY <2>0, <3>1, <4>1, <4>2, <4>3
    <3>5. CASE ~rs[n].verified
      <4>1. closed = {}
        BY <1>8, <3>5
      <4>2. run[p].status = "approved"
        BY <1>13, <2>4, <3>5
      <4> QED BY <2>0, <3>1, <3>2, <3>3, <4>1, <4>2
    <3> QED BY <3>4, <3>5
  <2> QED BY <1>2, <2>1, <2>2, <2>3, <2>4
<1> QED BY <1>1, <1>2, <1>10, <1>11, <1>12, <1>13, <1>14

\* What a completed study or a decided action was reported to be it stays, and the
\* receipts alone tell a run's state: the row locks and the order of the statements in
\* lib/personalExperiments.ts and lib/personalIntelligence.ts, with timeouts under them.
THEOREM RecordsFinal == IntelSpec => []RecordsAreFinal
<1>1. IntelInv => RecordsAreFinal
  <2> SUFFICES ASSUME IntelInv PROVE RecordsAreFinal
    OBVIOUS
  <2>1. CompletedStudiesAreFinal
    BY DEF IntelInv, ShownAt, CompletedStudiesAreFinal
  <2>2. ReceiptsTellTheStory
    <3>1. \A p \in Requests : StoryAt(p) /\ receipts[p] \in Seq(ReceiptRow)
      BY DEF IntelInv, IntelTypes
    <3> QED BY <3>1, StoryIsReplayed DEF ReceiptsTellTheStory
  <2> QED BY <2>1, <2>2 DEF RecordsAreFinal
<1> QED BY <1>1, IntelInvariance, PTL

-----------------------------------------------------------------------------
(* The verdicts over personal evidence. *)

EvidenceTypes == sample \in [Keys -> Seq(Int)] /\ trend \in Seq(Int)

Nearest(x, n, r) ==
  /\ 2 * (n * r) <= 200 * x + n
  /\ 200 * x <= 2 * (n * r) + n
  /\ 200 * x = 2 * (n * r) + n => 2 * r + 1 \in Falls

\* A rounded average is within half a hundredth of the true one, and goes down from the
\* half itself only where the doubles fall.
LEMMA RoundedFacts ==
  ASSUME NEW x \in Int, NEW n \in Nat, n > 0
  PROVE  Rounded(x, n) \in Int /\ Nearest(x, n, Rounded(x, n))
<1>1. PICK y \in Int : y = 200 * x + n
  OBVIOUS
<1>2. PICK d \in Nat : d = 2 * n
  OBVIOUS
<1>3. PICK q : q = y \div d
  OBVIOUS
<1>4. q \in Int /\ d * q <= y /\ y < d * q + d
  <2>1. d > 0
    BY <1>2
  <2> QED BY <1>3, <2>1
<1>5. PICK c \in Int : c = n * q
  BY <1>4
<1>6. 2 * c <= 200 * x + n /\ 200 * x < 2 * c + n
  BY <1>1, <1>2, <1>4, <1>5
<1>7. Rounded(x, n) = IF 200 * x = n * (2 * q - 1) /\ 2 * q - 1 \in Falls THEN q - 1 ELSE q
  BY <1>1, <1>2, <1>3 DEF Rounded
<1>8. CASE Rounded(x, n) = q
  <2>1. Nearest(x, n, q)
    BY <1>4, <1>5, <1>6 DEF Nearest
  <2> QED BY <1>4, <1>8, <2>1
<1>9. CASE Rounded(x, n) = q - 1 /\ 200 * x = n * (2 * q - 1) /\ 2 * q - 1 \in Falls
  <2>1. n * (2 * q - 1) = 2 * c - n /\ n * (q - 1) = c - n
    BY <1>4, <1>5
  <2>2. 2 * (q - 1) + 1 = 2 * q - 1
    BY <1>4
  <2>3. PICK r \in Int : r = q - 1
    BY <1>4
  <2>4. Nearest(x, n, r)
    BY <1>4, <1>5, <1>9, <2>1, <2>2, <2>3 DEF Nearest
  <2> QED BY <1>9, <2>3, <2>4
<1> QED BY <1>7, <1>8, <1>9

\* No eighth falls, and of a tie and its opposite one at most.
LEMMA TiesThatFall ==
  ASSUME NEW k \in Falls
  PROVE  k \in Int /\ k % 25 # 0 /\ -k \notin Falls
<1>1. Falls \subseteq Int /\ \A j \in Falls : j % 25 # 0 /\ -j \notin Falls
  BY EvidenceAssumption
<1>2. k \in Int
  BY <1>1
<1> QED BY <1>1, <1>2

\* What divides a product by five divides one of its factors.
LEMMA Fives ==
  ASSUME NEW n \in Nat, NEW k \in Int, NEW c \in Int, n * k = 5 * c, k % 5 # 0
  PROVE  \E e \in Int : n = 5 * e
<1>1. PICK a \in Int, r \in 1..4 : k = 5 * a + r
  <2>1. PICK a, r : a = k \div 5 /\ r = k % 5
    OBVIOUS
  <2>2. a \in Int /\ r \in 0..4 /\ k = 5 * a + r
    BY <2>1
  <2>3. r # 0
    BY <2>1
  <2> QED BY <2>2, <2>3
<1>2. PICK b \in Int : b = n * a
  OBVIOUS
<1>3. 5 * b + n * r = 5 * c
  <2>1. n * (5 * a + r) = 5 * (n * a) + n * r
    OBVIOUS
  <2> QED BY <1>1, <1>2, <2>1
<1>4. PICK d \in Int : d = c - b
  OBVIOUS
<1>5. r = 1 \/ r = 2 \/ r = 3 \/ r = 4
  OBVIOUS
<1>6. CASE r = 1
  <2>1. n = 5 * d
    BY <1>3, <1>4, <1>6
  <2> QED BY <2>1
<1>7. CASE r = 2
  <2>1. n = 5 * (3 * d - n)
    BY <1>3, <1>4, <1>7
  <2>2. 3 * d - n \in Int
    OBVIOUS
  <2> QED BY <2>1, <2>2
<1>8. CASE r = 3
  <2>1. n = 5 * (2 * d - n)
    BY <1>3, <1>4, <1>8
  <2>2. 2 * d - n \in Int
    OBVIOUS
  <2> QED BY <2>1, <2>2
<1>9. CASE r = 4
  <2>1. n = 5 * (n - d)
    BY <1>3, <1>4, <1>9
  <2>2. n - d \in Int
    OBVIOUS
  <2> QED BY <2>1, <2>2
<1> QED BY <1>5, <1>6, <1>7, <1>8, <1>9

\* An average that ends on half a hundredth, but on no eighth, is one of a multiple of
\* forty values.
LEMMA TiesTakeForty ==
  ASSUME NEW n \in Nat, NEW x \in Int, NEW j \in Int, NEW k \in Int,
         k = 2 * j + 1, 200 * x = n * k, k % 25 # 0
  PROVE  n % 40 = 0
<1>1. 200 * x = n * (2 * j + 1)
  OBVIOUS
<1>2. PICK m \in Nat : n = 8 * m /\ m * k = 25 * x
  <2>1. PICK b \in Int : b = n * j /\ 200 * x = 2 * b + n
    BY <1>1
  <2>2. PICK m1 \in Int : n = 2 * m1
    <3>1. n = 2 * (100 * x - b) /\ 100 * x - b \in Int
      BY <2>1
    <3> QED BY <3>1
  <2>3. PICK b1 \in Int : b1 = m1 * j
    OBVIOUS
  <2>4. 2 * b1 + m1 = 100 * x
    <3>1. n * j = 2 * (m1 * j)
      BY <2>2
    <3> QED BY <2>1, <2>2, <2>3, <3>1
  <2>5. PICK m2 \in Int : m1 = 2 * m2
    <3>1. m1 = 2 * (50 * x - b1) /\ 50 * x - b1 \in Int
      BY <2>4
    <3> QED BY <3>1
  <2>6. PICK b2 \in Int : b2 = m2 * j
    OBVIOUS
  <2>7. 2 * b2 + m2 = 50 * x
    <3>1. m1 * j = 2 * (m2 * j)
      BY <2>5
    <3> QED BY <2>3, <2>4, <2>5, <2>6, <3>1
  <2>8. PICK m3 \in Int : m2 = 2 * m3
    <3>1. m2 = 2 * (25 * x - b2) /\ 25 * x - b2 \in Int
      BY <2>7
    <3> QED BY <3>1
  <2>9. PICK b3 \in Int : b3 = m3 * j
    OBVIOUS
  <2>10. 2 * b3 + m3 = 25 * x
    <3>1. m2 * j = 2 * (m3 * j)
      BY <2>8
    <3> QED BY <2>6, <2>7, <2>8, <2>9, <3>1
  <2>11. m3 * k = 2 * b3 + m3
    BY <2>9
  <2>12. m3 \in Nat /\ n = 8 * m3
    BY <2>2, <2>5, <2>8
  <2> QED BY <2>10, <2>11, <2>12
<1>3. \E e \in Int : m = 5 * e
  <2>1. CASE k % 5 # 0
    <3>1. PICK c \in Int : c = 5 * x
      OBVIOUS
    <3>2. m * k = 5 * c
      BY <1>2, <3>1
    <3> QED BY <2>1, <3>2, Fives
  <2>2. CASE k % 5 = 0
    <3>1. PICK a \in Int : k = 5 * a
      <4>1. k = 5 * (k \div 5) /\ k \div 5 \in Int
        BY <2>2
      <4> QED BY <4>1
    <3>2. a % 5 # 0
      <4>1. ASSUME a % 5 = 0 PROVE FALSE
        <5>1. a = 5 * (a \div 5) /\ a \div 5 \in Int
          BY <4>1
        <5>2. PICK c \in Int : a = 5 * c
          BY <5>1
        <5>3. k = 25 * c
          BY <3>1, <5>2
        <5> QED BY <1>1, <5>3
      <4> QED BY <4>1
    <3>3. m * a = 5 * x
      <4>1. m * (5 * a) = 5 * (m * a)
        OBVIOUS
      <4>2. m * a \in Int
        OBVIOUS
      <4> QED BY <1>2, <3>1, <4>1, <4>2
    <3> QED BY <3>2, <3>3, Fives
  <2> QED BY <2>1, <2>2
<1>4. PICK e \in Int : n = 40 * e
  BY <1>2, <1>3
<1> QED BY <1>4

\* The scores of a list add up to an integer.
LEMMA ListFacts ==
  ASSUME NEW s \in Seq(Int)
  PROVE  Sum(s) \in Int /\ Len(s) \in Nat
<1>1. Len(s) \in Nat /\ s \in [1..Len(s) -> Int]
  OBVIOUS
<1>2. IsFiniteSet(1..Len(s))
  BY <1>1, FS_Interval
<1> QED BY <1>1, <1>2, SumIsInt

\* A positive factor on both sides may go.
LEMMA SameFactor ==
  ASSUME NEW n \in Nat, n > 0, NEW c \in Int, NEW d \in Int, n * c = n * d
  PROVE  c = d
<1>1. PICK z \in Int : z = c - d
  OBVIOUS
<1>2. n * (c - d) = n * c - n * d
  OBVIOUS
<1>3. n * z = 0
  <2>1. n * c \in Int
    OBVIOUS
  <2> QED BY <1>1, <1>2, <2>1
<1>4. z = 0
  BY <1>3
<1> QED BY <1>1, <1>4

\* The difference of two rounded averages is at most a hundredth off the true one, here
\* multiplied by the two lengths; and a whole hundredth too large only if one is rounded
\* up from the half, and one down.
GapAround(s, t, g, k, l) ==
  /\ Average(s) \in Int /\ Average(t) \in Int /\ g = Average(s) - Average(t)
  /\ Lead(s, t) = l /\ Lead(t, s) = -l /\ Pairs(s, t) = k /\ Pairs(t, s) = k
  /\ k > 0 /\ k * g <= 100 * l + k /\ 100 * l <= k * g + k
  /\ g = 26 /\ k * g = 100 * l + k => Forties(s, t)

LEMMA GapIsClose ==
  ASSUME NEW s \in Seq(Int), NEW t \in Seq(Int), Len(s) > 0, Len(t) > 0
  PROVE  \E g \in Int, k \in Nat, l \in Int : GapAround(s, t, g, k, l)
<1>1. PICK x \in Int, y \in Int, n \in Nat, m \in Nat :
        x = Sum(s) /\ y = Sum(t) /\ n = Len(s) /\ m = Len(t) /\ n > 0 /\ m > 0
  BY ListFacts
<1>2. PICK g, k, l : g = Rounded(x, n) - Rounded(y, m) /\ k = n * m /\ l = x * m - y * n
  OBVIOUS
<1>3. PICK p \in Int, q \in Int : p = Rounded(x, n) /\ q = Rounded(y, m)
  BY <1>1, RoundedFacts
<1>4. /\ 2 * (n * p) <= 200 * x + n /\ 200 * x <= 2 * (n * p) + n
      /\ 2 * (m * q) <= 200 * y + m /\ 200 * y <= 2 * (m * q) + m
      /\ 200 * y = 2 * (m * q) + m => 2 * q + 1 \in Falls
  <2>1. Nearest(x, n, p) /\ Nearest(y, m, q)
    BY <1>1, <1>3, RoundedFacts
  <2> QED BY <2>1 DEF Nearest
<1>5. PICK a \in Int, b \in Int : a = n * p /\ b = m * q
  OBVIOUS
<1>6. /\ m * (2 * a) <= m * (200 * x + n) /\ m * (200 * x) <= m * (2 * a + n)
      /\ n * (2 * b) <= n * (200 * y + m) /\ n * (200 * y) <= n * (2 * b + m)
  BY <1>4, <1>5
<1>7. PICK u \in Int, v \in Int, xm \in Int, yn \in Int :
        u = m * a /\ v = n * b /\ xm = x * m /\ yn = y * n
  OBVIOUS
<1>8. k \in Nat /\ k > 0
  <2>1. n > 0 /\ m > 0
    BY <1>1
  <2>2. n * m \in Nat /\ n * m > 0
    BY <2>1
  <2> QED BY <1>2, <2>2
<1>9. /\ m * (2 * a) = 2 * u /\ n * (2 * b) = 2 * v
      /\ m * (200 * x + n) = 200 * xm + k /\ m * (200 * x) = 200 * xm
      /\ m * (2 * a + n) = 2 * u + k
      /\ n * (200 * y + m) = 200 * yn + k /\ n * (200 * y) = 200 * yn
      /\ n * (2 * b + m) = 2 * v + k
  BY <1>2, <1>7
<1>10. /\ 2 * u <= 200 * xm + k /\ 200 * xm <= 2 * u + k
       /\ 2 * v <= 200 * yn + k /\ 200 * yn <= 2 * v + k
  <2>1. 2 * u <= 200 * xm + k /\ 200 * xm <= 2 * u + k
    BY Zenon, <1>6, <1>9
  <2>2. 2 * v <= 200 * yn + k /\ 200 * yn <= 2 * v + k
    BY Zenon, <1>6, <1>9
  <2> QED BY <2>1, <2>2
<1>11. u = k * p /\ v = k * q
  BY <1>2, <1>5, <1>7
<1>12. k * g = u - v
  BY <1>2, <1>3, <1>8, <1>11
<1>13. l = xm - yn
  BY <1>2, <1>7
<1>14. 2 * u - 2 * v <= 200 * (xm - yn) + 2 * k /\ 200 * (xm - yn) <= 2 * u - 2 * v + 2 * k
  BY <1>8, <1>10
<1>15. g \in Int /\ l \in Int
  BY <1>2, <1>3, <1>7, <1>13
<1>16. k * g <= 100 * l + k /\ 100 * l <= k * g + k
  BY <1>8, <1>12, <1>13, <1>14, <1>15
<1>17. Average(s) = p /\ Average(t) = q /\ g = p - q
  BY <1>1, <1>2, <1>3 DEF Average
<1>18. Lead(s, t) = l /\ Pairs(s, t) = k
  BY <1>1, <1>2 DEF Lead, Pairs
<1>19. Lead(t, s) = -l /\ Pairs(t, s) = k
  <2>1. m * n = n * m /\ y * n - x * m = -(x * m - y * n)
    OBVIOUS
  <2> QED BY <1>1, <1>2, <2>1 DEF Lead, Pairs
<1>20. ASSUME g = 26, k * g = 100 * l + k PROVE Forties(s, t)
  <2>1. 2 * u = 200 * xm + k /\ 200 * yn = 2 * v + k
    BY <1>8, <1>10, <1>12, <1>13, <1>20
  <2>2. 2 * a = 200 * x + n
    <3>1. PICK c \in Int, d \in Int : c = 2 * a /\ d = 200 * x + n
      OBVIOUS
    <3>2. m * c = m * d
      BY <1>8, <1>9, <2>1, <3>1
    <3>3. c = d
      BY <1>1, <3>2, SameFactor
    <3> QED BY <3>1, <3>3
  <2>3. 200 * y = 2 * b + m
    <3>1. PICK c \in Int, d \in Int : c = 200 * y /\ d = 2 * b + m
      OBVIOUS
    <3>2. n * c = n * d
      BY <1>8, <1>9, <2>1, <3>1
    <3>3. c = d
      BY <1>1, <3>2, SameFactor
    <3> QED BY <3>1, <3>3
  <2>4. PICK z \in Int : z = 2 * q + 1 /\ z \in Falls
    BY <1>4, <1>5, <2>3
  <2>5. m % 40 = 0
    <3>1. 200 * y = m * z
      <4>1. m * (2 * q + 1) = 2 * (m * q) + m
        OBVIOUS
      <4> QED BY <1>5, <2>3, <2>4, <4>1
    <3> QED BY <2>4, <3>1, TiesThatFall, TiesTakeForty
  <2>6. n % 40 = 0
    <3>1. PICK j \in Int, w \in Int : j = p - 1 /\ w = 2 * j + 1
      OBVIOUS
    <3>2. 200 * x = n * w
      <4>1. n * (2 * (p - 1) + 1) = 2 * (n * p) - n
        OBVIOUS
      <4> QED BY <1>5, <2>2, <3>1, <4>1
    <3>3. w % 25 # 0
      <4>1. w = z + 50
        BY <1>17, <1>20, <2>4, <3>1
      <4>2. w % 25 = z % 25
        BY <4>1
      <4>3. z % 25 # 0
        BY <2>4, TiesThatFall
      <4> QED BY <4>2, <4>3
    <3> QED BY <3>1, <3>2, <3>3, TiesTakeForty
  <2> QED BY <1>1, <2>5, <2>6 DEF Forties
<1>21. Average(s) \in Int /\ Average(t) \in Int /\ g = Average(s) - Average(t)
  BY <1>3, <1>17
<1>22. g \in Int /\ k \in Nat /\ l \in Int
  BY <1>8, <1>15
<1>23. g = 26 /\ k * g = 100 * l + k => Forties(s, t)
  BY <1>20
<1>24. GapAround(s, t, g, k, l)
  BY <1>8, <1>16, <1>18, <1>19, <1>21, <1>23 DEF GapAround
<1> QED BY <1>22, <1>24

\* So with a gap beyond the margin the lead is at the margin at least, and at it only with
\* a gap of a hundredth more; and with a gap within the margin the lead is within it or at
\* most a hundredth more, and that with more than 25 pairs only: below, the lead beyond
\* the margin is a whole pair's quarter more.
LEMMA MarginIsKept ==
  ASSUME NEW g \in Int, NEW k \in Nat, NEW l \in Int, k > 0,
         k * g <= 100 * l + k, 100 * l <= k * g + k
  PROVE  /\ g > 25 => 4 * l >= k
         /\ g > 25 /\ 4 * l = k => g = 26 /\ k * g = 100 * l + k
         /\ -25 <= g /\ g <= 25 => -(26 * k) <= 100 * l /\ 100 * l <= 26 * k
         /\ -25 <= g /\ g <= 25 /\ k <= 25 => -k <= 4 * l /\ 4 * l <= k
<1>1. ASSUME g > 25
      PROVE  4 * l >= k /\ (4 * l = k => g = 26 /\ k * g = 100 * l + k)
  <2>1. k * 26 <= k * g
    BY <1>1
  <2>2. 4 * l >= k
    BY <2>1
  <2>3. ASSUME 4 * l = k PROVE g = 26 /\ k * g = 100 * l + k
    <3>1. ASSUME g >= 27 PROVE FALSE
      <4>1. k * 27 <= k * g
        BY <3>1
      <4> QED BY <2>3, <4>1
    <3>2. g = 26
      BY <1>1, <3>1
    <3> QED BY <2>3, <3>2
  <2> QED BY <2>2, <2>3
<1>2. ASSUME -25 <= g, g <= 25
      PROVE  /\ -(26 * k) <= 100 * l /\ 100 * l <= 26 * k
             /\ k <= 25 => -k <= 4 * l /\ 4 * l <= k
  <2>1. k * g <= k * 25 /\ k * (-25) <= k * g
    BY <1>2
  <2>2. -(26 * k) <= 100 * l /\ 100 * l <= 26 * k
    BY <2>1
  <2>3. ASSUME k <= 25 PROVE -k <= 4 * l /\ 4 * l <= k
    <3>1. PICK z \in Int : z = 4 * l
      OBVIOUS
    <3>2. -(26 * k) <= 25 * z /\ 25 * z <= 26 * k
      BY <2>2, <3>1
    <3> QED BY <2>3, <3>1, <3>2
  <2> QED BY <2>2, <2>3
<1> QED BY <1>1, <1>2

\* What the rounded averages of two lists have to do with their true ones.
LEMMA AveragesFacts ==
  ASSUME NEW s \in Seq(Int), NEW t \in Seq(Int), Len(s) > 0, Len(t) > 0,
         NEW g, g = Average(s) - Average(t)
  PROVE  /\ Average(s) \in Int /\ Average(t) \in Int /\ g \in Int
         /\ Lead(s, t) \in Int /\ Pairs(s, t) \in Nat /\ Pairs(s, t) > 0
         /\ Lead(t, s) = -Lead(s, t) /\ Pairs(t, s) = Pairs(s, t)
         /\ g > 25 => 4 * Lead(s, t) > Pairs(s, t) \/ AtMargin(s, t)
         /\ -25 <= g /\ g <= 25 =>
              /\ -(26 * Pairs(s, t)) <= 100 * Lead(s, t) /\ 100 * Lead(s, t) <= 26 * Pairs(s, t)
              /\ Pairs(s, t) <= 25 => -Pairs(s, t) <= 4 * Lead(s, t) /\ 4 * Lead(s, t) <= Pairs(s, t)
<1>0. PICK e \in Int, k \in Nat, l \in Int : GapAround(s, t, e, k, l)
  BY GapIsClose
<1>1. /\ Average(s) \in Int /\ Average(t) \in Int /\ e = Average(s) - Average(t)
      /\ Lead(s, t) = l /\ Lead(t, s) = -l /\ Pairs(s, t) = k /\ Pairs(t, s) = k
      /\ k > 0 /\ k * e <= 100 * l + k /\ 100 * l <= k * e + k
      /\ e = 26 /\ k * e = 100 * l + k => Forties(s, t)
  BY <1>0 DEF GapAround
<1>2. g = e
  BY <1>1
<1>3. /\ e > 25 => 4 * l >= k
      /\ e > 25 /\ 4 * l = k => e = 26 /\ k * e = 100 * l + k
      /\ -25 <= e /\ e <= 25 => -(26 * k) <= 100 * l /\ 100 * l <= 26 * k
      /\ -25 <= e /\ e <= 25 /\ k <= 25 => -k <= 4 * l /\ 4 * l <= k
  <2>1. k > 0 /\ k * e <= 100 * l + k /\ 100 * l <= k * e + k
    BY <1>1
  <2> QED BY <2>1, MarginIsKept
<1>4. ASSUME e > 25 PROVE 4 * l > k \/ AtMargin(s, t)
  <2>1. CASE 4 * l = k
    BY <1>1, <1>3, <1>4, <2>1 DEF AtMargin
  <2>2. CASE 4 * l # k
    BY <1>3, <1>4, <2>2
  <2> QED BY <2>1, <2>2
<1> QED BY <1>1, <1>2, <1>3, <1>4

\* A gap beyond the margin shows who leads ...
LEMMA BeyondMargin ==
  ASSUME NEW s \in Seq(Int), NEW t \in Seq(Int), Len(s) > 0, Len(t) > 0,
         Average(s) - Average(t) > 25
  PROVE  Leads(s, t)
<1>1. PICK g : g = Average(s) - Average(t)
  OBVIOUS
<1>2. g \in Int /\ g > 25
  BY <1>1, AveragesFacts
<1>3. PICK l \in Int, k \in Nat : l = Lead(s, t) /\ k = Pairs(s, t) /\ k > 0
  BY AveragesFacts
<1>4. 4 * l > k \/ AtMargin(s, t)
  BY <1>1, <1>2, <1>3, AveragesFacts
<1>5. CASE 4 * l > k
  <2>1. l > 0
    BY <1>3, <1>5
  <2>2. Abs(l) = l
    BY <2>1 DEF Abs
  <2> QED BY <1>3, <1>5, <2>1, <2>2 DEF Leads, Ahead, Apart
<1> QED BY <1>4, <1>5 DEF Leads

\* ... and one within it that nobody is, or hardly.
LEMMA WithinMargin ==
  ASSUME NEW s \in Seq(Int), NEW t \in Seq(Int), Len(s) > 0, Len(t) > 0,
         Abs(Average(s) - Average(t)) <= 25
  PROVE  ~Apart(s, t) \/ Overlooked(s, t)
<1>1. PICK g \in Int : g = Average(s) - Average(t)
  BY AveragesFacts
<1>2. PICK l \in Int, k \in Nat : l = Lead(s, t) /\ k = Pairs(s, t)
  BY AveragesFacts
<1>3. -25 <= g /\ g <= 25
  BY <1>1 DEF Abs
<1>4. /\ -(26 * k) <= 100 * l /\ 100 * l <= 26 * k
      /\ k <= 25 => -k <= 4 * l /\ 4 * l <= k
  BY <1>1, <1>2, <1>3, AveragesFacts
<1>5. CASE k <= 25
  <2>1. 4 * Abs(l) <= k
    BY <1>4, <1>5 DEF Abs
  <2>2. Abs(l) \in Int
    BY DEF Abs
  <2> QED BY <1>2, <2>1, <2>2 DEF Apart
<1>6. CASE k > 25
  <2>1. 100 * Abs(l) <= 26 * k
    BY <1>4 DEF Abs
  <2> QED BY <1>2, <1>6, <2>1 DEF Overlooked
<1> QED BY <1>5, <1>6

\* What a direction says of two lists is exact.
LEMMA DirectionIsExact ==
  ASSUME NEW s \in Seq(Int), NEW t \in Seq(Int), Len(s) > 0, Len(t) > 0, NEW up, NEW down
  PROVE  Exact(Direction(Average(s) - Average(t), TieMargin, up, down), s, t, up, down)
<1>1. PICK g \in Int : g = Average(s) - Average(t)
  BY AveragesFacts
<1>2. PICK v : v = Direction(g, TieMargin, up, down)
  OBVIOUS
<1>3. CASE Abs(g) <= 25
  <2>1. v = "tied"
    BY <1>2, <1>3 DEF Direction, TieMargin
  <2> QED BY <1>1, <1>2, <1>3, <2>1, WithinMargin DEF Exact
<1>4. CASE ~(Abs(g) <= 25) /\ g > 0
  <2>1. v = up /\ g > 25
    BY <1>2, <1>4 DEF Direction, TieMargin, Abs
  <2>2. Leads(s, t)
    BY <1>1, <2>1, BeyondMargin
  <2> QED BY <1>1, <1>2, <2>1, <2>2 DEF Exact
<1>5. CASE ~(Abs(g) <= 25) /\ ~(g > 0)
  <2>1. v = down /\ g < -25
    BY <1>2, <1>5 DEF Direction, TieMargin, Abs
  <2>2. Leads(t, s)
    <3>1. Average(s) \in Int /\ Average(t) \in Int
      BY AveragesFacts
    <3>2. Average(t) - Average(s) > 25
      BY <1>1, <2>1, <3>1
    <3> QED BY <3>2, BeyondMargin
  <2> QED BY <1>1, <1>2, <2>1, <2>2 DEF Exact
<1> QED BY <1>3, <1>4, <1>5

\* What is concluded from an experiment's outcomes or from pairs of scores.
LEMMA Comparisons ==
  ASSUME EvidenceTypes
  PROVE  ComparisonsAreExact
<1>1. PICK a \in Seq(Int), b \in Seq(Int) : a = sample["a"] /\ b = sample["b"]
  BY DEF EvidenceTypes, Keys
<1>2. PICK k \in Nat : k = IF Len(a) < Len(b) THEN Len(a) ELSE Len(b)
  BY ListFacts
<1>3. PICK s, t : s = SubSeq(a, 1, k) /\ t = SubSeq(b, 1, k)
  OBVIOUS
<1>4. s \in Seq(Int) /\ t \in Seq(Int) /\ Len(s) = k /\ Len(t) = k
  <2>1. k <= Len(a) /\ k <= Len(b) /\ Len(a) \in Nat /\ Len(b) \in Nat
    BY <1>2, ListFacts
  <2> QED BY <1>3, <2>1, SubSeqProperties
<1>5. k >= 2 <=> Enough(a, b)
  BY <1>2, ListFacts DEF Enough
<1>6. CASE Enough(a, b)
  <2>1. Len(a) \in Nat /\ Len(b) \in Nat /\ Len(a) >= 2 /\ Len(b) >= 2 /\ k >= 2
    BY <1>5, <1>6, ListFacts DEF Enough
  <2>2. Exact(ExperimentVerdict(a, b), a, b, "favors_a", "favors_b")
    <3>1. ExperimentVerdict(a, b)
            = Direction(Average(a) - Average(b), TieMargin, "favors_a", "favors_b")
      BY <2>1 DEF ExperimentVerdict, MinPerOption
    <3> QED BY <2>1, <3>1, DirectionIsExact
  <2>3. Exact(ReferenceVerdict(s, t), s, t, "self_higher", "reference_higher")
    <3>1. ReferenceVerdict(s, t)
            = Direction(Average(s) - Average(t), TieMargin, "self_higher", "reference_higher")
      BY <1>4, <2>1 DEF ReferenceVerdict, MinPerOption
    <3>2. Len(s) > 0 /\ Len(t) > 0
      BY <1>4, <2>1
    <3> QED BY <1>4, <3>1, <3>2, DirectionIsExact
  <2>4. Confidence(a, b) # "insufficient"
    BY <2>1 DEF Confidence, MinPerOption
  <2> QED BY <1>1, <1>2, <1>3, <1>6, <2>2, <2>3, <2>4 DEF ComparisonsAreExact
<1>7. CASE ~Enough(a, b)
  <2>1. Len(a) \in Nat /\ Len(b) \in Nat /\ (Len(a) < 2 \/ Len(b) < 2) /\ k < 2
    BY <1>5, <1>7, ListFacts DEF Enough
  <2>2. ExperimentVerdict(a, b) = "insufficient" /\ Confidence(a, b) = "insufficient"
    BY <2>1 DEF ExperimentVerdict, Confidence, MinPerOption
  <2>3. ReferenceVerdict(s, t) = "insufficient"
    BY <1>4, <2>1 DEF ReferenceVerdict, MinPerOption
  <2> QED BY <1>1, <1>2, <1>3, <1>7, <2>2, <2>3 DEF ComparisonsAreExact
<1> QED BY <1>6, <1>7

\* A rounded average on one side of 3.5 or 2.5 has the true one on that side; and one
\* that is not there, of up to a hundred values, does not.
LEMMA ProductFacts ==
  ASSUME NEW s \in Seq(Int), Len(s) > 0
  PROVE  /\ Average(s) \in Int
         /\ Average(s) > 350 => 2 * Sum(s) > 7 * Len(s)
         /\ Average(s) < 250 => 2 * Sum(s) < 5 * Len(s)
         /\ Average(s) <= 350 /\ Len(s) <= 100 => ~(2 * Sum(s) > 7 * Len(s))
         /\ Average(s) >= 250 /\ Len(s) <= 100 => ~(2 * Sum(s) < 5 * Len(s))
<1>1. PICK x \in Int, n \in Nat : x = Sum(s) /\ n = Len(s) /\ n > 0
  BY ListFacts
<1>2. PICK r \in Int : r = Rounded(x, n)
  BY <1>1, RoundedFacts
<1>3. 2 * (n * r) <= 200 * x + n /\ 200 * x <= 2 * (n * r) + n
  <2>1. Nearest(x, n, r)
    BY <1>1, <1>2, RoundedFacts
  <2> QED BY <2>1 DEF Nearest
<1>4. PICK w \in Int : w = n * r /\ 2 * w <= 200 * x + n /\ 200 * x <= 2 * w + n
  BY <1>3
<1>5. Average(s) = r
  BY <1>1, <1>2 DEF Average
<1>6. ASSUME r > 350 PROVE 2 * x > 7 * n
  <2>1. n * 351 <= w
    BY <1>4, <1>6
  <2> QED BY <1>1, <1>4, <2>1
<1>7. ASSUME r < 250 PROVE 2 * x < 5 * n
  <2>1. w <= n * 249
    BY <1>4, <1>7
  <2> QED BY <1>1, <1>4, <2>1
<1>8. ASSUME r <= 350, n <= 100 PROVE ~(2 * x > 7 * n)
  <2>1. w <= n * 350
    BY <1>4, <1>8
  <2> QED BY <1>4, <1>8, <2>1
<1>9. ASSUME r >= 250, n <= 100 PROVE ~(2 * x < 5 * n)
  <2>1. n * 250 <= w
    BY <1>4, <1>9
  <2> QED BY <1>4, <1>9, <2>1
<1> QED BY <1>1, <1>5, <1>6, <1>7, <1>8, <1>9

\* The product that is favored works, and is ahead of the other if that counts.
LEMMA FavoredLeads ==
  ASSUME EvidenceTypes, NEW p \in Keys, NEW q \in Keys, p # q,
         Len(sample[p]) >= MinPerOption, Average(sample[p]) > 350,
         Len(sample[q]) >= MinPerOption => ~(Average(sample[p]) - Average(sample[q]) <= TieMargin)
  PROVE  /\ Len(sample[p]) >= 2 /\ 2 * Sum(sample[p]) > 7 * Len(sample[p])
         /\ Enough(sample[p], sample[q]) => Leads(sample[p], sample[q])
<1>1. PICK s \in Seq(Int), t \in Seq(Int) : s = sample[p] /\ t = sample[q]
  BY DEF EvidenceTypes
<1>2. Len(s) >= 2 /\ Len(s) > 0 /\ Average(s) > 350
  BY <1>1, ListFacts DEF MinPerOption
<1>3. 2 * Sum(s) > 7 * Len(s)
  BY <1>2, ProductFacts
<1>4. ASSUME Enough(s, t) PROVE Leads(s, t)
  <2>1. Len(t) >= 2 /\ Len(t) > 0
    BY <1>4, ListFacts DEF Enough
  <2>2. ~(Average(s) - Average(t) <= 25)
    BY <1>1, <2>1 DEF MinPerOption, TieMargin
  <2>3. Average(s) - Average(t) > 25
    BY <1>2, <2>1, <2>2, ProductFacts
  <2> QED BY <1>2, <2>1, <2>3, BeyondMargin
<1> QED BY <1>1, <1>2, <1>3, <1>4

LEMMA Products ==
  ASSUME EvidenceTypes
  PROVE  ProductsAreExact
<1> DEFINE Works(s) == Len(s) >= 2 /\ 2 * Sum(s) > 7 * Len(s)
           Fails(s) == Len(s) >= 2 /\ 2 * Sum(s) < 5 * Len(s)
           Favored(s, t) == Works(s) /\ (Enough(s, t) => Leads(s, t))
<1>1. PICK a \in Seq(Int), b \in Seq(Int) : a = sample["a"] /\ b = sample["b"]
  BY DEF EvidenceTypes, Keys
<1>2. ASSUME NEW s \in Seq(Int)
      PROVE  /\ ProductState(s) = "works" => Works(s)
             /\ ProductState(s) = "did_not_work" => Fails(s)
             /\ ProductState(s) = "mixed" /\ Len(s) <= 100 => ~Works(s) /\ ~Fails(s)
  <2>1. Len(s) \in Nat /\ Sum(s) \in Int
    BY ListFacts
  <2>2. CASE Len(s) < 2
    BY <2>1, <2>2 DEF ProductState, MinPerOption
  <2>3. CASE Len(s) >= 2
    <3>1. PICK r \in Int :
            /\ r = Average(s)
            /\ r > 350 => 2 * Sum(s) > 7 * Len(s)
            /\ r < 250 => 2 * Sum(s) < 5 * Len(s)
            /\ r <= 350 /\ Len(s) <= 100 => ~(2 * Sum(s) > 7 * Len(s))
            /\ r >= 250 /\ Len(s) <= 100 => ~(2 * Sum(s) < 5 * Len(s))
      <4>1. Len(s) > 0
        BY <2>1, <2>3
      <4> QED BY <4>1, ProductFacts
    <3>2. ProductState(s) = IF r > 350 THEN "works" ELSE IF r < 250 THEN "did_not_work" ELSE "mixed"
      BY <2>1, <2>3, <3>1 DEF ProductState, MinPerOption
    <3>3. CASE r > 350
      BY <2>3, <3>1, <3>2, <3>3
    <3>4. CASE r < 250
      BY <2>3, <3>1, <3>2, <3>4
    <3>5. CASE 250 <= r /\ r <= 350
      BY <2>1, <2>3, <3>1, <3>2, <3>5
    <3> QED BY <3>1, <3>3, <3>4, <3>5
  <2> QED BY <2>1, <2>2, <2>3
<1>3. ASSUME ProductLearning(sample) = "favors_product" PROVE Favored(a, b) \/ Favored(b, a)
  <2> DEFINE closed == {p \in DOMAIN sample : Len(sample[p]) >= MinPerOption}
             best == {p \in closed : \A q \in closed : Average(sample[q]) <= Average(sample[p])}
             Near(p, q) == Average(sample[p]) - Average(sample[q]) <= TieMargin
  <2>1. ~\E p \in best, q \in closed : q # p /\ Near(p, q)
    BY <1>3 DEF ProductLearning
  <2>2. PICK p \in best : Average(sample[p]) > 350
    BY <1>3 DEF ProductLearning
  <2>3. DOMAIN sample = Keys
    BY DEF EvidenceTypes
  <2>4. p \in Keys /\ Len(sample[p]) >= MinPerOption
    BY <2>2, <2>3
  <2>5. PICK q : q = IF p = "a" THEN "b" ELSE "a"
    OBVIOUS
  <2>6. q \in Keys /\ q # p /\ ((p = "a" /\ q = "b") \/ (p = "b" /\ q = "a"))
    <3>1. p = "a" \/ p = "b"
      BY <2>4 DEF Keys
    <3>2. CASE p = "a"
      BY <2>5, <3>2 DEF Keys
    <3>3. CASE p = "b"
      BY <2>5, <3>3 DEF Keys
    <3> QED BY <3>1, <3>2, <3>3
  <2>7. Len(sample[q]) >= MinPerOption => ~(Average(sample[p]) - Average(sample[q]) <= TieMargin)
    BY <2>1, <2>2, <2>3, <2>6
  <2>8. /\ Len(sample[p]) >= 2 /\ 2 * Sum(sample[p]) > 7 * Len(sample[p])
        /\ Enough(sample[p], sample[q]) => Leads(sample[p], sample[q])
    <3> HIDE DEF best
    <3> QED BY <2>2, <2>4, <2>7, <2>6, FavoredLeads
  <2> QED BY <1>1, <2>8, <2>6
<1> QED BY <1>1, <1>2, <1>3 DEF ProductsAreExact

-----------------------------------------------------------------------------
(* Trends. *)

Opposite(s, t) == Len(t) = Len(s) /\ \A i \in 1..Len(s) : t[i] = -s[i]

\* The scores turned round add up to the opposite.
LEMMA TurnedSum ==
  ASSUME NEW s \in Seq(Int), NEW t \in Seq(Int), Opposite(s, t)
  PROVE  Sum(t) = -Sum(s)
<1>1. /\ s \in [1..Len(s) -> Int] /\ t \in [1..Len(s) -> Int]
      /\ IsFiniteSet(1..Len(s))
  BY FS_Interval DEF Opposite
<1>2. \A i \in 1..Len(s) : t[i] = -s[i]
  BY DEF Opposite
<1> QED BY <1>1, <1>2, SumOfOpposites

\* Rounding an average turned round is rounding it, unless it ends on half a hundredth,
\* which takes eight values at least.
LEMMA RoundedOpposite ==
  ASSUME NEW x \in Int, NEW n \in Nat, n > 0
  PROVE  /\ Rounded(-x, n) + Rounded(x, n) \in {0, 1}
         /\ n < 8 => Rounded(-x, n) = -Rounded(x, n)
<1>1. PICK p \in Int, q \in Int : p = Rounded(x, n) /\ q = Rounded(-x, n)
  <2>1. -x \in Int
    OBVIOUS
  <2>2. Rounded(x, n) \in Int /\ Rounded(-x, n) \in Int
    BY <2>1, RoundedFacts
  <2> QED BY <2>2
<1>2. /\ 2 * (n * p) <= 200 * x + n /\ 200 * x <= 2 * (n * p) + n
      /\ 200 * x = 2 * (n * p) + n => 2 * p + 1 \in Falls
      /\ 2 * (n * q) <= 200 * (-x) + n /\ 200 * (-x) <= 2 * (n * q) + n
      /\ 200 * (-x) = 2 * (n * q) + n => 2 * q + 1 \in Falls
  <2>1. -x \in Int
    OBVIOUS
  <2>2. Nearest(x, n, p) /\ Nearest(-x, n, q)
    BY <1>1, <2>1, RoundedFacts
  <2> QED BY <2>2 DEF Nearest
<1>3. PICK a \in Int, b \in Int : a = n * p /\ b = n * q
  OBVIOUS
<1>4. a + b <= n /\ a + b >= -n
  BY <1>2, <1>3
<1>5. n * (p + q) = a + b
  BY <1>3
<1>6. p + q \in {0, 1}
  <2>1. ASSUME p + q >= 2 PROVE FALSE
    <3>1. n * 2 <= n * (p + q)
      BY <2>1
    <3> QED BY <1>4, <1>5, <3>1
  <2>2. ASSUME p + q <= -2 PROVE FALSE
    <3>1. n * (p + q) <= n * (-2)
      BY <2>2
    <3> QED BY <1>4, <1>5, <3>1
  <2>3. ASSUME p + q = -1 PROVE FALSE
    <3>1. a + b = -n
      BY <1>5, <2>3
    <3>2. 200 * x = 2 * a + n /\ 200 * (-x) = 2 * b + n
      BY <1>2, <1>3, <3>1
    <3>3. 2 * p + 1 \in Falls /\ 2 * q + 1 \in Falls
      BY <1>2, <1>3, <3>2
    <3>4. 2 * q + 1 = -(2 * p + 1)
      BY <2>3
    <3>5. -(2 * p + 1) \notin Falls
      BY <3>3, TiesThatFall
    <3> QED BY <3>3, <3>4, <3>5
  <2> QED BY <2>1, <2>2, <2>3
<1>7. ASSUME n < 8, p + q = 1 PROVE FALSE
  <2>1. a + b = n
    BY <1>5, <1>7
  <2>2. 200 * x = 2 * a - n
    BY <1>2, <1>3, <2>1
  <2>3. n = 1 \/ n = 2 \/ n = 3 \/ n = 4 \/ n = 5 \/ n = 6 \/ n = 7
    BY <1>7
  <2>4. CASE n = 1 \/ n = 3 \/ n = 5 \/ n = 7
    BY <2>2, <2>4
  <2>5. CASE n = 2
    BY <1>3, <2>2, <2>5
  <2>6. CASE n = 4
    BY <1>3, <2>2, <2>6
  <2>7. CASE n = 6
    BY <1>3, <2>2, <2>7
  <2> QED BY <2>3, <2>4, <2>5, <2>6, <2>7
<1> QED BY <1>1, <1>6, <1>7

\* The halves of a trend of four values or more.
Halved(s, n, m, early, late) ==
  /\ n = Len(s) \div 2 /\ n >= 2 /\ m >= n /\ n + m = Len(s) /\ m <= n + 1
  /\ early = SubSeq(s, 1, n) /\ Len(early) = n /\ \A i \in 1..n : early[i] = s[i]
  /\ late = SubSeq(s, n + 1, Len(s)) /\ Len(late) = m /\ \A i \in 1..m : late[i] = s[n + i]

LEMMA Halves ==
  ASSUME NEW s \in Seq(Int), Len(s) >= SocialMinimum
  PROVE  \E n \in Nat, m \in Nat, early \in Seq(Int), late \in Seq(Int) :
           Halved(s, n, m, early, late)
<1>1. PICK k \in Nat : k = Len(s) /\ k >= 4
  BY ListFacts DEF SocialMinimum
<1>2. PICK n \in Nat, m \in Nat : n = k \div 2 /\ n >= 2 /\ m = k - n /\ m >= n /\ m <= n + 1
  <2>1. PICK q : q = k \div 2
    OBVIOUS
  <2>2. q \in Int /\ 2 * q <= k /\ k < 2 * q + 2
    BY <1>1, <2>1
  <2>3. q \in Nat /\ q >= 2 /\ k - q \in Nat /\ k - q >= q /\ k - q <= q + 1
    BY <1>1, <2>2
  <2> QED BY <2>1, <2>3
<1>3. \A i \in 1..k : s[i] \in Int
  BY <1>1
<1>4. PICK early, late : early = SubSeq(s, 1, n) /\ late = SubSeq(s, n + 1, k)
  OBVIOUS
<1>5. early \in Seq(Int) /\ Len(early) = n /\ \A i \in 1..n : early[i] = s[i]
  <2>1. \A i \in 1..n : s[i] \in Int
    BY <1>2, <1>3
  <2>2. /\ early \in Seq(Int) /\ Len(early) = IF 1 <= n THEN n - 1 + 1 ELSE 0
        /\ \A i \in 1..(n - 1 + 1) : early[i] = s[1 + i - 1]
    BY <1>4, <2>1, SubSeqProperties
  <2>3. n - 1 + 1 = n /\ 1 <= n /\ \A i \in 1..n : 1 + i - 1 = i
    BY <1>2
  <2> QED BY <2>2, <2>3
<1>6. late \in Seq(Int) /\ Len(late) = m /\ \A i \in 1..m : late[i] = s[n + i]
  <2>1. \A i \in (n + 1)..k : s[i] \in Int
    BY <1>2, <1>3
  <2>2. /\ late \in Seq(Int) /\ Len(late) = IF n + 1 <= k THEN k - (n + 1) + 1 ELSE 0
        /\ \A i \in 1..(k - (n + 1) + 1) : late[i] = s[(n + 1) + i - 1]
    BY <1>4, <2>1, SubSeqProperties
  <2>3. k - (n + 1) + 1 = m /\ n + 1 <= k /\ \A i \in 1..m : (n + 1) + i - 1 = n + i
    BY <1>2
  <2> QED BY <2>2, <2>3
<1>7. n + m = k
  BY <1>2
<1>8. Halved(s, n, m, early, late)
  BY <1>1, <1>2, <1>4, <1>5, <1>6, <1>7 DEF Halved
<1> QED BY <1>5, <1>6, <1>8

\* What is said of a trend, in the rounded averages of its halves.
Decided(s, p, q) ==
  /\ SocialVerdict(s) = "improved" <=>
       q - p > 25 /\ 100 * (q - p) - p > 0 /\ 100 * (q - p) + p > 0
  /\ SocialVerdict(s) = "declined" <=>
       p - q > 25 /\ 100 * (p - q) - p > 0 /\ 100 * (p - q) + p > 0

LEMMA TrendVerdict ==
  ASSUME NEW s \in Seq(Int), Len(s) >= SocialMinimum,
         NEW n \in Nat, NEW m \in Nat, NEW early, NEW late, Halved(s, n, m, early, late),
         Average(early) \in Int, Average(late) \in Int
  PROVE  Decided(s, Average(early), Average(late))
<1> DEFINE p == Average(early)
           q == Average(late)
<1> HIDE DEF p, q
<1>1. PICK d, w : d \in Int /\ d = 100 * (q - p) /\ w = Larger(2500, Abs(p))
  <2>1. p \in Int /\ q \in Int
    BY DEF p, q
  <2> QED BY <2>1
<1>2. /\ w \in Int /\ w >= 2500 /\ (w = 2500 \/ w = p \/ w + p = 0)
      /\ w >= p /\ w + p >= 0
  <2>1. p \in Int
    BY DEF p
  <2>2. PICK a \in Int : a = Abs(p)
    BY <2>1 DEF Abs
  <2>3. (a = p \/ a + p = 0) /\ a >= p /\ a + p >= 0
    BY <2>2, <2>1 DEF Abs
  <2>4. w = Larger(2500, a)
    BY <1>1, <2>2
  <2>5. w \in Int /\ w >= 2500 /\ w >= a /\ (w = 2500 \/ w = a)
    BY <2>4 DEF Larger
  <2> QED BY <2>3, <2>5, <2>1
<1>3. p \in Int /\ q \in Int /\ d \in Int
  BY <1>1 DEF p, q
<1>4. SocialVerdict(s) = Direction(d, w, "improved", "declined")
  <2>1. ~(Len(s) < SocialMinimum)
    <3>1. Len(s) \in Nat
      BY ListFacts
    <3> QED BY <3>1 DEF SocialMinimum
  <2>2. 100 * TieMargin = 2500
    BY DEF TieMargin
  <2>3. n = Len(s) \div 2 /\ early = SubSeq(s, 1, n) /\ late = SubSeq(s, n + 1, Len(s))
    BY DEF Halved
  <2> QED BY <1>1, <2>1, <2>2, <2>3 DEF SocialVerdict, p, q
<1>5. SocialVerdict(s) = "improved" <=> d > w
  BY <1>2, <1>3, <1>4 DEF Direction, Abs
<1>6. SocialVerdict(s) = "declined" <=> d + w < 0
  BY <1>2, <1>3, <1>4 DEF Direction, Abs
<1>7. d > w <=> q - p > 25 /\ d - p > 0 /\ d + p > 0
  <2>1. d > 2500 <=> q - p > 25
    BY <1>1, <1>3
  <2>2. d > w <=> d > 2500 /\ d - p > 0 /\ d + p > 0
    BY <1>2, <1>3
  <2> QED BY <2>1, <2>2
<1>8. d + w < 0 <=> p - q > 25 /\ 0 - d - p > 0 /\ 0 - d + p > 0
  <2>1. d + 2500 < 0 <=> p - q > 25
    <3>1. PICK g \in Int : g = p - q
      BY <1>3
    <3>2. d = -100 * g
      BY <1>1, <3>1, <1>3
    <3> QED BY <3>1, <3>2, <1>3
  <2>2. d + w < 0 <=> d + 2500 < 0 /\ 0 - d - p > 0 /\ 0 - d + p > 0
    BY <1>2, <1>3
  <2> QED BY <2>1, <2>2
<1>9. 0 - d = 100 * (p - q)
  BY <1>1, <1>3
<1>10. SocialVerdict(s) = "improved" <=>
        q - p > 25 /\ 100 * (q - p) - p > 0 /\ 100 * (q - p) + p > 0
  BY <1>1, <1>5, <1>7, <1>3
<1>11. SocialVerdict(s) = "declined" <=>
         p - q > 25 /\ 100 * (p - q) - p > 0 /\ 100 * (p - q) + p > 0
  BY <1>6, <1>8, <1>9, <1>3
<1>12. Decided(s, p, q)
  BY <1>10, <1>11 DEF Decided
<1> QED BY <1>12 DEF p, q

\* Turning the values round moves each rounded average to its opposite, or a hundredth up
\* from it if the half is long enough.
LEMMA TurnedAverage ==
  ASSUME NEW s \in Seq(Int), NEW t \in Seq(Int), Len(s) > 0, Opposite(s, t)
  PROVE  /\ Average(s) \in Int /\ Average(t) \in Int
         /\ Average(t) + Average(s) \in {0, 1}
         /\ Len(s) < 8 => Average(t) + Average(s) = 0
<1>1. PICK x \in Int, n \in Nat : x = Sum(s) /\ n = Len(s) /\ n > 0
  BY ListFacts
<1>2. Sum(t) = -x
  BY <1>1, TurnedSum
<1>3. PICK y \in Int : y = -x
  OBVIOUS
<1>4. Average(s) = Rounded(x, n) /\ Average(t) = Rounded(y, n)
  <2>1. Len(t) = n
    BY <1>1 DEF Opposite
  <2> QED BY <1>1, <1>2, <1>3, <2>1 DEF Average
<1>5. Rounded(x, n) \in Int /\ Rounded(y, n) \in Int
  BY <1>1, RoundedFacts
<1>6. Rounded(y, n) + Rounded(x, n) \in {0, 1} /\ (n < 8 => Rounded(y, n) = -Rounded(x, n))
  BY <1>1, <1>3, RoundedOpposite
<1>7. n < 8 => Rounded(y, n) + Rounded(x, n) = 0
  BY <1>5, <1>6
<1> QED BY <1>1, <1>4, <1>5, <1>6, <1>7

\* The halves turned round are the halves of the trend turned round.
LEMMA TurnedHalves ==
  ASSUME NEW s \in Seq(Int), NEW t \in Seq(Int), Opposite(s, t), Len(s) >= SocialMinimum,
         NEW n \in Nat, NEW m \in Nat, NEW e \in Seq(Int), NEW l \in Seq(Int),
         Halved(s, n, m, e, l)
  PROVE  \E f \in Seq(Int), k \in Seq(Int) :
           Halved(t, n, m, f, k) /\ Opposite(e, f) /\ Opposite(l, k)
<1>1. Len(t) = Len(s) /\ \A i \in 1..Len(s) : t[i] = -s[i]
  BY DEF Opposite
<1>2. PICK n1 \in Nat, m1 \in Nat, f \in Seq(Int), k \in Seq(Int) : Halved(t, n1, m1, f, k)
  BY <1>1, Halves
<1>3. n1 = n
  BY <1>2, <1>1 DEF Halved
<1>4. Len(s) \in Nat /\ n + m = Len(s) /\ n1 + m1 = Len(s)
  BY <1>2, <1>1 DEF Halved
<1>5. m1 = m
  BY <1>3, <1>4
<1>6. Halved(t, n, m, f, k)
  BY <1>2, <1>3, <1>5
<1>7. ASSUME NEW i \in 1..n PROVE f[i] = -e[i]
  <2>1. i \in 1..Len(s) /\ f[i] = t[i] /\ e[i] = s[i]
    BY <1>4, <1>6 DEF Halved
  <2> QED BY <1>1, <2>1
<1>8. ASSUME NEW i \in 1..m PROVE k[i] = -l[i]
  <2>1. n + i \in 1..Len(s)
    BY <1>4
  <2>2. t[n + i] = -s[n + i]
    BY <1>1, <2>1
  <2>3. k[i] = t[n + i]
    BY <1>6 DEF Halved
  <2>4. l[i] = s[n + i]
    BY DEF Halved
  <2> QED BY <2>2, <2>3, <2>4
<1>9. Len(e) = n /\ Len(f) = n /\ Len(l) = m /\ Len(k) = m
  BY <1>6 DEF Halved
<1>10. Opposite(e, f)
  BY <1>7, <1>9 DEF Opposite
<1>11. Opposite(l, k)
  BY <1>8, <1>9 DEF Opposite
<1> QED BY <1>6, <1>10, <1>11

LEMMA Trends ==
  ASSUME EvidenceTypes
  PROVE  TrendsAreExact
<1>1. PICK s \in Seq(Int) : s = trend
  BY DEF EvidenceTypes
<1>2. Len(s) \in Nat
  OBVIOUS
<1>3. PICK t \in Seq(Int) :
        /\ t = [i \in DOMAIN s |-> 0 - s[i]]
        /\ Len(t) = Len(s) /\ Opposite(s, t)
  <2>1. DOMAIN s = 1..Len(s) /\ \A i \in 1..Len(s) : s[i] \in Int /\ 0 - s[i] = -s[i]
    OBVIOUS
  <2>2. PICK t : t = [i \in 1..Len(s) |-> 0 - s[i]]
    OBVIOUS
  <2>3. t \in Seq(Int) /\ Len(t) = Len(s)
    BY <1>2, <2>1, <2>2
  <2> QED BY <2>1, <2>2, <2>3 DEF Opposite
<1> DEFINE early == SubSeq(s, 1, Len(s) \div 2)
           late == SubSeq(s, Len(s) \div 2 + 1, Len(s))
           Goal(u, v) == SocialVerdict(s) = u =>
                           SocialVerdict(t) # u /\ (Len(s) < 15 => SocialVerdict(t) = v)
<1>4. /\ SocialVerdict(s) = "improved" => Leads(late, early)
      /\ SocialVerdict(s) = "declined" => Leads(early, late)
      /\ Goal("improved", "declined") /\ Goal("declined", "improved")
  <2>1. CASE Len(s) < SocialMinimum
    BY <2>1 DEF SocialVerdict
  <2>2. CASE Len(s) >= SocialMinimum
    <3>1. PICK n \in Nat, m \in Nat, e \in Seq(Int), l \in Seq(Int) : Halved(s, n, m, e, l)
      BY <2>2, Halves
    <3>2. PICK f \in Seq(Int), k \in Seq(Int) :
            Halved(t, n, m, f, k) /\ Opposite(e, f) /\ Opposite(l, k)
      <4>1. Opposite(s, t)
        BY <1>3
      <4> QED BY <2>2, <3>1, <4>1, TurnedHalves
    <3>3. /\ n >= 2 /\ m >= n /\ m <= n + 1 /\ n + m = Len(s)
          /\ Len(e) = n /\ Len(l) = m /\ Len(f) = n /\ Len(k) = m
          /\ e = early /\ l = late
      BY <3>1, <3>2 DEF Halved
    <3>4. PICK p \in Int, u \in Int :
            p = Average(e) /\ u = Average(f) /\ u + p \in {0, 1} /\ (n < 8 => u + p = 0)
      <4>1. Len(e) > 0
        BY <3>3
      <4>2. /\ Average(e) \in Int /\ Average(f) \in Int
            /\ Average(f) + Average(e) \in {0, 1}
            /\ Len(e) < 8 => Average(f) + Average(e) = 0
        BY <3>2, <4>1, TurnedAverage
      <4> QED BY <3>3, <4>2
    <3>5. PICK q \in Int, v \in Int :
            q = Average(l) /\ v = Average(k) /\ v + q \in {0, 1} /\ (m < 8 => v + q = 0)
      <4>1. Len(l) > 0
        BY <3>3
      <4>2. /\ Average(l) \in Int /\ Average(k) \in Int
            /\ Average(k) + Average(l) \in {0, 1}
            /\ Len(l) < 8 => Average(k) + Average(l) = 0
        BY <3>2, <4>1, TurnedAverage
      <4> QED BY <3>3, <4>2
    <3>6. Decided(s, p, q)
      BY <2>2, <3>1, <3>4, <3>5, TrendVerdict
    <3>7. Decided(t, u, v)
      <4>1. Len(t) >= SocialMinimum
        BY <1>3, <2>2
      <4> QED BY <3>2, <3>4, <3>5, <4>1, TrendVerdict
    <3>8. Len(s) < 15 => u + p = 0 /\ v + q = 0
      <4>1. ASSUME Len(s) < 15 PROVE n < 8 /\ m < 8
        BY <1>2, <3>3, <4>1
      <4> QED BY <3>4, <3>5, <4>1
    <3>9. 0 <= u + p /\ u + p <= 1 /\ 0 <= v + q /\ v + q <= 1
      BY <3>4, <3>5
    <3>10. ASSUME SocialVerdict(s) = "improved" PROVE SocialVerdict(t) # "improved"
      <4>1. q - p > 25
        BY <3>6, <3>10 DEF Decided
      <4>2. ~(v - u > 25)
        BY <3>9, <4>1
      <4> QED BY <3>7, <4>2 DEF Decided
    <3>11. ASSUME SocialVerdict(s) = "declined" PROVE SocialVerdict(t) # "declined"
      <4>1. p - q > 25
        BY <3>6, <3>11 DEF Decided
      <4>2. ~(u - v > 25)
        BY <3>9, <4>1
      <4> QED BY <3>7, <4>2 DEF Decided
    <3>12. ASSUME SocialVerdict(s) = "improved", Len(s) < 15 PROVE SocialVerdict(t) = "declined"
      BY <3>6, <3>7, <3>8, <3>12 DEF Decided
    <3>13. ASSUME SocialVerdict(s) = "declined", Len(s) < 15 PROVE SocialVerdict(t) = "improved"
      BY <3>6, <3>7, <3>8, <3>13 DEF Decided
    <3>14. ASSUME SocialVerdict(s) = "improved" PROVE Leads(late, early)
      <4>1. Average(l) - Average(e) > 25 /\ Len(l) > 0 /\ Len(e) > 0
        BY <3>3, <3>4, <3>5, <3>6, <3>14 DEF Decided
      <4>2. Leads(l, e)
        BY <4>1, BeyondMargin
      <4> QED BY <3>3, <4>2
    <3>15. ASSUME SocialVerdict(s) = "declined" PROVE Leads(early, late)
      <4>1. Average(e) - Average(l) > 25 /\ Len(l) > 0 /\ Len(e) > 0
        BY <3>3, <3>4, <3>5, <3>6, <3>15 DEF Decided
      <4>2. Leads(e, l)
        BY <4>1, BeyondMargin
      <4> QED BY <3>3, <4>2
    <3> QED BY <3>10, <3>11, <3>12, <3>13, <3>14, <3>15
  <2> QED BY <1>2, <2>1, <2>2 DEF SocialMinimum
<1>5. [i \in DOMAIN trend |-> 0 - trend[i]] = t
  BY <1>1, <1>3
<1> QED BY <1>1, <1>4, <1>5 DEF TrendsAreExact

-----------------------------------------------------------------------------
LEMMA EvidenceInvariance == EvidenceSpec => []EvidenceTypes
<1> USE EvidenceAssumption
<1>1. EvidenceInit => EvidenceTypes
  BY DEF EvidenceInit, EvidenceTypes
<1>2. ASSUME EvidenceTypes, [EvidenceNext]_evidenceVars PROVE EvidenceTypes'
  <2>1. CASE UNCHANGED evidenceVars
    BY <1>2, <2>1 DEF EvidenceTypes, evidenceVars
  <2>2. ASSUME NEW key \in Keys, NEW score \in Scores, ObserveScore(key, score)
        PROVE  EvidenceTypes'
    <3>1. score \in Int /\ sample[key] \in Seq(Int)
      BY <1>2 DEF EvidenceTypes
    <3>2. Append(sample[key], score) \in Seq(Int)
      BY <3>1, AppendProperties
    <3>3. sample' = [sample EXCEPT ![key] = Append(sample[key], score)] /\ trend' = trend
      BY <2>2 DEF ObserveScore
    <3>4. PICK s \in Seq(Int) : s = Append(sample[key], score)
      BY <3>2
    <3> QED BY <1>2, <3>3, <3>4 DEF EvidenceTypes
  <2>3. ASSUME NEW value \in Metrics, ObserveMetric(value)
        PROVE  EvidenceTypes'
    <3>1. value \in Int
      OBVIOUS
    <3> QED BY <1>2, <2>3, <3>1 DEF EvidenceTypes, ObserveMetric
  <2> QED BY <1>2, <2>1, <2>2, <2>3 DEF EvidenceNext
<1> QED BY <1>1, <1>2, PTL DEF EvidenceSpec

\* What the evidence features conclude is what exact arithmetic concludes, whatever has
\* been recorded and however much of it: personalExperimentEvidence.ts and
\* personalIntelligenceEvidence.ts.
THEOREM VerdictsExact == EvidenceSpec => []VerdictsAreExact
<1>1. EvidenceTypes => VerdictsAreExact
  BY Comparisons, Products, Trends DEF VerdictsAreExact
<1> QED BY <1>1, EvidenceInvariance, PTL
=============================================================================
