------------------------ MODULE ProviderConnections ------------------------
(***************************************************************************)
(* Connecting and disconnecting TikTok for one user: POST                  *)
(* /api/providers/connect signs a state that lives ten minutes and is      *)
(* stored nowhere, the callback spends TikTok's code and then upserts the  *)
(* row of rmf_provider_connections, POST /api/providers/disconnect clears  *)
(* its token_ref, GET /api/providers lists it (lib/providerConnectionsDb,  *)
(* lib/tiktokOAuth).                                                       *)
(*                                                                         *)
(* All three first await the schema of the table, which runOncePerDbClient *)
(* (lib/db.ts) runs once per SQL client: the promise of an attempt is      *)
(* shared while the client lives, given up when the client is dropped, and *)
(* cleared by its own failure.  withDatabaseTimeout drops the client under *)
(* every request of the isolate and answers; the work goes on.             *)
(***************************************************************************)
EXTENDS Naturals, Sequences, FiniteSets

CONSTANTS Users,        \* requests of the user, all in one isolate
          Signed,       \* a state signed before the model starts
          Does,         \* bound: what each request may do
          MaxAttempts,  \* bound: schema attempts
          MaxResets     \* bound: clients dropped

ASSUME ProviderAssumption ==
  /\ Signed \notin Users /\ "none" \notin Users /\ MaxAttempts \in Nat /\ MaxResets \in Nat
  /\ \A u \in Users : Does[u] \subseteq {"connect", "callback", "disconnect", "list"}

VARIABLES does,       \* what a request does
          link,       \* the signed state a callback came back with, by its issuer
          place,      \* the step it is at
          awaits,     \* the schema attempt whose promise it awaits; 0 for none
          client,     \* the generation of the client it keeps
          said,       \* what its caller was told
          links,      \* states signed and not yet expired
          tokens,     \* callbacks whose code TikTok exchanged
          connection,        \* the row: its status and whose token it holds
          generation, \* clientGeneration
          attempts,   \* schema attempts: the generation, and what became of it
          slot,       \* SchemaOnceSlot: the attempt it holds, 0 for none, and gen
          configured, \* TIKTOK_OAUTH_CLIENT_KEY and _SECRET are set
          over,       \* history: requests that had ended when this one began
          joined      \* history: the generation when a request took its promise

userVars == <<does, link, over>>
slotVars == <<attempts, slot>>
providerVars == <<userVars, place, awaits, client, said, links, tokens, connection, generation,
                  slotVars, configured, joined>>

NoToken == "none"
Going == {u \in Users : place[u] \notin {"idle", "done"}}

ProviderInit ==
  /\ does = [u \in Users |-> "none"] /\ link = [u \in Users |-> u]
  /\ place = [u \in Users |-> "idle"]
  /\ awaits = [u \in Users |-> 0] /\ client = [u \in Users |-> 0]
  /\ said = [u \in Users |-> "none"]
  /\ links = {Signed} /\ tokens = {}
  /\ connection = [status |-> "none", token |-> NoToken]
  /\ generation = 0
  /\ attempts = <<>> /\ slot = [attempt |-> 0, gen |-> 0]
  /\ configured = TRUE
  /\ over = [u \in Users |-> {}] /\ joined = [u \in Users |-> 0]

Move(u, p) == place' = [place EXCEPT ![u] = p]
Inform(u, what) == said' = [said EXCEPT ![u] = IF @ = "none" THEN what ELSE @]
Close(u, what) == Move(u, "done") /\ Inform(u, what)

\* A signed-in user asks for the authorize URL (connect), or for its connections;
\* TikTok sends the browser back with a code, or with an error.
Visit(u, what, state) ==
  /\ place[u] = "idle"
  /\ what # "callback" => state = u
  /\ what = "callback" => state = Signed \/ (state \in Users /\ does[state] = "connect" /\ said[state] = "ok")
  /\ does' = [does EXCEPT ![u] = what] /\ link' = [link EXCEPT ![u] = state]
  /\ over' = [over EXCEPT ![u] = {w \in Users : place[w] = "done"}]
  /\ Move(u, CASE what = "connect" -> "sign" [] what = "callback" -> "verify" [] OTHER -> "schema")
  /\ UNCHANGED <<awaits, client, said, links, tokens, connection, generation, slotVars, configured, joined>>

\* tiktokAuthorizeUrl
Sign(u) ==
  /\ place[u] = "sign"
  /\ IF configured
     THEN links' = links \cup {u} /\ Close(u, "ok")
     ELSE Close(u, "not_configured") /\ UNCHANGED links
  /\ UNCHANGED <<userVars, awaits, client, tokens, connection, generation, slotVars, configured, joined>>

\* handleCallback up to the exchange: not configured, denied, no code, a state
\* that is forged or expired; any number of callbacks may bring the same state.
Verify(u) ==
  /\ place[u] = "verify"
  /\ \/ Close(u, "refused")
     \/ configured /\ link[u] \in links /\ Move(u, "exchange") /\ UNCHANGED said
  /\ UNCHANGED <<userVars, awaits, client, links, tokens, connection, generation, slotVars, configured, joined>>

\* exchangeTikTokAuthorizationCode: eight seconds; TikTok may have spent the code
\* although no answer arrived.
Exchange(u) ==
  /\ place[u] = "exchange"
  /\ \/ tokens' = tokens \cup {u} /\ Move(u, "schema") /\ UNCHANGED said
     \/ tokens' = tokens \cup {u} /\ Close(u, "tiktok_timeout")
     \/ UNCHANGED tokens /\ Close(u, "tiktok_error")
  /\ UNCHANGED <<userVars, awaits, client, links, connection, generation, slotVars, configured, joined>>

\* runOncePerDbClient: the promise of this client's attempt, or a new attempt.
EnterSchema(u) ==
  /\ place[u] = "schema"
  /\ Move(u, "await")
  /\ joined' = [joined EXCEPT ![u] = generation]
  /\ IF slot.attempt # 0 /\ slot.gen = generation
     THEN awaits' = [awaits EXCEPT ![u] = slot.attempt] /\ UNCHANGED slotVars
     ELSE /\ Len(attempts) < MaxAttempts
          /\ attempts' = Append(attempts, [gen |-> generation, state |-> "pending"])
          /\ slot' = [attempt |-> Len(attempts) + 1, gen |-> generation]
          /\ awaits' = [awaits EXCEPT ![u] = Len(attempts) + 1]
  /\ UNCHANGED <<userVars, client, said, links, tokens, connection, generation, configured>>

\* Mutant: a failure clears the slot, whichever attempt it holds.
SettleClearsAll(a) ==
  /\ attempts[a].state = "pending"
  /\ \/ attempts' = [attempts EXCEPT ![a].state = "ready"] /\ UNCHANGED slot
     \/ /\ attempts' = [attempts EXCEPT ![a].state = "failed"]
        /\ slot' = [attempt |-> 0, gen |-> 0]
  /\ UNCHANGED <<userVars, place, awaits, client, said, links, tokens, connection, generation,
                 configured, joined>>

\* The statements of an attempt end; a failure gives the slot up if it still is of
\* that generation.  An attempt whose client hangs may never settle.
Settle(a) ==
  /\ attempts[a].state = "pending"
  /\ \/ attempts' = [attempts EXCEPT ![a].state = "ready"] /\ UNCHANGED slot
     \/ /\ attempts' = [attempts EXCEPT ![a].state = "failed"]
        /\ slot' = IF slot.gen = attempts[a].gen THEN [attempt |-> 0, gen |-> 0] ELSE slot
  /\ UNCHANGED <<userVars, place, awaits, client, said, links, tokens, connection, generation,
                 configured, joined>>

\* The awaited promise settles: on with the present client, or the error.
Awaited(u) ==
  /\ place[u] = "await"
  /\ \/ /\ attempts[awaits[u]].state = "ready"
        /\ Move(u, "statement") /\ client' = [client EXCEPT ![u] = generation]
        /\ UNCHANGED said
     \/ /\ attempts[awaits[u]].state = "failed"
        /\ Close(u, "error") /\ UNCHANGED client
  /\ awaits' = [awaits EXCEPT ![u] = 0] /\ joined' = [joined EXCEPT ![u] = 0]
  /\ UNCHANGED <<userVars, links, tokens, connection, generation, slotVars, configured>>

\* Mutant: the revoked row keeps its token_ref.
ChangeKeepsToken(u) ==
  /\ place[u] = "statement"
  /\ CASE does[u] = "callback" -> /\ connection' = [status |-> "connected", token |-> u]
                                  /\ Close(u, "ok")
       [] does[u] = "disconnect" /\ connection.status # "none" ->
            connection' = [connection EXCEPT !.status = "revoked"] /\ Close(u, "ok")
       [] does[u] = "disconnect" /\ connection.status = "none" ->
            UNCHANGED connection /\ Close(u, IF configured THEN "not_connected" ELSE "not_configured")
       [] does[u] = "list" -> UNCHANGED connection /\ Close(u, connection.status)
  /\ UNCHANGED <<userVars, awaits, client, links, tokens, generation, slotVars, configured, joined>>

\* upsertConnectedProvider, revokeProviderConnection, listProviderConnections.  A
\* statement of a dropped client still lands if it was in flight.
Change(u) ==
  /\ place[u] = "statement"
  /\ CASE does[u] = "callback" -> /\ connection' = [status |-> "connected", token |-> u]
                                  /\ Close(u, "ok")
       [] does[u] = "disconnect" /\ connection.status # "none" ->
            connection' = [status |-> "revoked", token |-> NoToken] /\ Close(u, "ok")
       [] does[u] = "disconnect" /\ connection.status = "none" ->
            UNCHANGED connection /\ Close(u, IF configured THEN "not_connected" ELSE "not_configured")
       [] does[u] = "list" -> UNCHANGED connection /\ Close(u, connection.status)
  /\ UNCHANGED <<userVars, awaits, client, links, tokens, generation, slotVars, configured, joined>>

\* The client was ended under the statement.
Severed(u) ==
  /\ place[u] = "statement" /\ client[u] # generation
  /\ Close(u, "error")
  /\ UNCHANGED <<userVars, awaits, client, links, tokens, connection, generation, slotVars, configured, joined>>

\* PROVIDER_OAUTH_TIMEOUT_MS, or the timeout of any other route of the isolate.
DropClient ==
  /\ generation < MaxResets /\ generation' = generation + 1
  /\ \/ \E u \in Going : place[u] \in {"schema", "await", "statement"} /\ Inform(u, "timeout")
     \/ UNCHANGED said
  /\ UNCHANGED <<userVars, place, awaits, client, links, tokens, connection, slotVars, configured, joined>>

\* Ten minutes pass, or the deployment's environment changes.
Elsewhere ==
  /\ \/ \E u \in links : links' = links \ {u} /\ UNCHANGED configured
     \/ configured /\ configured' = FALSE /\ UNCHANGED links
  /\ UNCHANGED <<userVars, place, awaits, client, said, tokens, connection, generation, slotVars, joined>>

ProviderNext ==
  \/ \E u \in Users :
       \/ \E what \in Does[u], state \in Users \cup {Signed} : Visit(u, what, state)
       \/ Sign(u) \/ Verify(u) \/ Exchange(u)
       \/ EnterSchema(u) \/ Awaited(u) \/ Change(u) \/ Severed(u)
  \/ \E a \in DOMAIN attempts : Settle(a)
  \/ DropClient
  \/ Elsewhere

ProviderSpec == ProviderInit /\ [][ProviderNext]_providerVars

-----------------------------------------------------------------------------
ProviderTypeOK ==
  /\ connection \in [status : {"connected"}, token : Users]
                    \cup [status : {"none", "revoked"}, token : {NoToken}]
  /\ slot.attempt \in 0..Len(attempts) /\ tokens \subseteq Users

\* "A hung first attempt must not pin a forever-pending promise after resetDbClient()"
\* (lib/db.ts:81): nobody joins an attempt of an earlier client, and a client's schema is
\* run again only after its attempt failed -- although an old attempt may settle late,
\* while a newer one holds the slot.
SchemaOncePerClient ==
  /\ \A u \in Users : awaits[u] # 0 => attempts[awaits[u]].gen = joined[u]
  /\ \A a, b \in DOMAIN attempts :
       (a < b /\ attempts[a].gen = attempts[b].gen) => attempts[a].state = "failed"

\* A disconnect that was confirmed leaves no token, and only a callback that had not
\* ended when the disconnect began connects again.  A connected row holds a token TikTok
\* granted; a caller told "ok" by a callback was connected, until a later callback or an
\* unfinished disconnect.
DisconnectSticksUnlessOverlapped ==
  /\ \A d \in Users : does[d] = "disconnect" /\ said[d] = "ok" /\ connection.status = "connected" =>
       connection.token \notin over[d]
  /\ connection.status = "connected" <=> connection.token # NoToken
  /\ connection.token # NoToken => connection.token \in tokens
  /\ \A c \in Users : does[c] = "callback" /\ said[c] = "ok" =>
       \/ connection.token = c
       \/ \E d \in Users : does[d] = "disconnect" /\ d \notin over[c] /\ place[d] = "done"
       \/ connection.token \in tokens \ over[c]
=============================================================================
