---------------------------- MODULE OAuthBridge ----------------------------
(***************************************************************************)
(* The OAuth bridge the GPT signs its users in with (lib/oauthBridge.ts):  *)
(* POST /api/oauth/approve issues a code, POST /oauth/token exchanges it   *)
(* for a pair of tokens and rotates the pair, and every protected route    *)
(* looks its bearer token up (currentOAuthUser).                           *)
(*                                                                         *)
(* Each of them awaits the schema promise of its isolate and then runs one *)
(* statement after another, without a transaction and without a guard in   *)
(* the updates.  The promise is kept whatever became of it: an isolate     *)
(* whose schema statements failed once recognises no token until it is     *)
(* recycled.  Codes and tokens are named by the request that issued them.  *)
(***************************************************************************)
EXTENDS Naturals, FiniteSets

CONSTANTS Visits,      \* requests that reach the bridge
          Sites,       \* isolates
          SiteOf,      \* the isolate a request runs in
          Clients,     \* configuredOAuthClients
          Grants,      \* bound: what each request may ask for
          MaxLosses    \* bound: statements rejected and isolates killed

ASSUME BridgeAssumption ==
  /\ SiteOf \in [Visits -> Sites] /\ MaxLosses \in Nat /\ Clients # {} /\ "none" \notin Clients
  /\ \A v \in Visits : Grants[v] \subseteq {"approve", "exchange", "refresh", "bearer"}

VARIABLES asks,      \* what a request asks for
          shows,     \* the code or token it presents, by its issuer
          as,        \* the client it authenticated as
          stage,     \* the statement it is at
          reply,     \* what its caller was told
          schema,    \* oauthSchemaReady of an isolate
          codes,     \* rmf_oauth_codes
          pairs,     \* rmf_oauth_tokens
          earlier,   \* history: requests that had ended when this one began
          broke,     \* history: the stage at which a request failed
          losses

visitVars == <<asks, shows, as, earlier>>
bridgeVars == <<visitVars, stage, reply, schema, codes, pairs, broke, losses>>

NoCode == [client |-> "none", used |-> FALSE, expired |-> FALSE]
NoPair == [client |-> "none", code |-> "none", revoked |-> FALSE, expired |-> FALSE]
Issued(v) == pairs[v] # NoPair
Inside == {v \in Visits : stage[v] \notin {"idle", "done"}}

BridgeInit ==
  /\ asks = [v \in Visits |-> "none"] /\ shows = [v \in Visits |-> v]
  /\ as = [v \in Visits |-> "none"]
  /\ stage = [v \in Visits |-> "idle"]
  /\ reply = [v \in Visits |-> "none"]
  /\ schema = [i \in Sites |-> "none"]
  /\ codes = [v \in Visits |-> NoCode]
  /\ pairs = [v \in Visits |-> NoPair]
  /\ earlier = [v \in Visits |-> {}]
  /\ broke = [v \in Visits |-> "no"] /\ losses = 0

Enter(v, s) == stage' = [stage EXCEPT ![v] = s]
Leave(v, what) == Enter(v, "done") /\ reply' = [reply EXCEPT ![v] = what]

\* The request passed its route's own checks: the client's secret, or for an
\* approval the signed-in user and a client with that redirect.  It presents what
\* was handed out, to a client that may be another one than it was issued to.
Arrive(v, what, token, client) ==
  /\ stage[v] = "idle"
  /\ CASE what = "approve" -> token = v
       [] what = "exchange" -> reply[token] = "ok" /\ codes[token] # NoCode
       [] what \in {"refresh", "bearer"} -> reply[token] = "ok" /\ Issued(token)
  /\ what = "bearer" => client = pairs[token].client
  /\ asks' = [asks EXCEPT ![v] = what]
  /\ shows' = [shows EXCEPT ![v] = token]
  /\ as' = [as EXCEPT ![v] = client]
  /\ earlier' = [earlier EXCEPT ![v] = {w \in Visits : stage[w] = "done"}]
  /\ Enter(v, "schema")
  /\ UNCHANGED <<reply, schema, codes, pairs, broke, losses>>

\* ensureOAuthSchema: the first request of an isolate starts the statements, the
\* others await the same promise.
StartSchema(v) ==
  /\ stage[v] = "schema" /\ schema[SiteOf[v]] = "none"
  /\ schema' = [schema EXCEPT ![SiteOf[v]] = "pending"]
  /\ UNCHANGED <<visitVars, stage, reply, codes, pairs, broke, losses>>

SettleSchema(i) ==
  /\ schema[i] = "pending"
  /\ \/ schema' = [schema EXCEPT ![i] = "ready"] /\ UNCHANGED losses
     \/ /\ losses < MaxLosses /\ losses' = losses + 1
        /\ schema' = [schema EXCEPT ![i] = "rejected"]
  /\ UNCHANGED <<visitVars, stage, reply, codes, pairs, broke>>

\* What a request that throws is told: currentOAuthUser swallows the error and
\* asks Supabase, which does not know the bridge's tokens.
Thrown(v) == IF asks[v] = "bearer" THEN "unknown" ELSE "error"

AwaitSchema(v) ==
  /\ stage[v] = "schema"
  /\ \/ /\ schema[SiteOf[v]] = "ready"
        /\ Enter(v, IF asks[v] = "approve" THEN "insert" ELSE "select")
        /\ UNCHANGED <<reply, broke>>
     \/ /\ schema[SiteOf[v]] = "rejected"
        /\ Leave(v, Thrown(v))
        /\ broke' = [broke EXCEPT ![v] = "schema"]
  /\ UNCHANGED <<visitVars, schema, codes, pairs, losses>>

\* Mutant: the comparison with now() the wrong way round.
FoundReversed(v) ==
  LET c == codes[shows[v]]  p == pairs[shows[v]] IN
  CASE asks[v] = "exchange" -> c.client = as[v] /\ ~c.used /\ ~c.expired
    [] asks[v] = "refresh" -> p.client = as[v] /\ ~p.revoked
    [] asks[v] = "bearer" -> ~p.revoked /\ p.expired

\* Mutant: the row is found although it was used or revoked.
FoundSpent(v) ==
  LET c == codes[shows[v]]  p == pairs[shows[v]] IN
  CASE asks[v] = "exchange" -> c.client = as[v] /\ ~c.expired
    [] asks[v] = "refresh" -> p.client = as[v]
    [] asks[v] = "bearer" -> ~p.revoked /\ ~p.expired

\* The where clauses of the three selects; a refresh does not ask for expires_at.
Found(v) ==
  LET c == codes[shows[v]]  p == pairs[shows[v]] IN
  CASE asks[v] = "exchange" -> c.client = as[v] /\ ~c.used /\ ~c.expired
    [] asks[v] = "refresh" -> p.client = as[v] /\ ~p.revoked
    [] asks[v] = "bearer" -> ~p.revoked /\ ~p.expired

\* Mutant: the code is marked and not looked at (no select).
SelectMarks(v) ==
  /\ stage[v] = "select"
  /\ CASE asks[v] = "bearer" -> Leave(v, IF Found(v) THEN "user" ELSE "unknown")
       [] asks[v] # "bearer" /\ Found(v) -> Enter(v, "spend") /\ UNCHANGED reply
       [] asks[v] # "bearer" /\ ~Found(v) -> Leave(v, "invalid_grant")
  /\ codes' = IF asks[v] = "exchange" THEN [codes EXCEPT ![shows[v]].used = TRUE] ELSE codes
  /\ UNCHANGED <<visitVars, schema, pairs, broke, losses>>

Select(v) ==
  /\ stage[v] = "select"
  /\ CASE asks[v] = "bearer" -> Leave(v, IF Found(v) THEN "user" ELSE "unknown")
       [] asks[v] # "bearer" /\ Found(v) -> Enter(v, "spend") /\ UNCHANGED reply
       [] asks[v] # "bearer" /\ ~Found(v) -> Leave(v, "invalid_grant")
  /\ UNCHANGED <<visitVars, schema, codes, pairs, broke, losses>>

\* update ... set used_at, update ... set revoked_at: whatever the row says by now.
SpendGrant(v) ==
  /\ stage[v] = "spend"
  /\ IF asks[v] = "exchange"
     THEN codes' = [codes EXCEPT ![shows[v]].used = TRUE] /\ UNCHANGED pairs
     ELSE pairs' = [pairs EXCEPT ![shows[v]].revoked = TRUE] /\ UNCHANGED codes
  /\ Enter(v, "insert")
  /\ UNCHANGED <<visitVars, reply, schema, broke, losses>>

\* insert into rmf_oauth_codes, or into rmf_oauth_tokens; the sign-up credits of
\* an exchange come after it, and their failure is ignored.
Issue(v) ==
  /\ stage[v] = "insert"
  /\ CASE asks[v] = "approve" ->
            /\ codes' = [codes EXCEPT ![v] = [client |-> as[v], used |-> FALSE, expired |-> FALSE]]
            /\ UNCHANGED pairs
       [] asks[v] # "approve" ->
            /\ pairs' = [pairs EXCEPT ![v] =
                 [client |-> as[v], revoked |-> FALSE, expired |-> FALSE,
                  code |-> IF asks[v] = "exchange" THEN shows[v] ELSE pairs[shows[v]].code]]
            /\ UNCHANGED codes
  /\ Enter(v, "reply")
  /\ UNCHANGED <<visitVars, reply, schema, broke, losses>>

Respond(v) ==
  /\ stage[v] = "reply" /\ Leave(v, "ok")
  /\ UNCHANGED <<visitVars, schema, codes, pairs, broke, losses>>

\* A statement is rejected, or the isolate ends: a request stops where it is.
Break(v) ==
  /\ stage[v] \in {"select", "spend", "insert", "reply"}
  /\ losses < MaxLosses /\ losses' = losses + 1
  /\ Leave(v, Thrown(v))
  /\ broke' = [broke EXCEPT ![v] = stage[v]]
  /\ UNCHANGED <<visitVars, schema, codes, pairs>>

\* The platform recycles an idle isolate: its promise is gone.
Recycle(i) ==
  /\ schema[i] \in {"ready", "rejected"} /\ \A v \in Inside : SiteOf[v] # i
  /\ schema' = [schema EXCEPT ![i] = "none"]
  /\ UNCHANGED <<visitVars, stage, reply, codes, pairs, broke, losses>>

\* Ten minutes for a code, a day for an access token.
Expire(v) ==
  /\ \/ codes[v] # NoCode /\ ~codes[v].expired
        /\ codes' = [codes EXCEPT ![v].expired = TRUE] /\ UNCHANGED pairs
     \/ Issued(v) /\ ~pairs[v].expired
        /\ pairs' = [pairs EXCEPT ![v].expired = TRUE] /\ UNCHANGED codes
  /\ UNCHANGED <<visitVars, stage, reply, schema, broke, losses>>

BridgeNext ==
  \/ \E v \in Visits :
       \/ \E what \in Grants[v], token \in Visits, client \in Clients : Arrive(v, what, token, client)
       \/ StartSchema(v) \/ AwaitSchema(v)
       \/ Select(v) \/ SpendGrant(v) \/ Issue(v) \/ Respond(v)
       \/ Break(v) \/ Expire(v)
  \/ \E i \in Sites : SettleSchema(i) \/ Recycle(i)

BridgeSpec == BridgeInit /\ [][BridgeNext]_bridgeVars

-----------------------------------------------------------------------------
BridgeTypeOK ==
  \A v \in Visits :
    /\ codes[v] \in [client : Clients \cup {"none"}, used : BOOLEAN, expired : BOOLEAN]
    /\ pairs[v] \in [client : Clients \cup {"none"}, code : Visits \cup {"none"},
                     revoked : BOOLEAN, expired : BOOLEAN]

Together(v, w) == v \notin earlier[w] /\ w \notin earlier[v]
Exchanged(v) == Issued(v) /\ asks[v] = "exchange"
Refreshed(v) == Issued(v) /\ asks[v] = "refresh"

\* A code or a refresh token buys one pair of tokens, for the client it was issued
\* to; two requests get a pair each for the same one only if they overlapped (the
\* select and the update are two statements).
SpentOnceUnlessOverlapped ==
  \A v, w \in Visits :
    /\ Exchanged(v) => codes[shows[v]].used /\ codes[shows[v]].client = pairs[v].client
    /\ Refreshed(v) => pairs[shows[v]].revoked /\ pairs[shows[v]].client = pairs[v].client
    /\ (v # w /\ shows[v] = shows[w]
        /\ ((Exchanged(v) /\ Exchanged(w)) \/ (Refreshed(v) /\ Refreshed(w)))) => Together(v, w)

\* A grant is spent without a successor only by a request that broke off between the
\* two statements, or is between them now: nothing else can sign a user out.
LostOnlyByBreaking ==
  \A v \in Visits :
    LET spenders(what) == {w \in Visits : asks[w] = what /\ shows[w] = v
                             /\ (stage[w] = "insert" \/ Issued(w) \/ broke[w] = "insert")}
    IN /\ codes[v].used => spenders("exchange") # {}
       /\ pairs[v].revoked => spenders("refresh") # {}

\* currentOAuthUser knows a token that is valid, and after a completed refresh it does
\* not know the old one -- unless the lookup broke, or a schema attempt of the isolate
\* had failed, however long ago: that promise is kept.
BearersAreRecognised ==
  \A v \in Visits : asks[v] = "bearer" =>
    LET p == pairs[shows[v]] IN
    /\ reply[v] = "unknown" => p.revoked \/ p.expired \/ broke[v] # "no"
    /\ reply[v] = "user" =>
         \A w \in earlier[v] : ~(Refreshed(w) /\ shows[w] = shows[v])
=============================================================================
