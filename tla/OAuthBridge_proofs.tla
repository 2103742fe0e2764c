------------------------ MODULE OAuthBridge_proofs -------------------------
(***************************************************************************)
(* Theorems about OAuthBridge, for every set of requests, isolates and     *)
(* clients and any number of failures.  And about AccountLearning: what is *)
(* erased, written and recommended for an account, for any number of       *)
(* requests and keys.                                                      *)
(***************************************************************************)
EXTENDS OAuthBridge, AccountLearning, FiniteSetTheorems, SequenceTheorems, TLAPS

-----------------------------------------------------------------------------
(* The inductive invariant. *)

Code == [client : Clients \cup {"none"}, used : BOOLEAN, expired : BOOLEAN]
Pair == [client : Clients \cup {"none"}, code : Visits \cup {"none"},
         revoked : BOOLEAN, expired : BOOLEAN]

Types ==
  /\ asks \in [Visits -> {"none", "approve", "exchange", "refresh", "bearer"}]
  /\ shows \in [Visits -> Visits]
  /\ as \in [Visits -> Clients \cup {"none"}]
  /\ stage \in [Visits -> {"idle", "schema", "select", "spend", "insert", "reply", "done"}]
  /\ reply \in [Visits -> {"none", "ok", "user", "unknown", "invalid_grant", "error"}]
  /\ schema \in [Sites -> {"none", "pending", "ready", "rejected"}]
  /\ codes \in [Visits -> Code]
  /\ pairs \in [Visits -> Pair]
  /\ earlier \in [Visits -> SUBSET Visits]
  /\ broke \in [Visits -> {"no", "schema", "select", "spend", "insert", "reply"}]
  /\ losses \in Nat

\* What a request has done by the stage it is at: nothing at first, and nothing is
\* issued before its insert.  A bearer look-up never gets past its select.
StagedAt(v) ==
  /\ stage[v] = "idle" => asks[v] = "none"
  /\ stage[v] # "idle" => asks[v] # "none" /\ as[v] \in Clients
  /\ stage[v] \notin {"reply", "done"} => codes[v] = NoCode /\ pairs[v] = NoPair
  /\ stage[v] # "done" => reply[v] = "none" /\ broke[v] = "no"
  /\ stage[v] = "select" => asks[v] \in {"exchange", "refresh", "bearer"}
  /\ stage[v] = "spend" => asks[v] \in {"exchange", "refresh"}
  /\ stage[v] \in {"insert", "reply"} => asks[v] \in {"approve", "exchange", "refresh"}
  /\ pairs[v] # NoPair => asks[v] \in {"exchange", "refresh"} /\ pairs[v].client = as[v]
  /\ codes[v] # NoCode => codes[v].client \in Clients
Staged == \A v \in Visits : StagedAt(v)

\* What was presented had been handed out.
Presented ==
  \A v \in Visits :
    /\ asks[v] = "exchange" => codes[shows[v]] # NoCode
    /\ asks[v] \in {"refresh", "bearer"} => pairs[shows[v]] # NoPair
    /\ \A w \in earlier[v] : stage[w] = "done"

\* A request past its select has a grant of its own client, past its update a spent one.
Spending(v) == stage[v] = "insert" \/ Issued(v)
GrantedAt(v) ==
  /\ asks[v] = "exchange" /\ (stage[v] = "spend" \/ Spending(v)) => codes[shows[v]].client = as[v]
  /\ asks[v] = "refresh" /\ (stage[v] = "spend" \/ Spending(v)) => pairs[shows[v]].client = as[v]
  /\ asks[v] = "exchange" /\ Spending(v) => codes[shows[v]].used
  /\ asks[v] = "refresh" /\ Spending(v) => pairs[shows[v]].revoked
Granted == \A v \in Visits : GrantedAt(v)

\* A request that arrived after the same grant had bought a pair does not get past its
\* select.
Refused ==
  \A v, w \in Visits :
    v \in earlier[w] /\ shows[v] = shows[w] /\ Issued(v) /\ asks[v] = asks[w]
      => stage[w] \notin {"spend", "insert", "reply"} /\ ~Issued(w)

\* A spent grant has its spender (LostOnlyByBreaking with the set spelled out).
Spender(what, w, v) ==
  asks[w] = what /\ shows[w] = v /\ (stage[w] = "insert" \/ Issued(w) \/ broke[w] = "insert")
Spent ==
  \A v \in Visits :
    /\ codes[v].used => \E w \in Visits : Spender("exchange", w, v)
    /\ pairs[v].revoked => \E w \in Visits : Spender("refresh", w, v)

IInv ==
  /\ Types
  /\ Staged
  /\ Presented
  /\ Granted
  /\ Refused
  /\ Spent
  /\ BearersAreRecognised

-----------------------------------------------------------------------------
(* Each action preserves it. *)

\* A record with a client of the configuration is a row that is there.
LEMMA RowFacts ==
  ASSUME NEW c \in Code, NEW p \in Pair
  PROVE  /\ c.client \in Clients => c # NoCode
         /\ p.client \in Clients => p # NoPair
         /\ NoCode \in Code /\ NoPair \in Pair
         /\ ~NoCode.used /\ ~NoPair.revoked
  BY BridgeAssumption DEF Code, Pair, NoCode, NoPair

\* The initial states satisfy it.
LEMMA Initially == BridgeInit => IInv
  <1> SUFFICES ASSUME BridgeInit PROVE IInv
    OBVIOUS
  <1>1. Types
    BY BridgeAssumption DEF BridgeInit, Types, Code, Pair, NoCode, NoPair
  <1>2. Staged /\ Presented /\ Refused
    BY DEF BridgeInit, Staged, StagedAt, Presented, Refused, Issued
  <1>3. Granted /\ BearersAreRecognised
    BY DEF BridgeInit, Granted, GrantedAt, BearersAreRecognised
  <1>4. Spent
    BY DEF BridgeInit, Spent, NoCode, NoPair
  <1> QED BY <1>1, <1>2, <1>3, <1>4 DEF IInv

\* What a step leaves of the rows that are there: their client, and the marks they bear.
KeptRows ==
  \A x \in Visits :
    /\ codes'[x].client = codes[x].client /\ pairs'[x].client = pairs[x].client
    /\ codes'[x] = NoCode <=> codes[x] = NoCode
    /\ pairs'[x] = NoPair <=> pairs[x] = NoPair
    /\ codes[x].used => codes'[x].used
    /\ pairs[x].revoked => pairs'[x].revoked
    /\ pairs[x].expired => pairs'[x].expired

\* A step that moves no request, spends nothing and keeps the rows (the schema
\* promise, the clock).
LEMMA QuietStep ==
  ASSUME IInv, Types', KeptRows,
         UNCHANGED <<asks, shows, as, earlier, stage, reply, broke>>,
         \A x \in Visits : codes'[x].used = codes[x].used /\ pairs'[x].revoked = pairs[x].revoked
  PROVE  IInv'
  <1>0. /\ asks' = asks /\ shows' = shows /\ as' = as /\ earlier' = earlier
        /\ stage' = stage /\ reply' = reply /\ broke' = broke
        /\ \A x \in Visits : shows[x] \in Visits
    BY DEF IInv, Types
  <1>1. Staged'
    <2> SUFFICES ASSUME NEW x \in Visits PROVE StagedAt(x)'
      BY DEF Staged
    <2>1. /\ codes'[x] = NoCode <=> codes[x] = NoCode
          /\ pairs'[x] = NoPair <=> pairs[x] = NoPair
          /\ codes'[x].client = codes[x].client /\ pairs'[x].client = pairs[x].client
      BY DEF KeptRows
    <2>2. StagedAt(x)
      BY DEF IInv, Staged
    <2> QED BY <1>0, <2>1, <2>2 DEF StagedAt
  <1>2. Presented'
    BY DEF IInv, Types, Presented, KeptRows
  <1>3. \A x \in Visits : Issued(x)' <=> Issued(x)
    BY DEF Issued, KeptRows
  <1>4. Granted'
    <2> SUFFICES ASSUME NEW x \in Visits PROVE GrantedAt(x)'
      BY DEF Granted
    <2>1. (Spending(x)' <=> Spending(x)) /\ shows[x] \in Visits
      BY <1>0, <1>3 DEF Spending
    <2>2. /\ codes'[shows[x]].client = codes[shows[x]].client
          /\ pairs'[shows[x]].client = pairs[shows[x]].client
          /\ codes[shows[x]].used => codes'[shows[x]].used
          /\ pairs[shows[x]].revoked => pairs'[shows[x]].revoked
      BY <2>1 DEF KeptRows
    <2> QED BY <1>0, <2>1, <2>2 DEF IInv, Granted, GrantedAt
  <1>5. Refused'
    BY <1>0, <1>3 DEF IInv, Refused
  <1>6. Spent'
    <2>1. \A x, w \in Visits, a \in {"exchange", "refresh"} : Spender(a, w, x)' <=> Spender(a, w, x)
      BY <1>0, <1>3 DEF Spender
    <2>2. \A x \in Visits : codes'[x].used => \E w \in Visits : Spender("exchange", w, x)'
      BY <2>1 DEF IInv, Spent
    <2>3. \A x \in Visits : pairs'[x].revoked => \E w \in Visits : Spender("refresh", w, x)'
      BY <2>1 DEF IInv, Spent
    <2> QED BY <2>2, <2>3 DEF Spent
  <1>7. BearersAreRecognised'
    <2> SUFFICES ASSUME NEW x \in Visits, asks[x] = "bearer"
                 PROVE  /\ reply'[x] = "unknown" =>
                             pairs'[shows[x]].revoked \/ pairs'[shows[x]].expired \/ broke'[x] # "no"
                        /\ reply'[x] = "user" =>
                             \A w \in earlier[x] : ~(Refreshed(w)' /\ shows[w] = shows[x])
      BY <1>0 DEF BearersAreRecognised
    <2>1. earlier[x] \subseteq Visits
      BY DEF IInv, Types
    <2>2. \A w \in Visits : Refreshed(w)' <=> Refreshed(w)
      BY <1>0, <1>3 DEF Refreshed
    <2>3. /\ pairs[shows[x]].revoked => pairs'[shows[x]].revoked
          /\ pairs[shows[x]].expired => pairs'[shows[x]].expired
      BY <1>0 DEF KeptRows
    <2> QED BY <1>0, <2>1, <2>2, <2>3 DEF IInv, BearersAreRecognised
  <1> QED BY <1>1, <1>2, <1>4, <1>5, <1>6, <1>7 DEF IInv

\* A request moves on: what it may do at its own stage, and the rows it may mark.
LEMMA MoveStep ==
  ASSUME IInv, Types', KeptRows, NEW v \in Visits,
         UNCHANGED <<asks, shows, as, earlier>>,
         stage[v] \notin {"idle", "done"}, stage'[v] \notin {"idle", "reply"},
         \A w \in Visits : w # v => /\ stage'[w] = stage[w] /\ reply'[w] = reply[w]
                                    /\ broke'[w] = broke[w],
         stage'[v] # "done" =>
           /\ reply'[v] = "none" /\ broke'[v] = "no"
           /\ codes[v] = NoCode /\ pairs[v] = NoPair,
         stage'[v] = "schema" => stage[v] = "schema",
         stage'[v] = "select" => asks[v] \in {"exchange", "refresh", "bearer"},
         stage'[v] = "spend" =>
           \/ asks[v] = "exchange" /\ codes[shows[v]].client = as[v] /\ ~codes[shows[v]].used
           \/ asks[v] = "refresh" /\ pairs[shows[v]].client = as[v] /\ ~pairs[shows[v]].revoked,
         stage'[v] = "insert" =>
           \/ asks[v] = "approve"
           \/ asks[v] = "exchange" /\ stage[v] = "spend" /\ codes'[shows[v]].used
           \/ asks[v] = "refresh" /\ stage[v] = "spend" /\ pairs'[shows[v]].revoked,
         stage[v] = "insert" => broke'[v] = "insert",
         \A x \in Visits :
           /\ codes'[x].used => \/ codes[x].used
                                \/ asks[v] = "exchange" /\ shows[v] = x /\ stage'[v] = "insert"
           /\ pairs'[x].revoked => \/ pairs[x].revoked
                                   \/ asks[v] = "refresh" /\ shows[v] = x /\ stage'[v] = "insert",
         asks[v] = "bearer" =>
           /\ reply'[v] = "unknown" =>
                pairs[shows[v]].revoked \/ pairs[shows[v]].expired \/ broke'[v] # "no"
           /\ reply'[v] = "user" => ~pairs[shows[v]].revoked
  PROVE  IInv'
  <1>0. /\ asks' = asks /\ shows' = shows /\ as' = as /\ earlier' = earlier
        /\ \A x \in Visits : shows[x] \in Visits /\ earlier[x] \subseteq Visits
    BY DEF IInv, Types
  <1>1. Staged'
    <2> SUFFICES ASSUME NEW x \in Visits PROVE StagedAt(x)'
      BY DEF Staged
    <2>1. /\ codes'[x] = NoCode <=> codes[x] = NoCode
          /\ pairs'[x] = NoPair <=> pairs[x] = NoPair
          /\ codes'[x].client = codes[x].client /\ pairs'[x].client = pairs[x].client
      BY DEF KeptRows
    <2>2. StagedAt(x)
      BY DEF IInv, Staged
    <2>3. CASE x # v
      <3>1. stage'[x] = stage[x] /\ reply'[x] = reply[x] /\ broke'[x] = broke[x]
        BY <2>3
      <3> QED BY <1>0, <2>1, <2>2, <3>1 DEF StagedAt
    <2>4. CASE x = v
      BY <1>0, <2>1, <2>2, <2>4 DEF StagedAt
    <2> QED BY <2>3, <2>4
  <1>2. Presented'
    <2>1. \A x \in Visits : stage[x] = "done" => stage'[x] = "done"
      OBVIOUS
    <2> QED BY <1>0, <2>1 DEF IInv, Presented, KeptRows
  <1>3. \A x \in Visits : Issued(x)' <=> Issued(x)
    BY DEF Issued, KeptRows
  <1>4. Granted'
    <2> SUFFICES ASSUME NEW x \in Visits PROVE GrantedAt(x)'
      BY DEF Granted
    <2>1. CASE x # v
      <3>1. stage'[x] = stage[x] /\ (Spending(x)' <=> Spending(x))
        BY <2>1, <1>3 DEF Spending
      <3>2. /\ codes'[shows[x]].client = codes[shows[x]].client
            /\ pairs'[shows[x]].client = pairs[shows[x]].client
            /\ codes[shows[x]].used => codes'[shows[x]].used
            /\ pairs[shows[x]].revoked => pairs'[shows[x]].revoked
        BY <1>0 DEF KeptRows
      <3>3. GrantedAt(x)
        BY DEF IInv, Granted
      <3>4. /\ asks'[x] = asks[x] /\ as'[x] = as[x] /\ shows'[x] = shows[x]
            /\ (stage'[x] = "spend" \/ Spending(x)') <=> (stage[x] = "spend" \/ Spending(x))
        BY <1>0, <3>1
      <3>5. CASE asks[x] = "exchange"
        BY <3>1, <3>2, <3>3, <3>4, <3>5 DEF GrantedAt
      <3>6. CASE asks[x] = "refresh"
        BY <3>1, <3>2, <3>3, <3>4, <3>6 DEF GrantedAt
      <3>7. CASE asks[x] \notin {"exchange", "refresh"}
        BY <3>4, <3>7 DEF GrantedAt
      <3> QED BY <3>5, <3>6, <3>7
    <2>2. CASE x = v
      <3>1. GrantedAt(x)
        BY DEF IInv, Granted
      <3>2. /\ codes'[shows[x]].client = codes[shows[x]].client
            /\ pairs'[shows[x]].client = pairs[shows[x]].client
            /\ codes[shows[x]].used => codes'[shows[x]].used
            /\ pairs[shows[x]].revoked => pairs'[shows[x]].revoked
        BY <1>0 DEF KeptRows
      <3>3. stage[x] # "reply" => ~Issued(x)
        BY <2>2 DEF IInv, Staged, StagedAt, Issued
      <3>4. Issued(x)' => Spending(x)
        BY <1>3 DEF Spending
      <3>5. /\ stage'[x] = "spend" /\ asks[x] = "exchange" => codes[shows[x]].client = as[x]
            /\ stage'[x] = "spend" /\ asks[x] = "refresh" => pairs[shows[x]].client = as[x]
            /\ stage'[x] = "insert" /\ asks[x] = "exchange" =>
                 codes[shows[x]].client = as[x] /\ codes'[shows[x]].used
            /\ stage'[x] = "insert" /\ asks[x] = "refresh" =>
                 pairs[shows[x]].client = as[x] /\ pairs'[shows[x]].revoked
        BY <2>2, <3>1 DEF GrantedAt
      <3>6. asks'[x] = asks[x] /\ shows'[x] = shows[x] /\ as'[x] = as[x]
        BY <1>0
      <3>7. (Spending(x)' => stage'[x] = "insert" \/ Spending(x))
        BY <3>4 DEF Spending
      <3> QED BY <3>1, <3>2, <3>5, <3>6, <3>7 DEF GrantedAt
    <2> QED BY <2>1, <2>2
  <1>5. Refused'
    <2> SUFFICES ASSUME NEW x \in Visits, NEW w \in Visits,
                        x \in earlier[w], shows[x] = shows[w], Issued(x), asks[x] = asks[w]
                 PROVE  stage'[w] \notin {"spend", "insert", "reply"} /\ ~Issued(w)
      BY <1>3 DEF Refused
    <2>1. stage[w] \notin {"spend", "insert", "reply"} /\ ~Issued(w)
      BY DEF IInv, Refused
    <2>2. \/ asks[x] = "exchange" /\ codes[shows[x]].used
          \/ asks[x] = "refresh" /\ pairs[shows[x]].revoked
      BY DEF IInv, Granted, GrantedAt, Spending, Staged, StagedAt, Issued
    <2> QED BY <2>1, <2>2
  <1>6. Spent'
    <2>1. \A x, w \in Visits, a \in {"exchange", "refresh"} : Spender(a, w, x) => Spender(a, w, x)'
      BY <1>0, <1>3 DEF Spender, IInv, Staged, StagedAt
    <2>2. \A x \in Visits : codes'[x].used => \E w \in Visits : Spender("exchange", w, x)'
      <3> SUFFICES ASSUME NEW x \in Visits, codes'[x].used
                   PROVE  \E w \in Visits : Spender("exchange", w, x)'
        OBVIOUS
      <3>1. CASE codes[x].used
        BY <3>1, <2>1 DEF IInv, Spent
      <3>2. CASE ~codes[x].used
        BY <3>2 DEF Spender
      <3> QED BY <3>1, <3>2
    <2>3. \A x \in Visits : pairs'[x].revoked => \E w \in Visits : Spender("refresh", w, x)'
      <3> SUFFICES ASSUME NEW x \in Visits, pairs'[x].revoked
                   PROVE  \E w \in Visits : Spender("refresh", w, x)'
        OBVIOUS
      <3>1. CASE pairs[x].revoked
        BY <3>1, <2>1 DEF IInv, Spent
      <3>2. CASE ~pairs[x].revoked
        BY <3>2 DEF Spender
      <3> QED BY <3>1, <3>2
    <2> QED BY <2>2, <2>3 DEF Spent
  <1>7. BearersAreRecognised'
    <2> SUFFICES ASSUME NEW x \in Visits, asks[x] = "bearer"
                 PROVE  /\ reply'[x] = "unknown" =>
                             pairs'[shows[x]].revoked \/ pairs'[shows[x]].expired \/ broke'[x] # "no"
                        /\ reply'[x] = "user" =>
                             \A w \in earlier[x] : ~(Refreshed(w)' /\ shows[w] = shows[x])
      BY DEF BearersAreRecognised
    <2>0. \A w \in Visits : Refreshed(w)' <=> Refreshed(w)
      BY <1>3 DEF Refreshed
    <2>1. CASE x # v
      BY <2>0, <2>1, <1>0 DEF IInv, BearersAreRecognised, KeptRows
    <2>2. CASE x = v
      <3>1. \A w \in Visits : Refreshed(w) => pairs[shows[w]].revoked
        BY DEF IInv, Granted, GrantedAt, Spending, Refreshed
      <3> QED BY <2>0, <2>2, <3>1, <1>0 DEF KeptRows
    <2> QED BY <2>1, <2>2
  <1> QED BY <1>1, <1>2, <1>4, <1>5, <1>6, <1>7 DEF IInv

\* A request begins: it has done nothing, and no request that had ended sees it.
LEMMA ArriveStep ==
  ASSUME IInv, Types', NEW v \in Visits, NEW what \in Grants[v], NEW token \in Visits,
         NEW client \in Clients, Arrive(v, what, token, client)
  PROVE  IInv'
  <1>0. /\ what \in {"approve", "exchange", "refresh", "bearer"}
        /\ reply' = reply /\ codes' = codes /\ pairs' = pairs /\ broke' = broke
        /\ stage[v] = "idle"
    BY BridgeAssumption DEF Arrive
  <1>1. /\ asks'[v] = what /\ shows'[v] = token /\ as'[v] = client /\ stage'[v] = "schema"
        /\ earlier'[v] = {w \in Visits : stage[w] = "done"}
    BY DEF IInv, Types, Arrive, Enter
  <1>2. \A w \in Visits : w # v => /\ asks'[w] = asks[w] /\ shows'[w] = shows[w] /\ as'[w] = as[w]
                                   /\ stage'[w] = stage[w] /\ earlier'[w] = earlier[w]
    BY DEF IInv, Types, Arrive, Enter
  <1>3. /\ codes[v] = NoCode /\ pairs[v] = NoPair /\ reply[v] = "none" /\ broke[v] = "no"
        /\ asks[v] = "none"
    BY <1>0 DEF IInv, Staged, StagedAt
  <1>4. \A w \in Visits : v \notin earlier[w]
    BY <1>0 DEF IInv, Presented
  <1>5. \A x \in Visits : (Issued(x)' <=> Issued(x)) /\ shows[x] \in Visits /\ earlier[x] \subseteq Visits
    BY <1>0 DEF Issued, IInv, Types
  <1>6. ~Issued(v)
    BY <1>3 DEF Issued
  <1>7. Staged'
    <2> SUFFICES ASSUME NEW x \in Visits PROVE StagedAt(x)'
      BY DEF Staged
    <2>1. CASE x = v
      BY <1>0, <1>1, <1>3, <2>1 DEF StagedAt
    <2>2. CASE x # v
      <3>1. StagedAt(x)
        BY DEF IInv, Staged
      <3> QED BY <1>0, <1>2, <2>2, <3>1 DEF StagedAt
    <2> QED BY <2>1, <2>2
  <1>8. Presented'
    <2>1. /\ what = "exchange" => codes[token] # NoCode
          /\ what \in {"refresh", "bearer"} => pairs[token] # NoPair
      BY <1>0 DEF Arrive, Issued
    <2>2. ASSUME NEW x \in Visits
          PROVE  /\ asks'[x] = "exchange" => codes[shows'[x]] # NoCode
                 /\ asks'[x] \in {"refresh", "bearer"} => pairs[shows'[x]] # NoPair
      <3>1. CASE x = v
        BY <1>1, <2>1, <3>1
      <3>2. CASE x # v
        BY <1>2, <3>2 DEF IInv, Presented
      <3> QED BY <3>1, <3>2
    <2>3. ASSUME NEW x \in Visits, NEW w \in earlier'[x]
          PROVE  stage'[w] = "done"
      <3>1. w \in Visits /\ w # v /\ stage[w] = "done"
        <4>1. CASE x = v
          BY <1>0, <1>1, <4>1
        <4>2. CASE x # v
          BY <1>2, <1>4, <1>5, <4>2 DEF IInv, Presented
        <4> QED BY <4>1, <4>2
      <3> QED BY <1>2, <3>1
    <2> QED BY <1>0, <2>2, <2>3 DEF Presented
  <1>9. Granted'
    <2> SUFFICES ASSUME NEW x \in Visits PROVE GrantedAt(x)'
      BY DEF Granted
    <2>1. CASE x = v
      <3>1. ~Spending(x)' /\ stage'[x] # "spend"
        BY <1>1, <1>5, <1>6, <2>1 DEF Spending
      <3> QED BY <3>1 DEF GrantedAt
    <2>2. CASE x # v
      <3>1. GrantedAt(x)
        BY DEF IInv, Granted
      <3>2. Spending(x)' <=> Spending(x)
        BY <1>2, <1>5, <2>2 DEF Spending
      <3> QED BY <1>0, <1>2, <2>2, <3>1, <3>2 DEF GrantedAt
    <2> QED BY <2>1, <2>2
  <1>10. Refused'
    <2> SUFFICES ASSUME NEW x \in Visits, NEW w \in Visits, x \in earlier'[w],
                        shows'[x] = shows'[w], Issued(x)', asks'[x] = asks'[w]
                 PROVE  stage'[w] \notin {"spend", "insert", "reply"} /\ ~Issued(w)'
      BY DEF Refused
    <2>1. CASE w = v
      BY <1>1, <1>5, <1>6, <2>1
    <2>2. CASE w # v
      BY <1>2, <1>5, <1>6, <2>2 DEF IInv, Refused
    <2> QED BY <2>1, <2>2
  <1>11. Spent'
    <2>1. \A x, w \in Visits, a \in {"exchange", "refresh"} : Spender(a, w, x) => Spender(a, w, x)'
      BY <1>0, <1>2, <1>3, <1>5 DEF Spender
    <2>2. \A x \in Visits : codes'[x].used => \E w \in Visits : Spender("exchange", w, x)'
      BY <1>0, <2>1 DEF IInv, Spent
    <2>3. \A x \in Visits : pairs'[x].revoked => \E w \in Visits : Spender("refresh", w, x)'
      BY <1>0, <2>1 DEF IInv, Spent
    <2> QED BY <2>2, <2>3 DEF Spent
  <1>12. BearersAreRecognised'
    <2> SUFFICES ASSUME NEW x \in Visits, asks'[x] = "bearer"
                 PROVE  /\ reply'[x] = "unknown" =>
                             pairs'[shows'[x]].revoked \/ pairs'[shows'[x]].expired \/ broke'[x] # "no"
                        /\ reply'[x] = "user" =>
                             \A w \in earlier'[x] : ~(Refreshed(w)' /\ shows'[w] = shows'[x])
      BY DEF BearersAreRecognised
    <2>1. CASE x = v
      BY <1>0, <1>3, <2>1
    <2>2. CASE x # v
      <3>1. \A w \in earlier[x] : w \in Visits /\ w # v
        BY <1>4, <1>5
      <3>2. \A w \in earlier[x] : (Refreshed(w)' <=> Refreshed(w)) /\ shows'[w] = shows[w]
        BY <1>2, <1>5, <3>1 DEF Refreshed
      <3>3. asks[x] = "bearer" /\ shows'[x] = shows[x] /\ earlier'[x] = earlier[x]
        BY <1>2, <2>2
      <3>4. /\ reply[x] = "unknown" =>
                 pairs[shows[x]].revoked \/ pairs[shows[x]].expired \/ broke[x] # "no"
            /\ reply[x] = "user" =>
                 \A w \in earlier[x] : ~(Refreshed(w) /\ shows[w] = shows[x])
        BY <3>3 DEF IInv, BearersAreRecognised
      <3> QED BY <1>0, <3>2, <3>3, <3>4
    <2> QED BY <2>1, <2>2
  <1> QED BY <1>7, <1>8, <1>9, <1>10, <1>11, <1>12 DEF IInv

\* A request inserts its row, where there was none.
LEMMA IssueStep ==
  ASSUME IInv, Types', NEW v \in Visits, Issue(v)
  PROVE  IInv'
  <1>0. /\ stage[v] = "insert" /\ stage'[v] = "reply"
        /\ \A w \in Visits : w # v => stage'[w] = stage[w]
        /\ asks' = asks /\ shows' = shows /\ as' = as /\ earlier' = earlier
        /\ reply' = reply /\ broke' = broke
    BY DEF IInv, Types, Issue, Enter, visitVars
  <1>1. /\ asks[v] \in {"approve", "exchange", "refresh"} /\ as[v] \in Clients
        /\ codes[v] = NoCode /\ pairs[v] = NoPair /\ reply[v] = "none" /\ broke[v] = "no"
    BY <1>0 DEF IInv, Staged, StagedAt
  <1>2. /\ \A x \in Visits : x # v => codes'[x] = codes[x]
        /\ asks[v] # "approve" => codes'[v] = NoCode
        /\ asks[v] = "approve" => codes'[v].client = as[v] /\ ~codes'[v].used
    <2>1. CASE asks[v] = "approve"
      <3>1. codes' = [codes EXCEPT ![v] = [client |-> as[v], used |-> FALSE, expired |-> FALSE]]
        BY <2>1 DEF Issue
      <3>2. codes'[v] = [client |-> as[v], used |-> FALSE, expired |-> FALSE]
        BY <3>1 DEF IInv, Types
      <3>3. \A x \in Visits : x # v => codes'[x] = codes[x]
        BY <3>1 DEF IInv, Types
      <3> QED BY <2>1, <3>2, <3>3
    <2>2. CASE asks[v] # "approve"
      <3>1. codes' = codes
        BY <2>2 DEF Issue
      <3> QED BY <1>1, <2>2, <3>1
    <2> QED BY <2>1, <2>2
  <1>3. /\ \A x \in Visits : x # v => pairs'[x] = pairs[x]
        /\ asks[v] = "approve" => pairs'[v] = NoPair
        /\ asks[v] # "approve" => pairs'[v].client = as[v] /\ ~pairs'[v].revoked
    <2>1. CASE asks[v] = "approve"
      <3>1. pairs' = pairs
        BY <2>1 DEF Issue
      <3> QED BY <1>1, <2>1, <3>1
    <2>2. CASE asks[v] # "approve"
      <3>1. PICK c : pairs' = [pairs EXCEPT ![v] = [client |-> as[v], revoked |-> FALSE,
                                                    expired |-> FALSE, code |-> c]]
        BY <2>2 DEF Issue
      <3>2. pairs'[v] = [client |-> as[v], revoked |-> FALSE, expired |-> FALSE, code |-> c]
        BY <3>1 DEF IInv, Types
      <3>3. \A x \in Visits : x # v => pairs'[x] = pairs[x]
        BY <3>1 DEF IInv, Types
      <3>4. pairs'[v].client = as[v]
        BY <3>2
      <3>5. pairs'[v].revoked = FALSE
        BY <3>2
      <3> QED BY <2>2, <3>3, <3>4, <3>5
    <2> QED BY <2>1, <2>2
  <1>4. asks[v] # "approve" => pairs'[v] # NoPair
    <2>1. pairs'[v] \in Pair
      BY DEF Types
    <2>2. pairs'[v].client \in Clients => pairs'[v] # NoPair
      BY BridgeAssumption DEF NoPair
    <2> QED BY <1>1, <1>3, <2>2
  <1>5. \A x \in Visits : shows[x] \in Visits /\ earlier[x] \subseteq Visits
    BY DEF IInv, Types
  <1>6. \A x \in Visits : Issued(x)' <=> Issued(x) \/ (x = v /\ asks[v] # "approve")
    BY <1>1, <1>3, <1>4 DEF Issued
  <1>7. \A x \in Visits : v \notin earlier[x]
    BY <1>0 DEF IInv, Presented
  <1>8. /\ \A x \in Visits : asks[x] = "exchange" => codes'[shows[x]] = codes[shows[x]]
        /\ \A x \in Visits : asks[x] \in {"refresh", "bearer"} => pairs'[shows[x]] = pairs[shows[x]]
    BY <1>1, <1>2, <1>3, <1>5 DEF IInv, Presented
  <1>9. \A x \in Visits : (codes'[x].used => codes[x].used) /\ (pairs'[x].revoked => pairs[x].revoked)
    <2>1. ~codes'[v].used /\ ~pairs'[v].revoked
      <3>1. ~NoCode.used /\ ~NoPair.revoked
        BY DEF NoCode, NoPair
      <3> QED BY <1>2, <1>3, <3>1
    <2> QED BY <1>2, <1>3, <2>1
  <1>10. Staged'
    <2> SUFFICES ASSUME NEW x \in Visits PROVE StagedAt(x)'
      BY DEF Staged
    <2>0. StagedAt(x)
      BY DEF IInv, Staged
    <2>1. CASE x = v
      <3>1. codes'[v] # NoCode => codes'[v].client \in Clients
        BY <1>1, <1>2
      <3>2. pairs'[v] # NoPair => asks[v] \in {"exchange", "refresh"} /\ pairs'[v].client = as[v]
        BY <1>1, <1>3
      <3> QED BY <1>0, <1>1, <2>1, <3>1, <3>2 DEF StagedAt
    <2>2. CASE x # v
      BY <1>0, <1>2, <1>3, <2>0, <2>2 DEF StagedAt
    <2> QED BY <2>1, <2>2
  <1>11. Presented'
    <2>1. \A x \in Visits : \A w \in earlier[x] : stage'[w] = "done"
      BY <1>0, <1>5, <1>7 DEF IInv, Presented
    <2> QED BY <1>0, <1>8, <2>1 DEF IInv, Presented
  <1>12. Granted'
    <2> SUFFICES ASSUME NEW x \in Visits PROVE GrantedAt(x)'
      BY DEF Granted
    <2>0. GrantedAt(x)
      BY DEF IInv, Granted
    <2>1. Spending(x)' => Spending(x)
      BY <1>0, <1>6 DEF Spending
    <2>2. stage'[x] = "spend" => stage[x] = "spend"
      BY <1>0
    <2> QED BY <1>0, <1>8, <2>0, <2>1, <2>2 DEF GrantedAt
  <1>13. Refused'
    <2> SUFFICES ASSUME NEW x \in Visits, NEW w \in Visits, x \in earlier[w],
                        shows[x] = shows[w], Issued(x)', asks[x] = asks[w]
                 PROVE  stage'[w] \notin {"spend", "insert", "reply"} /\ ~Issued(w)'
      BY <1>0 DEF Refused
    <2>1. Issued(x)
      BY <1>6, <1>7
    <2>2. stage[w] \notin {"spend", "insert", "reply"} /\ ~Issued(w)
      BY <2>1 DEF IInv, Refused
    <2> QED BY <1>0, <1>6, <2>2
  <1>14. Spent'
    <2>1. \A x, w \in Visits, a \in {"exchange", "refresh"} : Spender(a, w, x) => Spender(a, w, x)'
      BY <1>0, <1>6 DEF Spender
    <2>2. \A x \in Visits : codes'[x].used => \E w \in Visits : Spender("exchange", w, x)'
      BY <1>9, <2>1 DEF IInv, Spent
    <2>3. \A x \in Visits : pairs'[x].revoked => \E w \in Visits : Spender("refresh", w, x)'
      BY <1>9, <2>1 DEF IInv, Spent
    <2> QED BY <2>2, <2>3 DEF Spent
  <1>15. BearersAreRecognised'
    <2> SUFFICES ASSUME NEW x \in Visits, asks[x] = "bearer"
                 PROVE  /\ reply[x] = "unknown" =>
                             pairs'[shows[x]].revoked \/ pairs'[shows[x]].expired \/ broke[x] # "no"
                        /\ reply[x] = "user" =>
                             \A w \in earlier[x] : ~(Refreshed(w)' /\ shows[w] = shows[x])
      BY <1>0 DEF BearersAreRecognised
    <2>1. \A w \in earlier[x] : Refreshed(w)' => Refreshed(w)
      BY <1>0, <1>5, <1>6, <1>7 DEF Refreshed
    <2> QED BY <1>8, <2>1 DEF IInv, BearersAreRecognised
  <1> QED BY <1>10, <1>11, <1>12, <1>13, <1>14, <1>15 DEF IInv

-----------------------------------------------------------------------------
(* Every step keeps the types. *)

\* A request that changes its stage, and no row.
LEMMA MoveTypes ==
  ASSUME Types, NEW v \in Visits,
         AwaitSchema(v) \/ Select(v) \/ Respond(v) \/ Break(v)
  PROVE  Types'
  <1>1. UNCHANGED <<asks, shows, as, earlier, schema, codes, pairs>>
    BY DEF AwaitSchema, Select, Respond, Break, visitVars
  <1>2. losses' \in Nat
    <2>1. losses' = losses \/ losses' = losses + 1
      BY DEF AwaitSchema, Select, Respond, Break
    <2> QED BY <2>1 DEF Types
  <1>3. stage' \in [Visits -> {"idle", "schema", "select", "spend", "insert", "reply", "done"}]
    <2>1. PICK s \in {"select", "spend", "insert", "done"} :
            stage' = stage \/ stage' = [stage EXCEPT ![v] = s]
      <3>1. CASE AwaitSchema(v)
        BY <3>1 DEF AwaitSchema, Enter, Leave
      <3>2. CASE Select(v)
        BY <3>2 DEF Select, Enter, Leave
      <3>3. CASE Respond(v) \/ Break(v)
        BY <3>3 DEF Respond, Break, Enter, Leave
      <3> QED BY <3>1, <3>2, <3>3
    <2> QED BY <2>1 DEF Types
  <1>4. reply' \in [Visits -> {"none", "ok", "user", "unknown", "invalid_grant", "error"}]
    <2>1. CASE AwaitSchema(v)
      BY <2>1 DEF Types, AwaitSchema, Leave, Thrown
    <2>2. CASE Select(v)
      <3>1. PICK told \in {"user", "unknown", "invalid_grant"} :
              reply' = reply \/ reply' = [reply EXCEPT ![v] = told]
        BY <2>2 DEF Select, Leave
      <3> QED BY <3>1 DEF Types
    <2>3. CASE Respond(v)
      BY <2>3 DEF Types, Respond, Leave
    <2>4. CASE Break(v)
      BY <2>4 DEF Types, Break, Leave, Thrown
    <2> QED BY <2>1, <2>2, <2>3, <2>4
  <1>5. broke' \in [Visits -> {"no", "schema", "select", "spend", "insert", "reply"}]
    <2>1. CASE AwaitSchema(v) \/ Select(v) \/ Respond(v)
      BY <2>1 DEF Types, AwaitSchema, Select, Respond
    <2>2. CASE Break(v)
      BY <2>2 DEF Types, Break
    <2> QED BY <2>1, <2>2
  <1> QED BY <1>1, <1>2, <1>3, <1>4, <1>5 DEF Types

\* A request that begins.
LEMMA ArriveTypes ==
  ASSUME Types, NEW v \in Visits, NEW what \in Grants[v], NEW token \in Visits,
         NEW client \in Clients, Arrive(v, what, token, client)
  PROVE  Types'
  <1>1. asks' \in [Visits -> {"none", "approve", "exchange", "refresh", "bearer"}]
    BY BridgeAssumption DEF Types, Arrive
  <1>2. shows' \in [Visits -> Visits]
    BY DEF Types, Arrive
  <1>3. as' \in [Visits -> Clients \cup {"none"}]
    BY DEF Types, Arrive
  <1>4. stage' \in [Visits -> {"idle", "schema", "select", "spend", "insert", "reply", "done"}]
    BY DEF Types, Arrive, Enter
  <1>5. earlier' \in [Visits -> SUBSET Visits]
    BY DEF Types, Arrive
  <1>6. UNCHANGED <<reply, schema, codes, pairs, broke, losses>>
    BY DEF Arrive
  <1> QED BY <1>1, <1>2, <1>3, <1>4, <1>5, <1>6 DEF Types

\* A row with a mark is a row.
LEMMA MarkedRow ==
  ASSUME NEW c \in Code, NEW p \in Pair
  PROVE  /\ [c EXCEPT !.used = TRUE] \in Code /\ [c EXCEPT !.expired = TRUE] \in Code
         /\ [p EXCEPT !.revoked = TRUE] \in Pair /\ [p EXCEPT !.expired = TRUE] \in Pair
  BY DEF Code, Pair

\* A row that is marked or inserted is a row.
LEMMA RowTypes ==
  ASSUME Types, NEW v \in Visits, SpendGrant(v) \/ Issue(v) \/ Expire(v)
  PROVE  Types'
  <1>1. UNCHANGED <<asks, shows, as, earlier, schema, reply, broke, losses>>
    BY DEF SpendGrant, Issue, Expire, visitVars
  <1>2. stage' \in [Visits -> {"idle", "schema", "select", "spend", "insert", "reply", "done"}]
    BY DEF Types, SpendGrant, Issue, Expire, Enter
  <1>3. codes' \in [Visits -> Code]
    <2>1. ASSUME NEW x \in Visits, NEW kept \in Code, codes' = [codes EXCEPT ![x] = kept]
          PROVE  codes' \in [Visits -> Code]
      BY <2>1 DEF Types
    <2>2. \A x \in Visits : /\ codes[x] \in Code /\ shows[x] \in Visits
                            /\ [codes[x] EXCEPT !.used = TRUE] \in Code
                            /\ [codes[x] EXCEPT !.expired = TRUE] \in Code
      <3>1. \A x \in Visits : codes[x] \in Code /\ pairs[x] \in Pair /\ shows[x] \in Visits
        BY DEF Types
      <3> QED BY <3>1, MarkedRow
    <2>3. CASE SpendGrant(v)
      <3>1. codes' = codes \/ codes' = [codes EXCEPT ![shows[v]] = [codes[shows[v]] EXCEPT !.used = TRUE]]
        BY <2>3 DEF SpendGrant
      <3> QED BY <2>1, <2>2, <3>1 DEF Types
    <2>4. CASE Issue(v)
      <3> DEFINE new == [client |-> as[v], used |-> FALSE, expired |-> FALSE]
      <3>1. new \in Code
        BY DEF Types, Code
      <3>2. codes' = codes \/ codes' = [codes EXCEPT ![v] = new]
        BY <2>4 DEF Issue
      <3> HIDE DEF new
      <3> QED BY <2>1, <3>1, <3>2 DEF Types
    <2>5. CASE Expire(v)
      <3>1. codes' = codes \/ codes' = [codes EXCEPT ![v] = [codes[v] EXCEPT !.expired = TRUE]]
        BY <2>5 DEF Expire
      <3> QED BY <2>1, <2>2, <3>1 DEF Types
    <2> QED BY <2>3, <2>4, <2>5
  <1>4. pairs' \in [Visits -> Pair]
    <2>1. ASSUME NEW x \in Visits, NEW kept \in Pair, pairs' = [pairs EXCEPT ![x] = kept]
          PROVE  pairs' \in [Visits -> Pair]
      BY <2>1 DEF Types
    <2>2. \A x \in Visits : /\ pairs[x] \in Pair /\ shows[x] \in Visits
                            /\ [pairs[x] EXCEPT !.revoked = TRUE] \in Pair
                            /\ [pairs[x] EXCEPT !.expired = TRUE] \in Pair
      <3>1. \A x \in Visits : codes[x] \in Code /\ pairs[x] \in Pair /\ shows[x] \in Visits
        BY DEF Types
      <3> QED BY <3>1, MarkedRow
    <2>3. CASE SpendGrant(v)
      <3>1. pairs' = pairs \/ pairs' = [pairs EXCEPT ![shows[v]] = [pairs[shows[v]] EXCEPT !.revoked = TRUE]]
        BY <2>3 DEF SpendGrant
      <3> QED BY <2>1, <2>2, <3>1 DEF Types
    <2>4. CASE Issue(v)
      <3> DEFINE c == IF asks[v] = "exchange" THEN shows[v] ELSE pairs[shows[v]].code
                 new == [client |-> as[v], revoked |-> FALSE, expired |-> FALSE, code |-> c]
      <3>1. c \in Visits \cup {"none"}
        BY <2>2 DEF Pair
      <3>2. pairs' = pairs \/ pairs' = [pairs EXCEPT ![v] = new]
        BY <2>4 DEF Issue
      <3> HIDE DEF c
      <3>3. new \in Pair
        BY <3>1 DEF Types, Pair
      <3> HIDE DEF new
      <3> QED BY <2>1, <3>2, <3>3 DEF Types
    <2>5. CASE Expire(v)
      <3>1. pairs' = pairs \/ pairs' = [pairs EXCEPT ![v] = [pairs[v] EXCEPT !.expired = TRUE]]
        BY <2>5 DEF Expire
      <3> QED BY <2>1, <2>2, <3>1 DEF Types
    <2> QED BY <2>3, <2>4, <2>5
  <1> QED BY <1>1, <1>2, <1>3, <1>4 DEF Types

\* The promise of an isolate.
LEMMA SchemaTypes ==
  ASSUME Types,
         \/ \E v \in Visits : StartSchema(v)
         \/ \E i \in Sites : SettleSchema(i) \/ Recycle(i)
  PROVE  /\ Types'
         /\ UNCHANGED <<asks, shows, as, earlier, stage, reply, codes, pairs, broke>>
  <1>1. UNCHANGED <<asks, shows, as, earlier, stage, reply, codes, pairs, broke>>
    BY DEF StartSchema, SettleSchema, Recycle, visitVars
  <1>2. schema' \in [Sites -> {"none", "pending", "ready", "rejected"}]
    BY DEF Types, StartSchema, SettleSchema, Recycle
  <1>3. losses' \in Nat
    BY DEF Types, StartSchema, SettleSchema, Recycle
  <1> QED BY <1>1, <1>2, <1>3 DEF Types

-----------------------------------------------------------------------------
(* One lemma for each way a request moves on, then the theorems. *)

\* The promise settled: the request goes to its first statement, or ends.
LEMMA AwaitStep ==
  ASSUME IInv, NEW v \in Visits, AwaitSchema(v)
  PROVE  IInv'
  <1>1. Types'
    BY MoveTypes DEF IInv
  <1>2. KeptRows
    BY DEF AwaitSchema, KeptRows
  <1>3. /\ stage[v] = "schema" /\ asks[v] # "none" /\ reply[v] = "none" /\ broke[v] = "no"
        /\ codes[v] = NoCode /\ pairs[v] = NoPair
    BY DEF IInv, Staged, StagedAt, AwaitSchema
  <1>4. asks[v] \in {"approve", "exchange", "refresh", "bearer"}
    BY <1>3 DEF IInv, Types
  <1>5. /\ asks' = asks /\ shows' = shows /\ as' = as /\ earlier' = earlier
        /\ codes' = codes /\ pairs' = pairs
    BY DEF AwaitSchema, visitVars
  <1>6. \A w \in Visits : w # v => /\ stage'[w] = stage[w] /\ reply'[w] = reply[w]
                                   /\ broke'[w] = broke[w]
    BY DEF IInv, Types, AwaitSchema, Enter, Leave
  <1>7. \/ /\ stage'[v] = IF asks[v] = "approve" THEN "insert" ELSE "select"
           /\ reply'[v] = "none" /\ broke'[v] = "no"
        \/ /\ stage'[v] = "done" /\ broke'[v] = "schema"
           /\ reply'[v] \in {"unknown", "error"}
    BY <1>3 DEF IInv, Types, AwaitSchema, Enter, Leave, Thrown
  <1> QED BY <1>1, <1>2, <1>3, <1>4, <1>5, <1>6, <1>7, MoveStep

\* The look-up found the grant, or not.
LEMMA SelectStep ==
  ASSUME IInv, NEW v \in Visits, Select(v)
  PROVE  IInv'
  <1>1. Types'
    BY MoveTypes DEF IInv
  <1>2. KeptRows
    BY DEF Select, KeptRows
  <1>3. /\ stage[v] = "select" /\ reply[v] = "none" /\ broke[v] = "no"
        /\ asks[v] \in {"exchange", "refresh", "bearer"}
        /\ codes[v] = NoCode /\ pairs[v] = NoPair
    BY DEF IInv, Staged, StagedAt, Select
  <1>4. /\ asks' = asks /\ shows' = shows /\ as' = as /\ earlier' = earlier
        /\ codes' = codes /\ pairs' = pairs /\ broke' = broke
    BY DEF Select, visitVars
  <1>5. \A w \in Visits : w # v => stage'[w] = stage[w] /\ reply'[w] = reply[w]
    <2>1. /\ \E s : stage' = [stage EXCEPT ![v] = s]
          /\ reply' = reply \/ \E r : reply' = [reply EXCEPT ![v] = r]
      <3>1. CASE asks[v] = "bearer"
        BY <3>1 DEF Select, Enter, Leave
      <3>2. CASE asks[v] # "bearer"
        BY <3>2 DEF Select, Enter, Leave
      <3> QED BY <3>1, <3>2
    <2> QED BY <2>1 DEF IInv, Types
  <1>6. \/ /\ asks[v] = "bearer" /\ stage'[v] = "done"
           /\ reply'[v] = IF Found(v) THEN "user" ELSE "unknown"
        \/ asks[v] # "bearer" /\ stage'[v] = "spend" /\ reply'[v] = "none" /\ Found(v)
        \/ asks[v] # "bearer" /\ stage'[v] = "done" /\ reply'[v] = "invalid_grant"
    <2>1. CASE asks[v] = "bearer"
      BY <1>3, <2>1 DEF IInv, Types, Select, Leave, Enter
    <2>2. CASE asks[v] # "bearer" /\ Found(v)
      BY <1>3, <2>2 DEF IInv, Types, Select, Enter
    <2>3. CASE asks[v] # "bearer" /\ ~Found(v)
      BY <1>3, <2>3 DEF IInv, Types, Select, Leave, Enter
    <2> QED BY <2>1, <2>2, <2>3
  <1>7. /\ asks[v] = "exchange" /\ Found(v) =>
             codes[shows[v]].client = as[v] /\ ~codes[shows[v]].used
        /\ asks[v] = "refresh" /\ Found(v) =>
             pairs[shows[v]].client = as[v] /\ ~pairs[shows[v]].revoked
        /\ asks[v] = "bearer" =>
             (Found(v) <=> ~pairs[shows[v]].revoked /\ ~pairs[shows[v]].expired)
    BY DEF Found
  <1> HIDE DEF Found
  <1> QED BY <1>1, <1>2, <1>3, <1>4, <1>5, <1>6, <1>7, MoveStep

\* The grant is marked, and the request may issue its successor.
LEMMA SpendStep ==
  ASSUME IInv, NEW v \in Visits, SpendGrant(v)
  PROVE  IInv'
  <1>1. Types'
    BY RowTypes DEF IInv
  <1>2. /\ stage[v] = "spend" /\ reply[v] = "none" /\ broke[v] = "no"
        /\ asks[v] \in {"exchange", "refresh"}
        /\ codes[v] = NoCode /\ pairs[v] = NoPair /\ shows[v] \in Visits
    BY DEF IInv, Types, Staged, StagedAt, SpendGrant
  <1>3. /\ asks' = asks /\ shows' = shows /\ as' = as /\ earlier' = earlier
        /\ reply' = reply /\ broke' = broke
    BY DEF SpendGrant, visitVars
  <1>4. stage'[v] = "insert" /\ \A w \in Visits : w # v => stage'[w] = stage[w]
    BY DEF IInv, Types, SpendGrant, Enter
  <1>5. \/ asks[v] = "exchange" /\ pairs' = pairs /\ codes' = [codes EXCEPT ![shows[v]].used = TRUE]
        \/ asks[v] = "refresh" /\ codes' = codes /\ pairs' = [pairs EXCEPT ![shows[v]].revoked = TRUE]
    BY <1>2 DEF SpendGrant
  <1>6. /\ asks[v] = "exchange" => codes[shows[v]] # NoCode
        /\ asks[v] = "refresh" => pairs[shows[v]] # NoPair
    BY DEF IInv, Presented
  <1>7. \A x \in Visits : codes[x] \in Code /\ pairs[x] \in Pair
    BY DEF IInv, Types
  <1>8. /\ \A x \in Visits : /\ codes'[x].client = codes[x].client
                             /\ codes[x].used => codes'[x].used
                             /\ codes'[x] = NoCode <=> codes[x] = NoCode
                             /\ codes'[x].used => codes[x].used \/ (asks[v] = "exchange" /\ shows[v] = x)
        /\ asks[v] = "exchange" => codes'[shows[v]].used
    <2>1. CASE codes' = codes /\ asks[v] # "exchange"
      BY <2>1
    <2>2. CASE codes' = [codes EXCEPT ![shows[v]].used = TRUE] /\ asks[v] = "exchange"
      <3>1. \A x \in Visits : x # shows[v] => codes'[x] = codes[x]
        BY <2>2 DEF IInv, Types
      <3>2. codes'[shows[v]] = [codes[shows[v]] EXCEPT !.used = TRUE]
        BY <1>2, <2>2 DEF IInv, Types
      <3>3. codes'[shows[v]].client = codes[shows[v]].client /\ codes'[shows[v]].used = TRUE
        BY <1>2, <1>7, <3>2 DEF Code
      <3>4. codes'[shows[v]] # NoCode
        BY <3>3 DEF NoCode
      <3> QED BY <1>2, <1>6, <2>2, <3>1, <3>3, <3>4
    <2> QED BY <1>5, <2>1, <2>2
  <1>9. /\ \A x \in Visits : /\ pairs'[x].client = pairs[x].client
                             /\ pairs[x].revoked => pairs'[x].revoked
                             /\ pairs[x].expired => pairs'[x].expired
                             /\ pairs'[x] = NoPair <=> pairs[x] = NoPair
                             /\ pairs'[x].revoked => pairs[x].revoked \/ (asks[v] = "refresh" /\ shows[v] = x)
        /\ asks[v] = "refresh" => pairs'[shows[v]].revoked
    <2>1. CASE pairs' = pairs /\ asks[v] # "refresh"
      BY <2>1
    <2>2. CASE pairs' = [pairs EXCEPT ![shows[v]].revoked = TRUE] /\ asks[v] = "refresh"
      <3>1. \A x \in Visits : x # shows[v] => pairs'[x] = pairs[x]
        BY <2>2 DEF IInv, Types
      <3>2. pairs'[shows[v]] = [pairs[shows[v]] EXCEPT !.revoked = TRUE]
        BY <1>2, <2>2 DEF IInv, Types
      <3>3. /\ pairs'[shows[v]].client = pairs[shows[v]].client /\ pairs'[shows[v]].revoked = TRUE
            /\ pairs'[shows[v]].expired = pairs[shows[v]].expired
        BY <1>2, <1>7, <3>2 DEF Pair
      <3>4. pairs'[shows[v]] # NoPair
        BY <3>3 DEF NoPair
      <3> QED BY <1>2, <1>6, <2>2, <3>1, <3>3, <3>4
    <2> QED BY <1>5, <2>1, <2>2
  <1>10. KeptRows
    BY <1>8, <1>9 DEF KeptRows
  <1>11. \A x \in Visits :
           /\ codes'[x].used => \/ codes[x].used
                                \/ asks[v] = "exchange" /\ shows[v] = x /\ stage'[v] = "insert"
           /\ pairs'[x].revoked => \/ pairs[x].revoked
                                   \/ asks[v] = "refresh" /\ shows[v] = x /\ stage'[v] = "insert"
    BY <1>4, <1>8, <1>9
  <1>12. \/ asks[v] = "exchange" /\ stage[v] = "spend" /\ codes'[shows[v]].used
         \/ asks[v] = "refresh" /\ stage[v] = "spend" /\ pairs'[shows[v]].revoked
    BY <1>2, <1>8, <1>9
  <1> QED BY <1>1, <1>2, <1>3, <1>4, <1>10, <1>11, <1>12, MoveStep

\* The answer goes out.
LEMMA RespondStep ==
  ASSUME IInv, NEW v \in Visits, Respond(v)
  PROVE  IInv'
  <1>1. Types'
    BY MoveTypes DEF IInv
  <1>2. KeptRows
    BY DEF Respond, KeptRows
  <1>3. stage[v] = "reply" /\ asks[v] # "bearer"
    BY DEF IInv, Staged, StagedAt, Respond
  <1>4. /\ asks' = asks /\ shows' = shows /\ as' = as /\ earlier' = earlier
        /\ codes' = codes /\ pairs' = pairs /\ broke' = broke
    BY DEF Respond, visitVars
  <1>5. stage'[v] = "done" /\ \A w \in Visits : w # v => stage'[w] = stage[w] /\ reply'[w] = reply[w]
    BY DEF IInv, Types, Respond, Enter, Leave
  <1> QED BY <1>1, <1>2, <1>3, <1>4, <1>5, MoveStep

\* The request stops where it is.
LEMMA BreakStep ==
  ASSUME IInv, NEW v \in Visits, Break(v)
  PROVE  IInv'
  <1>1. Types'
    BY MoveTypes DEF IInv
  <1>2. KeptRows
    BY DEF Break, KeptRows
  <1>3. /\ asks' = asks /\ shows' = shows /\ as' = as /\ earlier' = earlier
        /\ codes' = codes /\ pairs' = pairs
    BY DEF Break, visitVars
  <1>4. stage[v] \in {"select", "spend", "insert", "reply"} /\ stage'[v] = "done"
    BY DEF IInv, Types, Break, Enter, Leave
  <1>5. broke'[v] = stage[v] /\ reply'[v] \in {"unknown", "error"}
    BY DEF IInv, Types, Break, Leave, Thrown
  <1>6. \A w \in Visits : w # v => /\ stage'[w] = stage[w] /\ reply'[w] = reply[w]
                                   /\ broke'[w] = broke[w]
    BY DEF IInv, Types, Break, Enter, Leave
  <1> QED BY <1>1, <1>2, <1>3, <1>4, <1>5, <1>6, MoveStep

\* A row that is there runs out of time.
LEMMA ExpireStep ==
  ASSUME IInv, NEW v \in Visits, Expire(v)
  PROVE  IInv'
  <1>1. Types'
    BY RowTypes DEF IInv
  <1>2. UNCHANGED <<asks, shows, as, earlier, stage, reply, broke>>
    BY DEF Expire, visitVars
  <1>3. \A x \in Visits : codes[x] \in Code /\ pairs[x] \in Pair
    BY DEF IInv, Types
  <1>4. \A x \in Visits : /\ codes'[x].client = codes[x].client /\ codes'[x].used = codes[x].used
                          /\ codes'[x] = NoCode <=> codes[x] = NoCode
    <2>1. CASE codes' = codes
      BY <2>1
    <2>2. CASE codes[v] # NoCode /\ codes' = [codes EXCEPT ![v].expired = TRUE]
      <3>1. \A x \in Visits : x # v => codes'[x] = codes[x]
        BY <2>2 DEF IInv, Types
      <3>2. codes'[v] = [codes[v] EXCEPT !.expired = TRUE]
        BY <2>2 DEF IInv, Types
      <3>3. /\ codes'[v].client = codes[v].client /\ codes'[v].used = codes[v].used
            /\ codes'[v].expired = TRUE
        BY <1>3, <3>2 DEF Code
      <3>4. codes'[v] # NoCode
        BY <3>3 DEF NoCode
      <3> QED BY <2>2, <3>1, <3>3, <3>4
    <2> QED BY <2>1, <2>2 DEF Expire
  <1>5. \A x \in Visits : /\ pairs'[x].client = pairs[x].client /\ pairs'[x].revoked = pairs[x].revoked
                          /\ pairs'[x] = NoPair <=> pairs[x] = NoPair
                          /\ pairs[x].expired => pairs'[x].expired
    <2>1. CASE pairs' = pairs
      BY <2>1
    <2>2. CASE Issued(v) /\ pairs' = [pairs EXCEPT ![v].expired = TRUE]
      <3>1. \A x \in Visits : x # v => pairs'[x] = pairs[x]
        BY <2>2 DEF IInv, Types
      <3>2. pairs'[v] = [pairs[v] EXCEPT !.expired = TRUE]
        BY <2>2 DEF IInv, Types
      <3>3. /\ pairs'[v].client = pairs[v].client /\ pairs'[v].revoked = pairs[v].revoked
            /\ pairs'[v].expired = TRUE
        BY <1>3, <3>2 DEF Pair
      <3>4. pairs'[v] # NoPair
        BY <3>3 DEF NoPair
      <3> QED BY <2>2, <3>1, <3>3, <3>4 DEF Issued
    <2> QED BY <2>1, <2>2 DEF Expire
  <1>6. KeptRows
    BY <1>4, <1>5 DEF KeptRows
  <1> QED BY <1>1, <1>2, <1>4, <1>5, <1>6, QuietStep

\* The promise of an isolate moves, and nothing else does.
LEMMA SchemaStep ==
  ASSUME IInv,
         \/ \E v \in Visits : StartSchema(v)
         \/ \E i \in Sites : SettleSchema(i) \/ Recycle(i)
  PROVE  IInv'
  <1>1. Types' /\ UNCHANGED <<asks, shows, as, earlier, stage, reply, codes, pairs, broke>>
    BY SchemaTypes DEF IInv
  <1>2. KeptRows
    BY <1>1 DEF KeptRows
  <1> QED BY <1>1, <1>2, QuietStep

\* IInv is inductive.
LEMMA Inductive == IInv /\ [BridgeNext]_bridgeVars => IInv'
  <1> SUFFICES ASSUME IInv, [BridgeNext]_bridgeVars PROVE IInv'
    OBVIOUS
  <1>1. ASSUME NEW v \in Visits, NEW what \in Grants[v], NEW token \in Visits,
               NEW client \in Clients, Arrive(v, what, token, client)
        PROVE  IInv'
    BY <1>1, ArriveTypes, ArriveStep DEF IInv
  <1>2. ASSUME NEW v \in Visits, AwaitSchema(v) PROVE IInv'
    BY <1>2, AwaitStep
  <1>3. ASSUME NEW v \in Visits, Select(v) PROVE IInv'
    BY <1>3, SelectStep
  <1>4. ASSUME NEW v \in Visits, SpendGrant(v) PROVE IInv'
    BY <1>4, SpendStep
  <1>5. ASSUME NEW v \in Visits, Issue(v) PROVE IInv'
    BY <1>5, RowTypes, IssueStep DEF IInv
  <1>6. ASSUME NEW v \in Visits, Respond(v) PROVE IInv'
    BY <1>6, RespondStep
  <1>7. ASSUME NEW v \in Visits, Break(v) PROVE IInv'
    BY <1>7, BreakStep
  <1>8. ASSUME NEW v \in Visits, Expire(v) PROVE IInv'
    BY <1>8, ExpireStep
  <1>9. CASE \/ \E v \in Visits : StartSchema(v)
             \/ \E i \in Sites : SettleSchema(i) \/ Recycle(i)
    BY <1>9, SchemaStep
  <1>10. CASE UNCHANGED bridgeVars
    <2>1. UNCHANGED <<asks, shows, as, earlier, stage, reply, schema, codes, pairs, broke, losses>>
      BY <1>10 DEF bridgeVars, visitVars
    <2>2. Types'
      BY <2>1 DEF IInv, Types
    <2>3. KeptRows
      BY <2>1 DEF KeptRows
    <2> QED BY <2>1, <2>2, <2>3, QuietStep
  <1> QED BY <1>1, <1>2, <1>3, <1>4, <1>5, <1>6, <1>7, <1>8, <1>9, <1>10 DEF BridgeNext

\* The inductive invariant holds in every reachable state of the bridge.
THEOREM BridgeInvariance == BridgeSpec => []IInv
  BY Initially, Inductive, PTL DEF BridgeSpec

\* Codes and pairs of tokens are well-formed rows: ensureOAuthSchema's columns.
THEOREM BridgeTypes == BridgeSpec => []BridgeTypeOK
  <1>1. IInv => BridgeTypeOK
    BY DEF IInv, Types, BridgeTypeOK, Code, Pair
  <1> QED BY <1>1, BridgeInvariance, PTL

\* exchangeOAuthCode and refreshOAuthToken: a grant buys a pair for its own client, and
\* a second one only for a request that overlapped the first, although select and
\* update are two statements and neither is guarded.
THEOREM GrantsSpentOnce == BridgeSpec => []SpentOnceUnlessOverlapped
  <1>1. IInv => SpentOnceUnlessOverlapped
    <2> SUFFICES ASSUME IInv, NEW v \in Visits, NEW w \in Visits
                 PROVE  /\ Exchanged(v) => codes[shows[v]].used /\ codes[shows[v]].client = pairs[v].client
                        /\ Refreshed(v) => pairs[shows[v]].revoked /\ pairs[shows[v]].client = pairs[v].client
                        /\ (v # w /\ shows[v] = shows[w]
                            /\ ((Exchanged(v) /\ Exchanged(w)) \/ (Refreshed(v) /\ Refreshed(w))))
                             => Together(v, w)
      BY DEF SpentOnceUnlessOverlapped
    <2>1. GrantedAt(v) /\ StagedAt(v)
      BY DEF IInv, Granted, Staged
    <2>2. /\ Exchanged(v) => codes[shows[v]].used /\ codes[shows[v]].client = pairs[v].client
          /\ Refreshed(v) => pairs[shows[v]].revoked /\ pairs[shows[v]].client = pairs[v].client
      BY <2>1 DEF GrantedAt, StagedAt, Spending, Exchanged, Refreshed, Issued
    <2>3. ASSUME NEW x \in Visits, NEW y \in Visits, shows[x] = shows[y],
                 asks[x] = asks[y], Issued(x), Issued(y)
          PROVE  x \notin earlier[y]
      BY <2>3 DEF IInv, Refused
    <2> QED BY <2>2, <2>3 DEF Exchanged, Refreshed, Together
  <1> QED BY <1>1, BridgeInvariance, PTL

\* A session ends without a successor only if its request broke off (or is) between the
\* update that spends the grant and the insert that replaces it.
THEOREM SessionsLostOnlyByBreaking == BridgeSpec => []LostOnlyByBreaking
  <1>1. IInv => LostOnlyByBreaking
    <2> SUFFICES ASSUME IInv, NEW v \in Visits
                 PROVE  /\ codes[v].used =>
                             {w \in Visits : asks[w] = "exchange" /\ shows[w] = v
                               /\ (stage[w] = "insert" \/ Issued(w) \/ broke[w] = "insert")} # {}
                        /\ pairs[v].revoked =>
                             {w \in Visits : asks[w] = "refresh" /\ shows[w] = v
                               /\ (stage[w] = "insert" \/ Issued(w) \/ broke[w] = "insert")} # {}
      BY DEF LostOnlyByBreaking
    <2>1. /\ codes[v].used => \E w \in Visits : Spender("exchange", w, v)
          /\ pairs[v].revoked => \E w \in Visits : Spender("refresh", w, v)
      BY DEF IInv, Spent
    <2> QED BY <2>1 DEF Spender
  <1> QED BY <1>1, BridgeInvariance, PTL

\* currentOAuthUser recognises a valid token, and no token that an earlier, completed
\* refresh replaced, unless its look-up or the schema promise of its isolate failed.
THEOREM BearersRecognised == BridgeSpec => []BearersAreRecognised
  <1>1. IInv => BearersAreRecognised
    BY DEF IInv
  <1> QED BY <1>1, BridgeInvariance, PTL

-----------------------------------------------------------------------------
(* The learning stores: the legacy pair and the personal network. *)

DeleteSteps == {"delete_recs", "delete_events", "delete_user", "delete_profile"}
RowSteps == {"find", "link", "add"}
LearnSteps == {"idle", "bill", "legacy_write", "legacy_read", "profile_read", "migrate",
               "profile_write", "event", "like", "answer", "done"} \cup DeleteSteps \cup RowSteps
LearnOps == {"save_context", "update_profile", "save", "feedback", "invalid",
             "get_context", "get_profile", "delete"}
RecRow == [id : Callers, source : Callers, linked : BOOLEAN, liked : BOOLEAN]

LearnTypes ==
  /\ op \in [Callers -> LearnOps \cup {"none"}] /\ patch \in [Callers -> SUBSET Keys]
  /\ step \in [Callers -> LearnSteps] /\ prior \in [Callers -> SUBSET Callers]
  /\ DOMAIN doc = Callers /\ DOMAIN row = Callers /\ DOMAIN ended = Callers
  /\ events \subseteq Callers /\ recs \in Seq(RecRow)

\* Where a caller has no document yet, or no more.
Blank == {"idle", "bill", "done"} \cup DeleteSteps

\* What a caller does, by the statement it is at.
Doing(s) ==
  CASE s = "bill" -> LearnOps \ {"delete"}
    [] s = "legacy_write" -> {"save_context", "update_profile", "get_context"}
    [] s = "profile_read" -> {"save_context", "update_profile", "get_profile", "get_context"}
    [] s = "legacy_read" -> {"get_profile", "get_context"}
    [] s = "migrate" -> {"get_profile"}
    [] s = "profile_write" -> {"save_context", "update_profile", "get_profile"}
    [] s = "event" -> {"save", "feedback", "save_context", "update_profile"}
    [] s \in RowSteps -> {"save", "save_context", "update_profile"}
    [] s = "like" -> {"feedback"}
    [] s = "answer" -> LearnOps \ {"delete", "invalid"}
    [] s \in DeleteSteps -> {"delete"}
    [] s = "done" -> LearnOps
    [] OTHER -> {"none"}

LearnerAt(c) ==
  /\ op[c] \in Doing(step[c])
  /\ \A q \in prior[c] : step[q] = "done" /\ c \notin prior[q]
  /\ step[c] \in Blank => doc[c] = Empty
  /\ ended[c] = "ok" => step[c] = "done"

\* The document d has k from w; something from w.
HasFrom(d, k, w) == k \in DOMAIN d /\ d[k] = w
In(d, w) == \E k \in DOMAIN d : d[k] = w

\* Stored somewhere, or on its way there in somebody's document.
Carried(w) == Remembers(w) \/ \E c \in Callers : In(doc[c], w)

Alone(d) == \A q \in Callers \ {d} : Begun(q) => ~Overlaps(d, q)

\* How far a delete that met nobody has come.
EraserAt(d) ==
  op[d] = "delete" /\ Alone(d) =>
    /\ step[d] \in {"delete_events", "delete_user", "delete_profile"} => recs = <<>>
    /\ step[d] \in {"delete_user", "delete_profile"} => events = {}
    /\ step[d] = "delete_profile" => context = Empty
    /\ ended[d] = "ok" => \A w \in Writers : w # d /\ Precedes(w, d) => ~Carried(w)

\* w met nobody while it wrote k, and nobody has written k or deleted since.
Undisturbed(w, k) ==
  /\ op[w] \in {"save_context", "update_profile"} /\ k \in patch[w]
  /\ \A q \in Callers \ {w} : Begun(q) =>
       /\ ~Overlaps(w, q)
       /\ Precedes(w, q) => (op[q] # "delete" /\ k \notin patch[q])

\* Its write to the profile is done.
Stored(w) ==
  \/ op[w] = "update_profile" /\ step[w] = "legacy_write"
  \/ step[w] \in {"event", "answer"} \cup RowSteps
  \/ ended[w] = "ok"

\* What w stored under k is in the profile, and c will not write an older document.
Keeping(c, w, k) ==
  /\ HasFrom(profile, k, w)
  /\ step[c] = "profile_write" => HasFrom(doc[c], k, w)
  /\ step[c] \in {"legacy_read", "migrate", "profile_write"} => op[c] # "get_profile"

\* What w writes under k is in its document, then in the profile.
Storing(w, k) ==
  /\ step[w] = "profile_write" => HasFrom(doc[w], k, w)
  /\ Stored(w) => HasFrom(profile, k, w)

WriterAt(w, k) ==
  Undisturbed(w, k) =>
    Storing(w, k) /\ (Stored(w) => \A q \in Callers : w \in prior[q] => Keeping(q, w, k))

\* The interaction of c is stored, or a delete that had not ended before took it.
Accounted(c) ==
  c \in events \/ \E d \in Callers : op[d] = "delete" /\ ~Precedes(d, c)

RowAt(i) ==
  step[recs[i].id] # "idle" /\ step[recs[i].source] # "idle" /\ Accounted(recs[i].source)

\* Two rows of the link, and a row of the link next to one that c is about to add.
Apart(i, j) == recs[i].linked /\ recs[j].linked => Overlaps(recs[i].id, recs[j].id)
Fresh(i, c) == recs[i].linked => Overlaps(recs[i].id, c)

RowsAt ==
  /\ \A i \in DOMAIN recs : RowAt(i) /\ \A j \in DOMAIN recs : i # j => Apart(i, j)
  /\ \A c \in Callers :
       /\ step[c] \in RowSteps => Accounted(c)
       /\ step[c] = "add" /\ "url" \in Payload(c) => \A i \in DOMAIN recs : Fresh(i, c)

LearnInv ==
  /\ LearnTypes
  /\ \A c \in Callers : LearnerAt(c) /\ EraserAt(c) /\ \A k \in Keys : WriterAt(c, k)
  /\ RowsAt

\* {...current, ...new}
LEMMA SpreadFacts ==
  ASSUME NEW current, NEW new
  PROVE  /\ DOMAIN Spread(current, new) = DOMAIN current \cup DOMAIN new
         /\ \A k, w : HasFrom(Spread(current, new), k, w) <=>
              HasFrom(new, k, w) \/ (k \notin DOMAIN new /\ HasFrom(current, k, w))
         /\ \A w : In(Spread(current, new), w) => In(current, w) \/ In(new, w)
BY DEF Spread, HasFrom, In

LEMMA MergeFacts ==
  ASSUME NEW d, NEW c, NEW ks
  PROVE  /\ \A k, w : HasFrom(Merge(d, c, ks), k, w) <=>
              (k \in ks /\ w = c) \/ (k \notin ks /\ HasFrom(d, k, w))
         /\ \A w : In(Merge(d, c, ks), w) => w = c \/ In(d, w)
<1> DEFINE new == [k \in ks |-> c]
<1>1. /\ DOMAIN new = ks
      /\ \A k, w : HasFrom(new, k, w) <=> k \in ks /\ w = c
      /\ \A w : In(new, w) => w = c
  BY DEF HasFrom, In
<1>2. Merge(d, c, ks) = Spread(d, new)
  BY DEF Merge
<1> HIDE DEF new
<1>3. ASSUME NEW k, NEW w
      PROVE  HasFrom(Spread(d, new), k, w) <=>
               (k \in ks /\ w = c) \/ (k \notin ks /\ HasFrom(d, k, w))
  <2>1. HasFrom(Spread(d, new), k, w) <=>
          HasFrom(new, k, w) \/ (k \notin DOMAIN new /\ HasFrom(d, k, w))
    BY SpreadFacts
  <2> QED BY <1>1, <2>1
<1>4. ASSUME NEW w, In(Spread(d, new), w) PROVE w = c \/ In(d, w)
  <2>1. In(d, w) \/ In(new, w)
    BY <1>4, SpreadFacts
  <2> QED BY <1>1, <2>1
<1> QED BY <1>2, <1>3, <1>4

LEMMA NothingInEmpty == \A w : ~In(Empty, w)
BY DEF In, Empty

LEMMA LearnInitial == LearnInit => LearnInv
<1> SUFFICES ASSUME LearnInit PROVE LearnInv
  OBVIOUS
<1>1. /\ op = [c \in Callers |-> "none"] /\ patch = [c \in Callers |-> {}]
      /\ step = [c \in Callers |-> "idle"]
      /\ doc = [c \in Callers |-> Empty] /\ row = [c \in Callers |-> NoRow]
      /\ events = {} /\ recs = <<>>
      /\ ended = [c \in Callers |-> "none"]
      /\ prior = [c \in Callers |-> {}]
  BY DEF LearnInit
<1>2. <<>> \in Seq(RecRow) /\ DOMAIN <<>> = {}
  OBVIOUS
<1>3. LearnTypes
  BY <1>1, <1>2 DEF LearnTypes, LearnSteps
<1>4. \A c \in Callers : LearnerAt(c)
  BY <1>1 DEF LearnerAt, Doing, RowSteps, DeleteSteps
<1>5. \A c \in Callers : EraserAt(c) /\ \A k \in Keys : WriterAt(c, k)
  BY <1>1 DEF EraserAt, WriterAt, Undisturbed
<1>6. RowsAt
  BY <1>1, <1>2 DEF RowsAt, RowSteps
<1> QED BY <1>3, <1>4, <1>5, <1>6 DEF LearnInv

\* Whoever is at work has ended for nobody; so two at work overlap.
LEMMA ActiveFacts ==
  ASSUME LearnInv, NEW c \in Callers, step[c] \notin {"idle", "done"}
  PROVE  /\ Begun(c) /\ c # Before
         /\ \A q \in Callers : c \notin prior[q] /\ ~Precedes(c, q)
         /\ \A q \in Callers \ {c} : step[q] \notin {"idle", "done"} => Overlaps(c, q) /\ Overlaps(q, c)
<1>1. /\ LearnTypes /\ \A q \in Callers : LearnerAt(q)
      /\ Before \notin Callers
  BY LearnAssumption DEF LearnInv
<1>2. Begun(c)
  BY <1>1 DEF Begun, LearnerAt, Doing, LearnOps, LearnTypes, LearnSteps, RowSteps, DeleteSteps
<1>3. \A q \in Callers : c \notin prior[q]
  BY <1>1 DEF LearnerAt
<1>4. \A q \in Callers : step[q] \notin {"idle", "done"} => q \notin prior[c]
  BY <1>1 DEF LearnerAt
<1> QED BY <1>1, <1>2, <1>3, <1>4 DEF Precedes, Overlaps

-----------------------------------------------------------------------------
(* One statement of one request. *)

\* c, which is at work, takes a step that leaves alone what the others hold.
Works(c) ==
  /\ step[c] \notin {"idle", "done"} /\ step'[c] \in LearnSteps \ {"idle"}
  /\ UNCHANGED <<op, patch, prior>>
  /\ step' \in [Callers -> LearnSteps]
  /\ \A q \in Callers \ {c} : step'[q] = step[q] /\ doc'[q] = doc[q] /\ ended'[q] = ended[q]

\* A delete that met nobody before a step of c had ended before c began: what it
\* erased stays erased if c brings back nothing.
LEMMA EraserKeeps ==
  ASSUME LearnInv, NEW c \in Callers, Works(c), NEW d \in Callers \ {c},
         \A w \in Writers : Carried(w)' => w = c \/ Carried(w)
  PROVE  EraserAt(d)'
<1>1. /\ EraserAt(d) /\ LearnerAt(c) /\ UNCHANGED <<op, patch, prior>>
      /\ step'[d] = step[d] /\ ended'[d] = ended[d]
  BY DEF LearnInv, Works
<1>2. Begun(c) /\ ~Precedes(c, d) /\ c # Before
  BY ActiveFacts DEF Works
<1> SUFFICES ASSUME op[d] = "delete", Alone(d)'
             PROVE  /\ step[d] = "done"
                    /\ ended[d] = "ok" => \A w \in Writers : w # d /\ Precedes(w, d)' => ~Carried(w)'
  BY <1>1 DEF EraserAt
<1>3. Alone(d)
  BY <1>1 DEF Alone, Begun, Overlaps, Precedes
<1>4. step[d] = "done"
  <2>1. ~Overlaps(d, c)
    BY <1>2, <1>3 DEF Alone
  <2>2. Precedes(d, c)
    BY <1>2, <2>1 DEF Overlaps
  <2>3. d # Before
    BY LearnAssumption
  <2> QED BY <1>1, <2>2, <2>3 DEF Precedes, LearnerAt
<1>5. ASSUME ended[d] = "ok", NEW w \in Writers, w # d, Precedes(w, d)'
      PROVE  ~Carried(w)'
  <2>1. Precedes(w, d)
    BY <1>1, <1>5 DEF Precedes
  <2>2. ~Carried(w)
    BY <1>1, <1>3, <1>5, <2>1 DEF EraserAt
  <2> QED BY <1>2, <2>1, <2>2
<1> QED BY <1>4, <1>5

\* What a writer of k that met nobody stored is there after a step of a caller c that
\* keeps what it finds under the keys it does not write.
LEMMA WriterKeeps ==
  ASSUME LearnInv, NEW c \in Callers, Works(c), NEW v \in Callers \ {c}, NEW k \in Keys,
         \A w \in prior[c] :
           op[c] # "delete" /\ k \notin patch[c] /\ Keeping(c, w, k) => Keeping(c, w, k)'
  PROVE  WriterAt(v, k)'
<1>1. /\ WriterAt(v, k) /\ LearnerAt(c) /\ UNCHANGED <<op, patch, prior>>
      /\ \A q \in Callers \ {c} : step'[q] = step[q] /\ doc'[q] = doc[q] /\ ended'[q] = ended[q]
  BY DEF LearnInv, Works
<1>2. Begun(c) /\ ~Precedes(c, v) /\ c # Before /\ v # Before
  BY ActiveFacts, LearnAssumption DEF Works
<1> SUFFICES ASSUME Undisturbed(v, k)'
             PROVE  Storing(v, k)' /\ (Stored(v)' => \A q \in Callers : v \in prior[q] => Keeping(q, v, k)')
  BY <1>1 DEF WriterAt
<1>3. Undisturbed(v, k)
  BY <1>1 DEF Undisturbed, Begun, Overlaps, Precedes
<1>4. v \in prior[c] /\ op[c] # "delete" /\ k \notin patch[c]
  <2>1. ~Overlaps(v, c)
    BY <1>2, <1>3 DEF Undisturbed
  <2>2. Precedes(v, c)
    BY <1>2, <2>1 DEF Overlaps
  <2> QED BY <1>2, <1>3, <2>2 DEF Precedes, Undisturbed
<1>5. step[v] = "done" /\ step'[v] = "done" /\ (Stored(v)' <=> Stored(v)) /\ (Stored(v) <=> ended[v] = "ok")
  <2>1. step[v] = "done"
    BY <1>1, <1>4 DEF LearnerAt
  <2> QED BY <1>1, <2>1 DEF Stored, RowSteps
<1>6. CASE ~Stored(v)
  BY <1>5, <1>6 DEF Storing
<1>7. CASE Stored(v)
  <2>1. \A q \in Callers : v \in prior[q] => Keeping(q, v, k)
    BY <1>1, <1>3, <1>7 DEF WriterAt
  <2>2. Keeping(c, v, k)'
    BY <1>4, <2>1
  <2>3. HasFrom(profile, k, v)'
    BY <2>2 DEF Keeping
  <2>4. ASSUME NEW q \in Callers \ {c}, v \in prior[q] PROVE Keeping(q, v, k)'
    <3>1. Keeping(q, v, k) /\ step'[q] = step[q] /\ doc'[q] = doc[q] /\ op' = op
      BY <1>1, <2>1, <2>4
    <3> QED BY <2>3, <3>1 DEF Keeping, HasFrom
  <2> QED BY <1>5, <2>2, <2>3, <2>4 DEF Storing
<1> QED BY <1>6, <1>7

\* A step of c keeps the invariant if it leaves c where its operation may be, brings
\* back nothing, keeps what it found and stores what it writes.
LEMMA WorkKeeps ==
  ASSUME LearnInv, NEW c \in Callers, Works(c), LearnTypes', RowsAt', op[c] \in Doing(step'[c]),
         step'[c] \in Blank => doc'[c] = Empty, ended'[c] = "ok" => step'[c] = "done",
         \A w \in Writers : Carried(w)' => w = c \/ Carried(w),
         op[c] = "delete" => EraserAt(c)',
         \A w \in prior[c], k \in Keys :
           op[c] # "delete" /\ k \notin patch[c] /\ Keeping(c, w, k) => Keeping(c, w, k)',
         \A k \in patch[c] :
           op[c] \in {"save_context", "update_profile"} /\ Storing(c, k) => Storing(c, k)'
  PROVE  LearnInv'
<1>1. /\ \A q \in Callers : LearnerAt(q) /\ EraserAt(q) /\ \A k \in Keys : WriterAt(q, k)
      /\ UNCHANGED <<op, patch, prior>>
      /\ \A q \in Callers \ {c} : step'[q] = step[q] /\ doc'[q] = doc[q] /\ ended'[q] = ended[q]
      /\ step[c] # "done" /\ step'[c] # "idle"
  BY DEF LearnInv, Works
<1>2. \A q \in Callers : c \notin prior[q]
  BY ActiveFacts DEF Works
<1>3. ASSUME NEW q \in Callers PROVE LearnerAt(q)'
  <2>1. \A p \in prior[q] : p \in Callers \ {c} /\ step[p] = "done" /\ q \notin prior[p]
    BY <1>1, <1>2 DEF LearnerAt, LearnInv, LearnTypes
  <2>2. CASE q = c
    BY <1>1, <2>1, <2>2 DEF LearnerAt
  <2>3. CASE q # c
    BY <1>1, <2>1, <2>3 DEF LearnerAt
  <2> QED BY <2>2, <2>3
<1>4. ASSUME NEW q \in Callers PROVE EraserAt(q)'
  <2>1. op[c] # "delete" => EraserAt(c)'
    BY <1>1 DEF EraserAt
  <2>2. q # c => EraserAt(q)'
    BY EraserKeeps
  <2> QED BY <2>1, <2>2
<1>5. ASSUME NEW q \in Callers, NEW k \in Keys PROVE WriterAt(q, k)'
  <2>1. q # c => WriterAt(q, k)'
    BY WriterKeeps
  <2>2. WriterAt(c, k)'
    <3> SUFFICES ASSUME Undisturbed(c, k)' PROVE Storing(c, k)'
      BY <1>1, <1>2 DEF WriterAt
    <3>1. Undisturbed(c, k)
      BY <1>1 DEF Undisturbed, Begun, Overlaps, Precedes
    <3> QED BY <1>1, <3>1 DEF Undisturbed, WriterAt
  <2> QED BY <2>1, <2>2
<1> QED BY <1>3, <1>4, <1>5 DEF LearnInv

LEMMA RecTypes ==
  ASSUME LearnTypes
  PROVE  \A i \in DOMAIN recs : recs[i] \in RecRow /\ recs[i].id \in Callers /\ recs[i].source \in Callers
<1>1. recs \in Seq(RecRow)
  BY DEF LearnTypes
<1>2. \A i \in DOMAIN recs : recs[i] \in RecRow
  BY <1>1
<1> QED BY <1>2 DEF RecRow

LEMMA Moves ==
  ASSUME LearnInv, NEW c \in Callers, step[c] \notin {"idle", "done"},
         NEW s \in LearnSteps \ {"idle"}, Go(c, s), UNCHANGED <<op, patch, prior>>,
         \A q \in Callers \ {c} : doc'[q] = doc[q] /\ ended'[q] = ended[q]
  PROVE  Works(c) /\ step'[c] = s
BY DEF LearnInv, LearnTypes, Works, Go

\* Who overlaps whom does not change while nobody begins.
LEMMA SameOverlaps ==
  ASSUME NEW c \in Callers, Works(c)
  PROVE  /\ \A p, q : Overlaps(p, q)' <=> Overlaps(p, q)
         /\ events \subseteq events' => \A q : Accounted(q) => Accounted(q)'
BY DEF Works, Overlaps, Precedes, Accounted

\* A step that leaves the rows alone and takes no interaction away.
LEMMA RowsStay ==
  ASSUME LearnInv, NEW c \in Callers, Works(c), UNCHANGED recs, events \subseteq events',
         step'[c] \in RowSteps => Accounted(c)',
         step'[c] = "add" /\ "url" \in Payload(c)' => \A i \in DOMAIN recs : Fresh(i, c)
  PROVE  RowsAt'
<1>1. /\ RowsAt /\ UNCHANGED <<op, patch, prior, recs>> /\ step[c] # "idle" /\ step'[c] # "idle"
      /\ \A q \in Callers \ {c} : step'[q] = step[q] /\ doc'[q] = doc[q]
  BY DEF LearnInv, Works
<1>2. \A i \in DOMAIN recs : recs[i].id \in Callers /\ recs[i].source \in Callers
  BY RecTypes DEF LearnInv
<1>3. /\ \A p, q : Overlaps(p, q)' <=> Overlaps(p, q)
      /\ \A q : Accounted(q) => Accounted(q)'
  BY SameOverlaps
<1>4. /\ \A i, j : Apart(i, j) => Apart(i, j)'
      /\ \A i, q : Fresh(i, q) => Fresh(i, q)'
  BY <1>1 DEF Apart, Fresh, Overlaps, Precedes
<1>5. ASSUME NEW i \in DOMAIN recs PROVE RowAt(i)'
  <2>1. RowAt(i) /\ recs[i].id \in Callers /\ recs[i].source \in Callers
    BY <1>1, <1>2 DEF RowsAt
  <2>2. step'[recs[i].id] # "idle" /\ step'[recs[i].source] # "idle"
    BY <1>1, <2>1 DEF RowAt
  <2>3. PICK s : s = recs[i].source
    OBVIOUS
  <2>4. Accounted(s)'
    BY <1>3, <2>1, <2>3 DEF RowAt
  <2> QED BY <1>1, <2>2, <2>3, <2>4 DEF RowAt
<1>6. ASSUME NEW q \in Callers
      PROVE  /\ step'[q] \in RowSteps => Accounted(q)'
             /\ step'[q] = "add" /\ "url" \in Payload(q)' => \A i \in DOMAIN recs : Fresh(i, q)'
  <2>1. CASE q = c
    BY <1>4, <2>1
  <2>2. CASE q # c
    <3>1. /\ step[q] \in RowSteps => Accounted(q)
          /\ step[q] = "add" /\ "url" \in Payload(q) => \A i \in DOMAIN recs : Fresh(i, q)
      BY <1>1 DEF RowsAt
    <3>2. step'[q] = step[q] /\ Payload(q)' = Payload(q)
      BY <1>1, <2>2 DEF Payload
    <3> QED BY <1>3, <1>4, <3>1, <3>2
  <2> QED BY <2>1, <2>2
<1>7. \A i \in DOMAIN recs : \A j \in DOMAIN recs : i # j => Apart(i, j)'
  BY <1>1, <1>4 DEF RowsAt
<1> QED BY <1>1, <1>5, <1>6, <1>7 DEF RowsAt

LEMMA WhereCarried ==
  ASSUME NEW w
  PROVE  Carried(w) <=> \/ In(profile, w) \/ In(context, w) \/ w \in events
                        \/ \E i \in DOMAIN recs : recs[i].id = w
                        \/ \E q \in Callers : In(doc[q], w)
BY DEF Carried, Remembers, In

\* A step brings nothing back when what it stores or holds was stored or held.
LEMMA NothingComesBack ==
  ASSUME NEW c \in Callers, Works(c), NEW w,
         In(profile', w) => w = c \/ Carried(w), In(context', w) => w = c \/ Carried(w),
         events' \subseteq events \cup {c}, In(doc'[c], w) => w = c \/ Carried(w),
         \A i \in DOMAIN recs' : recs'[i].id = c \/ \E j \in DOMAIN recs : recs'[i].id = recs[j].id
  PROVE  Carried(w)' => w = c \/ Carried(w)
<1>1. Carried(w)' => \/ In(profile', w) \/ In(context', w) \/ w \in events'
                     \/ \E i \in DOMAIN recs' : recs'[i].id = w
                     \/ \E q \in Callers : In(doc'[q], w)
  BY DEF Carried, Remembers, In
<1>2. ASSUME NEW q \in Callers, In(doc'[q], w) PROVE w = c \/ Carried(w)
  <2>1. CASE q = c
    BY <1>2, <2>1
  <2>2. CASE q # c
    BY <1>2, <2>2, WhereCarried DEF Works
  <2> QED BY <2>1, <2>2
<1>3. w \in events' => w = c \/ Carried(w)
  BY WhereCarried
<1>4. ASSUME NEW i \in DOMAIN recs', recs'[i].id = w PROVE w = c \/ Carried(w)
  BY <1>4, WhereCarried
<1> QED BY <1>1, <1>2, <1>3, <1>4

\* A statement on the documents alone.
LEMMA DocumentStepKeeps ==
  ASSUME LearnInv, NEW c \in Callers, Works(c), UNCHANGED <<events, recs>>,
         DOMAIN doc' = Callers, DOMAIN row' = Callers, DOMAIN ended' = Callers,
         op[c] \in Doing(step'[c]), step'[c] \notin RowSteps,
         step'[c] \in Blank => doc'[c] = Empty, ended'[c] = "ok" => step'[c] = "done",
         \A w : In(profile', w) \/ In(context', w) \/ In(doc'[c], w) => w = c \/ Carried(w),
         op[c] = "delete" => EraserAt(c)',
         \A w \in prior[c], k \in Keys :
           op[c] # "delete" /\ k \notin patch[c] /\ Keeping(c, w, k) => Keeping(c, w, k)',
         \A k \in patch[c] :
           op[c] \in {"save_context", "update_profile"} /\ Storing(c, k) => Storing(c, k)'
  PROVE  LearnInv'
<1>1. LearnTypes'
  BY DEF LearnInv, LearnTypes, Works
<1>2. RowsAt'
  <2>1. step'[c] # "add"
    BY DEF RowSteps
  <2> QED BY <2>1, RowsStay
<1>3. ASSUME NEW w PROVE Carried(w)' => w = c \/ Carried(w)
  <2>1. \A i \in DOMAIN recs' : \E j \in DOMAIN recs : recs'[i].id = recs[j].id
    OBVIOUS
  <2> QED BY <2>1, NothingComesBack
<1> QED BY <1>1, <1>2, <1>3, WorkKeeps

-----------------------------------------------------------------------------
(* The statements. *)

LEMMA DoingTable ==
  /\ Doing("bill") = LearnOps \ {"delete"}
  /\ Doing("legacy_write") = {"save_context", "update_profile", "get_context"}
  /\ Doing("profile_read") = {"save_context", "update_profile", "get_profile", "get_context"}
  /\ Doing("legacy_read") = {"get_profile", "get_context"}
  /\ Doing("migrate") = {"get_profile"}
  /\ Doing("profile_write") = {"save_context", "update_profile", "get_profile"}
  /\ Doing("event") = {"save", "feedback", "save_context", "update_profile"}
  /\ Doing("find") = {"save", "save_context", "update_profile"}
  /\ Doing("link") = {"save", "save_context", "update_profile"}
  /\ Doing("add") = {"save", "save_context", "update_profile"}
  /\ Doing("like") = {"feedback"}
  /\ Doing("answer") = LearnOps \ {"delete", "invalid"}
  /\ Doing("delete_recs") = {"delete"}
  /\ Doing("delete_events") = {"delete"}
  /\ Doing("delete_user") = {"delete"}
  /\ Doing("delete_profile") = {"delete"}
  /\ Doing("done") = LearnOps
  /\ Doing("idle") = {"none"}
BY DEF Doing, RowSteps, DeleteSteps

LEMMA BillKeeps == ASSUME LearnInv, NEW c \in Callers, Bill(c) PROVE LearnInv'
<1>1. /\ LearnTypes /\ LearnerAt(c)
      /\ step[c] = "bill" /\ UNCHANGED <<op, patch, doc, row, prior, context, profile, events, recs>>
      /\ op[c] \in LearnOps \ {"delete"} /\ doc[c] = Empty /\ ended[c] # "ok"
  <2>1. LearnTypes /\ LearnerAt(c) /\ step[c] = "bill"
    BY DEF Bill, LearnInv
  <2>2. op[c] \in LearnOps \ {"delete"} /\ doc[c] = Empty /\ ended[c] # "ok"
    BY <2>1, DoingTable DEF LearnerAt, Blank
  <2> QED BY <2>1, <2>2 DEF Bill, learnReqVars, storeVars
<1>2. PICK s : /\ Go(c, s)
               /\ \/ s = "done" /\ \E what \in {"denied", "invalid"} : ended' = [ended EXCEPT ![c] = what]
                  \/ /\ op[c] # "invalid" /\ UNCHANGED ended
                     /\ s = CASE op[c] = "save_context" -> "legacy_write"
                              [] op[c] \in {"update_profile", "get_profile"} -> "profile_read"
                              [] op[c] = "save" -> "event"
                              [] op[c] = "feedback" -> "like"
                              [] op[c] = "get_context" -> "legacy_read"
  BY <1>1 DEF Bill, Finish
<1>3. /\ s \in {"done", "legacy_write", "profile_read", "event", "like", "legacy_read"}
      /\ op[c] \in Doing(s) /\ (s = "event" => op[c] = "save") /\ (s = "legacy_read" => op[c] = "get_context")
      /\ s = "legacy_write" => op[c] = "save_context"
  BY <1>1, <1>2, DoingTable DEF LearnOps
<1>4. /\ ended'[c] # "ok" /\ DOMAIN ended' = Callers
      /\ \A q \in Callers \ {c} : ended'[q] = ended[q]
  BY <1>1, <1>2 DEF LearnTypes
<1>5. Works(c) /\ step'[c] = s
  <2>1. s \in LearnSteps \ {"idle"}
    BY <1>3 DEF LearnSteps
  <2> QED BY <1>1, <1>2, <1>4, <2>1, Moves
<1>6. \A w : In(profile', w) \/ In(context', w) \/ In(doc'[c], w) => Carried(w)
  BY <1>1, WhereCarried
<1>7. \A w, k : Keeping(c, w, k) => Keeping(c, w, k)'
  BY <1>1, <1>3, <1>5 DEF Keeping, HasFrom
<1>8. \A k : op[c] \in {"save_context", "update_profile"} => Storing(c, k)'
  BY <1>1, <1>3, <1>4, <1>5 DEF Storing, Stored, RowSteps
<1>9. step'[c] \notin RowSteps /\ DOMAIN doc' = Callers /\ DOMAIN row' = Callers
  BY <1>1, <1>3, <1>5 DEF RowSteps, LearnTypes
<1> QED BY <1>1, <1>3, <1>4, <1>5, <1>6, <1>7, <1>8, <1>9, DocumentStepKeeps

LEMMA AtWork ==
  ASSUME LearnInv, NEW c \in Callers, step[c] \notin {"idle", "done"}
  PROVE  LearnTypes /\ RowsAt /\ op[c] \in Doing(step[c]) /\ ended[c] # "ok" /\ EraserAt(c)
BY DEF LearnInv, LearnerAt

LEMMA LegacyWriteKeeps == ASSUME LearnInv, NEW c \in Callers, LegacyWrite(c) PROVE LearnInv'
<1>1. /\ LearnTypes /\ step[c] = "legacy_write" /\ ended[c] # "ok"
      /\ op[c] \in {"save_context", "update_profile", "get_context"}
      /\ UNCHANGED <<op, patch, doc, row, prior, profile, events, recs, ended>>
  BY AtWork, DoingTable DEF LegacyWrite, learnReqVars
<1>2. PICK s \in {"profile_read", "event", "answer"} :
        /\ Go(c, s) /\ (s = "profile_read" <=> op[c] = "save_context")
        /\ s = "event" => op[c] = "update_profile"
  BY <1>1 DEF LegacyWrite
<1>3. Works(c) /\ step'[c] = s
  <2>1. s \in LearnSteps \ {"idle"}
    BY DEF LearnSteps
  <2> QED BY <1>1, <1>2, <2>1, Moves
<1>4. op[c] \in Doing(s) /\ s \notin RowSteps \cup Blank
  BY <1>1, <1>2, DoingTable DEF LearnOps, RowSteps, Blank, DeleteSteps
<1>5. \A w : In(profile', w) \/ In(context', w) \/ In(doc'[c], w) => w = c \/ Carried(w)
  <2>1. context' = Merge(Empty, c, patch[c]) \/ context' = doc[c]
    BY DEF LegacyWrite
  <2>2. \A w : In(context', w) => w = c \/ In(doc[c], w)
    BY <2>1, MergeFacts, NothingInEmpty
  <2> QED BY <1>1, <2>2, WhereCarried
<1>6. \A w, k : Keeping(c, w, k) => Keeping(c, w, k)'
  BY <1>1, <1>2, <1>3 DEF Keeping, HasFrom
<1>7. ASSUME NEW k, op[c] \in {"save_context", "update_profile"}, Storing(c, k) PROVE Storing(c, k)'
  <2>1. CASE op[c] = "save_context"
    BY <1>1, <1>2, <1>3, <2>1 DEF Storing, Stored, RowSteps
  <2>2. CASE op[c] = "update_profile"
    BY <1>1, <1>2, <1>3, <1>7, <2>2 DEF Storing, Stored, HasFrom
  <2> QED BY <1>7, <2>1, <2>2
<1> QED BY <1>1, <1>3, <1>4, <1>5, <1>6, <1>7, DocumentStepKeeps DEF LearnTypes

LEMMA ProfileReadKeeps == ASSUME LearnInv, NEW c \in Callers, ProfileRead(c) PROVE LearnInv'
<1>1. /\ LearnTypes /\ step[c] = "profile_read" /\ ended[c] # "ok"
      /\ op[c] \in {"save_context", "update_profile", "get_profile", "get_context"}
      /\ UNCHANGED <<op, patch, row, prior, context, profile, events, recs, ended>>
  BY AtWork, DoingTable DEF ProfileRead, storeVars
<1>2. PICK d, s :
        /\ doc' = [doc EXCEPT ![c] = d] /\ Go(c, s)
        /\ \/ /\ op[c] \in {"save_context", "update_profile"} /\ s = "profile_write"
              /\ d = Merge(profile, c, patch[c])
           \/ /\ op[c] = "get_profile" /\ d = profile
              /\ s = IF Has(profile) THEN "answer" ELSE "legacy_read"
           \/ /\ op[c] = "get_context" /\ d = profile /\ s \in {"legacy_write", "answer"}
  BY <1>1 DEF ProfileRead
<1>3. /\ s \in {"profile_write", "answer", "legacy_read", "legacy_write"}
      /\ op[c] \in Doing(s) /\ s \notin RowSteps \cup Blank
  BY <1>1, <1>2, DoingTable DEF LearnOps, RowSteps, Blank, DeleteSteps
<1>4. /\ doc'[c] = d /\ DOMAIN doc' = Callers
      /\ \A q \in Callers \ {c} : doc'[q] = doc[q]
  BY <1>1, <1>2 DEF LearnTypes
<1>5. Works(c) /\ step'[c] = s
  <2>1. s \in LearnSteps \ {"idle"}
    BY <1>3 DEF LearnSteps
  <2> QED BY <1>1, <1>2, <1>4, <2>1, Moves
<1>6. /\ \A w : In(d, w) => w = c \/ In(profile, w)
      /\ \A k \in patch[c] : s = "profile_write" => HasFrom(d, k, c)
      /\ \A k, w : s = "profile_write" /\ k \notin patch[c] /\ HasFrom(profile, k, w) => HasFrom(d, k, w)
  BY <1>2, MergeFacts
<1>7. \A w : In(profile', w) \/ In(context', w) \/ In(doc'[c], w) => w = c \/ Carried(w)
  BY <1>1, <1>4, <1>6, WhereCarried
<1>8. ASSUME NEW w, NEW k, k \notin patch[c], Keeping(c, w, k) PROVE Keeping(c, w, k)'
  <2>1. HasFrom(profile, k, w) /\ HasFrom(profile, k, w)' /\ Has(profile)
    BY <1>1, <1>8 DEF Keeping, HasFrom, Has
  <2>2. step'[c] \in {"legacy_read", "migrate", "profile_write"} => op'[c] # "get_profile"
    BY <1>1, <1>2, <1>5, <2>1
  <2>3. s = "profile_write" => HasFrom(doc'[c], k, w)
    BY <1>4, <1>6, <1>8, <2>1
  <2> QED BY <1>5, <2>1, <2>2, <2>3 DEF Keeping, HasFrom
<1>9. ASSUME NEW k \in patch[c], op[c] \in {"save_context", "update_profile"} PROVE Storing(c, k)'
  <2>1. HasFrom(doc'[c], k, c) /\ s = "profile_write"
    BY <1>2, <1>4, <1>6, <1>9
  <2> QED BY <1>1, <1>5, <2>1 DEF Storing, Stored, HasFrom, RowSteps
<1> QED BY <1>1, <1>3, <1>4, <1>5, <1>7, <1>8, <1>9, DocumentStepKeeps DEF LearnTypes

LEMMA LegacyReadKeeps == ASSUME LearnInv, NEW c \in Callers, LegacyRead(c) PROVE LearnInv'
<1>1. /\ LearnTypes /\ step[c] = "legacy_read" /\ ended[c] # "ok" /\ op[c] \in {"get_profile", "get_context"}
      /\ UNCHANGED <<op, patch, row, prior, context, profile, events, recs, ended>>
  BY AtWork, DoingTable DEF LegacyRead, storeVars
<1>2. PICK s \in {"answer", "profile_read", "migrate"} :
        /\ doc' = [doc EXCEPT ![c] = context] /\ Go(c, s)
        /\ s = "migrate" => op[c] = "get_profile"
  BY <1>1 DEF LegacyRead
<1>3. op[c] \in Doing(s) /\ s \notin RowSteps \cup Blank
  BY <1>1, <1>2, DoingTable DEF LearnOps, RowSteps, Blank, DeleteSteps
<1>4. doc'[c] = context /\ DOMAIN doc' = Callers /\ \A q \in Callers \ {c} : doc'[q] = doc[q]
  BY <1>1, <1>2 DEF LearnTypes
<1>5. Works(c) /\ step'[c] = s
  <2>1. s \in LearnSteps \ {"idle"}
    BY DEF LearnSteps
  <2> QED BY <1>1, <1>2, <1>4, <2>1, Moves
<1>6. \A w : In(profile', w) \/ In(context', w) \/ In(doc'[c], w) => w = c \/ Carried(w)
  BY <1>1, <1>4, WhereCarried
<1>7. \A w, k : Keeping(c, w, k) => Keeping(c, w, k)'
  BY <1>1, <1>2, <1>5 DEF Keeping, HasFrom
<1> QED BY <1>1, <1>3, <1>4, <1>5, <1>6, <1>7, DocumentStepKeeps DEF LearnTypes

LEMMA MigrateKeeps == ASSUME LearnInv, NEW c \in Callers, Migrate(c) PROVE LearnInv'
<1>1. /\ LearnTypes /\ step[c] = "migrate" /\ ended[c] # "ok" /\ op[c] = "get_profile"
      /\ UNCHANGED <<op, patch, row, prior, context, profile, events, recs, ended>>
      /\ doc' = [doc EXCEPT ![c] = Spread(profile, doc[c])] /\ Go(c, "profile_write")
  BY AtWork, DoingTable DEF Migrate, storeVars
<1>2. op[c] \in Doing("profile_write") /\ "profile_write" \notin RowSteps \cup Blank
  BY <1>1, DoingTable DEF RowSteps, Blank, DeleteSteps
<1>3. /\ doc'[c] = Spread(profile, doc[c]) /\ DOMAIN doc' = Callers
      /\ \A q \in Callers \ {c} : doc'[q] = doc[q]
  BY <1>1 DEF LearnTypes
<1>4. Works(c) /\ step'[c] = "profile_write"
  <2>1. "profile_write" \in LearnSteps \ {"idle"}
    BY DEF LearnSteps
  <2> QED BY <1>1, <1>3, <2>1, Moves
<1>5. \A w : In(profile', w) \/ In(context', w) \/ In(doc'[c], w) => w = c \/ Carried(w)
  BY <1>1, <1>3, SpreadFacts, WhereCarried
<1>6. \A w, k : ~Keeping(c, w, k)
  BY <1>1 DEF Keeping
<1> QED BY <1>1, <1>2, <1>3, <1>4, <1>5, <1>6, DocumentStepKeeps DEF LearnTypes

LEMMA ProfileWriteKeeps == ASSUME LearnInv, NEW c \in Callers, ProfileWrite(c) PROVE LearnInv'
<1>1. /\ LearnTypes /\ step[c] = "profile_write" /\ ended[c] # "ok"
      /\ op[c] \in {"save_context", "update_profile", "get_profile"}
      /\ UNCHANGED <<op, patch, doc, row, prior, context, events, recs, ended>> /\ profile' = doc[c]
  BY AtWork, DoingTable DEF ProfileWrite, learnReqVars
<1>2. PICK s \in {"legacy_write", "event", "answer"} :
        /\ Go(c, s) /\ (s = "legacy_write" <=> op[c] = "update_profile")
        /\ s = "event" => op[c] = "save_context"
  BY <1>1 DEF ProfileWrite
<1>3. Works(c) /\ step'[c] = s
  <2>1. s \in LearnSteps \ {"idle"}
    BY DEF LearnSteps
  <2> QED BY <1>1, <1>2, <2>1, Moves
<1>4. op[c] \in Doing(s) /\ s \notin RowSteps \cup Blank
  BY <1>1, <1>2, DoingTable DEF LearnOps, RowSteps, Blank, DeleteSteps
<1>5. \A w : In(profile', w) \/ In(context', w) \/ In(doc'[c], w) => w = c \/ Carried(w)
  BY <1>1, WhereCarried
<1>6. \A w, k : Keeping(c, w, k) => Keeping(c, w, k)'
  BY <1>1, <1>2, <1>3 DEF Keeping, HasFrom
<1>7. \A k : Storing(c, k) => Storing(c, k)'
  BY <1>1, <1>2, <1>3 DEF Storing, HasFrom
<1> QED BY <1>1, <1>3, <1>4, <1>5, <1>6, <1>7, DocumentStepKeeps DEF LearnTypes

LEMMA AnswerKeeps == ASSUME LearnInv, NEW c \in Callers, AnswerLearn(c) PROVE LearnInv'
<1>1. /\ LearnTypes /\ step[c] = "answer" /\ op[c] \in LearnOps \ {"delete", "invalid"}
      /\ UNCHANGED <<op, patch, prior, context, profile, events, recs>> /\ Go(c, "done")
      /\ ended' = [ended EXCEPT ![c] = "ok"] /\ doc' = [doc EXCEPT ![c] = Empty]
      /\ row' = [row EXCEPT ![c] = NoRow]
  BY AtWork, DoingTable DEF AnswerLearn, Finish, Forget, storeVars
<1>2. op[c] \in Doing("done") /\ "done" \notin RowSteps
  BY <1>1, DoingTable DEF RowSteps
<1>3. /\ doc'[c] = Empty /\ DOMAIN doc' = Callers /\ DOMAIN row' = Callers /\ DOMAIN ended' = Callers
      /\ \A q \in Callers \ {c} : doc'[q] = doc[q] /\ ended'[q] = ended[q]
  BY <1>1 DEF LearnTypes
<1>4. Works(c) /\ step'[c] = "done"
  <2>1. "done" \in LearnSteps \ {"idle"}
    BY DEF LearnSteps
  <2> QED BY <1>1, <1>3, <2>1, Moves
<1>5. \A w : In(profile', w) \/ In(context', w) \/ In(doc'[c], w) => Carried(w)
  BY <1>1, <1>3, WhereCarried, NothingInEmpty
<1>6. \A w, k : Keeping(c, w, k) => Keeping(c, w, k)'
  BY <1>1, <1>4 DEF Keeping, HasFrom
<1>7. \A k : Storing(c, k) => Storing(c, k)'
  BY <1>1, <1>4 DEF Storing, Stored, HasFrom
<1> QED BY <1>1, <1>2, <1>3, <1>4, <1>5, <1>6, <1>7, DocumentStepKeeps

LEMMA FailKeeps == ASSUME LearnInv, NEW c \in Callers, FailLearn(c) PROVE LearnInv'
<1>1. /\ step[c] \notin {"idle", "done"}
      /\ UNCHANGED <<op, patch, prior, context, profile, events, recs>> /\ Go(c, "done")
      /\ ended' = [ended EXCEPT ![c] = "error"] /\ doc' = [doc EXCEPT ![c] = Empty]
      /\ row' = [row EXCEPT ![c] = NoRow]
  BY DEF FailLearn, Active, Finish, Forget, storeVars
<1>2. /\ LearnTypes /\ op[c] \in Doing("done") /\ "done" \notin RowSteps
  <2>1. LearnTypes /\ op[c] \in Doing(step[c]) /\ step[c] \in LearnSteps
    BY <1>1, AtWork DEF LearnTypes
  <2>2. op[c] \in LearnOps
    BY <1>1, <2>1, DoingTable DEF LearnSteps, LearnOps, RowSteps, DeleteSteps
  <2> QED BY <2>1, <2>2, DoingTable DEF RowSteps
<1>3. /\ doc'[c] = Empty /\ DOMAIN doc' = Callers /\ DOMAIN row' = Callers /\ DOMAIN ended' = Callers
      /\ ended'[c] = "error" /\ \A q \in Callers \ {c} : doc'[q] = doc[q] /\ ended'[q] = ended[q]
  BY <1>1, <1>2 DEF LearnTypes
<1>4. Works(c) /\ step'[c] = "done"
  <2>1. "done" \in LearnSteps \ {"idle"}
    BY DEF LearnSteps
  <2> QED BY <1>1, <1>3, <2>1, Moves
<1>5. \A w : In(profile', w) \/ In(context', w) \/ In(doc'[c], w) => Carried(w)
  BY <1>1, <1>3, WhereCarried, NothingInEmpty
<1>6. \A w, k : Keeping(c, w, k) => Keeping(c, w, k)'
  BY <1>1, <1>4 DEF Keeping, HasFrom
<1>7. \A k : Storing(c, k)'
  BY <1>3, <1>4 DEF Storing, Stored, RowSteps
<1>8. EraserAt(c)'
  BY <1>3, <1>4 DEF EraserAt
<1> QED BY <1>1, <1>2, <1>3, <1>4, <1>5, <1>6, <1>7, <1>8, DocumentStepKeeps

LEMMA DeleteUserKeeps == ASSUME LearnInv, NEW c \in Callers, DeleteUser(c) PROVE LearnInv'
<1>1. /\ LearnTypes /\ step[c] = "delete_user" /\ op[c] = "delete" /\ ended[c] # "ok" /\ EraserAt(c)
      /\ UNCHANGED <<op, patch, doc, row, prior, profile, events, recs, ended>>
      /\ Go(c, "delete_profile") /\ context' = Empty
  BY AtWork, DoingTable DEF DeleteUser, learnReqVars
<1>2. op[c] \in Doing("delete_profile") /\ "delete_profile" \notin RowSteps /\ doc[c] = Empty
  BY <1>1, DoingTable DEF RowSteps, Blank, DeleteSteps, LearnInv, LearnerAt
<1>3. Works(c) /\ step'[c] = "delete_profile"
  <2>1. "delete_profile" \in LearnSteps \ {"idle"}
    BY DEF LearnSteps, DeleteSteps
  <2> QED BY <1>1, <2>1, Moves
<1>4. \A w : In(profile', w) \/ In(context', w) \/ In(doc'[c], w) => Carried(w)
  BY <1>1, WhereCarried, NothingInEmpty
<1>5. EraserAt(c)'
  BY <1>1, <1>3 DEF EraserAt, Alone, Begun, Overlaps, Precedes
<1> QED BY <1>1, <1>2, <1>3, <1>4, <1>5, DocumentStepKeeps DEF LearnTypes

\* The last statement: whoever met nobody has forgotten everything.
LEMMA DeleteProfileKeeps == ASSUME LearnInv, NEW c \in Callers, DeleteProfile(c) PROVE LearnInv'
<1>1. /\ LearnTypes /\ step[c] = "delete_profile" /\ op[c] = "delete" /\ EraserAt(c)
      /\ UNCHANGED <<op, patch, doc, row, prior, context, events, recs>>
      /\ Go(c, "done") /\ ended' = [ended EXCEPT ![c] = "ok"] /\ profile' = Empty
  BY AtWork, DoingTable DEF DeleteProfile, learnReqVars, Finish
<1>2. op[c] \in Doing("done") /\ "done" \notin RowSteps /\ doc[c] = Empty
  BY <1>1, DoingTable DEF RowSteps, Blank, DeleteSteps, LearnInv, LearnerAt, LearnOps
<1>3. DOMAIN ended' = Callers /\ \A q \in Callers \ {c} : ended'[q] = ended[q]
  BY <1>1 DEF LearnTypes
<1>4. Works(c) /\ step'[c] = "done"
  <2>1. "done" \in LearnSteps \ {"idle"}
    BY DEF LearnSteps
  <2> QED BY <1>1, <1>3, <2>1, Moves
<1>5. \A w : In(profile', w) \/ In(context', w) \/ In(doc'[c], w) => Carried(w)
  BY <1>1, WhereCarried, NothingInEmpty
<1>6. EraserAt(c)'
  <2> SUFFICES ASSUME Alone(c)' PROVE \A w \in Writers : ~Carried(w)'
    BY <1>4 DEF EraserAt
  <2>1. Alone(c)
    BY <1>1 DEF Alone, Begun, Overlaps, Precedes
  <2>2. context' = Empty /\ events' = {} /\ recs' = <<>>
    BY <1>1, <2>1 DEF EraserAt
  <2>3. ASSUME NEW q \in Callers PROVE doc'[q] = Empty
    <3>1. CASE q = c
      BY <1>1, <1>2, <3>1
    <3>2. CASE q # c
      <4>1. step[q] \in {"idle", "done"}
        <5> SUFFICES ASSUME step[q] \notin {"idle", "done"} PROVE FALSE
          OBVIOUS
        <5>1. Overlaps(c, q) /\ Begun(q)
          BY <1>1, <3>2, ActiveFacts
        <5> QED BY <2>1, <3>2, <5>1 DEF Alone
      <4> QED BY <1>1, <4>1 DEF LearnInv, LearnerAt, Blank
    <3> QED BY <3>1, <3>2
  <2>4. DOMAIN <<>> = {}
    OBVIOUS
  <2> QED BY <1>1, <2>2, <2>3, <2>4, NothingInEmpty DEF Carried, Remembers, In, Empty
<1> QED BY <1>1, <1>2, <1>3, <1>4, <1>5, <1>6, DocumentStepKeeps DEF LearnTypes

\* A statement on interactions and recommendations alone.
LEMMA RowStepKeeps ==
  ASSUME LearnInv, NEW c \in Callers, step[c] \in {"event", "like"} \cup RowSteps \cup DeleteSteps,
         Works(c), UNCHANGED <<context, profile, doc, ended>>, DOMAIN row' = Callers,
         events' \subseteq events \cup {c}, recs' \in Seq(RecRow), RowsAt',
         op[c] \in Doing(step'[c]), step'[c] \notin {"profile_write", "legacy_read", "migrate"},
         step'[c] \in Blank => doc[c] = Empty,
         \A i \in DOMAIN recs' : recs'[i].id = c \/ \E j \in DOMAIN recs : recs'[i].id = recs[j].id,
         op[c] = "delete" => EraserAt(c)'
  PROVE  LearnInv'
<1>1. LearnTypes /\ op[c] \in Doing(step[c]) /\ ended[c] # "ok"
  BY AtWork DEF RowSteps, DeleteSteps
<1>2. LearnTypes'
  BY <1>1 DEF LearnTypes, Works
<1>3. ASSUME NEW w PROVE Carried(w)' => w = c \/ Carried(w)
  <2>1. /\ In(profile', w) => Carried(w)
        /\ In(context', w) => Carried(w)
        /\ In(doc'[c], w) => Carried(w)
    BY WhereCarried
  <2> QED BY <2>1, NothingComesBack
<1>4. \A w, k : Keeping(c, w, k) => Keeping(c, w, k)'
  BY DEF Keeping, HasFrom
<1>5. ASSUME NEW k, op[c] \in {"save_context", "update_profile"}, Storing(c, k) PROVE Storing(c, k)'
  <2>1. step[c] \in {"event"} \cup RowSteps
    BY <1>1, <1>5, DoingTable DEF DeleteSteps
  <2>2. HasFrom(profile, k, c)
    BY <1>5, <2>1 DEF Storing, Stored
  <2> QED BY <2>2 DEF Storing, HasFrom
<1> QED BY <1>1, <1>2, <1>3, <1>4, <1>5, WorkKeeps

\* An interaction is stored: a row it leads to has a source.
LEMMA EventKeeps == ASSUME LearnInv, NEW c \in Callers, Event(c) PROVE LearnInv'
<1>1. /\ LearnTypes /\ step[c] = "event" /\ op[c] \in {"save", "feedback", "save_context", "update_profile"}
      /\ UNCHANGED <<op, patch, doc, row, prior, context, profile, recs, ended>>
      /\ events' = events \cup {c}
  BY AtWork, DoingTable DEF Event, learnReqVars
<1>2. PICK s \in {"answer", "find", "add"} :
        /\ Go(c, s)
        /\ s = "add" => op[c] = "save" /\ "url" \notin Payload(c)
        /\ s = "find" => op[c] # "feedback"
  BY <1>1 DEF Event
<1>3. Works(c) /\ step'[c] = s
  <2>1. s \in LearnSteps \ {"idle"}
    BY DEF LearnSteps, RowSteps
  <2> QED BY <1>1, <1>2, <2>1, Moves
<1>4. op[c] \in Doing(s) /\ s \notin Blank
  BY <1>1, <1>2, DoingTable DEF LearnOps, Blank, DeleteSteps
<1>5. RowsAt'
  <2>1. Accounted(c)'
    BY <1>1 DEF Accounted
  <2>2. ~(step'[c] = "add" /\ "url" \in Payload(c)')
    BY <1>1, <1>2, <1>3 DEF Payload
  <2> QED BY <1>1, <1>3, <2>1, <2>2, RowsStay
<1>6. \A i \in DOMAIN recs' : \E j \in DOMAIN recs : recs'[i].id = recs[j].id
  BY <1>1
<1> QED BY <1>1, <1>2, <1>3, <1>4, <1>5, <1>6, RowStepKeeps DEF LearnTypes

\* Whoever finds no row of the link overlaps whoever adds one later.
LEMMA FindKeeps == ASSUME LearnInv, NEW c \in Callers, Find(c) PROVE LearnInv'
<1>1. /\ LearnTypes /\ RowsAt /\ step[c] = "find" /\ op[c] \in {"save", "save_context", "update_profile"}
      /\ UNCHANGED <<op, patch, doc, prior, context, profile, events, recs, ended>>
  BY AtWork, DoingTable DEF Find, storeVars
<1>2. PICK s \in {"add", "link"} :
        /\ Go(c, s) /\ DOMAIN row' = Callers
        /\ s = "add" => \A i \in DOMAIN recs : ~recs[i].linked
  BY <1>1 DEF Find, LearnTypes
<1>3. Works(c) /\ step'[c] = s
  <2>1. s \in LearnSteps \ {"idle"}
    BY DEF LearnSteps, RowSteps
  <2> QED BY <1>1, <1>2, <2>1, Moves
<1>4. op[c] \in Doing(s) /\ s \notin Blank
  BY <1>1, <1>2, DoingTable DEF Blank, DeleteSteps
<1>5. RowsAt'
  <2>1. Accounted(c)
    BY <1>1 DEF RowsAt, RowSteps
  <2>2. Accounted(c)'
    BY <1>1, <2>1 DEF Accounted, Precedes
  <2>3. s = "add" => \A i \in DOMAIN recs : Fresh(i, c)
    BY <1>2 DEF Fresh
  <2> QED BY <1>1, <1>3, <2>2, <2>3, RowsStay
<1>6. \A i \in DOMAIN recs' : \E j \in DOMAIN recs : recs'[i].id = recs[j].id
  BY <1>1
<1> QED BY <1>1, <1>2, <1>3, <1>4, <1>5, <1>6, RowStepKeeps DEF LearnTypes, RowSteps

LEMMA DeleteRecsKeeps == ASSUME LearnInv, NEW c \in Callers, DeleteRecs(c) PROVE LearnInv'
<1>1. /\ LearnTypes /\ RowsAt /\ step[c] = "delete_recs" /\ op[c] = "delete" /\ ended[c] # "ok"
      /\ UNCHANGED <<op, patch, doc, row, prior, context, profile, events, ended>>
      /\ Go(c, "delete_events") /\ recs' = <<>>
  BY AtWork, DoingTable DEF DeleteRecs, learnReqVars
<1>2. op[c] \in Doing("delete_events") /\ doc[c] = Empty
  BY <1>1, DoingTable DEF Blank, DeleteSteps, LearnInv, LearnerAt
<1>3. Works(c) /\ step'[c] = "delete_events"
  <2>1. "delete_events" \in LearnSteps \ {"idle"}
    BY DEF LearnSteps, DeleteSteps
  <2> QED BY <1>1, <2>1, Moves
<1>4. EraserAt(c)'
  BY <1>1, <1>3 DEF EraserAt
<1>5. <<>> \in Seq(RecRow) /\ DOMAIN <<>> = {}
  OBVIOUS
<1>6. RowsAt'
  <2>1. ASSUME NEW q \in Callers, step'[q] \in RowSteps PROVE Accounted(q)'
    <3>1. step[q] = step'[q]
      BY <1>3, <2>1 DEF Works, RowSteps
    <3>2. Accounted(q)
      BY <1>1, <2>1, <3>1 DEF RowsAt
    <3> QED BY <1>1, <3>2 DEF Accounted, Precedes
  <2> QED BY <1>1, <1>5, <2>1 DEF RowsAt
<1> QED BY <1>1, <1>2, <1>3, <1>4, <1>5, <1>6, RowStepKeeps DEF LearnTypes, DeleteSteps

LEMMA DeleteEventsKeeps == ASSUME LearnInv, NEW c \in Callers, DeleteEvents(c) PROVE LearnInv'
<1>1. /\ LearnTypes /\ RowsAt /\ EraserAt(c)
      /\ step[c] = "delete_events" /\ op[c] = "delete" /\ ended[c] # "ok"
      /\ UNCHANGED <<op, patch, doc, row, prior, context, profile, recs, ended>>
      /\ Go(c, "delete_user") /\ events' = {}
  BY AtWork, DoingTable DEF DeleteEvents, learnReqVars
<1>2. op[c] \in Doing("delete_user") /\ doc[c] = Empty
  BY <1>1, DoingTable DEF Blank, DeleteSteps, LearnInv, LearnerAt
<1>3. Works(c) /\ step'[c] = "delete_user"
  <2>1. "delete_user" \in LearnSteps \ {"idle"}
    BY DEF LearnSteps, DeleteSteps
  <2> QED BY <1>1, <2>1, Moves
<1>4. EraserAt(c)'
  BY <1>1, <1>3 DEF EraserAt, Alone, Begun, Overlaps, Precedes
<1>5. \A q \in Callers : Accounted(q)'
  <2>1. \A q \in Callers : ~Precedes(c, q)
    BY <1>1, ActiveFacts
  <2> QED BY <1>1, <2>1 DEF Accounted, Precedes
<1>6. RowsAt'
  <2>1. ASSUME NEW i \in DOMAIN recs PROVE RowAt(i)' /\ \A j \in DOMAIN recs : i # j => Apart(i, j)'
    <3>1. /\ RowAt(i) /\ \A j \in DOMAIN recs : i # j => Apart(i, j)
          /\ recs[i].id \in Callers /\ recs[i].source \in Callers
      BY <1>1, RecTypes DEF RowsAt
    <3>2. step'[recs[i].id] # "idle" /\ step'[recs[i].source] # "idle"
      BY <1>3, <3>1 DEF RowAt, Works
    <3>3. PICK s \in Callers : s = recs[i].source
      BY <3>1
    <3>4. Accounted(s)'
      BY <1>5
    <3>5. RowAt(i)'
      BY <1>1, <3>2, <3>3, <3>4 DEF RowAt
    <3> QED BY <1>1, <3>1, <3>5 DEF Apart, Overlaps, Precedes
  <2>2. ASSUME NEW q \in Callers, step'[q] = "add", "url" \in Payload(q)'
        PROVE  \A i \in DOMAIN recs : Fresh(i, q)'
    <3>1. step[q] = "add" /\ "url" \in Payload(q)
      BY <1>1, <1>3, <2>2 DEF Payload, Works
    <3>2. \A i \in DOMAIN recs : Fresh(i, q)
      BY <1>1, <2>2, <3>1 DEF RowsAt
    <3> QED BY <1>1, <3>2 DEF Fresh, Overlaps, Precedes
  <2> QED BY <1>1, <1>5, <2>1, <2>2 DEF RowsAt
<1>7. \A i \in DOMAIN recs' : \E j \in DOMAIN recs : recs'[i].id = recs[j].id
  BY <1>1
<1> QED BY <1>1, <1>2, <1>3, <1>4, <1>6, <1>7, RowStepKeeps DEF LearnTypes, DeleteSteps

\* The row goes in with a source that is stored, next to rows c overlaps.
LEMMA AddRowKeeps == ASSUME LearnInv, NEW c \in Callers, AddRow(c) PROVE LearnInv'
<1>1. /\ LearnTypes /\ RowsAt /\ step[c] = "add" /\ op[c] \in {"save", "save_context", "update_profile"}
      /\ UNCHANGED <<op, patch, doc, row, prior, context, profile, events, ended>> /\ Go(c, "answer")
  BY AtWork, DoingTable DEF AddRow, learnReqVars
<1>2. Works(c) /\ step'[c] = "answer"
  <2>1. "answer" \in LearnSteps \ {"idle"}
    BY DEF LearnSteps
  <2> QED BY <1>1, <2>1, Moves
<1>3. op[c] \in Doing("answer") /\ "answer" \notin Blank
  BY <1>1, DoingTable DEF LearnOps, Blank, DeleteSteps
<1>4. PICK link \in BOOLEAN : link <=> "url" \in Payload(c)
  OBVIOUS
<1> DEFINE new == [id |-> c, source |-> c, linked |-> link, liked |-> FALSE]
<1>5. /\ new \in RecRow /\ new.id = c /\ new.source = c /\ new.linked = link
      /\ recs' = Append(recs, new) /\ recs \in Seq(RecRow)
  BY <1>1, <1>4 DEF AddRow, RecRow, LearnTypes
<1> HIDE DEF new
<1>6. PICK n \in Nat :
        /\ recs' \in Seq(RecRow) /\ DOMAIN recs = 1..n /\ DOMAIN recs' = 1..(n + 1)
        /\ recs'[n + 1] = new /\ \A i \in 1..n : recs'[i] = recs[i]
  <2>1. Len(recs) \in Nat
    BY <1>5
  <2> QED BY <1>5, <2>1
<1>7. \A i \in DOMAIN recs' : i = n + 1 \/ i \in DOMAIN recs
  BY <1>6
<1>8. ASSUME NEW i \in DOMAIN recs PROVE RowAt(i)' /\ recs'[i] = recs[i]
  <2>1. RowAt(i) /\ recs[i].id \in Callers /\ recs[i].source \in Callers /\ recs'[i] = recs[i]
    BY <1>1, <1>6, RecTypes DEF RowsAt
  <2>2. step'[recs[i].id] # "idle" /\ step'[recs[i].source] # "idle"
    BY <1>2, <2>1 DEF RowAt, Works
  <2> QED BY <1>1, <2>1, <2>2 DEF RowAt, Accounted, Precedes
<1>9. RowAt(n + 1)'
  <2>1. Accounted(c)
    BY <1>1 DEF RowsAt, RowSteps
  <2> QED BY <1>1, <1>2, <1>5, <1>6, <2>1 DEF RowAt, Accounted, Precedes
<1>10. \A i \in DOMAIN recs : link => Fresh(i, c)
  BY <1>1, <1>4 DEF RowsAt
<1>11. ASSUME NEW i \in DOMAIN recs, NEW j \in DOMAIN recs, i # j PROVE Apart(i, j)'
  <2>1. Apart(i, j)
    BY <1>1, <1>11 DEF RowsAt
  <2> QED BY <1>1, <1>8, <2>1 DEF Apart, Overlaps, Precedes
<1>12. ASSUME NEW i \in DOMAIN recs PROVE Apart(i, n + 1)' /\ Apart(n + 1, i)'
  <2>1. link /\ recs[i].linked => Overlaps(recs[i].id, c) /\ Overlaps(c, recs[i].id)
    <3> SUFFICES ASSUME link, recs[i].linked PROVE Overlaps(recs[i].id, c) /\ Overlaps(c, recs[i].id)
      OBVIOUS
    <3>1. Overlaps(recs[i].id, c) /\ recs[i].id \in Callers
      BY <1>1, <1>10, RecTypes DEF Fresh
    <3> QED BY <1>1, <3>1, ActiveFacts DEF Overlaps
  <2>2. recs'[i] = recs[i] /\ recs'[n + 1] = new
    BY <1>6, <1>8
  <2> QED BY <1>1, <1>5, <2>1, <2>2 DEF Apart, Overlaps, Precedes
<1>13. ASSUME NEW q \in Callers
       PROVE  /\ step'[q] \in RowSteps => Accounted(q)'
              /\ step'[q] = "add" /\ "url" \in Payload(q)' => \A i \in DOMAIN recs' : Fresh(i, q)'
  <2>1. step'[q] \in RowSteps => Accounted(q)'
    <3> SUFFICES ASSUME step'[q] \in RowSteps PROVE Accounted(q)'
      OBVIOUS
    <3>1. step[q] \in RowSteps
      BY <1>2 DEF Works, RowSteps
    <3>2. Accounted(q)
      BY <1>1, <3>1 DEF RowsAt
    <3> QED BY <1>1, <3>2 DEF Accounted, Precedes
  <2>2. ASSUME step'[q] = "add", "url" \in Payload(q)', NEW i \in DOMAIN recs' PROVE Fresh(i, q)'
    <3>1. q # c /\ step[q] = "add" /\ "url" \in Payload(q)
      BY <1>1, <1>2, <2>2 DEF Works, Payload
    <3>2. CASE i \in DOMAIN recs
      <4>1. Fresh(i, q)
        BY <1>1, <3>1, <3>2 DEF RowsAt
      <4> QED BY <1>1, <1>8, <3>2, <4>1 DEF Fresh, Overlaps, Precedes
    <3>3. CASE i = n + 1
      <4>1. Overlaps(c, q)
        BY <1>1, <3>1, ActiveFacts
      <4> QED BY <1>1, <1>5, <1>6, <3>3, <4>1 DEF Fresh, Overlaps, Precedes
    <3> QED BY <1>7, <3>2, <3>3
  <2> QED BY <2>1, <2>2
<1>14. RowsAt'
  <2>1. ASSUME NEW i \in DOMAIN recs' PROVE RowAt(i)' /\ \A j \in DOMAIN recs' : i # j => Apart(i, j)'
    <3>1. RowAt(i)'
      BY <1>7, <1>8, <1>9
    <3>2. ASSUME NEW j \in DOMAIN recs', i # j PROVE Apart(i, j)'
      BY <1>7, <1>11, <1>12, <3>2
    <3> QED BY <3>1, <3>2
  <2> QED BY <1>13, <2>1 DEF RowsAt
<1>15. \A i \in DOMAIN recs' : recs'[i].id = c \/ \E j \in DOMAIN recs : recs'[i].id = recs[j].id
  BY <1>5, <1>6, <1>7, <1>8
<1>16. op[c] # "delete" /\ step[c] \in RowSteps
  BY <1>1 DEF RowSteps
<1> QED BY <1>1, <1>2, <1>3, <1>6, <1>14, <1>15, <1>16, RowStepKeeps DEF LearnTypes

\* The rows of `rest' are those of `rows', but for row i, which has become r.
Rearranged(rows, i, r, rest) ==
  /\ rest \in Seq(RecRow)
  /\ \E was \in [DOMAIN rest -> DOMAIN rows] :
       /\ \A j, k \in DOMAIN rest : was[j] = was[k] => j = k
       /\ \A j \in DOMAIN rest : rest[j] = rows[was[j]] \/ (was[j] = i /\ rest[j] = r)

\* A row that is updated becomes the last one; the others keep their order.
LEMMA TouchedRows ==
  ASSUME NEW rows \in Seq(RecRow), NEW i \in DOMAIN rows, NEW r \in RecRow,
         NEW rest, rest = Append(Q!RemoveAt(rows, i), r)
  PROVE  Rearranged(rows, i, r, rest)
<1>1. PICK n \in Nat : n = Len(rows) /\ DOMAIN rows = 1..n /\ i \in 1..n
  OBVIOUS
<1>2. PICK before \in Seq(RecRow) :
        /\ before = SubSeq(rows, 1, i - 1) /\ Len(before) = i - 1
        /\ \A j \in 1..(i - 1) : before[j] = rows[j]
  <2> DEFINE front == SubSeq(rows, 1, i - 1)
  <2>1. /\ front \in Seq(RecRow) /\ Len(front) = i - 1
        /\ \A j \in 1..(i - 1) : front[j] = rows[j]
    BY <1>1
  <2> HIDE DEF front
  <2>2. \E x \in Seq(RecRow) : x = front
    BY <2>1
  <2> QED BY <2>1, <2>2 DEF front
<1>3. PICK after \in Seq(RecRow) :
        /\ after = SubSeq(rows, i + 1, n) /\ Len(after) = n - i
        /\ \A j \in 1..(n - i) : after[j] = rows[i + j]
  <2> DEFINE back == SubSeq(rows, i + 1, n)
  <2>1. /\ back \in Seq(RecRow) /\ Len(back) = n - i
        /\ \A j \in 1..(n - i) : back[j] = rows[i + j]
    BY <1>1
  <2> HIDE DEF back
  <2>2. \E x \in Seq(RecRow) : x = back
    BY <2>1
  <2> QED BY <2>1, <2>2 DEF back
<1>4. PICK both \in Seq(RecRow) :
        /\ both = before \o after /\ Len(both) = n - 1
        /\ \A j \in 1..(n - 1) : both[j] = IF j <= i - 1 THEN before[j] ELSE after[j - (i - 1)]
  <2>1. before \o after \in Seq(RecRow) /\ Len(before \o after) = (i - 1) + (n - i)
    BY <1>2, <1>3, ConcatProperties
  <2>2. (i - 1) + (n - i) = n - 1 /\ n - 1 \in Nat /\ i - 1 \in Nat
    BY <1>1
  <2>3. \A j \in 1..(n - 1) :
          (before \o after)[j] = IF j <= i - 1 THEN before[j] ELSE after[j - (i - 1)]
    <3>1. \A j \in 1..(Len(before) + Len(after)) :
            (before \o after)[j] = IF j <= Len(before) THEN before[j] ELSE after[j - Len(before)]
      BY ConcatProperties
    <3>2. Len(before) = i - 1 /\ Len(before) + Len(after) = n - 1
      BY <1>2, <1>3, <2>2
    <3> QED BY <3>1, <3>2
  <2> QED BY <2>1, <2>2, <2>3
<1>5. \A j \in 1..(n - 1) : both[j] = IF j < i THEN rows[j] ELSE rows[j + 1]
  <2> SUFFICES ASSUME NEW j \in 1..(n - 1)
               PROVE  both[j] = IF j < i THEN rows[j] ELSE rows[j + 1]
    OBVIOUS
  <2>1. CASE j < i
    <3>1. j \in 1..(i - 1) /\ j <= i - 1
      BY <1>1, <2>1
    <3> QED BY <1>2, <1>4, <2>1, <3>1
  <2>2. CASE ~(j < i)
    <3>1. j - (i - 1) \in 1..(n - i) /\ i + (j - (i - 1)) = j + 1 /\ ~(j <= i - 1)
      BY <1>1, <2>2
    <3>2. after[j - (i - 1)] = rows[j + 1]
      BY <1>3, <3>1
    <3> QED BY <1>4, <2>2, <3>1, <3>2
  <2> QED BY <2>1, <2>2
<1>6. rest = Append(both, r)
  BY <1>1, <1>2, <1>3, <1>4 DEF Q!RemoveAt
<1>7. /\ rest \in Seq(RecRow) /\ DOMAIN rest = 1..n /\ rest[n] = r
      /\ \A j \in 1..(n - 1) : rest[j] = both[j]
  <2>1. n - 1 \in Nat /\ (n - 1) + 1 = n
    BY <1>1
  <2>2. /\ rest \in Seq(RecRow) /\ Len(rest) = Len(both) + 1 /\ rest[Len(both) + 1] = r
        /\ \A j \in 1..Len(both) : rest[j] = both[j]
    BY <1>6, AppendProperties
  <2> QED BY <1>1, <1>4, <2>1, <2>2
<1>8. PICK was \in [1..n -> 1..n] :
        \A j \in 1..n : was[j] = IF j = n THEN i ELSE IF j < i THEN j ELSE j + 1
  <2> DEFINE was == [j \in 1..n |-> IF j = n THEN i ELSE IF j < i THEN j ELSE j + 1]
  <2>1. was \in [1..n -> 1..n]
    BY <1>1
  <2> QED BY <2>1
<1>9. \A j, k \in 1..n : was[j] = was[k] => j = k
  BY <1>1, <1>8, SMTT(30)
<1>10. ASSUME NEW j \in 1..n PROVE rest[j] = rows[was[j]] \/ (was[j] = i /\ rest[j] = r)
  <2>1. CASE j = n
    BY <1>7, <1>8, <2>1
  <2>2. CASE j # n
    <3>1. j \in 1..(n - 1)
      BY <1>1, <2>2
    <3>2. rest[j] = IF j < i THEN rows[j] ELSE rows[j + 1]
      BY <1>5, <1>7, <3>1
    <3> QED BY <1>8, <2>2, <3>2
  <2> QED BY <2>1, <2>2
<1>11. was \in [DOMAIN rest -> DOMAIN rows]
  BY <1>1, <1>7, <1>8
<1>12. /\ \A j, k \in DOMAIN rest : was[j] = was[k] => j = k
       /\ \A j \in DOMAIN rest : rest[j] = rows[was[j]] \/ (was[j] = i /\ rest[j] = r)
  BY <1>7, <1>9, <1>10
<1> QED BY <1>7, <1>11, <1>12 DEF Rearranged

\* The rows after a step of c: each is one of the rows there were, but for its feedback
\* and, when c has stored its interaction, its source.
LEMMA TouchKeepsRows ==
  ASSUME LearnInv, NEW c \in Callers, Works(c), UNCHANGED <<doc, events>>,
         step'[c] \notin RowSteps, recs' \in Seq(RecRow),
         NEW was \in [DOMAIN recs' -> DOMAIN recs],
         \A j, k \in DOMAIN recs' : was[j] = was[k] => j = k,
         \A j \in DOMAIN recs' :
           /\ recs'[j].id = recs[was[j]].id /\ recs'[j].linked = recs[was[j]].linked
           /\ recs'[j].source = recs[was[j]].source \/ (recs'[j].source = c /\ Accounted(c))
  PROVE  RowsAt'
<1>1. RowsAt /\ UNCHANGED <<op, patch, prior, doc, events>> /\ step'[c] # "idle"
      /\ \A q \in Callers \ {c} : step'[q] = step[q]
  BY DEF LearnInv, Works
<1>2. ASSUME NEW j \in DOMAIN recs' PROVE RowAt(j)'
  <2>1. PICK i \in DOMAIN recs : i = was[j]
    OBVIOUS
  <2>2. RowAt(i) /\ recs[i].id \in Callers /\ recs[i].source \in Callers
    BY <1>1, RecTypes DEF RowsAt, LearnInv
  <2>3. /\ step'[recs[i].id] # "idle" /\ step'[recs[i].source] # "idle"
        /\ recs'[j].id = recs[i].id
        /\ recs'[j].source = recs[i].source \/ (recs'[j].source = c /\ Accounted(c))
    BY <1>1, <2>1, <2>2 DEF RowAt
  <2>4. step'[recs'[j].id] # "idle" /\ step'[recs'[j].source] # "idle"
    BY <1>1, <2>3
  <2>5. PICK s : s = recs'[j].source
    OBVIOUS
  <2>6. Accounted(s)
    BY <2>2, <2>3, <2>5 DEF RowAt
  <2> QED BY <1>1, <2>4, <2>5, <2>6 DEF RowAt, Accounted, Precedes
<1>3. ASSUME NEW j \in DOMAIN recs', NEW k \in DOMAIN recs', j # k PROVE Apart(j, k)'
  <2>1. PICK i \in DOMAIN recs, h \in DOMAIN recs : i = was[j] /\ h = was[k]
    OBVIOUS
  <2>2. Apart(i, h)
    BY <1>1, <1>3, <2>1 DEF RowsAt
  <2>3. /\ recs'[j].id = recs[i].id /\ recs'[j].linked = recs[i].linked
        /\ recs'[k].id = recs[h].id /\ recs'[k].linked = recs[h].linked
    BY <2>1
  <2> QED BY <1>1, <2>2, <2>3 DEF Apart, Overlaps, Precedes
<1>4. ASSUME NEW q \in Callers, step'[q] \in RowSteps
      PROVE  /\ Accounted(q)'
             /\ step'[q] = "add" /\ "url" \in Payload(q)' => \A j \in DOMAIN recs' : Fresh(j, q)'
  <2>1. step[q] = step'[q] /\ Payload(q)' = Payload(q)
    BY <1>1, <1>4 DEF Payload
  <2>2. /\ Accounted(q)
        /\ step[q] = "add" /\ "url" \in Payload(q) => \A i \in DOMAIN recs : Fresh(i, q)
    BY <1>1, <1>4, <2>1 DEF RowsAt
  <2>3. ASSUME step'[q] = "add", "url" \in Payload(q)', NEW j \in DOMAIN recs' PROVE Fresh(j, q)'
    <3>1. PICK i \in DOMAIN recs : i = was[j]
      OBVIOUS
    <3>2. Fresh(i, q) /\ recs'[j].id = recs[i].id /\ recs'[j].linked = recs[i].linked
      BY <2>1, <2>2, <2>3, <3>1
    <3> QED BY <1>1, <3>2 DEF Fresh, Overlaps, Precedes
  <2> QED BY <1>1, <2>2, <2>3 DEF Accounted, Precedes
<1>5. \A q \in Callers : "add" = step'[q] => step'[q] \in RowSteps
  BY DEF RowSteps
<1> QED BY <1>2, <1>3, <1>4, <1>5 DEF RowsAt

LEMMA TouchKeeps ==
  ASSUME LearnInv, NEW c \in Callers, step[c] \in {"link", "like"}, Works(c),
         step'[c] \in {"answer", "event"}, op[c] \in Doing(step'[c]),
         UNCHANGED <<context, profile, doc, ended, row, events>>,
         \/ UNCHANGED recs
         \/ \E i \in DOMAIN recs, r \in RecRow :
              /\ recs' = Append(Q!RemoveAt(recs, i), r)
              /\ r.id = recs[i].id /\ r.linked = recs[i].linked
              /\ r.source = recs[i].source \/ (r.source = c /\ Accounted(c))
  PROVE  LearnInv'
<1>1. LearnTypes /\ op[c] \in Doing(step[c]) /\ recs \in Seq(RecRow)
  BY AtWork DEF LearnTypes
<1>2. /\ step[c] \in {"event", "like"} \cup RowSteps \cup DeleteSteps
      /\ step'[c] \notin {"profile_write", "legacy_read", "migrate"} \cup Blank \cup RowSteps
      /\ op[c] # "delete" /\ DOMAIN row' = Callers
  BY <1>1, DoingTable DEF RowSteps, Blank, DeleteSteps, LearnTypes
<1>3. CASE UNCHANGED recs
  <2>1. RowsAt'
    BY <1>2, <1>3, RowsStay DEF RowSteps
  <2>2. \A i \in DOMAIN recs' : \E j \in DOMAIN recs : recs'[i].id = recs[j].id
    BY <1>3
  <2> QED BY <1>1, <1>2, <1>3, <2>1, <2>2, RowStepKeeps
<1>4. ASSUME NEW i \in DOMAIN recs, NEW r \in RecRow,
             recs' = Append(Q!RemoveAt(recs, i), r),
             r.id = recs[i].id, r.linked = recs[i].linked,
             r.source = recs[i].source \/ (r.source = c /\ Accounted(c))
      PROVE  LearnInv'
  <2>1. Rearranged(recs, i, r, recs')
    <3>1. PICK rows \in Seq(RecRow) : rows = recs
      BY <1>1
    <3>2. PICK rest : rest = recs'
      OBVIOUS
    <3>3. i \in DOMAIN rows /\ rest = Append(Q!RemoveAt(rows, i), r)
      BY <1>4, <3>1, <3>2
    <3>4. Rearranged(rows, i, r, rest)
      BY <3>3, TouchedRows
    <3> QED BY <3>1, <3>2, <3>4
  <2>2. PICK was \in [DOMAIN recs' -> DOMAIN recs] :
          /\ \A j, k \in DOMAIN recs' : was[j] = was[k] => j = k
          /\ \A j \in DOMAIN recs' : recs'[j] = recs[was[j]] \/ (was[j] = i /\ recs'[j] = r)
    BY <2>1 DEF Rearranged
  <2>3. ASSUME NEW j \in DOMAIN recs'
        PROVE  /\ recs'[j].id = recs[was[j]].id /\ recs'[j].linked = recs[was[j]].linked
               /\ recs'[j].source = recs[was[j]].source \/ (recs'[j].source = c /\ Accounted(c))
    BY <1>4, <2>2
  <2>4. RowsAt'
    BY <1>2, <2>1, <2>2, <2>3, TouchKeepsRows DEF Rearranged
  <2>5. \A j \in DOMAIN recs' : \E k \in DOMAIN recs : recs'[j].id = recs[k].id
    BY <2>2, <2>3
  <2> QED BY <1>1, <1>2, <2>1, <2>4, <2>5, RowStepKeeps DEF Rearranged
<1> QED BY <1>3, <1>4

LEMMA LinkRowKeeps == ASSUME LearnInv, NEW c \in Callers, LinkRow(c) PROVE LearnInv'
<1>1. /\ LearnTypes /\ RowsAt /\ step[c] = "link" /\ op[c] \in {"save", "save_context", "update_profile"}
      /\ UNCHANGED <<op, patch, doc, row, prior, context, profile, events, ended>> /\ Go(c, "answer")
  BY AtWork, DoingTable DEF LinkRow, learnReqVars
<1>2. Works(c) /\ step'[c] = "answer" /\ op[c] \in Doing("answer")
  <2>1. "answer" \in LearnSteps \ {"idle"}
    BY DEF LearnSteps
  <2> QED BY <1>1, <2>1, Moves, DoingTable DEF LearnOps
<1>3. Accounted(c)
  BY <1>1 DEF RowsAt, RowSteps
<1>4. ASSUME NEW i \in DOMAIN recs
      PROVE  \E r \in RecRow : /\ r = [recs[i] EXCEPT !.source = c]
                               /\ r.id = recs[i].id /\ r.linked = recs[i].linked /\ r.source = c
  <2>1. PICK x \in RecRow : x = recs[i]
    BY <1>1, RecTypes
  <2>2. PICK r : r = [x EXCEPT !.source = c]
    OBVIOUS
  <2>3. r \in RecRow /\ r.id = x.id /\ r.linked = x.linked /\ r.source = c
    BY <2>2 DEF RecRow
  <2> QED BY <2>1, <2>2, <2>3
<1>5. UNCHANGED recs \/ \E i \in DOMAIN recs :
        recs' = Append(Q!RemoveAt(recs, i), [recs[i] EXCEPT !.source = c])
  BY DEF LinkRow, Touch, NoneTouched
<1>6. \/ UNCHANGED recs
      \/ \E i \in DOMAIN recs, r \in RecRow :
           /\ recs' = Append(Q!RemoveAt(recs, i), r)
           /\ r.id = recs[i].id /\ r.linked = recs[i].linked
           /\ r.source = recs[i].source \/ (r.source = c /\ Accounted(c))
  <2>1. ASSUME NEW i \in DOMAIN recs, recs' = Append(Q!RemoveAt(recs, i), [recs[i] EXCEPT !.source = c])
        PROVE  \E r \in RecRow :
                 /\ recs' = Append(Q!RemoveAt(recs, i), r)
                 /\ r.id = recs[i].id /\ r.linked = recs[i].linked
                 /\ r.source = recs[i].source \/ (r.source = c /\ Accounted(c))
    BY <1>4, <2>1, <1>3
  <2> QED BY <1>5, <2>1
<1> QED BY <1>1, <1>2, <1>6, TouchKeeps

LEMMA LikeKeeps == ASSUME LearnInv, NEW c \in Callers, Like(c) PROVE LearnInv'
<1>1. /\ LearnTypes /\ step[c] = "like" /\ op[c] = "feedback"
      /\ UNCHANGED <<op, patch, doc, row, prior, context, profile, events, ended>> /\ Go(c, "event")
  BY AtWork, DoingTable DEF Like, learnReqVars
<1>2. Works(c) /\ step'[c] = "event" /\ op[c] \in Doing("event")
  <2>1. "event" \in LearnSteps \ {"idle"}
    BY DEF LearnSteps
  <2> QED BY <1>1, <2>1, Moves, DoingTable
<1>3. ASSUME NEW i \in DOMAIN recs
      PROVE  \E r \in RecRow : /\ r = [recs[i] EXCEPT !.liked = TRUE]
                               /\ r.id = recs[i].id /\ r.linked = recs[i].linked
                               /\ r.source = recs[i].source
  <2>1. PICK x \in RecRow : x = recs[i]
    BY <1>1, RecTypes
  <2>2. PICK r : r = [x EXCEPT !.liked = TRUE]
    OBVIOUS
  <2>3. r \in RecRow /\ r.id = x.id /\ r.linked = x.linked /\ r.source = x.source
    BY <2>2 DEF RecRow
  <2> QED BY <2>1, <2>2, <2>3
<1>4. UNCHANGED recs \/ \E i \in DOMAIN recs :
        recs' = Append(Q!RemoveAt(recs, i), [recs[i] EXCEPT !.liked = TRUE])
  BY DEF Like, Touch, NoneTouched
<1>5. \/ UNCHANGED recs
      \/ \E i \in DOMAIN recs, r \in RecRow :
           /\ recs' = Append(Q!RemoveAt(recs, i), r)
           /\ r.id = recs[i].id /\ r.linked = recs[i].linked
           /\ r.source = recs[i].source \/ (r.source = c /\ Accounted(c))
  <2>1. ASSUME NEW i \in DOMAIN recs, recs' = Append(Q!RemoveAt(recs, i), [recs[i] EXCEPT !.liked = TRUE])
        PROVE  \E r \in RecRow :
                 /\ recs' = Append(Q!RemoveAt(recs, i), r)
                 /\ r.id = recs[i].id /\ r.linked = recs[i].linked
                 /\ r.source = recs[i].source \/ (r.source = c /\ Accounted(c))
    BY <1>3, <2>1
  <2> QED BY <1>4, <2>1
<1> QED BY <1>1, <1>2, <1>5, TouchKeeps

\* A request begins: it overlaps whoever has not ended, and comes after the others.
LEMMA InvokeKeeps ==
  ASSUME LearnInv, NEW c \in Callers, NEW o \in LearnOps, NEW ks \in SUBSET Keys, NEW id,
         Invoke(c, o, ks, id)
  PROVE  LearnInv'
<1>1. /\ LearnTypes /\ RowsAt
      /\ \A q \in Callers : LearnerAt(q) /\ EraserAt(q) /\ \A k \in Keys : WriterAt(q, k)
      /\ Before \notin Callers
  BY LearnAssumption DEF LearnInv
<1>2. PICK s : s = IF o = "delete" THEN "delete_recs" ELSE "bill"
  OBVIOUS
<1>3. /\ step[c] = "idle" /\ Go(c, s) /\ UNCHANGED <<doc, context, profile, events, recs, ended>>
      /\ op' = [op EXCEPT ![c] = o] /\ patch' = [patch EXCEPT ![c] = ks] /\ DOMAIN row' = Callers
      /\ prior' = [prior EXCEPT ![c] = {q \in Callers : step[q] = "done"}]
  BY <1>1, <1>2 DEF Invoke, storeVars, LearnTypes
<1>4. s \in LearnSteps /\ s \in {"bill", "delete_recs"} /\ s \in Blank /\ s \notin RowSteps /\ o \in Doing(s)
  BY <1>2, DoingTable DEF LearnSteps, Blank, RowSteps, DeleteSteps
<1>5. /\ step'[c] = s /\ op'[c] = o /\ patch'[c] = ks /\ prior'[c] = {q \in Callers : step[q] = "done"}
      /\ \A q \in Callers \ {c} :
           step'[q] = step[q] /\ op'[q] = op[q] /\ patch'[q] = patch[q] /\ prior'[q] = prior[q]
  BY <1>1, <1>3 DEF Go, LearnTypes
<1>6. LearnTypes'
  BY <1>1, <1>3, <1>4 DEF LearnTypes, Go
<1>7. op[c] = "none" /\ doc[c] = Empty /\ ended[c] # "ok" /\ ~Begun(c)
  BY <1>1, <1>3, DoingTable DEF LearnerAt, Blank, Begun
<1>8. \A q \in Callers : c \notin prior[q]
  BY <1>1, <1>3 DEF LearnerAt
<1>9. ASSUME NEW q \in Callers PROVE LearnerAt(q)'
  <2>1. CASE q = c
    <3>1. \A p \in prior'[c] : p \in Callers \ {c} /\ step'[p] = "done" /\ c \notin prior'[p]
      BY <1>3, <1>4, <1>5, <1>8
    <3> QED BY <1>3, <1>4, <1>5, <1>7, <2>1, <3>1 DEF LearnerAt
  <2>2. CASE q # c
    <3>1. \A p \in prior[q] : p \in Callers \ {c} /\ step[p] = "done" /\ q \notin prior[p]
      BY <1>1, <1>8 DEF LearnerAt, LearnTypes
    <3>2. /\ op[q] \in Doing(step[q]) /\ (step[q] \in Blank => doc[q] = Empty)
          /\ ended[q] = "ok" => step[q] = "done"
      BY <1>1 DEF LearnerAt
    <3> QED BY <1>3, <1>5, <2>2, <3>1, <3>2 DEF LearnerAt
  <2> QED BY <2>1, <2>2
<1>10. /\ \A p \in Callers \ {c} : \A w : Precedes(w, p)' <=> Precedes(w, p)
       /\ \A p, q \in Callers \ {c} : Overlaps(p, q)' <=> Overlaps(p, q)
       /\ \A q \in Callers \ {c} : Begun(q)' <=> Begun(q)
  BY <1>5 DEF Precedes, Overlaps, Begun
<1>11. ASSUME NEW q \in Callers PROVE EraserAt(q)'
  <2>1. CASE q = c
    BY <1>3, <1>4, <1>5, <1>7, <2>1 DEF EraserAt
  <2>2. CASE q # c
    <3>1. Alone(q)' => Alone(q)
      BY <1>7, <1>10, <2>2 DEF Alone
    <3>2. \A w : Carried(w)' <=> Carried(w)
      BY <1>3 DEF Carried, Remembers, In
    <3>3. EraserAt(q) /\ step'[q] = step[q] /\ op'[q] = op[q]
      BY <1>1, <1>5, <2>2
    <3> QED BY <1>3, <1>10, <2>2, <3>1, <3>2, <3>3 DEF EraserAt
  <2> QED BY <2>1, <2>2
<1>12. ASSUME NEW q \in Callers, NEW k \in Keys PROVE WriterAt(q, k)'
  <2>1. CASE q = c
    <3>1. ~Stored(c)' /\ Storing(c, k)'
      BY <1>3, <1>4, <1>5, <1>7 DEF Stored, Storing, RowSteps
    <3> QED BY <2>1, <3>1 DEF WriterAt
  <2>2. CASE q # c
    <3> SUFFICES ASSUME Undisturbed(q, k)'
                 PROVE  /\ Storing(q, k)'
                        /\ Stored(q)' => \A p \in Callers : q \in prior'[p] => Keeping(p, q, k)'
      BY DEF WriterAt
    <3>1. Undisturbed(q, k)
      BY <1>5, <1>7, <1>10, <2>2 DEF Undisturbed
    <3>2. /\ Storing(q, k) /\ (Stored(q)' <=> Stored(q)) /\ (Stored(q) => HasFrom(profile, k, q))
          /\ Stored(q) => \A p \in Callers : q \in prior[p] => Keeping(p, q, k)
      BY <1>1, <1>3, <1>5, <2>2, <3>1 DEF WriterAt, Stored, Storing
    <3>3. Storing(q, k)'
      BY <1>3, <1>5, <2>2, <3>2 DEF Storing, HasFrom
    <3>4. ASSUME Stored(q), NEW p \in Callers, q \in prior'[p] PROVE Keeping(p, q, k)'
      <4>1. CASE p = c
        BY <1>3, <1>4, <1>5, <3>2, <3>4, <4>1 DEF Keeping, HasFrom
      <4>2. CASE p # c
        <5>1. Keeping(p, q, k)
          BY <1>5, <3>2, <3>4, <4>2
        <5> QED BY <1>3, <1>5, <4>2, <5>1 DEF Keeping, HasFrom
      <4> QED BY <4>1, <4>2
    <3> QED BY <3>2, <3>3, <3>4
  <2> QED BY <2>1, <2>2
<1>13. \A q \in Callers \ {c} : Accounted(q) => Accounted(q)'
  <2> SUFFICES ASSUME NEW q \in Callers \ {c}, Accounted(q) PROVE Accounted(q)'
    OBVIOUS
  <2>1. CASE q \in events
    BY <1>3, <2>1 DEF Accounted
  <2>2. CASE q \notin events
    <3>1. PICK d \in Callers : op[d] = "delete" /\ ~Precedes(d, q)
      BY <2>2 DEF Accounted
    <3>2. d # c
      BY <1>7, <3>1
    <3>3. op'[d] = "delete" /\ ~Precedes(d, q)'
      BY <1>5, <3>1, <3>2 DEF Precedes
    <3> QED BY <3>3 DEF Accounted, Precedes
  <2> QED BY <2>1, <2>2
<1>14. \A i \in DOMAIN recs : /\ RowAt(i) /\ \A j \in DOMAIN recs : i # j => Apart(i, j)
                              /\ recs[i].id \in Callers \ {c} /\ recs[i].source \in Callers \ {c}
  BY <1>1, <1>3, RecTypes DEF RowsAt, RowAt
<1>15. ASSUME NEW i \in DOMAIN recs PROVE RowAt(i)'
  <2>1. step'[recs[i].id] # "idle" /\ step'[recs[i].source] # "idle"
    BY <1>5, <1>14 DEF RowAt
  <2>2. PICK s2 \in Callers \ {c} : s2 = recs[i].source
    BY <1>14
  <2>3. Accounted(s2)'
    BY <1>13, <1>14, <2>2 DEF RowAt
  <2> QED BY <1>3, <2>1, <2>2, <2>3 DEF RowAt
<1>16. ASSUME NEW i \in DOMAIN recs, NEW j \in DOMAIN recs, i # j PROVE Apart(i, j)'
  <2>1. PICK p \in Callers \ {c}, q \in Callers \ {c} : p = recs[i].id /\ q = recs[j].id
    BY <1>14
  <2>2. recs[i].linked /\ recs[j].linked => Overlaps(p, q)
    BY <1>14, <1>16, <2>1 DEF Apart
  <2>3. Overlaps(p, q)' <=> Overlaps(p, q)
    BY <1>10
  <2> QED BY <1>3, <2>1, <2>2, <2>3 DEF Apart
<1>17. ASSUME NEW q \in Callers, step'[q] \in RowSteps
       PROVE  /\ Accounted(q)'
              /\ step'[q] = "add" /\ "url" \in Payload(q)' => \A i \in DOMAIN recs : Fresh(i, q)'
  <2>1. q # c /\ step[q] = step'[q]
    BY <1>4, <1>5, <1>17
  <2>2. Payload(q)' = Payload(q)
    BY <1>3, <1>5, <2>1 DEF Payload
  <2>3. /\ Accounted(q)
        /\ step[q] = "add" /\ "url" \in Payload(q) => \A i \in DOMAIN recs : Fresh(i, q)
    BY <1>1, <1>17, <2>1 DEF RowsAt
  <2>4. ASSUME NEW i \in DOMAIN recs, Fresh(i, q) PROVE Fresh(i, q)'
    <3>1. PICK p \in Callers \ {c} : p = recs[i].id
      BY <1>14
    <3>2. Overlaps(p, q)' <=> Overlaps(p, q)
      BY <1>10, <2>1
    <3> QED BY <1>3, <2>4, <3>1, <3>2 DEF Fresh
  <2> QED BY <1>13, <2>1, <2>2, <2>3, <2>4
<1>18. RowsAt'
  <2>1. \A q \in Callers : step'[q] = "add" => step'[q] \in RowSteps
    BY DEF RowSteps
  <2> QED BY <1>3, <1>15, <1>16, <1>17, <2>1 DEF RowsAt
<1> QED BY <1>6, <1>9, <1>11, <1>12, <1>18 DEF LearnInv

-----------------------------------------------------------------------------
LEMMA LearnStep == LearnInv /\ [LearnNext]_learningVars => LearnInv'
<1> SUFFICES ASSUME LearnInv, [LearnNext]_learningVars PROVE LearnInv'
  OBVIOUS
<1>1. CASE LearnNext
  <2>1. PICK c \in Callers :
          \/ \E o \in Ops[c], ks \in Payloads, id \in Known : Invoke(c, o, ks, id)
          \/ Bill(c)
          \/ LegacyWrite(c) \/ LegacyRead(c)
          \/ ProfileRead(c) \/ Migrate(c) \/ ProfileWrite(c)
          \/ Event(c) \/ Find(c) \/ LinkRow(c) \/ AddRow(c) \/ Like(c)
          \/ AnswerLearn(c)
          \/ DeleteRecs(c) \/ DeleteEvents(c) \/ DeleteUser(c) \/ DeleteProfile(c)
          \/ FailLearn(c)
    BY <1>1 DEF LearnNext
  <2>2. ASSUME NEW o \in Ops[c], NEW ks \in Payloads, NEW id \in Known, Invoke(c, o, ks, id)
        PROVE  LearnInv'
    <3>1. o \in LearnOps /\ ks \in SUBSET Keys
      BY LearnAssumption DEF LearnOps
    <3> QED BY <2>2, <3>1, InvokeKeeps
  <2>3. CASE Bill(c) \/ AnswerLearn(c) \/ FailLearn(c)
    BY <2>3, BillKeeps, AnswerKeeps, FailKeeps
  <2>4. CASE LegacyWrite(c) \/ LegacyRead(c)
    BY <2>4, LegacyWriteKeeps, LegacyReadKeeps
  <2>5. CASE ProfileRead(c) \/ Migrate(c) \/ ProfileWrite(c)
    BY <2>5, ProfileReadKeeps, MigrateKeeps, ProfileWriteKeeps
  <2>6. CASE Event(c) \/ Find(c) \/ LinkRow(c)
    BY <2>6, EventKeeps, FindKeeps, LinkRowKeeps
  <2>7. CASE AddRow(c) \/ Like(c)
    BY <2>7, AddRowKeeps, LikeKeeps
  <2>8. CASE DeleteRecs(c) \/ DeleteEvents(c)
    BY <2>8, DeleteRecsKeeps, DeleteEventsKeeps
  <2>9. CASE DeleteUser(c) \/ DeleteProfile(c)
    BY <2>9, DeleteUserKeeps, DeleteProfileKeeps
  <2> QED BY <2>1, <2>2, <2>3, <2>4, <2>5, <2>6, <2>7, <2>8, <2>9
<1>2. CASE UNCHANGED learningVars
  <2>1. UNCHANGED <<op, patch, doc, row, prior, step, context, profile, events, recs, ended>>
    BY <1>2 DEF learningVars, learnReqVars, storeVars
  <2>2. LearnTypes' /\ RowsAt'
    BY <2>1 DEF LearnInv, LearnTypes, RowsAt, RowAt, Apart, Fresh, Accounted, Payload,
                Overlaps, Precedes
  <2>3. ASSUME NEW q \in Callers PROVE LearnerAt(q)' /\ EraserAt(q)'
    <3>1. LearnerAt(q) /\ EraserAt(q)
      BY DEF LearnInv
    <3> QED BY <2>1, <3>1 DEF LearnerAt, EraserAt, Alone, Begun, Overlaps, Precedes, Carried,
                              Remembers, In
  <2>4. ASSUME NEW q \in Callers, NEW k \in Keys PROVE WriterAt(q, k)'
    <3>1. WriterAt(q, k)
      BY DEF LearnInv
    <3> QED BY <2>1, <3>1 DEF WriterAt, Undisturbed, Storing, Stored, Keeping, HasFrom, Begun,
                              Overlaps, Precedes
  <2> QED BY <2>2, <2>3, <2>4 DEF LearnInv
<1> QED BY <1>1, <1>2

\* The inductive invariant of the learning stores: what an operation is doing by the
\* statement it is at, that a delete which met nobody leaves nothing stored or on its
\* way back, that an undisturbed preference is in the profile and in every document
\* that will replace it, and whose rows of one link may stand next to each other.
THEOREM LearnInvariance == LearnSpec => []LearnInv
<1>1. LearnInit => LearnInv
  BY LearnInitial
<1>2. LearnInv /\ [LearnNext]_learningVars => LearnInv'
  BY LearnStep
<1> QED BY <1>1, <1>2, PTL DEF LearnSpec

\* A privacy delete that answered ok and met no other request of the account has
\* forgotten everything written before it, in both stores, and no later read's
\* migration or mirroring brings it back (lib/accountLearningSync.ts).
THEOREM ErasedForGood == LearnSpec => []ErasedUnlessOverlapped
<1>1. LearnInv => ErasedUnlessOverlapped
  <2> SUFFICES ASSUME LearnInv, NEW d \in Callers, op[d] = "delete", ended[d] = "ok",
                      \A q \in Callers \ {d} : Begun(q) => ~Overlaps(d, q),
                      NEW w \in Writers, w # d, Precedes(w, d)
               PROVE  ~Remembers(w)
    BY DEF ErasedUnlessOverlapped
  <2>1. EraserAt(d) /\ Alone(d)
    BY DEF LearnInv, Alone
  <2> QED BY <2>1 DEF EraserAt, Carried
<1> QED BY <1>1, LearnInvariance, PTL

\* A preference whose writer answered ok is in the profile until somebody writes that
\* key or deletes, unless a request overlapped its writer: later merges, migrations and
\* mirrorings carry it along (updateProfile and the two syncs).
THEOREM WrittenStays == LearnSpec => []WrittenUnlessOverlapped
<1>1. LearnInv => WrittenUnlessOverlapped
  <2> SUFFICES ASSUME LearnInv, NEW w \in Callers, NEW k \in Keys,
                      op[w] \in {"save_context", "update_profile"}, ended[w] = "ok", k \in patch[w],
                      \A q \in Callers \ {w} : Begun(q) =>
                        /\ ~Overlaps(w, q)
                        /\ Precedes(w, q) => (op[q] # "delete" /\ k \notin patch[q])
               PROVE  k \in DOMAIN profile /\ profile[k] = w
    BY DEF WrittenUnlessOverlapped
  <2>1. WriterAt(w, k) /\ Undisturbed(w, k) /\ Stored(w)
    BY DEF LearnInv, Undisturbed, Stored
  <2> QED BY <2>1 DEF WriterAt, Storing, HasFrom
<1> QED BY <1>1, LearnInvariance, PTL

\* Two rows of one link come of overlapping requests, and a row's source is an
\* interaction that is stored unless a delete took it
\* (upsertRecommendationFromInteraction).
THEOREM OneRowPerLink == LearnSpec => []OneRowPerLinkUnlessOverlapped
<1>1. LearnInv => OneRowPerLinkUnlessOverlapped
  <2> SUFFICES ASSUME LearnInv, NEW i \in DOMAIN recs, NEW j \in DOMAIN recs
               PROVE  /\ i # j /\ recs[i].linked /\ recs[j].linked => Overlaps(recs[i].id, recs[j].id)
                      /\ recs[i].source \in events
                           \/ \E d \in Callers : op[d] = "delete" /\ Begun(d) /\ ~Precedes(d, recs[i].source)
    BY DEF OneRowPerLinkUnlessOverlapped
  <2>1. RowAt(i) /\ (i # j => Apart(i, j))
    BY DEF LearnInv, RowsAt
  <2> QED BY <2>1 DEF RowAt, Apart, Accounted, Begun
<1> QED BY <1>1, LearnInvariance, PTL
=============================================================================
