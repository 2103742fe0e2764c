-------------------------- MODULE AccountLearning --------------------------
(***************************************************************************)
(* What the product remembers of one account, in two stores: the legacy    *)
(* pair rmf_users / rmf_user_context (POST, GET, DELETE                    *)
(* /api/memory/context) and the personal network rmf_personal_profiles     *)
(* (GET, POST /api/personal).  lib/accountLearningSync.ts writes each      *)
(* change to both and copies one store to the other when a read finds only *)
(* one filled; lib/accountLearningPipeline.ts adds an interaction and,     *)
(* when the payload names a product, a recommendation.                     *)
(*                                                                         *)
(* Requests run one SQL statement after another, in any interleaving and   *)
(* without a transaction; any statement may fail, which ends the request.  *)
(* A document maps the keys it has to the request that wrote them.         *)
(***************************************************************************)
EXTENDS Naturals, Sequences, FiniteSets

Q == INSTANCE SequencesExt

CONSTANTS Callers,   \* requests of the account
          Before,    \* the writer of what was stored earlier
          Ops,       \* bound: the operations each request may invoke
          Keys,      \* the keys of a preference document
          Payloads,  \* bound: the sets of keys a body may have
          MaxFails   \* bound: requests that may fail

\* "url" is the key that makes a payload a product (extractRecommendationCandidate).
ASSUME LearnAssumption ==
  /\ Before \notin Callers /\ "url" \in Keys /\ Payloads \subseteq SUBSET Keys /\ MaxFails \in Nat
  /\ \A c \in Callers : Ops[c] \subseteq
       {"save_context", "update_profile", "save", "feedback", "invalid",
        "get_context", "get_profile", "delete"}

VARIABLES op,        \* the operation a caller invoked
          patch,     \* the keys of its payload
          step,      \* the statement it is at
          doc,       \* the document it has read or merged
          row,       \* the recommendation it has found; NoRow for none
          context,   \* rmf_users and rmf_user_context: the stored document
          profile,   \* rmf_personal_profiles: the stored document
          events,    \* rmf_interactions: the requests whose row is there
          recs,      \* rmf_personal_recommendations, least recently updated first
          ended,     \* the outcome a caller was told
          prior,     \* history: requests that had ended when this one began
          fails

learnReqVars == <<op, patch, doc, row, prior>>
storeVars == <<context, profile, events, recs>>
learningVars == <<learnReqVars, step, storeVars, ended, fails>>

Writers == Callers \cup {Before}
Documents == UNION {[ks -> Writers] : ks \in SUBSET Keys}
Empty == <<>>
NoRow == [id |-> Before, source |-> Before, linked |-> FALSE, liked |-> FALSE]

Active == {c \in Callers : step[c] \notin {"idle", "done"}}

\* hasPreferencePayload: consent flags and empty values do not count.
Has(d) == DOMAIN d # {}

\* {...current, ...patch}: the patch wins.
Spread(current, new) ==
  [k \in DOMAIN current \cup DOMAIN new |-> IF k \in DOMAIN new THEN new[k] ELSE current[k]]
Merge(d, c, ks) == Spread(d, [k \in ks |-> c])

-----------------------------------------------------------------------------
LearnInit ==
  /\ op = [c \in Callers |-> "none"] /\ patch = [c \in Callers |-> {}]
  /\ step = [c \in Callers |-> "idle"]
  /\ doc = [c \in Callers |-> Empty] /\ row = [c \in Callers |-> NoRow]
  /\ \E p, l \in {Empty, [k \in {"url"} |-> Before]} : profile = p /\ context = l
  /\ events = {} /\ recs = <<>>
  /\ ended = [c \in Callers |-> "none"]
  /\ prior = [c \in Callers |-> {}]
  /\ fails = 0

Go(c, s) == step' = [step EXCEPT ![c] = s]
Finish(c, what) == Go(c, "done") /\ ended' = [ended EXCEPT ![c] = what]

\* The locals of a request that has ended.
Forget(c) == doc' = [doc EXCEPT ![c] = Empty] /\ row' = [row EXCEPT ![c] = NoRow]

\* The recommendations a caller may name: one that is stored, or one that is not.
Known == {recs[i].id : i \in DOMAIN recs} \cup {Before}

\* A signed-in caller; DELETE is free, everything else is charged first.
Invoke(c, o, ks, id) ==
  /\ step[c] = "idle"
  /\ o \notin {"save_context", "update_profile", "save"} => ks = {}
  /\ o # "feedback" => id = Before
  /\ op' = [op EXCEPT ![c] = o] /\ patch' = [patch EXCEPT ![c] = ks]
  /\ row' = [row EXCEPT ![c].id = id]
  /\ prior' = [prior EXCEPT ![c] = {q \in Callers : step[q] = "done"}]
  /\ Go(c, IF o = "delete" THEN "delete_recs" ELSE "bill")
  /\ UNCHANGED <<doc, storeVars, ended, fails>>

\* consumeCredits: 402 and nothing else, or on to the operation.  An operation
\* POST /api/personal does not know is refused after it was charged.
Bill(c) ==
  /\ step[c] = "bill"
  /\ \/ Finish(c, "denied")
     \/ op[c] = "invalid" /\ Finish(c, "invalid")
     \/ /\ op[c] # "invalid"
        /\ Go(c, CASE op[c] = "save_context" -> "legacy_write"
                   [] op[c] \in {"update_profile", "get_profile"} -> "profile_read"
                   [] op[c] = "save" -> "event"
                   [] op[c] = "feedback" -> "like"
                   [] op[c] = "get_context" -> "legacy_read")
        /\ UNCHANGED ended
  /\ UNCHANGED <<learnReqVars, storeVars, fails>>

\* The legacy pair: the stored context becomes the body's context, or the
\* document a sync hands over (syncPersonalProfileToLegacy).
LegacyWrite(c) ==
  /\ step[c] = "legacy_write"
  /\ context' = IF op[c] = "save_context" THEN Merge(Empty, c, patch[c]) ELSE doc[c]
  /\ CASE op[c] = "save_context" -> Go(c, "profile_read")
       [] op[c] = "update_profile" ->
            Go(c, IF Has(doc[c]) THEN "event" ELSE "answer")
       [] op[c] = "get_context" -> Go(c, "answer")
  /\ UNCHANGED <<learnReqVars, profile, events, recs, ended, fails>>

\* select from rmf_personal_profiles: for updateProfile the base of the merge,
\* for a read the answer, unless it is empty.
ProfileRead(c) ==
  /\ step[c] = "profile_read"
  /\ CASE op[c] \in {"save_context", "update_profile"} ->
            doc' = [doc EXCEPT ![c] = Merge(profile, c, patch[c])] /\ Go(c, "profile_write")
       [] op[c] = "get_profile" ->
            doc' = [doc EXCEPT ![c] = profile] /\ Go(c, IF Has(profile) THEN "answer" ELSE "legacy_read")
       [] op[c] = "get_context" ->
            doc' = [doc EXCEPT ![c] = profile] /\ Go(c, IF Has(profile) THEN "legacy_write" ELSE "answer")
  /\ UNCHANGED <<op, patch, row, prior, storeVars, ended, fails>>

\* The legacy row: for getUserContext the answer, unless it is empty; for
\* readProfileUnified what is migrated when the profile was empty.
LegacyRead(c) ==
  /\ step[c] = "legacy_read"
  /\ CASE op[c] = "get_context" ->
            /\ doc' = [doc EXCEPT ![c] = context]
            /\ Go(c, IF Has(context) THEN "answer" ELSE "profile_read")
       [] op[c] = "get_profile" ->
            /\ doc' = [doc EXCEPT ![c] = context]
            /\ Go(c, IF Has(context) THEN "migrate" ELSE "answer")
  /\ UNCHANGED <<op, patch, row, prior, storeVars, ended, fails>>

\* syncLegacyContextToPersonal reads the profile once more and merges.
Migrate(c) ==
  /\ step[c] = "migrate"
  /\ doc' = [doc EXCEPT ![c] = Spread(profile, doc[c])]
  /\ Go(c, "profile_write")
  /\ UNCHANGED <<op, patch, row, prior, storeVars, ended, fails>>

\* Mutant: the merge takes the patch for the whole document.
ProfileOverwrite(c) ==
  /\ step[c] = "profile_write"
  /\ profile' = IF op[c] = "get_profile" THEN doc[c] ELSE Merge(Empty, c, patch[c])
  /\ CASE op[c] = "update_profile" -> Go(c, "legacy_write")
       [] op[c] = "save_context" -> Go(c, IF patch[c] # {} THEN "event" ELSE "answer")
       [] op[c] = "get_profile" -> Go(c, "answer")
  /\ UNCHANGED <<learnReqVars, context, events, recs, ended, fails>>

\* insert ... on conflict: the merged document replaces whatever is there now.
ProfileWrite(c) ==
  /\ step[c] = "profile_write"
  /\ profile' = doc[c]
  /\ CASE op[c] = "update_profile" -> Go(c, "legacy_write")
       [] op[c] = "save_context" -> Go(c, IF patch[c] # {} THEN "event" ELSE "answer")
       [] op[c] = "get_profile" -> Go(c, "answer")
  /\ UNCHANGED <<learnReqVars, context, events, recs, ended, fails>>

\* What recordLearningWrite looks at for a product: the body, or for
\* update_profile the whole merged profile.
Payload(c) == IF op[c] = "update_profile" THEN DOMAIN doc[c] ELSE patch[c]

\* saveInteraction, for "save" also of save_interaction with nothing to recommend
\* (no keys) and of save_recommendation with a title alone ("style"); a payload
\* that names a product goes on to a recommendation.
Event(c) ==
  /\ step[c] = "event"
  /\ events' = events \cup {c}
  /\ Go(c, CASE op[c] # "feedback" /\ "url" \in Payload(c) -> "find"
             [] op[c] = "save" /\ "url" \notin Payload(c) /\ Payload(c) # {} -> "add"
             [] OTHER -> "answer")
  /\ UNCHANGED <<learnReqVars, context, profile, recs, ended, fails>>

\* Mutant: every product is inserted.
FindNothing(c) ==
  /\ step[c] = "find"
  /\ Go(c, "add")
  /\ UNCHANGED <<learnReqVars, storeVars, ended, fails>>

\* upsertRecommendationFromInteraction: the latest row with the link.
Find(c) ==
  LET linked == {i \in DOMAIN recs : recs[i].linked} IN
  /\ step[c] = "find"
  /\ IF linked = {}
     THEN Go(c, "add") /\ UNCHANGED row
     ELSE /\ row' = [row EXCEPT ![c] = recs[CHOOSE i \in linked : \A j \in linked : j <= i]]
          /\ Go(c, "link")
  /\ UNCHANGED <<op, patch, doc, prior, storeVars, ended, fails>>

\* update ... where id, which also sets updated_at: row i becomes r, the newest. No row may have the id.
Touch(i, r) == recs' = Append(Q!RemoveAt(recs, i), r)
NoneTouched(id) == id \notin {recs[i].id : i \in DOMAIN recs} /\ UNCHANGED recs

\* The row gets the new source and keeps its feedback.
LinkRow(c) ==
  /\ step[c] = "link"
  /\ \/ \E i \in DOMAIN recs : recs[i].id = row[c].id /\ Touch(i, [recs[i] EXCEPT !.source = c])
     \/ NoneTouched(row[c].id)
  /\ Go(c, "answer")
  /\ UNCHANGED <<learnReqVars, context, profile, events, ended, fails>>

\* Mutant: the row does not get the interaction it came from.
AddSourceless(c) ==
  /\ step[c] = "add"
  /\ recs' = Append(recs, [id |-> c, source |-> Before, linked |-> "url" \in Payload(c), liked |-> FALSE])
  /\ Go(c, "answer")
  /\ UNCHANGED <<learnReqVars, context, profile, events, ended, fails>>

\* saveRecommendation: a row of its own.
AddRow(c) ==
  /\ step[c] = "add"
  /\ recs' = Append(recs, [id |-> c, source |-> c, linked |-> "url" \in Payload(c), liked |-> FALSE])
  /\ Go(c, "answer")
  /\ UNCHANGED <<learnReqVars, context, profile, events, ended, fails>>

\* recommendationFeedback, on a row that may not be there; then the interaction.
Like(c) ==
  /\ step[c] = "like"
  /\ \/ \E i \in DOMAIN recs : recs[i].id = row[c].id /\ Touch(i, [recs[i] EXCEPT !.liked = TRUE])
     \/ NoneTouched(row[c].id)
  /\ Go(c, "event")
  /\ UNCHANGED <<learnReqVars, context, profile, events, ended, fails>>

\* creditBalance and the answer.
AnswerLearn(c) ==
  /\ step[c] = "answer"
  /\ Finish(c, "ok") /\ Forget(c)
  /\ UNCHANGED <<op, patch, prior, storeVars, fails>>

\* clearAccountLearningStores; the interactions' compare jobs are PaidActions'.
DeleteRecs(c) ==
  /\ step[c] = "delete_recs" /\ recs' = <<>>
  /\ Go(c, "delete_events")
  /\ UNCHANGED <<learnReqVars, context, profile, events, ended, fails>>

DeleteEvents(c) ==
  /\ step[c] = "delete_events" /\ events' = {}
  /\ Go(c, "delete_user")
  /\ UNCHANGED <<learnReqVars, context, profile, recs, ended, fails>>

\* delete from rmf_users takes the context with it.
DeleteUser(c) ==
  /\ step[c] = "delete_user" /\ context' = Empty
  /\ Go(c, "delete_profile")
  /\ UNCHANGED <<learnReqVars, profile, events, recs, ended, fails>>

\* Mutant: only the legacy store is cleared.
DeleteNoProfile(c) ==
  /\ step[c] = "delete_profile"
  /\ Finish(c, "ok")
  /\ UNCHANGED <<learnReqVars, storeVars, fails>>

\* The last statement of the erasure: the profile becomes the empty document.
DeleteProfile(c) ==
  /\ step[c] = "delete_profile" /\ profile' = Empty
  /\ Finish(c, "ok")
  /\ UNCHANGED <<learnReqVars, context, events, recs, fails>>

\* A statement is rejected: the handler throws, what it wrote stays.
FailLearn(c) ==
  /\ c \in Active /\ fails < MaxFails /\ fails' = fails + 1
  /\ Finish(c, "error") /\ Forget(c)
  /\ UNCHANGED <<op, patch, prior, storeVars>>

LearnNext ==
  \E c \in Callers :
    \/ \E o \in Ops[c], ks \in Payloads, id \in Known : Invoke(c, o, ks, id)
    \/ Bill(c)
    \/ LegacyWrite(c) \/ LegacyRead(c)
    \/ ProfileRead(c) \/ Migrate(c) \/ ProfileWrite(c)
    \/ Event(c) \/ Find(c) \/ LinkRow(c) \/ AddRow(c) \/ Like(c)
    \/ AnswerLearn(c)
    \/ DeleteRecs(c) \/ DeleteEvents(c) \/ DeleteUser(c) \/ DeleteProfile(c)
    \/ FailLearn(c)

LearnSpec == LearnInit /\ [][LearnNext]_learningVars

-----------------------------------------------------------------------------
LearnTypeOK ==
  /\ \A c \in Callers : doc[c] \in Documents
  /\ context \in Documents /\ profile \in Documents
  /\ events \subseteq Callers
  /\ \A i \in DOMAIN recs : recs[i].id \in Callers /\ recs[i].source \in Callers

\* b began after a had ended.
Precedes(a, b) == a = Before \/ a \in prior[b]
Overlaps(a, b) == a # b /\ ~Precedes(a, b) /\ ~(b \in Callers /\ Precedes(b, a))
Begun(c) == op[c] # "none"

\* Stored under k by w and not yet gone, in either store.
Remembers(w) ==
  \/ \E k \in DOMAIN profile : profile[k] = w
  \/ \E k \in DOMAIN context : context[k] = w
  \/ w \in events
  \/ \E i \in DOMAIN recs : recs[i].id = w

\* A delete that answered ok has forgotten everything written before it, in both
\* stores, and no later read brings it back -- if nothing else of the account ran
\* while it deleted.
ErasedUnlessOverlapped ==
  \A d \in Callers :
    (op[d] = "delete" /\ ended[d] = "ok" /\ \A q \in Callers \ {d} : Begun(q) => ~Overlaps(d, q)) =>
      \A w \in Writers : w # d /\ Precedes(w, d) => ~Remembers(w)

\* A preference written by a request that answered ok is in the personal profile
\* until somebody writes that key or deletes, unless a request overlapped it whose
\* read of the profile is older than its write.
WrittenUnlessOverlapped ==
  \A w \in Callers, k \in Keys :
    (/\ op[w] \in {"save_context", "update_profile"} /\ ended[w] = "ok" /\ k \in patch[w]
     /\ \A q \in Callers \ {w} : Begun(q) =>
          /\ ~Overlaps(w, q)
          /\ Precedes(w, q) => (op[q] # "delete" /\ k \notin patch[q])) =>
      k \in DOMAIN profile /\ profile[k] = w

\* One recommendation per link, as the upsert means it: two rows only if the
\* requests that inserted them overlapped.  A row's source is an interaction that
\* was stored, and is stored until a delete.
OneRowPerLinkUnlessOverlapped ==
  \A i, j \in DOMAIN recs :
    /\ i # j /\ recs[i].linked /\ recs[j].linked => Overlaps(recs[i].id, recs[j].id)
    /\ recs[i].source \in events
         \/ \E d \in Callers : op[d] = "delete" /\ Begun(d) /\ ~Precedes(d, recs[i].source)

\* "Privacy delete: clear both Account Learning stores."
\* (lib/accountLearningSync.ts:103): once a delete has answered ok, nothing that was
\* stored before it began is stored again.  The code does not keep it: a read that
\* overlaps the delete carries the old document from one store into the other.
ForgottenForGood ==
  \A d \in Callers : op[d] = "delete" /\ ended[d] = "ok" =>
    \A w \in Writers : w # d /\ Precedes(w, d) => ~Remembers(w)
=============================================================================
