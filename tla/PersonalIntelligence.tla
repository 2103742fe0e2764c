----------------------- MODULE PersonalIntelligence ------------------------
(***************************************************************************)
(* Personal experiments and the personal intelligence suite of one         *)
(* account: /api/experiments and /api/references (a study collects outcomes*)
(* until it is completed), /api/products/outcomes, /api/social/outcomes and*)
(* /api/personal-agent (a run proposes one action, the owner decides, a    *)
(* completion cites an evidence row).                                      *)
(*                                                                         *)
(* Every action is charged first and then runs under withDatabaseTimeout.  *)
(* A write that checks a status first is a transaction that locks the row  *)
(* (select ... for update); a timeout ends the client under it, and what   *)
(* has not committed is rolled back.  The charge itself is PaidActions'.   *)
(***************************************************************************)
EXTENDS Naturals, Sequences, FiniteSets, SqlClient, PersonalEvidence

CONSTANTS Acts,     \* bound: the operations each request may invoke
          Goals,    \* bound: the words a goal may have
          MaxTimeouts \* bound: requests whose time is up

ASSUME ActsAssumption ==
  /\ MaxTimeouts \in Nat /\ "none" \notin Requests
  /\ \A r \in Requests : Acts[r] \subseteq
       {"create", "record", "complete", "product", "social", "run", "approve", "reject", "finish", "view"}

VARIABLES act,      \* the operation of a request
          on,       \* the study, run or recommendation it names
          cites,    \* the evidence row a completion names
          at2,      \* the step it is at
          told,     \* what its caller was told
          shown,    \* the study as the answer showed it
          plan,     \* what planPersonalAgentAction chose
          study,    \* experiments and comparisons: status and committed outcomes
          facts,    \* rmf_product_outcomes and rmf_social_outcomes, by request
          linked,   \* the provider is connected
          run,      \* rmf_personal_agent_runs with its action
          receipts, \* rmf_personal_agent_receipts of a run, in order
          owner     \* row locks: the request whose transaction holds a row

intelReqVars == <<act, on, cites, plan>>
intelRowVars == <<study, facts, linked, run, receipts>>
intelVars == <<intelReqVars, at2, told, shown, intelRowVars, owner>>

None == "none"
Rows == Requests \cup {None}
NoStudy == [status |-> None, outcomes |-> {}]
NoRun == [type |-> None, status |-> None, closure |-> None]
EvidenceOf ==
  [start_personal_experiment |-> {r \in Requests : study[r].status # None},
   start_reference_comparison |-> {r \in Requests : study[r].status # None},
   record_product_outcome |-> {r \in facts : act[r] = "product"},
   record_social_outcome |-> {r \in facts : act[r] = "social"},
   ask_history |-> {}]

Busy == {r \in Requests : at2[r] \notin {"idle", "done"}}
Step2(r, s) == at2' = [at2 EXCEPT ![r] = s]
Say(r, what) == told' = [told EXCEPT ![r] = IF @ = None THEN what ELSE @]
End2(r, what) == Step2(r, "done") /\ Say(r, what)

IntelInit ==
  /\ act = [r \in Requests |-> None] /\ on = [r \in Requests |-> None]
  /\ cites = [r \in Requests |-> None] /\ plan = [r \in Requests |-> None]
  /\ at2 = [r \in Requests |-> "idle"] /\ told = [r \in Requests |-> None]
  /\ shown = [r \in Requests |-> NoStudy]
  /\ study = [r \in Requests |-> NoStudy]
  /\ facts = {} /\ linked = TRUE
  /\ run = [r \in Requests |-> NoRun] /\ receipts = [r \in Requests |-> <<>>]
  /\ owner = [r \in Requests |-> None]
  /\ ClientInit

\* A request that passed its route's validation and consent and was charged, at
\* the first statement of its work.
Ask(r, a, row, first) ==
  /\ at2[r] = "idle"
  /\ act' = [act EXCEPT ![r] = a] /\ on' = [on EXCEPT ![r] = row]
  /\ Step2(r, first)
  /\ Take(r)
  /\ UNCHANGED <<told, shown, intelRowVars, owner>>

\* /api/experiments and /api/references: read one, ...
AskView(r, row) ==
  /\ study[row].status # None
  /\ Ask(r, "view", row, "view")
  /\ UNCHANGED <<cites, plan>>

\* ... or create, record or complete one.
AskStudy(r, a, row) ==
  /\ a \in {"create", "record", "complete"}
  /\ IF a = "create" THEN row = r ELSE study[row].status # None
  /\ Ask(r, a, row, IF a = "record" THEN "lock" ELSE "write")
  /\ UNCHANGED <<cites, plan>>

AskProduct(r) == Ask(r, "product", r, "write") /\ UNCHANGED <<cites, plan>>

\* A metric the provider authorizes needs the connection; the user's own does not.
AskSocial(r, first) ==
  /\ Ask(r, "social", r, first)
  /\ UNCHANGED <<cites, plan>>

\* /api/personal-agent: run with a goal, decide, or complete citing a row.
AskRun(r, goal) ==
  /\ Ask(r, "run", r, "history")
  /\ plan' = [plan EXCEPT ![r] = PlanAction(goal, "insufficient")]
  /\ UNCHANGED cites
AskAgent(r, a, row, evidence) ==
  /\ a \in {"approve", "reject", "finish"} /\ run[row].status # None
  /\ a # "finish" => evidence = r
  /\ Ask(r, a, row, "lock")
  /\ cites' = [cites EXCEPT ![r] = evidence]
  /\ UNCHANGED plan

\* askMyHistory: one read of every store; records that match the goal close the run
\* without a proposal.  Any answer is possible: words are not modelled here.
AskHistory(r) ==
  /\ at2[r] = "history"
  /\ \/ plan' = [plan EXCEPT ![r] = PlanAction({}, "answered")]
     \/ UNCHANGED plan
  /\ Step2(r, "write")
  /\ Take(r)
  /\ UNCHANGED <<act, on, cites, told, shown, intelRowVars, owner>>

\* What may be done to the row as the transaction finds it.
Open(r) ==
  CASE act[r] = "record" -> study[on[r]].status = "active"
    [] act[r] \in {"approve", "reject"} -> run[on[r]].status = "awaiting_approval"
    [] act[r] = "finish" -> run[on[r]].status = "approved"

\* Mutant: the select without "for update".
LockNothing(r) ==
  /\ at2[r] = "lock" /\ Reaches(r, TRUE)
  /\ IF Open(r) THEN Step2(r, "commit") /\ UNCHANGED told ELSE End2(r, "refused")
  /\ Proceed(r)
  /\ UNCHANGED <<intelReqVars, shown, intelRowVars, owner>>

\* select ... for update: waits for the lock, then looks at the committed row.
Lock(r) ==
  /\ at2[r] = "lock" /\ Reaches(r, TRUE) /\ owner[on[r]] = None
  /\ IF Open(r)
     THEN Step2(r, "commit") /\ owner' = [owner EXCEPT ![on[r]] = r] /\ UNCHANGED told
     ELSE End2(r, "refused") /\ UNCHANGED owner
  /\ Proceed(r)
  /\ UNCHANGED <<intelReqVars, shown, intelRowVars>>

Receipt(r, kind, verified) ==
  receipts' = [receipts EXCEPT ![on[r]] = Append(@, [kind |-> kind, verified |-> verified, by |-> r])]

\* evidenceRefVerified
Verified(r) == cites[r] \in EvidenceOf[run[on[r]].type]

\* The inserts and updates of the transaction and its commit: seen by others all at
\* once, with the lock released.
Commit(r) ==
  /\ at2[r] = "commit" /\ Reaches(r, TRUE)
  /\ owner' = [owner EXCEPT ![on[r]] = IF @ = r THEN None ELSE @]
  /\ Proceed(r)
  /\ UNCHANGED <<intelReqVars, shown, facts, linked>>

CommitOutcome(r) ==
  /\ act[r] = "record" /\ Commit(r)
  /\ study' = [study EXCEPT ![on[r]].outcomes = @ \cup {r}]
  /\ Step2(r, "view")
  /\ UNCHANGED <<told, run, receipts>>

CommitDecision(r) ==
  /\ act[r] \in {"approve", "reject"} /\ Commit(r)
  /\ LET s == IF act[r] = "approve" THEN "approved" ELSE "rejected" IN
       run' = [run EXCEPT ![on[r]].status = s, ![on[r]].closure = s]
  /\ Receipt(r, act[r], TRUE)
  /\ End2(r, "ok")
  /\ UNCHANGED study

\* A row that does not show the action done leaves a receipt and is refused.
CommitCompletion(r) ==
  /\ act[r] = "finish" /\ Commit(r)
  /\ Receipt(r, "completion", Verified(r))
  /\ IF Verified(r)
     THEN /\ run' = [run EXCEPT ![on[r]].status = "completed", ![on[r]].closure = "completed"]
          /\ End2(r, "ok")
     ELSE End2(r, "refused") /\ UNCHANGED run
  /\ UNCHANGED study

\* The writes of one statement, or of a transaction no other can meet.  The reads that
\* build the answer follow; where no property looks at the answer they are left out.
Write(r) ==
  /\ at2[r] = "write" /\ Reaches(r, TRUE)
  /\ Proceed(r)
  /\ UNCHANGED <<intelReqVars, shown, linked, owner>>

CreateStudy(r) ==
  /\ act[r] = "create" /\ Write(r)
  /\ study' = [study EXCEPT ![r].status = "active"]
  /\ Step2(r, "view")
  /\ UNCHANGED <<told, facts, run, receipts>>

\* No look at the status; the update waits while a transaction holds the row.
CompleteStudy(r) ==
  /\ act[r] = "complete" /\ owner[on[r]] = None /\ Write(r)
  /\ study' = [study EXCEPT ![on[r]].status = "completed"]
  /\ Step2(r, "view")
  /\ UNCHANGED <<told, facts, run, receipts>>

WriteProduct(r) ==
  /\ act[r] = "product" /\ Write(r)
  /\ facts' = facts \cup {r}
  /\ End2(r, "ok")
  /\ UNCHANGED <<study, run, receipts>>

\* connectedSocialProvider ...
ReadConnection(r) ==
  /\ at2[r] = "connection"
  /\ IF linked THEN Step2(r, "write") /\ UNCHANGED told ELSE End2(r, "refused")
  /\ Take(r)
  /\ UNCHANGED <<intelReqVars, shown, intelRowVars, owner>>

\* ... and the metric, whatever the connection is by then, through a new db().
WriteSocial(r) ==
  /\ at2[r] = "write" /\ act[r] = "social"
  /\ facts' = facts \cup {r}
  /\ End2(r, "ok")
  /\ Take(r)
  /\ UNCHANGED <<intelReqVars, shown, study, linked, run, receipts, owner>>

\* runPersonalAgent: the run, its action and a receipt of the reading.
Propose(r) ==
  /\ act[r] = "run" /\ Write(r)
  /\ LET found == plan[r] = "ask_history" IN
       run' = [run EXCEPT ![r] =
         [type |-> plan[r],
          status |-> IF found THEN "completed" ELSE "awaiting_approval",
          closure |-> IF found THEN "evidence_found" ELSE "insufficient"]]
  /\ Receipt(r, "read", TRUE)
  /\ End2(r, "ok")
  /\ UNCHANGED <<study, facts>>

\* readPersonalExperiments, readReferenceComparisons: the row, through a new db() ...
ViewRow(r) ==
  /\ at2[r] = "view"
  /\ shown' = [shown EXCEPT ![r].status = study[on[r]].status]
  /\ Step2(r, "outcomes")
  /\ Take(r)
  /\ UNCHANGED <<intelReqVars, told, intelRowVars, owner>>

\* ... and then its outcomes, from which the verdict is computed.
ViewOutcomes(r) ==
  /\ at2[r] = "outcomes" /\ Reaches(r, TRUE)
  /\ shown' = [shown EXCEPT ![r].outcomes = study[on[r]].outcomes]
  /\ End2(r, "ok")
  /\ Proceed(r)
  /\ UNCHANGED <<intelReqVars, intelRowVars, owner>>

\* A statement is rejected because its client was ended: a transaction rolls back.
RolledBack(r) ==
  /\ r \in Busy /\ Cut(r, at2[r] \notin {"history", "view", "connection"} /\ ~(at2[r] = "write" /\ act[r] = "social"))
  /\ owner' = [o \in Requests |-> IF owner[o] = r THEN None ELSE owner[o]]
  /\ End2(r, "error")
  /\ Proceed(r)
  /\ UNCHANGED <<intelReqVars, shown, intelRowVars>>

\* PERSONAL_..._ACTION_TIMEOUT_MS: 504, and the isolate's client is dropped.
TimeUp(r) ==
  /\ r \in Busy /\ told[r] = None
  /\ Cardinality({q \in Requests : told[q] = "timeout"}) < MaxTimeouts
  /\ Say(r, "timeout")
  /\ Reset(r, Busy)
  /\ UNCHANGED <<intelReqVars, at2, shown, intelRowVars, owner>>

\* The provider disconnects, or a privacy delete takes the recommendations and
\* with them the product outcomes.
Outside ==
  /\ \/ linked /\ linked' = FALSE /\ UNCHANGED facts
     \/ /\ \E r \in facts : act[r] = "product"
        /\ facts' = {r \in facts : act[r] # "product"} /\ UNCHANGED linked
  /\ UNCHANGED <<intelReqVars, at2, told, shown, study, run, receipts, owner, clientVars>>

IntelNext ==
  \/ \E r \in Requests, row \in Requests :
       \/ "view" \in Acts[r] /\ AskView(r, row)
       \/ \E a \in Acts[r] :
            AskStudy(r, a, row) \/ \E evidence \in Requests : AskAgent(r, a, row, evidence)
  \/ \E r \in Requests :
       \/ "product" \in Acts[r] /\ AskProduct(r)
       \/ "social" \in Acts[r] /\ \E first \in {"connection", "write"} : AskSocial(r, first)
       \/ "run" \in Acts[r] /\ \E goal \in Goals : AskRun(r, goal)
       \/ AskHistory(r)
       \/ Lock(r) \/ CommitOutcome(r) \/ CommitDecision(r) \/ CommitCompletion(r)
       \/ CreateStudy(r) \/ CompleteStudy(r) \/ WriteProduct(r) \/ ReadConnection(r)
       \/ WriteSocial(r) \/ Propose(r)
       \/ ViewRow(r) \/ ViewOutcomes(r)
       \/ RolledBack(r) \/ TimeUp(r)
  \/ Outside

IntelSpec == IntelInit /\ [][IntelNext]_<<intelVars, clientVars>>

-----------------------------------------------------------------------------
IntelTypeOK ==
  /\ \A r \in Requests :
       /\ study[r].status \in {None, "active", "completed"} /\ study[r].outcomes \subseteq Requests
       /\ run[r].status \in {None, "awaiting_approval", "approved", "rejected", "completed"}
  /\ facts \subseteq Requests /\ ClientTypeOK

\* Completion freezes a study: an answer that showed it completed showed its outcomes
\* as they are for ever after, so its verdict is final -- although the view is two
\* reads, a recorder may have checked the status earlier, and a completion may be
\* repeated or outlive its 504.
CompletedStudiesAreFinal ==
  \A r \in Requests :
    (at2[r] = "done" /\ told[r] = "ok" /\ shown[r].status = "completed") =>
      shown[r].outcomes = study[on[r]].outcomes

\* The state a run's receipts add up to.
Replay(p) ==
  LET rs == receipts[p]
      decided == {i \in DOMAIN rs : rs[i].kind \in {"approve", "reject"}}
      closed == {i \in DOMAIN rs : rs[i].kind = "completion" /\ rs[i].verified}
  IN CASE rs = <<>> -> None
       [] closed # {} -> "completed"
       [] \E i \in decided : rs[i].kind = "reject" -> "rejected"
       [] closed = {} /\ decided # {} /\ \A i \in decided : rs[i].kind = "approve" -> "approved"
       [] OTHER -> "awaiting_approval"

\* "agent writes require a separately recorded approval and receipt" (the migration of
\* the suite): a proposed action is decided once and completed at most once, after its
\* approval, and the receipts alone tell the run's state -- under concurrent decisions,
\* completions and timeouts.
ReceiptsTellTheStory ==
  \A p \in Requests :
    LET rs == receipts[p]
        only(kinds) == Cardinality({i \in DOMAIN rs : rs[i].kind \in kinds /\ rs[i].verified}) <= 1
    IN /\ run[p].type # "ask_history" => run[p].status = Replay(p)
       /\ run[p].type = "ask_history" => run[p].status = "completed" /\ Len(rs) = 1
       /\ only({"approve", "reject"}) /\ only({"completion"})
       /\ \A i \in DOMAIN rs : rs[i].kind = "completion" =>
            \E j \in 1..i : rs[j].kind = "approve"

\* What a completed study or a decided action was reported to be it stays, although a
\* request may go on working behind the 504 its client got (personalIntelligenceRoute.ts:58).
RecordsAreFinal == CompletedStudiesAreFinal /\ ReceiptsTellTheStory
=============================================================================
