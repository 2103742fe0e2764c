----------------------------- MODULE MCOperator -----------------------------
(* The operator's side beyond its queue: approvals, the feature backlog with
   the build cycles' reports, and the control plane, once for the evidence and
   once for the closure rounds.  They share no table here, so a behaviour is one
   of one part, chosen at the start. *)
EXTENDS OperatorApproval, FeatureBacklog, ControlPlane, TLC

CONSTANTS a1, a2, b1, b2, b3

VARIABLE part

MCGiven == {"s1", "s2", "s3"}
MCTask == [s1 |-> "browse", s2 |-> "probe", s3 |-> "chat"]
MCAsked == [s1 |-> 1, s2 |-> 2, s3 |-> 0]
MCConfigured == {"probe", "browse"}
MCItems == <<"learning", "social">>
\* Three of the seeds: a core feature, the agent's account and a money feature.
MCSeeds ==
  [account_learning |->
     [category |-> "product", life |-> "active", open |-> TRUE, target |-> "key", priority |-> 1,
      text |-> "seeded", evidence |-> "partial"],
   codex_agent_account |->
     [category |-> "access", life |-> "underway", open |-> FALSE, target |-> "key", priority |-> 9,
      text |-> "seeded", evidence |-> "unverified"],
   monetary_intelligence |->
     [category |-> "money", life |-> "underway", open |-> FALSE, target |-> "key", priority |-> 14,
      text |-> "seeded", evidence |-> "partial"]]
MCRank == [account_learning |-> 1, codex_agent_account |-> 2, monetary_intelligence |-> 3]
\* A registration rewords the learning feature, or takes it out of service.
MCReworded == [MCSeeds["account_learning"] EXCEPT !.text = "reworded", !.evidence = "unverified"]
MCForms == {MCReworded, [MCReworded EXCEPT !.category = "integration", !.life = "stopped",
                                           !.open = FALSE, !.target = "endpoint", !.priority = 2]}
\* Ten chats and four users: a drop-off.
MCReported == {[stage |-> 1, count |-> 10]}
MCCounted == {[users |-> 4, purchased |-> 1]}

\* Two pairs of actors, each alike in every part (a third builder stays apart).
Alike == Permutations({a1, a2}) \cup Permutations({b1, b2})

Init ==
  /\ part \in {"approval", "backlog", "evidence", "rounds"}
  /\ ApprovalInit /\ BacklogInit /\ ControlInit

\* For the evidence one round counts, and of it the link, and nothing comes from
\* outside; for the rounds, at most two of a receipt, a metric snapshot and an edit
\* change what they read.
OneLink ==
  /\ Cardinality({r \in Rounds : phase'[r] # "idle"}) <= 1
  /\ \A r \in Rounds : phase'[r] \in {"idle", "linking", "features", "done"}
  /\ jobDone' = jobDone /\ (metric' # metric => snapped' # snapped)
Receipts == {c \in Checks : check'[c].state # "idle"}
FewChanges ==
  /\ Cardinality(Receipts) <= 1
  /\ Cardinality(Receipts) + Cardinality(snapped') + edits' <= 2

Next ==
  /\ UNCHANGED part
  /\ \/ part = "approval" /\ ApprovalNext /\ UNCHANGED <<backlogVars, controlVars>>
     \/ part = "backlog" /\ BacklogNext /\ UNCHANGED <<approvalVars, controlVars>>
     \/ part = "evidence" /\ ControlNext /\ OneLink /\ UNCHANGED <<approvalVars, backlogVars>>
     \/ part = "rounds" /\ ControlNext /\ FewChanges /\ UNCHANGED <<approvalVars, backlogVars>>

Spec == Init /\ [][Next]_<<part, approvalVars, backlogVars, controlVars>>

\* Every variable has its type, whichever part runs.
TypeOK == ApprovalTypeOK /\ BacklogTypeOK /\ ControlTypeOK
=============================================================================
