------------------------------- MODULE MCPaid -------------------------------
(* The metered actions of one account: the jobs and plans of PaidActions, the
   studies and agent runs of PersonalIntelligence, the verdicts of
   PersonalEvidence.  They share no table but the credit account, which
   PaidActions has, so a behaviour is one of one part, chosen at the start. *)
EXTENDS PaidActions, PersonalIntelligence

CONSTANTS r1, r2, r3, r4

VARIABLE part

MCRequests == {r1, r2, r3, r4}
MCHome == [r \in Requests |-> CHOOSE i \in Isolates : TRUE]
MCKinds == [r \in Requests |->
  CASE r = r1 -> {"compare", "test", "plan", "checkin"}
    [] r = r2 -> {"plan", "checkin"}
    [] OTHER -> {}]
MCActs == [r \in Requests |->
  CASE r = r1 -> {"create", "run", "social"}
    [] r = r2 -> {"record", "product", "reject"}
    [] r = r3 -> {"complete", "approve"}
    [] r = r4 -> {"record", "finish", "view"}]
MCGoals == {{}, {"product"}}
MCMetrics == {-101, -100, 0, 100, 101}
\* No outcomes yet, or 39 for each option, so that the next ones make 61 and 51 of 40.
MCCollected ==
  LET Times(n, score) == [i \in 1..n |-> score]
  IN {[a |-> <<>>, b |-> <<>>],
      [a |-> Times(7, 4) \o Times(32, 1), b |-> Times(3, 4) \o <<3>> \o Times(35, 1)]}
\* After so many outcomes, three more are enough.
Long == \E key \in Keys : Len(sample[key]) >= 39
FewMore == Long => room > MaxSample - 3
\* Of the ties an average of forty outcomes may be, n/40 = 5n/200, those whose double
\* times 100 is below the half: 51/40 is 1.275 and rounded to 1.27.
MCFalls == {5 * n : n \in {41, 51, 87, 97, 169, 179, 189, 199}}

paidOnlyVars == <<requestVars, at, tableVars, boundVars>>

Init ==
  /\ part \in {"jobs", "studies", "verdicts"}
  /\ PaidInit /\ IntelInit /\ EvidenceInit
  \* At most one: nothing is known of the account, it has a plan, it has one credit.
  /\ profiled \/ plans = <<>>
  /\ (profiled /\ plans = <<>>) \/ \A c \in Credits : c <= balance[Owner]
  \* The other parts do not look at the tables of the jobs.
  /\ part # "jobs" =>
       profiled /\ plans = <<>> /\ \A c \in Credits : balance[Owner] <= c
  /\ part # "verdicts" => \A key \in Keys : sample[key] = <<>>

\* Of an account that has a plan, jobs would only add other steps.
Next ==
  /\ UNCHANGED part
  /\ \/ /\ part = "jobs" /\ PaidNext /\ UNCHANGED <<intelVars, evidenceVars>>
        /\ (plans # <<>> /\ plans[1].by = Earlier) => \A r \in Requests : kind'[r] \notin {"compare", "test"}
     \/ part = "studies" /\ IntelNext /\ UNCHANGED <<paidOnlyVars, evidenceVars>>
     \/ part = "verdicts" /\ EvidenceNext /\ FewMore /\ UNCHANGED <<paidOnlyVars, intelVars, clientVars>>

Spec == Init /\ [][Next]_<<part, paidOnlyVars, intelVars, evidenceVars, clientVars>>

\* Every variable has its type, whichever part runs.
TypeOK == PaidTypeOK /\ IntelTypeOK
=============================================================================
