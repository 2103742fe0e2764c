---------------------------- MODULE PaidActions ----------------------------
(***************************************************************************)
(* The metered actions that leave a record: POST /api/compare (a compare   *)
(* job with vision), /api/compare/test (a job from stored history),        *)
(* /api/appearance (a 90-day plan) and /api/appearance/plans (a check-in), *)
(* with the writers in lib/compareJobs.ts and lib/appearanceJobs.ts.       *)
(*                                                                         *)
(* A route reads the history, charges one credit and then works, one SQL   *)
(* statement after another.  withDatabaseTimeout answers 504 when the      *)
(* budget is spent and drops the isolate's client, but the work it raced   *)
(* goes on: its kept client is dead, its next call of db() gets a new one. *)
(* Any statement may fail, an isolate may be killed, and a client's retry  *)
(* is another request.  DELETE /api/memory/context erases the history under *)
(* them.  One account owner: no table here is shared between users.  The   *)
(* charge is Spend of the abstract account, which the statements of        *)
(* consumeCredits implement (CreditLedger).                                *)
(***************************************************************************)
EXTENDS Integers, Sequences, FiniteSets, SqlClient

LOCAL S == INSTANCE SequencesExt

CONSTANTS Kinds,        \* the routes each request may invoke
          Owner,        \* the account
          Credits,      \* bound: the credits it may have at the start
          Earlier,      \* a request that ended before the model starts
          Cost,         \* COMPARE_ACTION_COST, APPEARANCE_ACTION_COST
          TargetDays,   \* APPEARANCE_AGENT.target_days
          LastDay,      \* bound: days the model lasts
          MaxTroubles   \* bound: statements the database rejects by itself,
                        \* isolates killed and privacy deletes, together

ASSUME PaidAssumption ==
  /\ Credits \subseteq Nat /\ Cost \in Nat \ {0}
  /\ TargetDays \in Nat \ {0} /\ LastDay \in Nat
  /\ MaxTroubles \in Nat
  /\ Earlier \notin Requests
  /\ \A r \in Requests : Kinds[r] \subseteq {"compare", "test", "plan", "checkin"}

VARIABLES kind,      \* the route a request invoked
          at,        \* the statement it is at
          answer,    \* what its caller was told
          charged,   \* requests whose credit was consumed
          job,       \* rmf_compare_jobs: status of the request's job
          result,    \* rmf_compare_results: requests with a result row
          noted,     \* rmf_interactions: requests with a follow-up row
          profiled,  \* rmf_personal_profiles holds a preference
          compared,  \* an earlier compare job is on record
          erasing,   \* the statement DELETE /api/memory/context is at
          plans,     \* rmf_appearance_plans, oldest first
          checkin,   \* rmf_appearance_checkins: the request's row
          names,     \* plan_id in the body; 0 for none, NoSuchPlan for an unknown one
          uses,      \* the plan and the day a request works with
          today, troubles,
          sawPlans,  \* history: how many plans existed when a request read them
          balance, purchased, spent

requestVars == <<kind, answer, names, uses, sawPlans>>
jobVars == <<job, result>>
learnVars == <<noted, profiled, compared, erasing>>
planVars == <<plans, checkin>>
boundVars == <<today, troubles>>
accountVars == <<balance, purchased, spent>>
tableVars == <<jobVars, learnVars, planVars, charged, accountVars>>
paidVars == <<kind, at, answer, charged, job, result, noted, profiled, compared, erasing, plans,
              checkin, names, uses, today, troubles, sawPlans, balance, purchased, spent,
              ended, flying>>

Account == INSTANCE CreditAccount WITH Users <- {Owner}, Amounts <- {Cost}

-----------------------------------------------------------------------------
\* The statements of each route, in order.
Steps ==
  [compare |-> <<"peek", "charge", "insert", "run", "vision", "store",
                 "complete", "note", "reply", "done">>,
   test    |-> <<"peek", "charge", "reread", "insert", "run", "store",
                 "complete", "note", "reply", "done">>,
   plan    |-> <<"peek", "charge", "reread", "insert", "note", "reply", "done">>,
   checkin |-> <<"peek", "charge", "reread", "pick", "insert", "advance",
                 "note", "reply", "done">>]

After(r) ==
  LET s == Steps[kind[r]] IN s[(CHOOSE i \in DOMAIN s : s[i] = at[r]) + 1]
AllSteps == {"idle", "fail", "sorry"} \cup UNION {S!ToSet(Steps[k]) : k \in DOMAIN Steps}

NoSuchPlan == -1
Running == {r \in Requests : at[r] \notin {"idle", "done"}}
Compares(r) == kind[r] \in {"compare", "test"}

\* Statements sent through the client the writer keeps in `sql`.
Kept(r) ==
  \/ at[r] \in {"run", "store", "complete", "advance", "fail"}
  \/ at[r] = "insert" /\ kind[r] = "checkin" /\ names[r] # 0

\* readAppearanceHistorySnapshot: the newest plan that is active; 0 for none.
ActivePlan ==
  LET active == {i \in DOMAIN plans : plans[i].status = "active"}
  IN IF active = {} THEN 0 ELSE CHOOSE i \in active : \A j \in active : j <= i

\* readCompareLearningSnapshot, hasAccountLearningHistory: a profile, an
\* interaction or a recommendation.
Learned == profiled \/ noted # {}
HasCompare == compared \/ \E r \in Requests : job[r] \notin {"none", "erased"}
\* requiredAppearanceHistory: a compare job in any state counts.
HistoryPresent == Learned /\ HasCompare

\* What a snapshot shows.  readAppearanceHistorySnapshot takes a select of its own
\* that fails for "none": of compare jobs, or of plans.
Whole == [plan |-> ActivePlan, history |-> HistoryPresent]
Blurred == {[plan |-> ActivePlan, history |-> FALSE], [plan |-> 0, history |-> HistoryPresent]}

\* appearanceDayIndex: whole days since the start, no more than the target.
DayIndex(p) ==
  IF today - plans[p].start > TargetDays THEN TargetDays ELSE today - plans[p].start

\* Something goes wrong that no statement of the program brought about.
Trouble == troubles < MaxTroubles /\ troubles' = troubles + 1 /\ UNCHANGED today

\* The snapshot r reads is view.
Sees(r, view) ==
  \/ view = Whole /\ UNCHANGED boundVars
  \/ /\ kind[r] \in {"plan", "checkin"} /\ view \in Blurred
     /\ Trouble \/ (Cut(r, FALSE) /\ UNCHANGED boundVars)

\* The caller is told once: withDatabaseTimeout may have spoken first.
Tell(r, what) == answer' = [answer EXCEPT ![r] = IF @ = "none" THEN what ELSE @]
Goto(r, step) == at' = [at EXCEPT ![r] = step]

-----------------------------------------------------------------------------
PaidInit ==
  /\ kind = [r \in Requests |-> "none"]
  /\ at = [r \in Requests |-> "idle"]
  /\ answer = [r \in Requests |-> "none"]
  /\ charged = {}
  /\ job = [r \in Requests |-> "none"]
  /\ result = {}
  /\ noted = {}
  /\ profiled \in BOOLEAN /\ compared = profiled
  /\ erasing = "no"
  /\ \/ plans = <<>>
     \/ plans = <<[by |-> Earlier, status |-> "active", day |-> 0, start |-> 0]>>
  /\ checkin = [r \in Requests |-> <<>>]
  /\ names = [r \in Requests |-> 0]
  /\ uses = [r \in Requests |-> [plan |-> 0, day |-> 0]]
  /\ today = 0 /\ troubles = 0
  /\ sawPlans = [r \in Requests |-> 0]
  /\ balance \in [{Owner} -> Credits]
  /\ purchased = balance
  /\ spent = [u \in {Owner} |-> 0]
  /\ ClientInit

\* A signed-in caller who gave the consent the route asks for; a check-in may
\* name a plan, one that exists or not.
Begin(r, k, id) ==
  /\ at[r] = "idle"
  /\ id = 0 \/ k = "checkin"
  /\ kind' = [kind EXCEPT ![r] = k]
  /\ names' = [names EXCEPT ![r] = id]
  /\ Goto(r, "peek")
  /\ UNCHANGED <<answer, uses, sawPlans, tableVars, boundVars, clientVars>>

\* What the route asks of the history before it charges.
MayCharge(r, view) ==
  CASE kind[r] = "compare" -> TRUE
    [] kind[r] = "test"    -> Learned
    [] kind[r] = "plan"    -> view.plan # 0 \/ view.history
    [] kind[r] = "checkin" -> view.history /\ (view.plan # 0 \/ names[r] # 0)

\* The route's snapshot; for compare also the image references of the body.
Peek(r) ==
  /\ at[r] = "peek"
  /\ \E view \in {Whole} \cup Blurred : Sees(r, view) /\ MayCharge(r, view)
  /\ Goto(r, "charge")
  /\ Proceed(r)
  /\ UNCHANGED <<requestVars, tableVars>>

\* 400 or 409 before anything is charged or written.
Refuse(r) ==
  /\ at[r] = "peek"
  /\ \E view \in {Whole} \cup Blurred :
       Sees(r, view) /\ (kind[r] = "compare" \/ ~MayCharge(r, view))
  /\ Goto(r, "done") /\ Tell(r, "refused")
  /\ Proceed(r)
  /\ UNCHANGED <<kind, names, uses, sawPlans, tableVars>>

\* Mutant: the outcome of consumeCredits is not looked at.
ChargeUnchecked(r) ==
  /\ at[r] = "charge"
  /\ \/ /\ Account!Spend(Owner, Cost)
        /\ charged' = charged \cup {r}
     \/ /\ balance[Owner] < Cost
        /\ UNCHANGED <<charged, accountVars>>
  /\ Goto(r, After(r))
  /\ Proceed(r)
  /\ UNCHANGED <<requestVars, jobVars, learnVars, planVars, boundVars>>

\* consumeCredits.
Charge(r) ==
  /\ at[r] = "charge"
  /\ Account!Spend(Owner, Cost)
  /\ charged' = charged \cup {r}
  /\ Goto(r, After(r))
  /\ Proceed(r)
  /\ UNCHANGED <<requestVars, jobVars, learnVars, planVars, boundVars>>

\* 402: the balance does not cover the action.
Deny(r) ==
  /\ at[r] = "charge" /\ balance[Owner] < Cost
  /\ Goto(r, "done") /\ Tell(r, "denied")
  /\ Proceed(r)
  /\ UNCHANGED <<kind, names, uses, sawPlans, tableVars, boundVars>>

\* Mutant: createPlan does not look for an active plan.
RereadAlwaysNew(r) ==
  /\ at[r] = "reread"
  /\ kind[r] \in {"plan", "checkin"} => HistoryPresent
  /\ kind[r] = "test" => Learned
  /\ uses' = [uses EXCEPT ![r].plan = IF kind[r] = "checkin" THEN ActivePlan ELSE 0]
  /\ sawPlans' = [sawPlans EXCEPT ![r] = Len(plans)]
  /\ Goto(r, After(r))
  /\ Proceed(r)
  /\ UNCHANGED <<kind, answer, names, tableVars, boundVars>>

\* The writer reads the history once more, now that the action is paid for.
\* createPlan hands back the active plan if it sees one.
Reread(r) ==
  /\ at[r] = "reread"
  /\ \E view \in {Whole} \cup Blurred :
       /\ Sees(r, view)
       /\ CASE kind[r] = "test" -> Learned /\ Goto(r, After(r)) /\ UNCHANGED uses
            [] kind[r] = "plan" ->
                 /\ view.plan # 0 \/ view.history
                 /\ Goto(r, IF view.plan # 0 THEN "reply" ELSE After(r))
                 /\ UNCHANGED uses
            [] kind[r] = "checkin" ->
                 /\ view.history
                 /\ uses' = [uses EXCEPT ![r].plan = view.plan]
                 /\ Goto(r, "pick")
       /\ sawPlans' = [sawPlans EXCEPT ![r] = IF view.plan = ActivePlan THEN Len(plans) ELSE 0]
  /\ Proceed(r)
  /\ UNCHANGED <<kind, answer, names, tableVars>>

\* The history the route saw is gone or not read: 4xx, and the credit stays charged.
Unmet(r) ==
  /\ at[r] = "reread"
  /\ \E view \in {Whole} \cup Blurred :
       /\ Sees(r, view)
       /\ CASE kind[r] = "test" -> ~Learned
            [] kind[r] = "plan" -> view.plan = 0 /\ ~view.history
            [] kind[r] = "checkin" -> ~view.history
  /\ Goto(r, "done") /\ Tell(r, "unmet")
  /\ Proceed(r)
  /\ UNCHANGED <<kind, names, uses, sawPlans, tableVars>>

\* A check-in takes the plan the body names, or else the active one, and
\* computes the day; a plan that is not there is refused after the charge.
Pick(r) ==
  LET p == IF names[r] = 0 THEN uses[r].plan
           ELSE IF names[r] \in DOMAIN plans THEN names[r] ELSE 0
  IN /\ at[r] = "pick"
     /\ IF p = 0
        THEN Goto(r, "done") /\ Tell(r, "unmet") /\ UNCHANGED uses
        ELSE /\ Goto(r, After(r))
             /\ uses' = [uses EXCEPT ![r] = [plan |-> p, day |-> DayIndex(p)]]
             /\ UNCHANGED answer
     /\ Take(r)
     /\ UNCHANGED <<kind, names, sawPlans, tableVars, boundVars>>

\* insert into rmf_compare_jobs: queued; the client is kept from here.
InsertJob(r) ==
  /\ at[r] = "insert" /\ Compares(r)
  /\ job' = [job EXCEPT ![r] = "queued"]
  /\ Goto(r, After(r))
  /\ Take(r)
  /\ UNCHANGED <<requestVars, result, learnVars, planVars, charged, accountVars, boundVars>>

\* insert into rmf_appearance_plans: active at day 0, started now.
InsertPlan(r) ==
  /\ at[r] = "insert" /\ kind[r] = "plan"
  /\ plans' = Append(plans, [by |-> r, status |-> "active", day |-> 0, start |-> today])
  /\ Goto(r, After(r))
  /\ Take(r)
  /\ UNCHANGED <<requestVars, jobVars, learnVars, checkin, charged, accountVars, boundVars>>

\* insert into rmf_appearance_checkins.
InsertCheckin(r) ==
  /\ at[r] = "insert" /\ kind[r] = "checkin" /\ Reaches(r, Kept(r))
  /\ checkin' = [checkin EXCEPT ![r] = uses[r]]
  /\ Goto(r, After(r))
  /\ IF Kept(r) THEN Proceed(r) ELSE Take(r)
  /\ UNCHANGED <<requestVars, jobVars, learnVars, plans, charged, accountVars, boundVars>>

\* Mutant: the day is computed once more, after the check-in row was written.
AdvanceRecomputed(r) ==
  /\ at[r] = "advance" /\ Reaches(r, TRUE)
  /\ LET p == uses[r].plan IN
       plans' = [plans EXCEPT ![p].day = DayIndex(p),
                              ![p].status =
                                 IF DayIndex(p) >= TargetDays THEN "completed" ELSE "active"]
  /\ Goto(r, After(r))
  /\ Proceed(r)
  /\ UNCHANGED <<requestVars, jobVars, learnVars, checkin, charged, accountVars, boundVars>>

\* update rmf_appearance_plans: the day and the status computed earlier.
Advance(r) ==
  /\ at[r] = "advance" /\ Reaches(r, TRUE)
  /\ LET u == uses[r] IN
       plans' = [plans EXCEPT ![u.plan].day = u.day,
                              ![u.plan].status =
                                 IF u.day >= TargetDays THEN "completed" ELSE "active"]
  /\ Goto(r, After(r))
  /\ Proceed(r)
  /\ UNCHANGED <<requestVars, jobVars, learnVars, checkin, charged, accountVars, boundVars>>

\* update rmf_compare_jobs set status where id: an erased job is not there.
SetJob(r, status) ==
  job' = [job EXCEPT ![r] = IF @ = "erased" THEN @ ELSE status]

RunJob(r) ==
  /\ at[r] = "run" /\ Reaches(r, TRUE)
  /\ SetJob(r, "running")
  /\ Goto(r, After(r))
  /\ Proceed(r)
  /\ UNCHANGED <<requestVars, result, learnVars, planVars, charged, accountVars, boundVars>>

\* analyzeCompareImages: within its own 12 seconds, and whatever it says the
\* result is built; no statement is in flight meanwhile.
Vision(r) ==
  /\ at[r] = "vision"
  /\ Goto(r, After(r))
  /\ Proceed(r)
  /\ UNCHANGED <<requestVars, tableVars, boundVars>>

\* insert into rmf_compare_results, which references the job.
StoreResult(r) ==
  /\ at[r] = "store" /\ Reaches(r, TRUE) /\ job[r] # "erased"
  /\ result' = result \cup {r}
  /\ Goto(r, After(r))
  /\ Proceed(r)
  /\ UNCHANGED <<requestVars, job, learnVars, planVars, charged, accountVars, boundVars>>

CompleteJob(r) ==
  /\ at[r] = "complete" /\ Reaches(r, TRUE)
  /\ SetJob(r, "completed")
  /\ Goto(r, After(r))
  /\ Proceed(r)
  /\ UNCHANGED <<requestVars, result, learnVars, planVars, charged, accountVars, boundVars>>

\* saveInteraction and saveRecommendation, each through the present client.
Note(r) ==
  /\ at[r] = "note"
  /\ noted' = noted \cup {r}
  /\ Goto(r, After(r))
  /\ Proceed(r)
  /\ UNCHANGED <<requestVars, jobVars, profiled, compared, erasing, planVars, charged, accountVars, boundVars>>

\* creditBalance, and the answer: 200, or 500 for a job that failed.
Reply(r) ==
  /\ at[r] \in {"reply", "sorry"}
  /\ Goto(r, "done")
  /\ Tell(r, IF at[r] = "reply" THEN "ok" ELSE "failed")
  /\ Proceed(r)
  /\ UNCHANGED <<kind, names, uses, sawPlans, tableVars, boundVars>>

\* A statement is rejected: in the job's try block the catch follows, anywhere
\* else the request ends with a 500.
InTry(r) == Compares(r) /\ at[r] \in {"run", "vision", "store", "complete", "note"}
Rejected(r) ==
  /\ at[r] \notin {"idle", "vision", "done"}
  /\ \/ /\ Cut(r, Kept(r)) \/ (at[r] = "store" /\ job[r] = "erased")
        /\ UNCHANGED boundVars
     \/ Trouble
  /\ IF InTry(r) THEN Goto(r, "fail") /\ UNCHANGED answer
     ELSE Goto(r, "done") /\ Tell(r, "error")
  /\ Proceed(r)
  /\ UNCHANGED <<kind, names, uses, sawPlans, tableVars>>

\* Mutant: the catch is left without the update.
FailNothing(r) ==
  /\ at[r] = "fail"
  /\ Goto(r, "sorry")
  /\ Proceed(r)
  /\ UNCHANGED <<requestVars, tableVars, boundVars>>

\* Mutant: a status the table's check constraint does not know.
FailMisspelt(r) ==
  /\ at[r] = "fail" /\ Reaches(r, TRUE)
  /\ SetJob(r, "error")
  /\ Goto(r, "sorry")
  /\ Proceed(r)
  /\ UNCHANGED <<requestVars, result, learnVars, planVars, charged, accountVars, boundVars>>

\* The catch: the job is set to failed, whatever it was.
FailJob(r) ==
  /\ at[r] = "fail" /\ Reaches(r, TRUE)
  /\ SetJob(r, "failed")
  /\ Goto(r, "sorry")
  /\ Proceed(r)
  /\ UNCHANGED <<requestVars, result, learnVars, planVars, charged, accountVars, boundVars>>

\* The budget of withDatabaseTimeout is spent: 504, and the client is dropped
\* under every request of the isolate.
Timeout(r) ==
  /\ r \in Running /\ answer[r] = "none"
  /\ Tell(r, "timeout")
  /\ Reset(r, Running)
  /\ UNCHANGED <<kind, at, names, uses, sawPlans, tableVars, boundVars>>

\* The platform kills an isolate: its requests end where they are.
Killed(i) ==
  /\ Trouble
  /\ \E r \in Running : Home[r] = i
  /\ at' = [r \in Requests |-> IF r \in Running /\ Home[r] = i THEN "done" ELSE at[r]]
  /\ answer' = [r \in Requests |->
       IF r \in Running /\ Home[r] = i /\ answer[r] = "none" THEN "lost" ELSE answer[r]]
  /\ flying' = {r \in flying : Home[r] # i}
  /\ UNCHANGED <<kind, names, uses, sawPlans, tableVars, ended>>

\* clearAccountLearningStores, statement by statement.
Erase ==
  /\ \/ /\ erasing = "no" /\ erasing' = "jobs"
        /\ Trouble
        /\ noted' = {}
        /\ UNCHANGED <<job, result, profiled, compared>>
     \/ /\ erasing = "jobs" /\ erasing' = "profile"
        /\ job' = [r \in Requests |-> IF job[r] = "none" THEN "none" ELSE "erased"]
        /\ result' = {} /\ compared' = FALSE
        /\ UNCHANGED <<noted, profiled, boundVars>>
     \/ /\ erasing = "profile" /\ erasing' = "done"
        /\ profiled' = FALSE
        /\ UNCHANGED <<noted, compared, jobVars, boundVars>>
  /\ UNCHANGED <<at, requestVars, planVars, charged, accountVars, clientVars>>

NextDay ==
  /\ plans # <<>>
  /\ today < LastDay /\ today' = today + 1
  /\ UNCHANGED <<at, requestVars, tableVars, troubles, clientVars>>

-----------------------------------------------------------------------------
Work(r) ==
  \/ Peek(r) \/ Refuse(r)
  \/ Charge(r) \/ Deny(r)
  \/ Reread(r) \/ Unmet(r) \/ Pick(r)
  \/ InsertJob(r) \/ InsertPlan(r) \/ InsertCheckin(r) \/ Advance(r)
  \/ RunJob(r) \/ Vision(r) \/ StoreResult(r) \/ CompleteJob(r)
  \/ Note(r) \/ Reply(r)
  \/ Rejected(r) \/ FailJob(r)

PaidNext ==
  \/ \E r \in Requests :
       \/ \E k \in Kinds[r], id \in {NoSuchPlan, 0} \cup DOMAIN plans : Begin(r, k, id)
       \/ Work(r)
       \/ Timeout(r)
  \/ \E i \in Isolates : Killed(i)
  \/ Erase
  \/ NextDay

\* Only the timer of withDatabaseTimeout is owed: a statement may hang for ever.
PaidFairness == \A r \in Requests : WF_paidVars(Timeout(r))

PaidSpec == PaidInit /\ [][PaidNext]_paidVars /\ PaidFairness

-----------------------------------------------------------------------------
PaidTypeOK ==
  /\ kind \in [Requests -> {"none"} \cup DOMAIN Steps]
  /\ at \in [Requests -> AllSteps]
  /\ answer \in [Requests -> {"none", "refused", "denied", "unmet", "ok", "failed", "error",
                              "timeout", "lost"}]
  /\ charged \subseteq Requests /\ result \subseteq Requests /\ noted \subseteq Requests
  /\ job \in [Requests -> {"none", "queued", "running", "completed", "failed", "erased"}]
  /\ \A i \in DOMAIN plans : plans[i] \in
       [by : Requests \cup {Earlier}, status : {"active", "completed"}, day : 0..TargetDays, start : 0..LastDay]
  /\ ClientTypeOK

\* Nothing is recorded on credit: every job, plan, check-in and follow-up row
\* belongs to a request whose credit left the account, every credit that left it
\* belongs to one request, and a request refused or denied took nothing -- also
\* when it had timed out, its isolate lost its client, or it raced for the last credit.
EveryRecordIsPaid ==
  /\ \A r \in Requests \ charged :
       /\ job[r] = "none" /\ checkin[r] = <<>> /\ r \notin noted
       /\ \A i \in DOMAIN plans : plans[i].by # r
  /\ spent[Owner] = Cost * Cardinality(charged)
  /\ balance[Owner] + spent[Owner] = purchased[Owner] /\ balance[Owner] >= 0
  /\ \A r \in charged : answer[r] \notin {"refused", "denied"}

\* What a job says of itself is true: a completed job has its result; a caller
\* told "compare_failed" has a failed job; a caller told 200 has a completed one with
\* result and follow-up, and keeps it until the history is erased.
JobsAreHonest ==
  \A r \in Requests : Compares(r) =>
    /\ job[r] = "completed" => r \in result
    /\ answer[r] = "failed" => job[r] \in {"failed", "erased"}
    /\ answer[r] = "ok" =>
         job[r] = "erased" \/ (job[r] = "completed" /\ (r \in noted \/ erasing # "no"))

\* Plan p was inserted by a request that had not seen q's row (q is older): it had
\* read the plans before, or its select of them failed.
Raced(p, q) == plans[p].by \in Requests /\ sawPlans[plans[p].by] < q

\* lib/appearanceJobs.ts:289 reuses an active plan.  Two plans of one account are
\* active together only if the requests that created them overlapped, the later one
\* could not read the plans, or a plan that a check-in had completed was set back to
\* active by a slower one.
OneActivePlanUnlessRaced ==
  \A p, q \in DOMAIN plans :
    (q < p /\ plans[p].status = "active" /\ plans[q].status = "active") =>
      \/ Raced(p, q)
      \/ \E r \in Requests : uses[r].plan = q /\ uses[r].day < TargetDays
           /\ \E s \in Requests \ {r} : uses[s].plan = q /\ uses[s].day = TargetDays

\* A plan's day is the day of one of its check-ins and never ahead of the calendar,
\* and a plan is completed only after its whole term: an answer lost, a day
\* computed before midnight and overlapping check-ins do not change that.
PlanDaysAreReal ==
  \A p \in DOMAIN plans :
    /\ plans[p].day > 0 =>
         \E r \in Requests : checkin[r] = [plan |-> p, day |-> plans[p].day]
    /\ plans[p].start + plans[p].day <= today
    /\ plans[p].status = "completed" <=> plans[p].day = TargetDays

\* "Compare did not complete in time. Check rmf_credit_ledger before retrying."
\* (app/api/compare/route.ts:172): what the ledger shows a caller that was
\* answered 504 is final.  The code does not keep it: the work that lost the race
\* goes on, and its next db() opens a new client.
NoChargeAfterTimeout ==
  [][\A r \in Requests : r \in charged' \ charged => answer[r] # "timeout"]_paidVars
=============================================================================
