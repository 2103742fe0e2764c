---------------------------- MODULE OperatorQueue ----------------------------
(***************************************************************************)
(* The operator signal queue: enqueueSignal and enqueueSignalIdempotent    *)
(* put signals in rmf_agent_signals; a call of /api/operator/run or of the *)
(* owner chat is a worker that runs nextSignal -- bounded maintenance,     *)
(* then a claim -- and executes the claimed signal under a row of          *)
(* rmf_agent_runs.  None of it is in a transaction: a statement is a step, *)
(* workers overlap, and a worker may die after any step.                   *)
(*                                                                         *)
(* Time: a worker's statements end with withWorkerTimeout (45 s, the SQL   *)
(* client is closed under it), long before its claim or its run row is two *)
(* minutes old, so a row becomes stale only when no live worker holds it.  *)
(* Signal ids grow with created_at.  What a run does with its signal       *)
(* (resolveClosure, the tool) is an outcome chosen freely.                 *)
(***************************************************************************)
EXTENDS Integers, Sequences, FiniteSets

F == INSTANCE FiniteSetsExt

CONSTANTS Workers,      \* worker calls that may overlap
          Heartbeats,   \* cron calls of /api/operator/heartbeat on one day
          MaxSignals,   \* bound: signals ever enqueued
          LegacyRuns,   \* numbers of runs signal 1 may have from before attempt_count existed
          Crashes,      \* bound: workers that die
          ClaimFaults   \* whether the claim of the key may throw: no context table

MaxAttempts == 3

ASSUME QueueAssumption ==
  /\ IsFiniteSet(Workers)
  /\ MaxSignals \in Nat \ {0}
  /\ LegacyRuns \subseteq 0..MaxAttempts
  /\ Crashes \in Nat
  /\ ClaimFaults \in BOOLEAN

VARIABLES signals,    \* rmf_agent_signals, by id
          runs,       \* rmf_agent_runs of each signal, by id
          keyClaimed, \* rmf_agent_context: the day's idempotency key
          at,         \* the statement a worker runs next
          plan,       \* the maintenance plan a worker computed
          mine,       \* the signal a worker claimed, 0 if none
          row,        \* which of its signal's runs a worker inserted
          hb,         \* the statement a heartbeat runs next
          stolen,     \* history: signals requeued under a live worker
          crashed     \* workers that died so far

tables == <<signals, runs>>
workerVars == <<at, plan, mine, row, crashed>>
heartbeatVars == <<keyClaimed, hb>>
vars == <<tables, workerVars, heartbeatVars, stolen>>

Ids == DOMAIN signals
Improves(i) == signals[i].kind = "business_improve"
Open == {"queued", "running"}
Closed == {"completed", "failed", "awaiting_approval"}
Holders(i) == {w \in Workers : mine[w] = i}
NoPlan == [close |-> {}, requeue |-> {}, claim |-> 0]

\* A signal as it is inserted; by is the heartbeat that did it, or "owner".
Signal(kind, by) ==
  [kind |-> kind, status |-> "queued", attempts |-> 0, stale |-> FALSE, by |-> by]
Keyed == {i \in Ids : signals[i].by \in Heartbeats}

-----------------------------------------------------------------------------
Init ==
  /\ signals = <<Signal("business_improve", "owner")>>
  /\ runs \in {<<[j \in 1..n |-> "stale_timeout"]>> : n \in LegacyRuns}
  /\ keyClaimed \in BOOLEAN   \* an earlier heartbeat may have died holding the key
  /\ at = [w \in Workers |-> "idle"]
  /\ plan = [w \in Workers |-> NoPlan]
  /\ mine = [w \in Workers |-> 0]
  /\ row = [w \in Workers |-> 0]
  /\ hb = [h \in Heartbeats |-> "idle"]
  /\ stolen = {}
  /\ crashed = 0

-----------------------------------------------------------------------------
\* Producers.

Insert(s) ==
  /\ Len(signals) < MaxSignals
  /\ signals' = Append(signals, s)
  /\ runs' = Append(runs, <<>>)

\* enqueueSignal: owner chat, dashboard, control probes.
EnqueueSignal(kind) ==
  /\ Insert(Signal(kind, "owner"))
  /\ UNCHANGED <<workerVars, heartbeatVars, stolen>>

\* enqueueSignalIdempotent: look for a signal with the key ...
LookForKey(h) ==
  /\ hb[h] = "idle"
  /\ hb' = [hb EXCEPT ![h] = IF Keyed # {} THEN "answered" ELSE "claim"]
  /\ UNCHANGED <<tables, workerVars, keyClaimed, stolen>>

\* ... claim the key, on conflict do nothing ...
ClaimKey(h) ==
  /\ hb[h] = "claim"
  /\ keyClaimed' = TRUE
  /\ hb' = [hb EXCEPT ![h] = IF keyClaimed THEN "again" ELSE "insert"]
  /\ UNCHANGED <<tables, workerVars, stolen>>

\* ... (the claim throws: the insert is attempted all the same) ...
ClaimKeyThrows(h) ==
  /\ ClaimFaults
  /\ hb[h] = "claim"
  /\ hb' = [hb EXCEPT ![h] = "insert"]
  /\ UNCHANGED <<tables, workerVars, keyClaimed, stolen>>

\* Mutant: a claimed key is taken for an enqueued signal.
LookAgainAnswers(h) ==
  /\ hb[h] = "again"
  /\ hb' = [hb EXCEPT ![h] = "answered"]
  /\ UNCHANGED <<tables, workerVars, keyClaimed, stolen>>

\* ... on a conflict look again ...
LookAgain(h) ==
  /\ hb[h] = "again"
  /\ hb' = [hb EXCEPT ![h] = IF Keyed # {} THEN "answered" ELSE "insert"]
  /\ UNCHANGED <<tables, workerVars, keyClaimed, stolen>>

\* ... and insert.
InsertKeyed(h) ==
  /\ hb[h] = "insert"
  /\ Insert(Signal("business_improve", h))
  /\ hb' = [hb EXCEPT ![h] = "answered"]
  /\ UNCHANGED <<workerVars, keyClaimed, stolen>>

\* withDatabaseTimeout gives up, or the isolate is killed.
HeartbeatDies(h) ==
  /\ hb[h] \in {"claim", "again", "insert"}
  /\ hb' = [hb EXCEPT ![h] = "dead"]
  /\ UNCHANGED <<tables, workerVars, keyClaimed, stolen>>

-----------------------------------------------------------------------------
\* nextSignal.

Goto(w, step) == at' = [at EXCEPT ![w] = step]

Start(w) ==
  /\ at[w] = "idle"
  /\ Goto(w, "sweep")
  /\ UNCHANGED <<tables, plan, mine, row, crashed, heartbeatVars, stolen>>

\* Mutant: runs left running are left alone.
SweepNothing(w) ==
  /\ at[w] = "sweep"
  /\ Goto(w, "recount")
  /\ UNCHANGED <<tables, plan, mine, row, crashed, heartbeatVars, stolen>>

\* Runs left running for two minutes are failed with closure_state stale_timeout.
SweepRuns(w) ==
  /\ at[w] = "sweep"
  /\ runs' = [i \in Ids |-> [j \in DOMAIN runs[i] |->
                IF runs[i][j] = "overdue" THEN "stale_timeout" ELSE runs[i][j]]]
  /\ Goto(w, "recount")
  /\ UNCHANGED <<signals, plan, mine, row, crashed, heartbeatVars, stolen>>

\* Mutant: attempt_count is set to the number of runs, without greatest.
RecountRuns(w) ==
  /\ at[w] = "recount"
  /\ signals' = [i \in Ids |->
       IF signals[i].status \in Open
       THEN [signals[i] EXCEPT !.attempts = Len(runs[i])] ELSE signals[i]]
  /\ Goto(w, "select")
  /\ UNCHANGED <<runs, plan, mine, row, crashed, heartbeatVars, stolen>>

\* attempt_count = greatest(attempt_count, number of runs) of every open signal.
Recount(w) ==
  /\ at[w] = "recount"
  /\ signals' = [i \in Ids |->
       IF signals[i].status \in Open
       THEN [signals[i] EXCEPT !.attempts = F!Max({@, Len(runs[i])})] ELSE signals[i]]
  /\ Goto(w, "select")
  /\ UNCHANGED <<runs, plan, mine, row, crashed, heartbeatVars, stolen>>

EffectiveAttempts(i) == F!Max({signals[i].attempts, Len(runs[i])})
Exhausted(i) == EffectiveAttempts(i) >= MaxAttempts
CanRetryAfterStale(i) == Improves(i) /\ ~Exhausted(i)
TimedOutBefore(i) == \E j \in DOMAIN runs[i] : runs[i][j] = "stale_timeout"

\* Mutant: only queued signals are planned for.
PlanQueuedOnly ==
  LET queued == {i \in Ids : signals[i].status = "queued" /\ ~Exhausted(i)}
  IN [NoPlan EXCEPT !.claim = IF queued = {} THEN 0 ELSE F!Max(queued)]

\* planQueueMaintenance over the rows selected.
MaintenancePlan ==
  LET late == {i \in Ids : signals[i].status = "running" /\ signals[i].stale}
      retry == {i \in late : CanRetryAfterStale(i)}
      queued == {i \in Ids : signals[i].status = "queued"} \cup retry
      current == {i \in queued : CanRetryAfterStale(i)}
      leftover == {i \in queued :
                     \/ Exhausted(i)
                     \/ TimedOutBefore(i) /\ ~CanRetryAfterStale(i)
                     \/ current # {} /\ i < F!Max(current)}
      claimable == queued \ leftover
      first == IF current \cap claimable # {} THEN current \cap claimable ELSE claimable
  IN [close   |-> (late \ retry) \cup leftover,
      requeue |-> retry \ leftover,
      claim   |-> IF first = {} THEN 0 ELSE F!Max(first)]

SelectAndPlan(w) ==
  /\ at[w] = "select"
  /\ plan' = [plan EXCEPT ![w] = MaintenancePlan]
  /\ Goto(w, "maintain")
  /\ UNCHANGED <<tables, mine, row, crashed, heartbeatVars, stolen>>

\* One guarded update per closed signal, then one per requeued signal.
CloseSignal(w, i) ==
  /\ at[w] = "maintain"
  /\ i \in plan[w].close
  /\ signals' = [signals EXCEPT ![i].status = IF @ \in Open THEN "failed" ELSE @]
  /\ plan' = [plan EXCEPT ![w].close = @ \ {i}]
  /\ UNCHANGED <<runs, at, mine, row, crashed, heartbeatVars, stolen>>

RequeueSignal(w, i) ==
  /\ at[w] = "maintain"
  /\ plan[w].close = {}
  /\ i \in plan[w].requeue
  /\ IF signals[i].status = "running"
     THEN /\ signals' = [signals EXCEPT ![i].status = "queued", ![i].stale = FALSE]
          /\ stolen' = IF Holders(i) # {} THEN stolen \cup {i} ELSE stolen
     ELSE UNCHANGED <<signals, stolen>>
  /\ plan' = [plan EXCEPT ![w].requeue = @ \ {i}]
  /\ UNCHANGED <<runs, at, mine, row, crashed, heartbeatVars>>

Planned(w) == at[w] = "maintain" /\ plan[w].close = {} /\ plan[w].requeue = {}
Available(i) == signals[i].status = "queued" /\ signals[i].attempts < MaxAttempts

Taken(w, i) ==
  /\ signals' = [signals EXCEPT ![i].status = "running", ![i].stale = FALSE,
                                ![i].attempts = @ + 1]
  /\ mine' = [mine EXCEPT ![w] = i]
  /\ plan' = [plan EXCEPT ![w] = NoPlan]
  /\ Goto(w, "insert")
  /\ UNCHANGED <<runs, row, crashed, heartbeatVars, stolen>>

\* Mutant: the claim trusts the plan and does not look at the row's status.
ClaimTrusting(w) ==
  LET i == plan[w].claim
  IN /\ Planned(w)
     /\ i # 0
     /\ signals[i].attempts < MaxAttempts
     /\ Taken(w, i)

\* Mutant: the claim does not look at attempt_count again.
ClaimUncapped(w) ==
  LET i == plan[w].claim
  IN /\ Planned(w)
     /\ i # 0
     /\ signals[i].status = "queued"
     /\ Taken(w, i)

\* The claim: one atomic update guarded by status and attempt_count.
Claim(w) ==
  LET i == plan[w].claim
  IN /\ Planned(w)
     /\ i # 0
     /\ Available(i)
     /\ Taken(w, i)

\* Nothing to claim, or the claim updated no row: an idle result.
ClaimNothing(w) ==
  /\ Planned(w)
  /\ plan[w].claim # 0 => ~Available(plan[w].claim)
  /\ plan' = [plan EXCEPT ![w] = NoPlan]
  /\ Goto(w, "idle")
  /\ UNCHANGED <<tables, mine, row, crashed, heartbeatVars, stolen>>

-----------------------------------------------------------------------------
\* runOneSignal, after the claim.

InsertRun(w) ==
  /\ at[w] = "insert"
  /\ runs' = [runs EXCEPT ![mine[w]] = Append(@, "running")]
  /\ row' = [row EXCEPT ![w] = Len(runs[mine[w]]) + 1]
  /\ Goto(w, "execute")
  /\ UNCHANGED <<signals, plan, mine, crashed, heartbeatVars, stolen>>

\* Approval requested, halted, executed, verification failed, or an error: the run
\* row gets its final status first ...
EndRun(w) ==
  /\ at[w] = "execute"
  /\ runs' = [runs EXCEPT ![mine[w]][row[w]] = "ended"]
  /\ Goto(w, "close")
  /\ UNCHANGED <<signals, plan, mine, row, crashed, heartbeatVars, stolen>>

Released(w) ==
  /\ mine' = [mine EXCEPT ![w] = 0]
  /\ row' = [row EXCEPT ![w] = 0]
  /\ Goto(w, "idle")

\* ... and then the signal, whatever its status is by now.
EndSignal(w, result) ==
  /\ at[w] = "close"
  /\ signals' = [signals EXCEPT ![mine[w]].status = result]
  /\ Released(w)
  /\ UNCHANGED <<runs, plan, crashed, heartbeatVars, stolen>>

\* Killed by the platform, a timeout, or a statement that throws outside the try.
Die(w) ==
  /\ at[w] # "idle"
  /\ crashed < Crashes
  /\ crashed' = crashed + 1
  /\ plan' = [plan EXCEPT ![w] = NoPlan]
  /\ Released(w)
  /\ UNCHANGED <<tables, heartbeatVars, stolen>>

\* Two minutes pass over a row no live worker holds.
SignalGoesStale(i) ==
  /\ signals[i].status = "running" /\ ~signals[i].stale
  /\ Holders(i) = {}
  /\ signals' = [signals EXCEPT ![i].stale = TRUE]
  /\ UNCHANGED <<runs, workerVars, heartbeatVars, stolen>>

RunGoesStale(i, j) ==
  /\ runs[i][j] = "running"
  /\ \A w \in Holders(i) : row[w] # j
  /\ runs' = [runs EXCEPT ![i][j] = "overdue"]
  /\ UNCHANGED <<signals, workerVars, heartbeatVars, stolen>>

-----------------------------------------------------------------------------
Producers ==
  \/ \E kind \in {"business_improve", "other"} : EnqueueSignal(kind)
  \/ \E h \in Heartbeats :
       \/ LookForKey(h)
       \/ ClaimKey(h)
       \/ ClaimKeyThrows(h)
       \/ LookAgain(h)
       \/ InsertKeyed(h)
       \/ HeartbeatDies(h)

Work(w) ==
  \/ Start(w)
  \/ SweepRuns(w)
  \/ Recount(w)
  \/ SelectAndPlan(w)
  \/ \E i \in Ids : CloseSignal(w, i) \/ RequeueSignal(w, i)
  \/ Claim(w)
  \/ ClaimNothing(w)
  \/ InsertRun(w)
  \/ EndRun(w)
  \/ \E result \in Closed : EndSignal(w, result)

TimePasses ==
  \E i \in Ids : SignalGoesStale(i) \/ \E j \in DOMAIN runs[i] : RunGoesStale(i, j)

Next ==
  \/ Producers
  \/ \E w \in Workers : Work(w) \/ Die(w)
  \/ TimePasses

\* The cron in vercel.json starts workers for ever, a live worker goes on to its next
\* statement, and time passes.  Producers owe nothing.
Fairness ==
  /\ \A w \in Workers : WF_vars(Work(w))
  /\ WF_vars(TimePasses)

Spec == Init /\ [][Next]_vars /\ Fairness

-----------------------------------------------------------------------------
\* Types; a worker holds a signal exactly while it runs it.
TypeOK ==
  /\ Len(signals) \in 1..MaxSignals
  /\ \A i \in Ids : signals[i] \in
       [kind : {"business_improve", "other"}, status : Open \cup Closed,
        attempts : 0..MaxAttempts, stale : BOOLEAN, by : Heartbeats \cup {"owner"}]
  /\ DOMAIN runs = Ids
  /\ \A w \in Workers : mine[w] # 0 => mine[w] \in Ids /\ row[w] \in 0..Len(runs[mine[w]])
  /\ \A w \in Workers : mine[w] # 0 <=> at[w] \in {"insert", "execute", "close"}

\* lib/operatorQueue.ts: "A stale running run must not recycle the same signal
\* forever."  However workers race, die and retry, a signal is never run more than
\* SIGNAL_MAX_ATTEMPTS times, runs from before attempt_count existed included.
RunsAreBounded == \A i \in Ids : Len(runs[i]) <= MaxAttempts

\* Two workers execute one signal only after a requeue from an outdated plan took it
\* away from a live worker: the claim alone never hands a signal out twice.
ExclusiveUnlessStolen ==
  \A i \in Ids : Cardinality(Holders(i)) > 1 => i \in stolen

\* A closed signal is never opened again, by any worker's outdated plan.  No run
\* names it: ImplementsRetryQueue, below, has it as a consequence.
ClosedStaysClosed ==
  [][\A i \in Ids : signals[i].status \in Closed => signals'[i].status \in Closed]_vars

\* Seen from those who enqueue, the queue is a RetryQueue.  attempt_count and the
\* number of run rows are two counts of one thing, and neither is right at all times: a
\* worker that died between claim and run left no row, a legacy run no count.  The
\* larger of the two is: it goes up by one with each claim and never comes down.
StateOf(status) ==
  CASE status = "queued"   -> "waiting"
    [] status = "running"  -> "taken"
    [] status \in Closed   -> "closed"
Jobs == [i \in Ids |-> [state |-> StateOf(signals[i].status),
                        left  |-> MaxAttempts - EffectiveAttempts(i)]]
Queue == INSTANCE RetryQueue WITH jobs <- Jobs, Tries <- MaxAttempts
ImplementsRetryQueue == Queue!Spec

\* A heartbeat that answers has a signal to show for it: a key left claimed by one
\* that died is no tombstone for the day.
HeartbeatEnqueues == \A h \in Heartbeats : hb[h] = "answered" => Keyed # {}

\* No signal is starved or lost: once producers stop, every signal is closed in the
\* end, although newer ones overtake older ones and workers die holding them.
QueueDrains == <>[](\A i \in Ids : signals[i].status \in Closed)

\* No run row is left running: its worker ends it, or a later one fails it.
RunsEnd ==
  <>[](\A i \in Ids : \A j \in DOMAIN runs[i] : runs[i][j] \in {"ended", "stale_timeout"})

\* lib/operatorAgent.ts of enqueueSignalIdempotent: "Retries with the same key cannot
\* duplicate."  The code does not keep it when two calls overlap.
OneSignalPerKey == Cardinality(Keyed) <= 1
=============================================================================
