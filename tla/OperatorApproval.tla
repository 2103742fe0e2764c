-------------------------- MODULE OperatorApproval --------------------------
(***************************************************************************)
(* An owner's approval of what a worker may not do by itself.  The worker  *)
(* of a signal resolves the closure (resolveClosure): it executes the tool *)
(* of the closed candidate, halts, or inserts an approval and parks its    *)
(* run and its signal; POST /api/operator/approval decides the approval    *)
(* and, when it approves, queues a copy of the signal with the authority   *)
(* that was asked for.  Neither side is in a transaction and neither       *)
(* updates with a guard: every statement is a step.  How a signal is       *)
(* claimed and how stale ones are closed is OperatorQueue's subject; here  *)
(* a claim takes any queued signal.                                        *)
(***************************************************************************)
EXTENDS Integers, FiniteSets

CONSTANTS Given,         \* signals queued at the start
          Task,          \* what a given signal asks for: "probe", "browse" or "chat"
          Asked,         \* the authority a given signal requests
          Owners,        \* calls of the approval route
          Workers,       \* calls of the worker; each takes one signal
          MaxAuthority,  \* RMF_OPERATOR_MAX_AUTHORITY
          Configured,    \* tasks whose tool has its secrets
          MaxFaults      \* bound: statements that fail, callers that die

ASSUME ApprovalAssumption ==
  /\ Task \in [Given -> {"probe", "browse", "chat"}]
  /\ Asked \in [Given -> 0..6]
  /\ MaxAuthority \in 0..6
  /\ Given \cap Owners = {}
  /\ MaxFaults \in Nat

VARIABLES signal,    \* rmf_agent_signals: status, requested authority, task
          run,       \* rmf_agent_runs: the status of each worker's run
          approval,  \* rmf_agent_approvals: the row of each worker's run
          at,        \* the statement a worker runs next
          mine,      \* the signal a worker claimed
          ends,      \* the status a worker is about to give its run
          stage,     \* the statement an approval call runs next
          verdict,   \* what an approval call decides
          about,     \* the worker whose approval it selected
          faults,    \* statements that failed so far
          crossed    \* history: approval calls something else ran into

approvalTables == <<signal, run, approval>>
workerSide == <<at, mine, ends>>
ownerSide == <<stage, verdict, about, crossed>>
approvalVars == <<approvalTables, workerSide, ownerSide, faults>>

Signals == Given \cup Owners   \* an approving call inserts one signal
NoSignal == "no signal"
NoWorker == "no worker"
NoRow == [status |-> "none", authority |-> 0]

\* Workers still on their way with signal s, approval calls past their select.
Handling(s) == {w \in Workers : mine[w] = s /\ at[w] \notin {"idle", "done", "dead"}}
Deciding == {o \in Owners : stage[o] \in {"approval", "run", "signal", "queue"}}
Lesser(a, b) == IF a < b THEN a ELSE b

-----------------------------------------------------------------------------
\* resolveClosure.

\* The authority the task's candidate needs; a chat has no candidate and its
\* fallback plan asks for 1.
Needed(task) == IF task = "chat" THEN 1 ELSE 2
Admitted(s) == Lesser(signal[s].authority, MaxAuthority)

Closure(s) ==
  LET task == signal[s].task
  IN CASE Admitted(s) < Needed(task) -> "awaiting_approval"
       [] Admitted(s) >= Needed(task) /\ task \in Configured -> "execute"
       [] OTHER -> "halted"

-----------------------------------------------------------------------------
ApprovalInit ==
  /\ signal = [s \in Signals |->
       IF s \in Given THEN [status |-> "queued", authority |-> Asked[s], task |-> Task[s]]
                      ELSE [status |-> "none", authority |-> 0, task |-> "chat"]]
  /\ run = [w \in Workers |-> "none"]
  /\ approval = [w \in Workers |-> NoRow]
  /\ at = [w \in Workers |-> "idle"]
  /\ mine = [w \in Workers |-> NoSignal]
  /\ ends = [w \in Workers |-> "none"]
  /\ stage = [o \in Owners |-> "idle"]
  /\ verdict = [o \in Owners |-> "none"]
  /\ about = [o \in Owners |-> NoWorker]
  /\ faults = 0
  /\ crossed = {}

-----------------------------------------------------------------------------
\* The worker.

At(w, from, to) == at[w] = from /\ at' = [at EXCEPT ![w] = to]
SetSignal(s, status) == signal' = [signal EXCEPT ![s].status = status]

ClaimSignal(w) ==
  /\ At(w, "idle", "begin")
  /\ \E s \in Signals :
       /\ signal[s].status = "queued"
       /\ SetSignal(s, "running")
       /\ mine' = [mine EXCEPT ![w] = s]
  /\ UNCHANGED <<run, approval, ends, ownerSide, faults>>

BeginRun(w) ==
  /\ At(w, "begin", "resolve")
  /\ run' = [run EXCEPT ![w] = "running"]
  /\ UNCHANGED <<signal, approval, mine, ends, ownerSide, faults>>

\* The closure is computed and stored in the run; the GitHub probe is put off
\* by a worker that may execute it.
Resolve(w) ==
  LET s == mine[w]
      next == CASE Closure(s) = "awaiting_approval" -> "ask"
                [] Closure(s) = "execute" /\ signal[s].task = "browse" -> "execute"
                [] OTHER -> "end run"
  IN /\ At(w, "resolve", next)
     /\ ends' = [ends EXCEPT ![w] =
          CASE next = "ask" -> "awaiting_approval"
            [] next = "end run" /\ Closure(s) = "execute" -> "blocked"
            [] OTHER -> "halted"]
     /\ UNCHANGED <<approvalTables, mine, ownerSide, faults>>

\* The tool returns, and its receipt is stored.
Execute(w) ==
  /\ At(w, "execute", "end run")
  /\ \E status \in {"completed", "verification_failed"} :
       ends' = [ends EXCEPT ![w] = status]
  /\ UNCHANGED <<approvalTables, mine, ownerSide, faults>>

\* insert into rmf_agent_approvals.
Ask(w) ==
  /\ At(w, "ask", "end run")
  /\ approval' = [approval EXCEPT ![w] =
       [status |-> "pending", authority |-> Needed(signal[mine[w]].task)]]
  /\ UNCHANGED <<signal, run, mine, ends, ownerSide, faults>>

EndRun(w) ==
  /\ At(w, "end run", "end signal")
  /\ run' = [run EXCEPT ![w] = ends[w]]
  /\ UNCHANGED <<signal, approval, mine, ends, ownerSide, faults>>

EndSignal(w) ==
  /\ At(w, "end signal", IF ends[w] \in {"awaiting_approval", "failed"} THEN "done" ELSE "log")
  /\ SetSignal(mine[w],
       CASE ends[w] = "awaiting_approval" -> "awaiting_approval"
         [] ends[w] \in {"verification_failed", "failed"} -> "failed"
         [] OTHER -> "completed")
  /\ UNCHANGED <<run, approval, mine, ends, ownerSide, faults>>

\* The ledger entry after the signal is closed.
Log(w) ==
  /\ At(w, "log", "done")
  /\ UNCHANGED <<approvalTables, mine, ends, ownerSide, faults>>

\* A statement throws: the catch fails the run and then the signal.
WorkerThrows(w) ==
  /\ at[w] \in {"resolve", "execute", "ask", "end run", "end signal", "log"}
  /\ ends[w] # "failed"
  /\ faults < MaxFaults
  /\ faults' = faults + 1
  /\ at' = [at EXCEPT ![w] = "end run"]
  /\ ends' = [ends EXCEPT ![w] = "failed"]
  /\ UNCHANGED <<approvalTables, mine, ownerSide>>

\* The worker dies, or the insert of its run or a statement of its catch throws.
WorkerDies(w) ==
  /\ at[w] \notin {"idle", "done", "dead"}
  /\ faults < MaxFaults
  /\ faults' = faults + 1
  /\ at' = [at EXCEPT ![w] = "dead"]
  /\ UNCHANGED <<approvalTables, mine, ends, ownerSide>>

\* Queue maintenance of a later worker: a stale signal or one older than the
\* newest build cycle is closed, and a stale run of it.
CloseLeftover(s) ==
  /\ \/ signal[s].status = "queued"
     \/ signal[s].status = "running" /\ Handling(s) = {}
  /\ SetSignal(s, "failed")
  /\ run' = [w \in Workers |->
       IF mine[w] = s /\ run[w] = "running" THEN "failed" ELSE run[w]]
  /\ UNCHANGED <<approval, workerSide, ownerSide, faults>>

-----------------------------------------------------------------------------
\* POST /api/operator/approval.

Stage(o, from, to) == stage[o] = from /\ stage' = [stage EXCEPT ![o] = to]

\* Calls that decide the same approval, or meet its worker, cross each other.
Met(o, w) ==
  LET others == {p \in Deciding : about[p] = w}
  IN others \cup (IF others # {} \/ Handling(mine[w]) # {} THEN {o} ELSE {})

\* Mutant: a call that finds the approval decided goes on.
SelectDecided(o) ==
  \E w \in Workers, v \in {"approved", "rejected"} :
    /\ approval[w].status # "none"
    /\ Stage(o, "idle", "approval")
    /\ verdict' = [verdict EXCEPT ![o] = v]
    /\ about' = [about EXCEPT ![o] = w]
    /\ crossed' = crossed \cup Met(o, w)
    /\ UNCHANGED <<approvalTables, workerSide, faults>>

SelectApproval(o) ==
  \E w \in Workers, v \in {"approved", "rejected"} :
    /\ approval[w].status # "none"
    /\ Stage(o, "idle", IF approval[w].status = "pending" THEN "approval" ELSE "refused")
    /\ verdict' = [verdict EXCEPT ![o] = v]
    /\ about' = [about EXCEPT ![o] = w]
    /\ crossed' = crossed \cup
         (IF approval[w].status = "pending" THEN Met(o, w) ELSE {})
    /\ UNCHANGED <<approvalTables, workerSide, faults>>

DecideApproval(o) ==
  /\ Stage(o, "approval", "run")
  /\ approval' = [approval EXCEPT ![about[o]].status = verdict[o]]
  /\ UNCHANGED <<signal, run, workerSide, verdict, about, crossed, faults>>

Parked(o) == IF verdict[o] = "approved" THEN "approved_requeued" ELSE "rejected"

DecideRun(o) ==
  /\ Stage(o, "run", "signal")
  /\ run' = [run EXCEPT ![about[o]] = Parked(o)]
  /\ UNCHANGED <<signal, approval, workerSide, verdict, about, crossed, faults>>

DecideSignal(o) ==
  /\ Stage(o, "signal", IF verdict[o] = "approved" THEN "queue" ELSE "answered")
  /\ SetSignal(mine[about[o]], Parked(o))
  /\ UNCHANGED <<run, approval, workerSide, verdict, about, crossed, faults>>

\* The approved copy of the signal, with the authority that was asked for.
QueueCopy(o) ==
  /\ Stage(o, "queue", "answered")
  /\ signal' = [signal EXCEPT ![o] =
       [status |-> "queued", authority |-> approval[about[o]].authority,
        task |-> signal[mine[about[o]]].task]]
  /\ UNCHANGED <<run, approval, workerSide, verdict, about, crossed, faults>>

OwnerStops(o) ==
  /\ o \in Deciding
  /\ faults < MaxFaults
  /\ faults' = faults + 1
  /\ stage' = [stage EXCEPT ![o] = "broken"]
  /\ crossed' = crossed \cup {p \in Owners : about[p] = about[o]}
  /\ UNCHANGED <<approvalTables, workerSide, verdict, about>>

-----------------------------------------------------------------------------
ApprovalNext ==
  \/ \E w \in Workers : ClaimSignal(w) \/ BeginRun(w) \/ Resolve(w) \/ Execute(w)
                        \/ Ask(w) \/ EndRun(w) \/ EndSignal(w) \/ Log(w)
                        \/ WorkerThrows(w) \/ WorkerDies(w)
  \/ \E s \in Signals : CloseLeftover(s)
  \/ \E o \in Owners : SelectApproval(o) \/ DecideApproval(o) \/ DecideRun(o)
                       \/ DecideSignal(o) \/ QueueCopy(o) \/ OwnerStops(o)

ApprovalSpec == ApprovalInit /\ [][ApprovalNext]_approvalVars

-----------------------------------------------------------------------------
ApprovalTypeOK ==
  /\ signal \in [Signals -> [status : {"none", "queued", "running", "completed", "failed",
                                       "awaiting_approval", "approved_requeued", "rejected"},
                             authority : 0..6, task : {"probe", "browse", "chat"}]]
  /\ run \in [Workers -> {"none", "running", "awaiting_approval", "halted", "blocked", "completed",
                          "verification_failed", "failed", "approved_requeued", "rejected"}]
  /\ approval \in [Workers -> [status : {"none", "pending", "approved", "rejected"},
                               authority : 0..6]]
  /\ mine \in [Workers -> Signals \cup {NoSignal}]
  /\ about \in [Owners -> Workers \cup {NoWorker}]
  /\ faults \in 0..MaxFaults

\* A decision an owner was answered for stands.  If no other call decided the
\* approval at the same time or broke off in it, and the worker that asked had
\* finished, then the approval, its run and its signal all carry that decision,
\* no other call was answered for the same approval, and there is a copy of
\* the signal if and only if the decision was to approve, which asks for no
\* more than what was missing.
ApprovalsStick ==
  \A o \in Owners :
    stage[o] = "answered" /\ o \notin crossed =>
      LET w == about[o]
      IN /\ approval[w].status = verdict[o]
         /\ run[w] = Parked(o)
         /\ signal[mine[w]].status = Parked(o)
         /\ \A p \in Owners \ {o} : stage[p] = "answered" => about[p] # w
         /\ (signal[o].status # "none") = (verdict[o] = "approved")
         /\ signal[o].status # "none" =>
              /\ signal[o].authority = Needed(signal[o].task)
              /\ signal[o].authority > Admitted(mine[w])
=============================================================================
