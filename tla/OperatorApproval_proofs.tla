----------------------- MODULE OperatorApproval_proofs -----------------------
(***************************************************************************)
(* Theorems about OperatorApproval: an owner's decision stands, for any    *)
(* number of signals, workers and calls of the approval route, and however *)
(* many of their statements fail.  About FeatureBacklog: what the receipts *)
(* and the report history keep of the build cycles.  And about             *)
(* ControlPlane: a feature's status follows its latest verdict and the     *)
(* stored round is the present state's, for any features, receipts and     *)
(* rounds, however their steps interleave or are cut short.                *)
(***************************************************************************)
EXTENDS OperatorApproval, FeatureBacklog, ControlPlane, Sums_proofs, FiniteSetTheorems,
        SequenceTheorems, TLAPS

WorkerSteps == {"idle", "begin", "resolve", "execute", "ask", "end run", "end signal", "log",
                "done", "dead"}
CallStages == {"idle", "approval", "run", "signal", "queue", "answered", "refused", "broken"}
Ends == {"none", "awaiting_approval", "blocked", "halted", "completed", "verification_failed",
         "failed"}
SignalRow == [status : {"none", "queued", "running", "completed", "failed",
                        "awaiting_approval", "approved_requeued", "rejected"},
              authority : 0..6, task : {"probe", "browse", "chat"}]

ApprovalTypes ==
  /\ ApprovalTypeOK
  /\ at \in [Workers -> WorkerSteps] /\ ends \in [Workers -> Ends]
  /\ stage \in [Owners -> CallStages] /\ verdict \in [Owners -> {"none", "approved", "rejected"}]
  /\ crossed \subseteq Owners

\* What is missing for the task of the signal w claimed.
Missing(w) == Admitted(mine[w]) < Needed(signal[mine[w]].task)

\* A worker has a signal of its own, and asks for what that signal is missing.
WorkerAt(w) ==
  /\ at[w] # "idle" =>
       mine[w] \in Signals /\ signal[mine[w]].status \notin {"none", "queued"}
  /\ at[w] = "ask" => Missing(w)
  /\ approval[w].status # "none" =>
       /\ at[w] \in {"end run", "end signal", "log", "done", "dead"}
       /\ Missing(w) /\ approval[w].authority = Needed(signal[mine[w]].task)
WorkersAreSound == \A w \in Workers : WorkerAt(w)
MineOnce == \A v, w \in Workers : at[v] # "idle" /\ at[w] # "idle" /\ mine[v] = mine[w] => v = w

\* A call past its select has found an approval; once it has written, the approval is
\* decided, and what it queues is what was missing.
OwnerAt(o) ==
  /\ stage[o] # "idle" =>
       /\ about[o] \in Workers /\ approval[about[o]].status # "none"
       /\ verdict[o] \in {"approved", "rejected"}
  /\ stage[o] \in {"run", "signal", "queue", "answered"} =>
       approval[about[o]].status # "pending"
  /\ stage[o] = "queue" => verdict[o] = "approved"
  /\ signal[o].status # "none" <=> stage[o] = "answered" /\ verdict[o] = "approved"
  /\ signal[o].status # "none" =>
       /\ signal[o].authority = Needed(signal[o].task)
       /\ signal[o].authority > Admitted(mine[about[o]])
OwnersAreSound == \A o \in Owners : OwnerAt(o)

\* A call nothing ran into: its worker is gone, no other call has a part in the approval,
\* and what it has written stands.
AloneAt(o) ==
  stage[o] \in {"approval", "run", "signal", "queue", "answered"} /\ o \notin crossed =>
    /\ at[about[o]] \in {"done", "dead"}
    /\ \A p \in Owners \ {o} : about[p] = about[o] => stage[p] \in {"idle", "refused", "broken"}
    /\ stage[o] # "approval" => approval[about[o]].status = verdict[o]
    /\ stage[o] \in {"signal", "queue", "answered"} => run[about[o]] = Parked(o)
    /\ stage[o] \in {"queue", "answered"} => signal[mine[about[o]]].status = Parked(o)
CallsStandAlone == \A o \in Owners : AloneAt(o)

ApprovalInv ==
  ApprovalTypes /\ WorkersAreSound /\ MineOnce /\ OwnersAreSound /\ CallsStandAlone

-----------------------------------------------------------------------------
(* Signals, and what the closure makes of them. *)

\* The types of the rows the steps read and write.
LEMMA TypeFacts ==
  ASSUME ApprovalTypes
  PROVE  /\ signal \in [Signals -> SignalRow]
         /\ run \in [Workers -> {"none", "running", "awaiting_approval", "halted", "blocked",
                                 "completed", "verification_failed", "failed",
                                 "approved_requeued", "rejected"}]
         /\ approval \in [Workers -> [status : {"none", "pending", "approved", "rejected"},
                                      authority : 0..6]]
         /\ mine \in [Workers -> Signals \cup {NoSignal}]
         /\ about \in [Owners -> Workers \cup {NoWorker}] /\ faults \in 0..MaxFaults
         /\ at \in [Workers -> WorkerSteps] /\ ends \in [Workers -> Ends]
         /\ stage \in [Owners -> CallStages]
         /\ verdict \in [Owners -> {"none", "approved", "rejected"}] /\ crossed \subseteq Owners
  BY DEF ApprovalTypes, ApprovalTypeOK, SignalRow

\* A task's authority and a signal's are in the range the code allows.
LEMMA AuthorityFacts ==
  ASSUME ApprovalTypes, NEW s \in Signals
  PROVE  /\ Needed(signal[s].task) \in {1, 2} /\ Admitted(s) \in 0..6
         /\ signal[s].authority \in 0..6 /\ signal[s].task \in {"probe", "browse", "chat"}
<1>1. signal[s] \in SignalRow
  BY TypeFacts
<1> QED BY <1>1, ApprovalAssumption DEF SignalRow, Needed, Admitted, Lesser

\* Writing a signal's status leaves what it asks for, and every other signal.
LEMMA StatusWritten ==
  ASSUME ApprovalTypes, NEW s \in Signals,
         NEW status \in {"running", "completed", "failed", "awaiting_approval",
                         "approved_requeued", "rejected"},
         SetSignal(s, status)
  PROVE  /\ signal' \in [Signals -> SignalRow] /\ signal'[s].status = status
         /\ signal'[s].authority = signal[s].authority /\ signal'[s].task = signal[s].task
         /\ \A t \in Signals \ {s} : signal'[t] = signal[t]
<1>1. signal \in [Signals -> SignalRow] /\ signal[s] \in SignalRow
  BY TypeFacts
<1> DEFINE q == [signal[s] EXCEPT !.status = status]
<1>2. /\ q \in SignalRow /\ q.status = status
      /\ q.authority = signal[s].authority /\ q.task = signal[s].task
  BY <1>1 DEF SignalRow
<1>3. signal' = [signal EXCEPT ![s] = q]
  BY <1>1 DEF SetSignal
<1> HIDE DEF q
<1> QED BY <1>1, <1>2, <1>3

\* Faults are counted up to their bound.
LEMMA FaultsCounted ==
  ASSUME ApprovalTypes, faults' = faults \/ (faults < MaxFaults /\ faults' = faults + 1)
  PROVE  faults' \in 0..MaxFaults
<1>1. faults \in 0..MaxFaults /\ MaxFaults \in Nat
  BY TypeFacts, ApprovalAssumption
<1> QED BY <1>1

\* What the steps below need of the invariant, about one worker.
LEMMA OneWorker ==
  ASSUME ApprovalInv, NEW w \in Workers
  PROVE  /\ ApprovalTypes /\ WorkerAt(w)
         /\ at[w] # "idle" =>
              mine[w] \in Signals /\ signal[mine[w]].status \notin {"none", "queued"}
  BY DEF ApprovalInv, WorkersAreSound, WorkerAt

\* What they need of it about one call.
LEMMA OneCall ==
  ASSUME ApprovalInv, NEW o \in Owners
  PROVE  /\ ApprovalTypes /\ OwnerAt(o) /\ AloneAt(o)
         /\ stage[o] # "idle" =>
              /\ about[o] \in Workers
              /\ at[about[o]] \in {"end run", "end signal", "log", "done", "dead"}
              /\ mine[about[o]] \in Signals
              /\ signal[mine[about[o]]].status \notin {"none", "queued"}
<1>1. ApprovalTypes /\ OwnerAt(o) /\ AloneAt(o)
  BY DEF ApprovalInv, OwnersAreSound, CallsStandAlone
<1>2. ASSUME stage[o] # "idle"
      PROVE  /\ about[o] \in Workers
             /\ at[about[o]] \in {"end run", "end signal", "log", "done", "dead"}
             /\ mine[about[o]] \in Signals
             /\ signal[mine[about[o]]].status \notin {"none", "queued"}
  <2>1. about[o] \in Workers /\ approval[about[o]].status # "none"
    BY <1>1, <1>2 DEF OwnerAt
  <2>2. WorkerAt(about[o])
    BY <2>1, OneWorker
  <2> QED BY <2>1, <2>2 DEF WorkerAt
<1> QED BY <1>1, <1>2

-----------------------------------------------------------------------------
(* The worker's steps. *)

\* A step of w, with the signal s it claims or has claimed.
LEMMA WorkerStep ==
  ASSUME ApprovalInv, ApprovalTypes', NEW w \in Workers, NEW s \in Signals,
         at[w] \notin {"done", "dead"}, at'[w] # "idle",
         \A v \in Workers \ {w} : /\ at'[v] = at[v] /\ mine'[v] = mine[v]
                                  /\ run'[v] = run[v] /\ approval'[v] = approval[v],
         stage' = stage, verdict' = verdict, about' = about, crossed' = crossed,
         \A t \in Signals \ {s} : signal'[t] = signal[t],
         signal'[s].authority = signal[s].authority, signal'[s].task = signal[s].task,
         signal'[s].status = signal[s].status \/ signal'[s].status \notin {"none", "queued"},
         signal[s].status # "none",
         mine'[w] = s,
         at[w] # "idle" => mine[w] = s,
         at[w] = "idle" => signal[s].status = "queued",
         approval'[w] = approval[w] \/ approval[w].status = "none",
         WorkerAt(w)'
  PROVE  ApprovalInv'
<1>1. ApprovalTypes
  BY DEF ApprovalInv
<1>2. \A t \in Signals : /\ signal'[t].authority = signal[t].authority
                         /\ signal'[t].task = signal[t].task
                         /\ signal'[t].status = "none" <=> signal[t].status = "none"
                         /\ signal'[t].status = "queued" => signal[t].status = "queued"
  OBVIOUS
<1>3. \A t \in Signals : Admitted(t)' = Admitted(t)
  BY <1>2 DEF Admitted
<1>4. WorkersAreSound'
  <2> SUFFICES ASSUME NEW v \in Workers, v # w PROVE WorkerAt(v)'
    BY DEF WorkersAreSound
  <2>1. WorkerAt(v)
    BY OneWorker
  <2>2. ASSUME mine[v] \in Signals, Missing(v) PROVE Missing(v)'
    BY <1>2, <1>3, <2>2 DEF Missing
  <2>3. at[v] # "idle" =>
          /\ mine[v] \in Signals /\ signal'[mine[v]].status \notin {"none", "queued"}
          /\ signal'[mine[v]].task = signal[mine[v]].task
    BY <1>2, <2>1 DEF WorkerAt
  <2>4. at'[v] = at[v] /\ mine'[v] = mine[v] /\ approval'[v] = approval[v]
    BY <2>1
  <2>5. CASE at[v] = "idle"
    BY <2>1, <2>4, <2>5 DEF WorkerAt
  <2>6. CASE at[v] # "idle"
    BY <2>1, <2>2, <2>3, <2>4, <2>6 DEF WorkerAt
  <2> QED BY <2>5, <2>6
<1>5. MineOnce'
  <2>1. MineOnce
    BY DEF ApprovalInv
  <2>2. \A v \in Workers \ {w} : at[v] # "idle" => mine[v] # s
    <3> SUFFICES ASSUME NEW v \in Workers, v # w, at[v] # "idle", mine[v] = s PROVE FALSE
      OBVIOUS
    <3>1. signal[s].status # "queued"
      BY OneWorker
    <3> QED BY <2>1, <3>1 DEF MineOnce
  <2> QED BY <2>1, <2>2 DEF MineOnce
<1>6. \A o \in Owners : stage[o] # "idle" =>
        approval'[about[o]] = approval[about[o]] /\ mine'[about[o]] = mine[about[o]]
  <2> SUFFICES ASSUME NEW o \in Owners, stage[o] # "idle"
               PROVE  approval'[about[o]] = approval[about[o]] /\ mine'[about[o]] = mine[about[o]]
    OBVIOUS
  <2>1. about[o] \in Workers /\ approval[about[o]].status # "none" /\ at[about[o]] # "idle"
    BY OneCall DEF OwnerAt
  <2> QED BY <2>1
<1>7. OwnersAreSound'
  <2> SUFFICES ASSUME NEW o \in Owners PROVE OwnerAt(o)'
    BY DEF OwnersAreSound
  <2>1. OwnerAt(o) /\ o \in Signals /\ (stage[o] # "idle" => mine[about[o]] \in Signals)
    BY OneCall DEF Signals
  <2>2. stage[o] # "idle" => Admitted(mine[about[o]])' = Admitted(mine[about[o]])
    BY <1>2, <1>6, <2>1 DEF Admitted
  <2> QED BY <1>2, <1>6, <2>1, <2>2 DEF OwnerAt
<1>8. CallsStandAlone'
  <2> SUFFICES ASSUME NEW o \in Owners, o \notin crossed,
                      stage[o] \in {"approval", "run", "signal", "queue", "answered"}
               PROVE  AloneAt(o)'
    BY DEF CallsStandAlone, AloneAt
  <2>1. AloneAt(o) /\ about[o] \in Workers /\ mine[about[o]] \in Signals
        /\ signal[mine[about[o]]].status # "queued"
    BY OneCall
  <2>2. at[about[o]] \in {"done", "dead"} /\ about[o] # w
    BY <2>1 DEF AloneAt
  <2>3. mine[about[o]] # s
    BY <2>1, <2>2 DEF ApprovalInv, MineOnce
  <2>4. Parked(o)' = Parked(o)
    BY DEF Parked
  <2> QED BY <2>1, <2>2, <2>3, <2>4 DEF AloneAt
<1> QED BY <1>4, <1>5, <1>7, <1>8 DEF ApprovalInv

\* A step of a worker that writes no signal, with its own types.
LEMMA PrivateStep ==
  ASSUME ApprovalInv, ApprovalTypes', NEW w \in Workers,
         at[w] \notin {"idle", "done", "dead"}, at'[w] \notin {"idle", "ask"},
         \A v \in Workers \ {w} : at'[v] = at[v] /\ run'[v] = run[v],
         stage' = stage, verdict' = verdict, about' = about, crossed' = crossed,
         signal' = signal, mine' = mine, approval' = approval,
         approval[w].status # "none" => at'[w] \in {"end run", "end signal", "log", "done", "dead"}
  PROVE  ApprovalInv'
<1>1. mine[w] \in Signals /\ signal[mine[w]].status \notin {"none", "queued"} /\ WorkerAt(w)
  BY OneWorker
<1>2. Missing(w)' <=> Missing(w)
  BY DEF Missing, Admitted
<1>3. WorkerAt(w)'
  BY <1>1, <1>2 DEF WorkerAt
<1> QED BY <1>1, <1>3, WorkerStep

\* A worker claims a queued signal: nobody else has it.
LEMMA ClaimStep ==
  ASSUME ApprovalInv, NEW w \in Workers, ClaimSignal(w)
  PROVE  ApprovalInv'
<1>1. ApprovalTypes /\ WorkerAt(w)
  BY OneWorker
<1>2. PICK s \in Signals : /\ signal[s].status = "queued" /\ SetSignal(s, "running")
                           /\ mine' = [mine EXCEPT ![w] = s]
  BY DEF ClaimSignal
<1>3. /\ at[w] = "idle" /\ at' = [at EXCEPT ![w] = "begin"] /\ run' = run
      /\ approval' = approval /\ ends' = ends /\ stage' = stage /\ verdict' = verdict
      /\ about' = about /\ crossed' = crossed /\ faults' = faults
  BY DEF ClaimSignal, At, ownerSide
<1>4. /\ signal' \in [Signals -> SignalRow] /\ signal'[s].status = "running"
      /\ signal'[s].authority = signal[s].authority /\ signal'[s].task = signal[s].task
      /\ \A t \in Signals \ {s} : signal'[t] = signal[t]
  BY <1>1, <1>2, StatusWritten
<1>5. /\ at' \in [Workers -> WorkerSteps] /\ at'[w] = "begin" /\ mine'[w] = s
      /\ mine' \in [Workers -> Signals \cup {NoSignal}]
      /\ \A v \in Workers \ {w} : at'[v] = at[v] /\ mine'[v] = mine[v]
  BY <1>1, <1>2, <1>3, TypeFacts DEF WorkerSteps
<1>6. ApprovalTypes'
  BY <1>1, <1>3, <1>4, <1>5 DEF ApprovalTypes, ApprovalTypeOK, SignalRow
<1>7. WorkerAt(w)'
  BY <1>1, <1>3, <1>4, <1>5 DEF WorkerAt
<1> QED BY <1>2, <1>3, <1>4, <1>5, <1>6, <1>7, WorkerStep

\* The run is inserted, before the closure is computed.
LEMMA BeginRunStep ==
  ASSUME ApprovalInv, NEW w \in Workers, BeginRun(w)
  PROVE  ApprovalInv'
<1>1. ApprovalTypes /\ WorkerAt(w)
  BY OneWorker
<1>2. /\ at[w] = "begin" /\ at' = [at EXCEPT ![w] = "resolve"]
      /\ run' = [run EXCEPT ![w] = "running"] /\ signal' = signal /\ mine' = mine
      /\ approval' = approval /\ ends' = ends /\ stage' = stage /\ verdict' = verdict
      /\ about' = about /\ crossed' = crossed /\ faults' = faults
  BY DEF BeginRun, At, ownerSide
<1>3. at'[w] = "resolve" /\ \A v \in Workers \ {w} : at'[v] = at[v] /\ run'[v] = run[v]
  BY <1>1, <1>2, TypeFacts
<1>4. ApprovalTypes'
  BY <1>1, <1>2, TypeFacts DEF ApprovalTypes, ApprovalTypeOK, WorkerSteps
<1>5. approval[w].status = "none"
  BY <1>1, <1>2 DEF WorkerAt
<1> QED BY <1>2, <1>3, <1>4, <1>5, PrivateStep

\* The closure: a worker asks only for what is missing.
LEMMA ResolveStep ==
  ASSUME ApprovalInv, NEW w \in Workers, Resolve(w)
  PROVE  ApprovalInv'
<1> DEFINE s == mine[w]
<1>1. ApprovalTypes /\ WorkerAt(w)
  BY OneWorker
<1>2. PICK next \in {"ask", "execute", "end run"} :
        /\ at[w] = "resolve" /\ at' = [at EXCEPT ![w] = next]
        /\ next = "ask" => Closure(s) = "awaiting_approval"
        /\ \E e \in Ends : ends' = [ends EXCEPT ![w] = e]
  <2> DEFINE next == CASE Closure(s) = "awaiting_approval" -> "ask"
                       [] Closure(s) = "execute" /\ signal[s].task = "browse" -> "execute"
                       [] OTHER -> "end run"
             e == CASE next = "ask" -> "awaiting_approval"
                    [] next = "end run" /\ Closure(s) = "execute" -> "blocked"
                    [] OTHER -> "halted"
  <2>1. at[w] = "resolve" /\ at' = [at EXCEPT ![w] = next] /\ ends' = [ends EXCEPT ![w] = e]
    BY DEF Resolve, At
  <2>2. next \in {"ask", "execute", "end run"} /\ (next = "ask" => Closure(s) = "awaiting_approval")
    OBVIOUS
  <2> HIDE DEF next
  <2>3. e \in Ends
    BY <2>2 DEF Ends
  <2> HIDE DEF e
  <2> QED BY <2>1, <2>2, <2>3
<1>3. /\ run' = run /\ signal' = signal /\ mine' = mine /\ approval' = approval
      /\ stage' = stage /\ verdict' = verdict /\ about' = about /\ crossed' = crossed
      /\ faults' = faults
  BY DEF Resolve, approvalTables, ownerSide
<1>4. at'[w] = next /\ \A v \in Workers \ {w} : at'[v] = at[v]
  BY <1>1, <1>2, TypeFacts
<1>5. ApprovalTypes'
  <2>1. at' \in [Workers -> WorkerSteps] /\ ends' \in [Workers -> Ends]
    BY <1>1, <1>2, TypeFacts DEF WorkerSteps
  <2> QED BY <1>1, <1>3, <2>1 DEF ApprovalTypes, ApprovalTypeOK
<1>6. approval[w].status = "none" /\ s \in Signals /\ signal[s].status \notin {"none", "queued"}
  BY <1>1, <1>2 DEF WorkerAt
<1>7. next = "ask" => Missing(w)'
  <2> SUFFICES ASSUME next = "ask" PROVE Missing(w)
    BY <1>3 DEF Missing, Admitted
  <2>1. Closure(s) = "awaiting_approval"
    BY <1>2
  <2>2. Admitted(s) < Needed(signal[s].task)
    BY <1>1, <1>6, <2>1, AuthorityFacts DEF Closure
  <2> QED BY <2>2 DEF Missing
<1>8. WorkerAt(w)'
  BY <1>3, <1>4, <1>6, <1>7 DEF WorkerAt
<1> QED BY <1>2, <1>3, <1>4, <1>5, <1>6, <1>8, WorkerStep

\* The tool has run; whatever it found, nobody was asked.
LEMMA ExecuteStep ==
  ASSUME ApprovalInv, NEW w \in Workers, Execute(w)
  PROVE  ApprovalInv'
<1>1. ApprovalTypes /\ WorkerAt(w)
  BY OneWorker
<1>2. PICK e \in Ends : ends' = [ends EXCEPT ![w] = e]
  BY DEF Execute, Ends
<1>3. /\ at[w] = "execute" /\ at' = [at EXCEPT ![w] = "end run"]
      /\ run' = run /\ signal' = signal /\ mine' = mine /\ approval' = approval
      /\ stage' = stage /\ verdict' = verdict /\ about' = about /\ crossed' = crossed
      /\ faults' = faults
  BY DEF Execute, At, approvalTables, ownerSide
<1>4. at'[w] = "end run" /\ \A v \in Workers \ {w} : at'[v] = at[v]
  BY <1>1, <1>3, TypeFacts
<1>5. ApprovalTypes'
  BY <1>1, <1>2, <1>3, TypeFacts DEF ApprovalTypes, ApprovalTypeOK, WorkerSteps
<1> QED BY <1>3, <1>4, <1>5, PrivateStep

\* The approval is inserted, with the authority that is missing.
LEMMA AskStep ==
  ASSUME ApprovalInv, NEW w \in Workers, Ask(w)
  PROVE  ApprovalInv'
<1> DEFINE r == [status |-> "pending", authority |-> Needed(signal[mine[w]].task)]
<1>1. ApprovalTypes /\ WorkerAt(w)
  BY OneWorker
<1>2. /\ at[w] = "ask" /\ at' = [at EXCEPT ![w] = "end run"]
      /\ approval' = [approval EXCEPT ![w] = r]
      /\ run' = run /\ signal' = signal /\ mine' = mine /\ ends' = ends
      /\ stage' = stage /\ verdict' = verdict /\ about' = about /\ crossed' = crossed
      /\ faults' = faults
  BY DEF Ask, At, ownerSide
<1>3. /\ approval[w].status = "none" /\ Missing(w) /\ mine[w] \in Signals
      /\ signal[mine[w]].status \notin {"none", "queued"}
  BY <1>1, <1>2 DEF WorkerAt
<1>4. r \in [status : {"none", "pending", "approved", "rejected"}, authority : 0..6]
      /\ r.status = "pending" /\ r.authority = Needed(signal[mine[w]].task)
  <2>1. Needed(signal[mine[w]].task) \in 0..6
    BY <1>1, <1>3, AuthorityFacts
  <2> QED BY <2>1
<1> HIDE DEF r
<1>5. /\ at'[w] = "end run" /\ approval'[w] = r
      /\ \A v \in Workers \ {w} : at'[v] = at[v] /\ approval'[v] = approval[v]
  BY <1>1, <1>2, TypeFacts
<1>6. ApprovalTypes'
  <2>1. approval' \in [Workers -> [status : {"none", "pending", "approved", "rejected"},
                                   authority : 0..6]]
    BY <1>1, <1>2, <1>4, TypeFacts
  <2>2. at' \in [Workers -> WorkerSteps]
    BY <1>1, <1>2, TypeFacts DEF WorkerSteps
  <2> QED BY <1>1, <1>2, <2>1, <2>2 DEF ApprovalTypes, ApprovalTypeOK
<1>7. WorkerAt(w)'
  <2>1. Missing(w)'
    BY <1>2, <1>3 DEF Missing, Admitted
  <2> QED BY <1>2, <1>3, <1>4, <1>5, <2>1 DEF WorkerAt
<1> QED BY <1>2, <1>3, <1>5, <1>6, <1>7, WorkerStep

\* The run gets its status.
LEMMA EndRunStep ==
  ASSUME ApprovalInv, NEW w \in Workers, EndRun(w)
  PROVE  ApprovalInv'
<1>1. ApprovalTypes
  BY OneWorker
<1>2. /\ at[w] = "end run" /\ at' = [at EXCEPT ![w] = "end signal"]
      /\ run' = [run EXCEPT ![w] = ends[w]]
      /\ signal' = signal /\ mine' = mine /\ approval' = approval /\ ends' = ends
      /\ stage' = stage /\ verdict' = verdict /\ about' = about /\ crossed' = crossed
      /\ faults' = faults
  BY DEF EndRun, At, ownerSide
<1>3. at'[w] = "end signal" /\ \A v \in Workers \ {w} : at'[v] = at[v] /\ run'[v] = run[v]
  BY <1>1, <1>2, TypeFacts
<1>4. ApprovalTypes'
  <2>1. ends[w] \in Ends
    BY <1>1, TypeFacts
  <2>2. at' \in [Workers -> WorkerSteps]
    BY <1>1, <1>2, TypeFacts DEF WorkerSteps
  <2>3. run' \in [Workers -> {"none", "running", "awaiting_approval", "halted", "blocked",
                              "completed", "verification_failed", "failed",
                              "approved_requeued", "rejected"}]
    BY <1>1, <1>2, <2>1, TypeFacts DEF Ends
  <2> QED BY <1>1, <1>2, <2>2, <2>3 DEF ApprovalTypes, ApprovalTypeOK
<1> QED BY <1>2, <1>3, <1>4, PrivateStep

\* The signal gets its status, while the worker still holds it.
LEMMA EndSignalStep ==
  ASSUME ApprovalInv, NEW w \in Workers, EndSignal(w)
  PROVE  ApprovalInv'
<1> DEFINE next == IF ends[w] \in {"awaiting_approval", "failed"} THEN "done" ELSE "log"
<1>1. ApprovalTypes /\ WorkerAt(w)
  BY OneWorker
<1>2. /\ at[w] = "end signal" /\ at' = [at EXCEPT ![w] = next]
      /\ run' = run /\ mine' = mine /\ approval' = approval /\ ends' = ends
      /\ stage' = stage /\ verdict' = verdict /\ about' = about /\ crossed' = crossed
      /\ faults' = faults
  BY DEF EndSignal, At, ownerSide
<1>3. PICK status \in {"awaiting_approval", "failed", "completed"} : SetSignal(mine[w], status)
  BY DEF EndSignal
<1>4. mine[w] \in Signals /\ signal[mine[w]].status \notin {"none", "queued"}
  BY <1>1, <1>2 DEF WorkerAt
<1>5. /\ signal' \in [Signals -> SignalRow] /\ signal'[mine[w]].status = status
      /\ signal'[mine[w]].authority = signal[mine[w]].authority
      /\ signal'[mine[w]].task = signal[mine[w]].task
      /\ \A t \in Signals \ {mine[w]} : signal'[t] = signal[t]
  BY <1>1, <1>3, <1>4, StatusWritten
<1>6. next \in {"done", "log"}
  OBVIOUS
<1> HIDE DEF next
<1>7. at'[w] = next /\ \A v \in Workers \ {w} : at'[v] = at[v]
  BY <1>1, <1>2, TypeFacts
<1>8. ApprovalTypes'
  <2>1. at' \in [Workers -> WorkerSteps]
    BY <1>1, <1>2, <1>6, TypeFacts DEF WorkerSteps
  <2> QED BY <1>1, <1>2, <1>5, <2>1 DEF ApprovalTypes, ApprovalTypeOK, SignalRow
<1>9. WorkerAt(w)'
  <2>1. Missing(w)' <=> Missing(w)
    BY <1>2, <1>5 DEF Missing, Admitted
  <2> QED BY <1>1, <1>2, <1>4, <1>5, <1>6, <1>7, <2>1 DEF WorkerAt
<1> QED BY <1>2, <1>4, <1>5, <1>6, <1>7, <1>8, <1>9, WorkerStep

\* The ledger entry, a throw, or the worker's death: no signal is written.
LEMMA OtherWorkerSteps ==
  ASSUME ApprovalInv, NEW w \in Workers, Log(w) \/ WorkerThrows(w) \/ WorkerDies(w)
  PROVE  ApprovalInv'
<1>1. ApprovalTypes /\ WorkerAt(w)
  BY OneWorker
<1>2. PICK next \in {"done", "end run", "dead"} :
        /\ at[w] \notin {"idle", "done", "dead"} /\ at' = [at EXCEPT ![w] = next]
        /\ run' = run /\ signal' = signal /\ mine' = mine /\ approval' = approval
        /\ stage' = stage /\ verdict' = verdict /\ about' = about /\ crossed' = crossed
  BY DEF Log, WorkerThrows, WorkerDies, At, approvalTables, ownerSide
<1>3. ends' \in [Workers -> Ends] /\ faults' \in 0..MaxFaults
  <2>1. ends' = ends \/ ends' = [ends EXCEPT ![w] = "failed"]
    BY DEF Log, WorkerThrows, WorkerDies
  <2>2. faults' = faults \/ (faults < MaxFaults /\ faults' = faults + 1)
    BY DEF Log, WorkerThrows, WorkerDies
  <2>3. ends' \in [Workers -> Ends]
    BY <1>1, <2>1, TypeFacts DEF Ends
  <2>4. faults' \in 0..MaxFaults
    BY <1>1, <2>2, FaultsCounted
  <2> QED BY <2>3, <2>4
<1>4. at'[w] = next /\ \A v \in Workers \ {w} : at'[v] = at[v]
  BY <1>1, <1>2, TypeFacts
<1>5. ApprovalTypes'
  <2>1. at' \in [Workers -> WorkerSteps]
    BY <1>1, <1>2, TypeFacts DEF WorkerSteps
  <2> QED BY <1>1, <1>2, <1>3, <2>1 DEF ApprovalTypes, ApprovalTypeOK
<1> QED BY <1>2, <1>4, <1>5, PrivateStep

\* Maintenance closes a signal nobody decided: what it writes is no decision.
LEMMA CloseLeftoverStep ==
  ASSUME ApprovalInv, NEW s \in Signals, CloseLeftover(s)
  PROVE  ApprovalInv'
<1>1. ApprovalTypes
  BY DEF ApprovalInv
<1>2. /\ signal[s].status \in {"queued", "running"} /\ SetSignal(s, "failed")
      /\ run' = [w \in Workers |->
           IF mine[w] = s /\ run[w] = "running" THEN "failed" ELSE run[w]]
      /\ at' = at /\ mine' = mine /\ ends' = ends /\ approval' = approval /\ stage' = stage
      /\ verdict' = verdict /\ about' = about /\ crossed' = crossed /\ faults' = faults
  BY DEF CloseLeftover, workerSide, ownerSide
<1>3. /\ signal' \in [Signals -> SignalRow] /\ signal'[s].status = "failed"
      /\ signal'[s].authority = signal[s].authority /\ signal'[s].task = signal[s].task
      /\ \A t \in Signals \ {s} : signal'[t] = signal[t]
  BY <1>1, <1>2, StatusWritten
<1>4. \A w \in Workers : run'[w] = run[w] \/ (run[w] = "running" /\ run'[w] = "failed")
  BY <1>2
<1>5. ApprovalTypes'
  <2>1. run' \in [Workers -> {"none", "running", "awaiting_approval", "halted", "blocked",
                              "completed", "verification_failed", "failed",
                              "approved_requeued", "rejected"}]
    BY <1>1, <1>2, TypeFacts
  <2> QED BY <1>1, <1>2, <1>3, <2>1 DEF ApprovalTypes, ApprovalTypeOK, SignalRow
<1>6. \A t \in Signals : /\ signal'[t].authority = signal[t].authority
                         /\ signal'[t].task = signal[t].task
                         /\ signal'[t].status = "none" <=> signal[t].status = "none"
                         /\ signal'[t].status = "queued" => signal[t].status = "queued"
  BY <1>2, <1>3
<1>7. \A t \in Signals : Admitted(t)' = Admitted(t)
  BY <1>6 DEF Admitted
<1>8. WorkersAreSound'
  <2> SUFFICES ASSUME NEW w \in Workers PROVE WorkerAt(w)'
    BY DEF WorkersAreSound
  <2>1. WorkerAt(w)
    BY OneWorker
  <2>2. at[w] # "idle" => mine[w] \in Signals
    BY <2>1 DEF WorkerAt
  <2>3. at[w] # "idle" => (Missing(w)' <=> Missing(w))
    BY <1>2, <1>6, <1>7, <2>2 DEF Missing
  <2> QED BY <1>2, <1>6, <2>1, <2>3 DEF WorkerAt
<1>9. MineOnce'
  BY <1>2 DEF ApprovalInv, MineOnce
<1>10. OwnersAreSound'
  <2> SUFFICES ASSUME NEW o \in Owners PROVE OwnerAt(o)'
    BY DEF OwnersAreSound
  <2>1. OwnerAt(o) /\ o \in Signals /\ (stage[o] # "idle" => mine[about[o]] \in Signals)
    BY OneCall DEF Signals
  <2>2. stage[o] # "idle" => Admitted(mine[about[o]])' = Admitted(mine[about[o]])
    BY <1>2, <1>7, <2>1
  <2> QED BY <1>2, <1>6, <2>1, <2>2 DEF OwnerAt
<1>11. CallsStandAlone'
  <2> SUFFICES ASSUME NEW o \in Owners, o \notin crossed,
                      stage[o] \in {"approval", "run", "signal", "queue", "answered"}
               PROVE  AloneAt(o)'
    BY <1>2 DEF CallsStandAlone, AloneAt
  <2>1. AloneAt(o) /\ about[o] \in Workers /\ mine[about[o]] \in Signals
    BY OneCall
  <2>2. Parked(o)' = Parked(o) /\ Parked(o) \notin {"running", "queued"}
    BY <1>2 DEF Parked
  <2>3. signal[mine[about[o]]].status = Parked(o) => mine[about[o]] # s
    BY <1>2, <2>2
  <2> QED BY <1>2, <1>3, <1>4, <2>1, <2>2, <2>3 DEF AloneAt
<1> QED BY <1>5, <1>8, <1>9, <1>10, <1>11 DEF ApprovalInv

-----------------------------------------------------------------------------
(* The steps of an approval call. *)

\* A call finds a pending approval and goes on, or finds it decided and is refused; what
\* it meets on its way is crossed.
LEMMA SelectStep ==
  ASSUME ApprovalInv, NEW o \in Owners, SelectApproval(o)
  PROVE  ApprovalInv'
<1>1. PICK w \in Workers, v \in {"approved", "rejected"} :
        /\ approval[w].status # "none"
        /\ Stage(o, "idle", IF approval[w].status = "pending" THEN "approval" ELSE "refused")
        /\ verdict' = [verdict EXCEPT ![o] = v] /\ about' = [about EXCEPT ![o] = w]
        /\ crossed' = crossed \cup (IF approval[w].status = "pending" THEN Met(o, w) ELSE {})
  BY DEF SelectApproval
<1> DEFINE next == IF approval[w].status = "pending" THEN "approval" ELSE "refused"
<1>2. /\ stage[o] = "idle" /\ stage' = [stage EXCEPT ![o] = next]
      /\ at' = at /\ mine' = mine /\ ends' = ends /\ signal' = signal /\ run' = run
      /\ approval' = approval /\ faults' = faults
  BY <1>1 DEF SelectApproval, Stage, approvalTables, workerSide
<1>3. ApprovalTypes /\ WorkerAt(w) /\ OwnerAt(o)
  BY OneWorker, OneCall
<1>4. Met(o, w) \subseteq Owners
  BY DEF Met, Deciding
<1>5. next \in {"approval", "refused"}
  OBVIOUS
<1> HIDE DEF next
<1>6. /\ stage'[o] = next /\ about'[o] = w /\ verdict'[o] = v
      /\ \A p \in Owners \ {o} :
           stage'[p] = stage[p] /\ about'[p] = about[p] /\ verdict'[p] = verdict[p]
  BY <1>1, <1>2, <1>3, TypeFacts
<1>7. ApprovalTypes'
  <2>1. /\ stage' \in [Owners -> CallStages] /\ about' \in [Owners -> Workers \cup {NoWorker}]
        /\ verdict' \in [Owners -> {"none", "approved", "rejected"}]
    BY <1>1, <1>2, <1>3, <1>5, TypeFacts DEF CallStages
  <2>2. crossed' \subseteq Owners
    BY <1>1, <1>3, <1>4, TypeFacts
  <2> QED BY <1>2, <1>3, <2>1, <2>2 DEF ApprovalTypes, ApprovalTypeOK
<1>8. WorkersAreSound' /\ MineOnce'
  BY <1>2 DEF ApprovalInv, WorkersAreSound, WorkerAt, Missing, Admitted, MineOnce
<1>9. OwnersAreSound'
  <2> SUFFICES ASSUME NEW p \in Owners PROVE OwnerAt(p)'
    BY DEF OwnersAreSound
  <2>1. CASE p = o
    <3>1. signal[o].status = "none"
      BY <1>2, <1>3 DEF OwnerAt
    <3> QED BY <1>1, <1>2, <1>5, <1>6, <2>1, <3>1 DEF OwnerAt
  <2>2. CASE p # o
    <3>1. OwnerAt(p)
      BY OneCall
    <3> QED BY <1>2, <1>6, <2>2, <3>1 DEF OwnerAt, Admitted
  <2> QED BY <2>1, <2>2
<1>10. CallsStandAlone'
  <2> SUFFICES ASSUME NEW p \in Owners, p \notin crossed',
                      stage'[p] \in {"approval", "run", "signal", "queue", "answered"}
               PROVE  AloneAt(p)'
    BY DEF CallsStandAlone, AloneAt
  <2>1. CASE p = o
    <3>1. approval[w].status = "pending" /\ next = "approval"
      BY <1>6, <2>1 DEF next
    <3>2. {q \in Deciding : about[q] = w} = {} /\ Handling(mine[w]) = {}
      BY <1>1, <2>1, <3>1 DEF Met
    <3>3. at[w] \in {"done", "dead"}
      <4>1. at[w] # "idle" /\ w \notin Handling(mine[w])
        BY <1>1, <1>3, <3>2 DEF WorkerAt
      <4> QED BY <4>1 DEF Handling
    <3>4. ASSUME NEW q \in Owners, q # o, about[q] = w
          PROVE  stage[q] \in {"idle", "refused", "broken"}
      <4>1. q \notin Deciding
        BY <3>2, <3>4
      <4>2. stage[q] # "answered"
        BY <3>1, <3>4, OneCall DEF OwnerAt
      <4>3. stage[q] \in CallStages
        BY <1>3, TypeFacts
      <4> QED BY <4>1, <4>2, <4>3 DEF Deciding, CallStages
    <3> QED BY <1>2, <1>6, <2>1, <3>1, <3>3, <3>4 DEF AloneAt
  <2>2. CASE p # o
    <3>1. AloneAt(p) /\ p \notin crossed /\ p \in Owners
      BY <1>1, <2>2, OneCall
    <3>2. about[p] = w => next = "refused"
      <4> SUFFICES ASSUME about[p] = w, approval[w].status = "pending" PROVE FALSE
        BY <1>5 DEF next
      <4>1. stage[p] = "approval"
        <5>1. OwnerAt(p) /\ stage'[p] = stage[p]
          BY <1>6, <2>2, OneCall
        <5> QED BY <5>1 DEF OwnerAt
      <4>2. p \in Met(o, w)
        BY <4>1 DEF Met, Deciding
      <4> QED BY <1>1, <4>2
    <3>3. Parked(p)' = Parked(p)
      BY <1>6, <2>2 DEF Parked
    <3> QED BY <1>2, <1>6, <2>2, <3>1, <3>2, <3>3 DEF AloneAt
  <2> QED BY <2>1, <2>2
<1> QED BY <1>7, <1>8, <1>9, <1>10 DEF ApprovalInv

\* What a call writes disturbs no other call that stands alone.
LEMMA WriteStep ==
  ASSUME ApprovalInv, ApprovalTypes', NEW o \in Owners,
         NEW next \in {"run", "signal", "queue", "answered"},
         stage[o] \in {"approval", "run", "signal", "queue"},
         stage' = [stage EXCEPT ![o] = next],
         at' = at, mine' = mine, verdict' = verdict, about' = about, crossed' = crossed,
         \A v \in Workers \ {about[o]} : run'[v] = run[v] /\ approval'[v] = approval[v],
         \A t \in Signals \ {mine[about[o]], o} : signal'[t] = signal[t],
         WorkersAreSound', OwnersAreSound', AloneAt(o)'
  PROVE  ApprovalInv'
<1>1. ApprovalTypes /\ AloneAt(o) /\ OwnerAt(o) /\ about[o] \in Workers
      /\ at[about[o]] # "idle" /\ MineOnce
  BY OneCall DEF ApprovalInv
<1>2. stage'[o] = next /\ \A p \in Owners \ {o} : stage'[p] = stage[p]
  BY <1>1, TypeFacts
<1>3. signal[o].status = "none"
  BY <1>1 DEF OwnerAt
<1>4. CallsStandAlone'
  <2> SUFFICES ASSUME NEW p \in Owners, p # o, p \notin crossed,
                      stage[p] \in {"approval", "run", "signal", "queue", "answered"}
               PROVE  AloneAt(p)'
    BY <1>2 DEF CallsStandAlone, AloneAt
  <2>1. AloneAt(p) /\ about[p] \in Workers /\ mine[about[p]] \in Signals
        /\ at[about[p]] # "idle" /\ signal[mine[about[p]]].status # "none"
    BY OneCall
  <2>2. about[p] # about[o]
    BY <2>1 DEF AloneAt
  <2>3. mine[about[p]] # mine[about[o]] /\ mine[about[p]] # o
    BY <1>1, <1>3, <2>1, <2>2 DEF MineOnce
  <2>4. signal'[mine[about[p]]] = signal[mine[about[p]]]
    BY <2>1, <2>3
  <2>5. Parked(p)' = Parked(p)
    BY DEF Parked
  <2> QED BY <1>2, <2>1, <2>2, <2>4, <2>5 DEF AloneAt
<1>5. MineOnce'
  BY <1>1 DEF MineOnce
<1> QED BY <1>4, <1>5 DEF ApprovalInv

\* The approval row gets the verdict ...
LEMMA DecideApprovalStep ==
  ASSUME ApprovalInv, NEW o \in Owners, DecideApproval(o)
  PROVE  ApprovalInv'
<1> DEFINE w == about[o]
           r == [approval[w] EXCEPT !.status = verdict[o]]
<1>1. /\ stage[o] = "approval" /\ stage' = [stage EXCEPT ![o] = "run"]
      /\ at' = at /\ mine' = mine /\ ends' = ends /\ verdict' = verdict /\ about' = about
      /\ crossed' = crossed /\ signal' = signal /\ run' = run /\ faults' = faults
  BY DEF DecideApproval, Stage, workerSide
<1>2. /\ ApprovalTypes /\ AloneAt(o) /\ OwnerAt(o) /\ w \in Workers
      /\ verdict[o] \in {"approved", "rejected"} /\ approval[w].status # "none"
  BY <1>1, OneCall DEF OwnerAt
<1>3. approval[w] \in [status : {"none", "pending", "approved", "rejected"}, authority : 0..6]
  BY <1>2, TypeFacts
<1>4. /\ r \in [status : {"none", "pending", "approved", "rejected"}, authority : 0..6]
      /\ r.status = verdict[o] /\ r.authority = approval[w].authority
  BY <1>2, <1>3
<1>5. approval' = [approval EXCEPT ![w] = r]
  BY <1>2, TypeFacts DEF DecideApproval
<1> HIDE DEF r, w
<1>6. /\ approval' \in [Workers -> [status : {"none", "pending", "approved", "rejected"},
                                    authority : 0..6]]
      /\ approval'[w] = r /\ \A v \in Workers \ {w} : approval'[v] = approval[v]
  BY <1>2, <1>4, <1>5, TypeFacts
<1>7. stage'[o] = "run" /\ stage' \in [Owners -> CallStages]
      /\ \A p \in Owners \ {o} : stage'[p] = stage[p]
  BY <1>1, <1>2, TypeFacts DEF CallStages
<1>8. ApprovalTypes'
  BY <1>1, <1>2, <1>6, <1>7 DEF ApprovalTypes, ApprovalTypeOK
<1>9. \A v \in Workers :
        /\ approval'[v].status # "none" <=> approval[v].status # "none"
        /\ approval'[v].status = "pending" => approval[v].status = "pending"
        /\ approval'[v].authority = approval[v].authority
  BY <1>2, <1>4, <1>6
<1>10. WorkersAreSound'
  <2> SUFFICES ASSUME NEW v \in Workers PROVE WorkerAt(v)'
    BY DEF WorkersAreSound
  <2>1. WorkerAt(v)
    BY OneWorker
  <2>2. Missing(v)' <=> Missing(v)
    BY <1>1 DEF Missing, Admitted
  <2> QED BY <1>1, <1>9, <2>1, <2>2 DEF WorkerAt
<1>11. OwnersAreSound'
  <2> SUFFICES ASSUME NEW p \in Owners PROVE OwnerAt(p)'
    BY DEF OwnersAreSound
  <2>1. OwnerAt(p)
    BY OneCall
  <2>2. Admitted(mine[about[p]])' = Admitted(mine[about[p]])
    BY <1>1 DEF Admitted
  <2>3. CASE p = o
    <3>1. approval'[w].status # "pending"
      BY <1>2, <1>4, <1>6
    <3> QED BY <1>1, <1>2, <1>7, <1>9, <2>1, <2>3, <3>1 DEF OwnerAt, w
  <2>4. CASE p # o
    BY <1>1, <1>7, <1>9, <2>1, <2>2, <2>4 DEF OwnerAt
  <2> QED BY <2>3, <2>4
<1>12. AloneAt(o)'
  <2> SUFFICES ASSUME o \notin crossed
               PROVE  /\ at[w] \in {"done", "dead"} /\ approval'[w].status = verdict[o]
                      /\ \A p \in Owners \ {o} :
                           about[p] = w => stage'[p] \in {"idle", "refused", "broken"}
    BY <1>1, <1>7 DEF AloneAt, w
  <2> QED BY <1>1, <1>2, <1>4, <1>6, <1>7 DEF AloneAt, w
<1> QED BY <1>1, <1>6, <1>8, <1>10, <1>11, <1>12, WriteStep DEF w

\* ... then the run, and then the signal, which of the two it is decided by what.
LEMMA DecideRunStep ==
  ASSUME ApprovalInv, NEW o \in Owners, DecideRun(o)
  PROVE  ApprovalInv'
<1> DEFINE w == about[o]
<1>1. /\ stage[o] = "run" /\ stage' = [stage EXCEPT ![o] = "signal"]
      /\ run' = [run EXCEPT ![w] = Parked(o)]
      /\ at' = at /\ mine' = mine /\ ends' = ends /\ verdict' = verdict /\ about' = about
      /\ crossed' = crossed /\ signal' = signal /\ approval' = approval /\ faults' = faults
  BY DEF DecideRun, Stage, workerSide
<1>2. /\ ApprovalTypes /\ AloneAt(o) /\ OwnerAt(o) /\ w \in Workers
  BY <1>1, OneCall DEF OwnerAt
<1> HIDE DEF w
<1>3. Parked(o) \in {"approved_requeued", "rejected"} /\ Parked(o)' = Parked(o)
  BY <1>1 DEF Parked
<1>4. /\ stage'[o] = "signal" /\ stage' \in [Owners -> CallStages]
      /\ \A p \in Owners \ {o} : stage'[p] = stage[p]
      /\ run'[w] = Parked(o) /\ \A v \in Workers \ {w} : run'[v] = run[v]
  BY <1>1, <1>2, TypeFacts DEF CallStages
<1>5. ApprovalTypes'
  <2>1. run' \in [Workers -> {"none", "running", "awaiting_approval", "halted", "blocked",
                              "completed", "verification_failed", "failed",
                              "approved_requeued", "rejected"}]
    BY <1>1, <1>2, <1>3, TypeFacts
  <2> QED BY <1>1, <1>2, <1>4, <2>1 DEF ApprovalTypes, ApprovalTypeOK
<1>6. WorkersAreSound'
  BY <1>1 DEF ApprovalInv, WorkersAreSound, WorkerAt, Missing, Admitted
<1>7. OwnersAreSound'
  <2> SUFFICES ASSUME NEW p \in Owners PROVE OwnerAt(p)'
    BY DEF OwnersAreSound
  <2>1. OwnerAt(p)
    BY OneCall
  <2>2. Admitted(mine[about[p]])' = Admitted(mine[about[p]])
    BY <1>1 DEF Admitted
  <2> QED BY <1>1, <1>4, <2>1, <2>2 DEF OwnerAt
<1>8. AloneAt(o)'
  <2> SUFFICES ASSUME o \notin crossed
               PROVE  /\ at[w] \in {"done", "dead"} /\ approval[w].status = verdict[o]
                      /\ \A p \in Owners \ {o} :
                           about[p] = w => stage'[p] \in {"idle", "refused", "broken"}
    BY <1>1, <1>3, <1>4 DEF AloneAt, w
  <2> QED BY <1>1, <1>2, <1>4 DEF AloneAt, w
<1> QED BY <1>1, <1>4, <1>5, <1>6, <1>7, <1>8, WriteStep DEF w

\* The signal carries the decision; an approving call has a copy to queue.
LEMMA DecideSignalStep ==
  ASSUME ApprovalInv, NEW o \in Owners, DecideSignal(o)
  PROVE  ApprovalInv'
<1> DEFINE w == about[o]
           s == mine[w]
           next == IF verdict[o] = "approved" THEN "queue" ELSE "answered"
<1>1. /\ stage[o] = "signal" /\ stage' = [stage EXCEPT ![o] = next]
      /\ SetSignal(s, Parked(o))
      /\ at' = at /\ mine' = mine /\ ends' = ends /\ verdict' = verdict /\ about' = about
      /\ crossed' = crossed /\ run' = run /\ approval' = approval /\ faults' = faults
  BY DEF DecideSignal, Stage, workerSide
<1>2. /\ ApprovalTypes /\ AloneAt(o) /\ OwnerAt(o) /\ w \in Workers /\ s \in Signals
      /\ signal[s].status \notin {"none", "queued"}
  BY <1>1, OneCall DEF OwnerAt
<1>3. next \in {"queue", "answered"} /\ (next = "queue" <=> verdict[o] = "approved")
  OBVIOUS
<1>4. Parked(o) \in {"approved_requeued", "rejected"} /\ Parked(o)' = Parked(o)
  BY <1>1 DEF Parked
<1>5. /\ signal' \in [Signals -> SignalRow] /\ signal'[s].status = Parked(o)
      /\ signal'[s].authority = signal[s].authority /\ signal'[s].task = signal[s].task
      /\ \A t \in Signals \ {s} : signal'[t] = signal[t]
  BY <1>1, <1>2, <1>4, StatusWritten
<1> HIDE DEF w, s, next
<1>6. /\ stage'[o] = next /\ stage' \in [Owners -> CallStages]
      /\ \A p \in Owners \ {o} : stage'[p] = stage[p]
  BY <1>1, <1>2, <1>3, TypeFacts DEF CallStages
<1>7. ApprovalTypes'
  BY <1>1, <1>2, <1>5, <1>6 DEF ApprovalTypes, ApprovalTypeOK, SignalRow
<1>8. \A t \in Signals : /\ signal'[t].authority = signal[t].authority
                         /\ signal'[t].task = signal[t].task
                         /\ signal'[t].status = "none" <=> signal[t].status = "none"
                         /\ signal'[t].status = "queued" => signal[t].status = "queued"
  BY <1>2, <1>4, <1>5
<1>9. \A t \in Signals : Admitted(t)' = Admitted(t)
  BY <1>8 DEF Admitted
<1>10. WorkersAreSound'
  <2> SUFFICES ASSUME NEW v \in Workers PROVE WorkerAt(v)'
    BY DEF WorkersAreSound
  <2>1. WorkerAt(v)
    BY OneWorker
  <2>2. at[v] # "idle" => mine[v] \in Signals
    BY <2>1 DEF WorkerAt
  <2>3. at[v] # "idle" => (Missing(v)' <=> Missing(v))
    BY <1>1, <1>8, <1>9, <2>2 DEF Missing
  <2> QED BY <1>1, <1>8, <2>1, <2>3 DEF WorkerAt
<1>11. OwnersAreSound'
  <2> SUFFICES ASSUME NEW p \in Owners PROVE OwnerAt(p)'
    BY DEF OwnersAreSound
  <2>1. OwnerAt(p) /\ p \in Signals /\ (stage[p] # "idle" => mine[about[p]] \in Signals)
    BY OneCall DEF Signals
  <2>2. stage[p] # "idle" => Admitted(mine[about[p]])' = Admitted(mine[about[p]])
    BY <1>1, <1>9, <2>1
  <2>3. CASE p = o
    <3>1. signal'[o].status = "none" /\ stage'[o] \in {"queue", "answered"}
      BY <1>1, <1>2, <1>3, <1>6, <1>8, <2>1, <2>3 DEF OwnerAt
    <3>2. verdict[o] \in {"approved", "rejected"} /\ about[o] \in Workers
          /\ approval[about[o]].status \notin {"none", "pending"}
      BY <1>1, <1>2 DEF OwnerAt
    <3> QED BY <1>1, <1>3, <1>6, <2>3, <3>1, <3>2 DEF OwnerAt
  <2>4. CASE p # o
    BY <1>1, <1>6, <1>8, <2>1, <2>2, <2>4 DEF OwnerAt
  <2> QED BY <2>3, <2>4
<1>12. AloneAt(o)'
  <2> SUFFICES ASSUME o \notin crossed
               PROVE  /\ at[w] \in {"done", "dead"} /\ approval[w].status = verdict[o]
                      /\ run[w] = Parked(o)
                      /\ \A p \in Owners \ {o} :
                           about[p] = w => stage'[p] \in {"idle", "refused", "broken"}
    BY <1>1, <1>4, <1>5, <1>6 DEF AloneAt, w, s
  <2> QED BY <1>1, <1>2, <1>6 DEF AloneAt, w
<1> QED BY <1>1, <1>3, <1>5, <1>7, <1>10, <1>11, <1>12, WriteStep DEF w, s

\* The copy asks for what was missing, and nobody has it yet.
LEMMA QueueCopyStep ==
  ASSUME ApprovalInv, NEW o \in Owners, QueueCopy(o)
  PROVE  ApprovalInv'
<1> DEFINE w == about[o]
           r == [status |-> "queued", authority |-> approval[w].authority,
                 task |-> signal[mine[w]].task]
<1>1. /\ stage[o] = "queue" /\ stage' = [stage EXCEPT ![o] = "answered"]
      /\ signal' = [signal EXCEPT ![o] = r]
      /\ at' = at /\ mine' = mine /\ ends' = ends /\ verdict' = verdict /\ about' = about
      /\ crossed' = crossed /\ run' = run /\ approval' = approval /\ faults' = faults
  BY DEF QueueCopy, Stage, workerSide
<1>2. /\ ApprovalTypes /\ AloneAt(o) /\ OwnerAt(o) /\ w \in Workers /\ mine[w] \in Signals
      /\ verdict[o] = "approved" /\ signal[o].status = "none" /\ o \in Signals
      /\ approval[w].status \notin {"none", "pending"} /\ WorkerAt(w)
  BY <1>1, OneCall, OneWorker DEF OwnerAt, Signals
<1>3. Missing(w) /\ approval[w].authority = Needed(signal[mine[w]].task)
  BY <1>2 DEF WorkerAt
<1>4. r \in SignalRow /\ r.status = "queued" /\ r.authority = Needed(r.task)
      /\ r.authority > Admitted(mine[w])
  <2>1. /\ Needed(signal[mine[w]].task) \in {1, 2} /\ Admitted(mine[w]) \in 0..6
        /\ signal[mine[w]].task \in {"probe", "browse", "chat"}
    BY <1>2, AuthorityFacts
  <2>2. r.authority \in 0..6 /\ r.authority > Admitted(mine[w])
    BY <1>3, <2>1 DEF Missing
  <2> QED BY <1>3, <2>1, <2>2 DEF SignalRow
<1> HIDE DEF w, r
<1>5. /\ stage'[o] = "answered" /\ stage' \in [Owners -> CallStages]
      /\ \A p \in Owners \ {o} : stage'[p] = stage[p]
      /\ signal'[o] = r /\ \A t \in Signals \ {o} : signal'[t] = signal[t]
      /\ signal' \in [Signals -> SignalRow]
  BY <1>1, <1>2, <1>4, TypeFacts DEF CallStages
<1>6. ApprovalTypes'
  BY <1>1, <1>2, <1>5 DEF ApprovalTypes, ApprovalTypeOK, SignalRow
<1>7. \A v \in Workers : at[v] # "idle" => mine[v] \in Signals \ {o}
  BY <1>2, OneWorker
<1>8. \A v \in Workers : at[v] # "idle" =>
        signal'[mine[v]] = signal[mine[v]] /\ Admitted(mine[v])' = Admitted(mine[v])
  BY <1>1, <1>5, <1>7 DEF Admitted
<1>9. WorkersAreSound'
  <2> SUFFICES ASSUME NEW v \in Workers PROVE WorkerAt(v)'
    BY DEF WorkersAreSound
  <2>1. WorkerAt(v)
    BY OneWorker
  <2>2. at[v] # "idle" => (Missing(v)' <=> Missing(v))
    BY <1>1, <1>8 DEF Missing
  <2> QED BY <1>1, <1>8, <2>1, <2>2 DEF WorkerAt
<1>10. OwnersAreSound'
  <2> SUFFICES ASSUME NEW p \in Owners PROVE OwnerAt(p)'
    BY DEF OwnersAreSound
  <2>1. OwnerAt(p) /\ p \in Signals
        /\ (stage[p] # "idle" => about[p] \in Workers /\ at[about[p]] # "idle")
    BY OneCall DEF Signals
  <2>2. stage[p] # "idle" => Admitted(mine[about[p]])' = Admitted(mine[about[p]])
    <3>1. about' = about
      BY <1>1
    <3> QED BY <1>8, <2>1, <3>1
  <2>3. CASE p = o
    BY <1>1, <1>2, <1>4, <1>5, <2>2, <2>3 DEF OwnerAt, w
  <2>4. CASE p # o
    BY <1>1, <1>5, <2>1, <2>2, <2>4 DEF OwnerAt
  <2> QED BY <2>3, <2>4
<1>11. AloneAt(o)'
  <2>1. mine[w] # o /\ signal'[mine[w]] = signal[mine[w]]
    BY <1>1, <1>7, <1>8, OneCall DEF w
  <2>2. Parked(o)' = Parked(o)
    BY <1>1 DEF Parked
  <2> QED BY <1>1, <1>2, <1>5, <2>1, <2>2 DEF AloneAt, w
<1> QED BY <1>1, <1>5, <1>6, <1>9, <1>10, <1>11, WriteStep DEF w

\* A call that stops writes nothing more; whoever shares its approval is crossed.
LEMMA OwnerStopsStep ==
  ASSUME ApprovalInv, NEW o \in Owners, OwnerStops(o)
  PROVE  ApprovalInv'
<1>1. /\ o \in Deciding /\ stage' = [stage EXCEPT ![o] = "broken"]
      /\ crossed' = crossed \cup {p \in Owners : about[p] = about[o]}
      /\ faults < MaxFaults /\ faults' = faults + 1
      /\ at' = at /\ mine' = mine /\ ends' = ends /\ verdict' = verdict /\ about' = about
      /\ run' = run /\ signal' = signal /\ approval' = approval
  BY DEF OwnerStops, approvalTables, workerSide
<1>2. ApprovalTypes /\ OwnerAt(o) /\ o \in crossed'
  BY <1>1, OneCall
<1>3. /\ stage'[o] = "broken" /\ stage' \in [Owners -> CallStages]
      /\ \A p \in Owners \ {o} : stage'[p] = stage[p]
  BY <1>1, <1>2, TypeFacts DEF CallStages
<1>4. ApprovalTypes'
  <2>1. faults' \in 0..MaxFaults
    BY <1>1, <1>2, FaultsCounted
  <2>2. crossed' \subseteq Owners
    BY <1>1, <1>2, TypeFacts
  <2> QED BY <1>1, <1>2, <1>3, <2>1, <2>2 DEF ApprovalTypes, ApprovalTypeOK
<1>5. WorkersAreSound' /\ MineOnce'
  BY <1>1 DEF ApprovalInv, WorkersAreSound, WorkerAt, Missing, Admitted, MineOnce
<1>6. OwnersAreSound'
  <2> SUFFICES ASSUME NEW p \in Owners PROVE OwnerAt(p)'
    BY DEF OwnersAreSound
  <2>1. OwnerAt(p)
    BY OneCall
  <2>2. Admitted(mine[about[p]])' = Admitted(mine[about[p]])
    BY <1>1 DEF Admitted
  <2>3. CASE p = o
    BY <1>1, <1>3, <2>1, <2>2, <2>3 DEF OwnerAt, Deciding
  <2>4. CASE p # o
    BY <1>1, <1>3, <2>1, <2>2, <2>4 DEF OwnerAt
  <2> QED BY <2>3, <2>4
<1>7. CallsStandAlone'
  <2> SUFFICES ASSUME NEW p \in Owners, p # o, p \notin crossed PROVE AloneAt(p)'
    BY <1>1, <1>2 DEF CallsStandAlone, AloneAt
  <2>1. AloneAt(p) /\ Parked(p)' = Parked(p)
    BY <1>1, OneCall DEF Parked
  <2> QED BY <1>1, <1>3, <2>1 DEF AloneAt
<1> QED BY <1>4, <1>5, <1>6, <1>7 DEF ApprovalInv

-----------------------------------------------------------------------------
(* The invariant, and what follows. *)

\* Only given signals are queued; nothing is claimed, asked or decided.
LEMMA Initially ==
  ASSUME ApprovalInit
  PROVE  ApprovalInv
<1>1. \A s \in Signals : signal[s] =
        IF s \in Given THEN [status |-> "queued", authority |-> Asked[s], task |-> Task[s]]
                       ELSE [status |-> "none", authority |-> 0, task |-> "chat"]
  BY DEF ApprovalInit
<1>2. signal \in [Signals -> SignalRow]
  BY ApprovalAssumption DEF ApprovalInit, SignalRow
<1>3. ApprovalTypes
  <2>1. /\ run = [w \in Workers |-> "none"] /\ approval = [w \in Workers |-> NoRow]
        /\ at = [w \in Workers |-> "idle"] /\ mine = [w \in Workers |-> NoSignal]
        /\ ends = [w \in Workers |-> "none"] /\ stage = [o \in Owners |-> "idle"]
        /\ verdict = [o \in Owners |-> "none"] /\ about = [o \in Owners |-> NoWorker]
        /\ faults = 0 /\ crossed = {}
    BY DEF ApprovalInit
  <2>2. faults \in 0..MaxFaults
    BY <2>1, ApprovalAssumption
  <2> QED BY <1>2, <2>1, <2>2 DEF ApprovalTypes, ApprovalTypeOK, SignalRow, WorkerSteps, Ends,
                                  CallStages, NoRow
<1>4. WorkersAreSound /\ MineOnce /\ CallsStandAlone
  BY DEF ApprovalInit, WorkersAreSound, WorkerAt, MineOnce, CallsStandAlone, AloneAt, NoRow
<1>5. OwnersAreSound
  <2>1. \A o \in Owners : o \in Signals /\ o \notin Given
    BY ApprovalAssumption DEF Signals
  <2> QED BY <1>1, <2>1 DEF ApprovalInit, OwnersAreSound, OwnerAt
<1> QED BY <1>3, <1>4, <1>5 DEF ApprovalInv

\* A step that changes nothing keeps the invariant.
LEMMA Stuttering ==
  ASSUME ApprovalInv, UNCHANGED approvalVars
  PROVE  ApprovalInv'
<1>1. /\ signal' = signal /\ run' = run /\ approval' = approval /\ at' = at /\ mine' = mine
      /\ ends' = ends /\ stage' = stage /\ verdict' = verdict /\ about' = about
      /\ crossed' = crossed /\ faults' = faults
  BY DEF approvalVars, approvalTables, workerSide, ownerSide
<1>2. ApprovalTypes'
  BY <1>1 DEF ApprovalInv, ApprovalTypes, ApprovalTypeOK
<1>3. WorkersAreSound' /\ MineOnce'
  BY <1>1 DEF ApprovalInv, WorkersAreSound, WorkerAt, Missing, Admitted, MineOnce
<1>4. OwnersAreSound'
  BY <1>1 DEF ApprovalInv, OwnersAreSound, OwnerAt, Admitted
<1>5. CallsStandAlone'
  BY <1>1 DEF ApprovalInv, CallsStandAlone, AloneAt, Parked
<1> QED BY <1>2, <1>3, <1>4, <1>5 DEF ApprovalInv

\* Every step keeps the invariant.
LEMMA Inductive == ApprovalInv /\ [ApprovalNext]_approvalVars => ApprovalInv'
<1> SUFFICES ASSUME ApprovalInv, [ApprovalNext]_approvalVars PROVE ApprovalInv'
  OBVIOUS
<1>1. CASE UNCHANGED approvalVars
  BY <1>1, Stuttering
<1>2. ASSUME NEW w \in Workers,
             ClaimSignal(w) \/ BeginRun(w) \/ Resolve(w) \/ Execute(w) \/ Ask(w)
      PROVE  ApprovalInv'
  BY <1>2, ClaimStep, BeginRunStep, ResolveStep, ExecuteStep, AskStep
<1>3. ASSUME NEW w \in Workers,
             EndRun(w) \/ EndSignal(w) \/ Log(w) \/ WorkerThrows(w) \/ WorkerDies(w)
      PROVE  ApprovalInv'
  BY <1>3, EndRunStep, EndSignalStep, OtherWorkerSteps
<1>4. ASSUME NEW s \in Signals, CloseLeftover(s) PROVE ApprovalInv'
  BY <1>4, CloseLeftoverStep
<1>5. ASSUME NEW o \in Owners,
             SelectApproval(o) \/ DecideApproval(o) \/ DecideRun(o) \/ DecideSignal(o)
               \/ QueueCopy(o) \/ OwnerStops(o)
      PROVE  ApprovalInv'
  BY <1>5, SelectStep, DecideApprovalStep, DecideRunStep, DecideSignalStep, QueueCopyStep,
     OwnerStopsStep
<1> QED BY <1>1, <1>2, <1>3, <1>4, <1>5 DEF ApprovalNext

\* The strengthening of the property below holds throughout every behaviour.
THEOREM Invariance == ApprovalSpec => []ApprovalInv
<1>1. ApprovalInit => ApprovalInv
  BY Initially
<1>2. ApprovalInv /\ [ApprovalNext]_approvalVars => ApprovalInv'
  BY Inductive
<1> QED BY <1>1, <1>2, PTL DEF ApprovalSpec

\* What an answered call decided, and nothing crossed, stands in the approval, the run and
\* the signal; no other call is answered for it; and a copy of the signal is there exactly
\* if the decision was to approve, with what was missing.
THEOREM DecisionsStand == ApprovalSpec => []ApprovalsStick
<1>1. ApprovalInv => ApprovalsStick
  <2> SUFFICES ASSUME ApprovalInv, NEW o \in Owners, stage[o] = "answered", o \notin crossed
      PROVE  /\ approval[about[o]].status = verdict[o]
             /\ run[about[o]] = Parked(o)
             /\ signal[mine[about[o]]].status = Parked(o)
             /\ \A p \in Owners \ {o} : stage[p] = "answered" => about[p] # about[o]
             /\ (signal[o].status # "none") = (verdict[o] = "approved")
             /\ signal[o].status # "none" =>
                  /\ signal[o].authority = Needed(signal[o].task)
                  /\ signal[o].authority > Admitted(mine[about[o]])
    BY DEF ApprovalsStick
  <2>1. AloneAt(o) /\ OwnerAt(o)
    BY OneCall
  <2> QED BY <2>1 DEF AloneAt, OwnerAt
<1> QED BY <1>1, Invariance, PTL

-----------------------------------------------------------------------------
(* The feature backlog: receipts and reports of the build cycles. *)

CycleSteps == {"idle", "verify", "recollect", "append", "end", "report", "recall", "file", "done"}
Outcomes == {"none", "idle", "blocked", "verify", "verified", "failed"}
ReceiptRow == [by : Builders, item : AnItem, advances : BOOLEAN]

BacklogTypes ==
  /\ live \in [AnItem -> BOOLEAN]
  /\ receipts \in Seq(ReceiptRow) /\ Len(receipts) <= Keep
  /\ history \in Seq(Builders) /\ Len(history) <= KeepReports
  /\ latest \in Builders \cup {NoBuilder}
  /\ doing \in [Builders -> CycleSteps]
  /\ item \in [Builders -> AnItem \cup {NoItem}]
  /\ outcome \in [Builders -> Outcomes]
  /\ read \in [Builders -> Seq(ReceiptRow) \cup Seq(Builders)]
  /\ cycle \in [Builders -> {"none", "running", "completed", "progress", "blocked", "failed"}]
  /\ appended \subseteq Builders /\ IsFiniteSet(appended)

\* What a builder holds and has written, by the step it is at.
BuilderAt(b) ==
  /\ doing[b] \in {"verify", "recollect", "append"} => item[b] \in AnItem
  /\ doing[b] \in {"recollect", "append"} => outcome[b] \in {"verified", "failed"}
  /\ doing[b] = "end" => outcome[b] # "verify"
  /\ doing[b] = "append" => read[b] \in Seq(ReceiptRow)
  /\ doing[b] = "file" => read[b] \in Seq(Builders)
  /\ b \in appended => doing[b] \in {"end", "report", "recall", "file", "done"}
  /\ doing[b] \in {"end", "report", "recall", "file", "done"} /\ outcome[b] = "verified" =>
       b \in appended \/ b \in excused
  /\ cycle[b] = "progress" =>
       outcome[b] = "verified" /\ doing[b] \in {"report", "recall", "file", "done"}

\* A list of receipts is no longer than the receipts there have been, and none of
\* them says more than its builder saw.
Truthful(list) ==
  /\ Len(list) <= Cardinality(appended)
  /\ \A k \in DOMAIN list :
       list[k].by \in appended /\ (list[k].advances => outcome[list[k].by] = "verified")

\* Nothing is missing from a list but what the cut or another builder took.
Kept(list) ==
  \A b \in appended \ excused :
    outcome[b] = "verified" =>
      \/ \E k \in DOMAIN list : list[k] = Receipt(b, item[b], TRUE)
      \/ Cardinality(appended) > Keep

\* The stored list, and the one that is about to replace it.
Lists == {receipts} \cup {read[b] : b \in Appending}

\* Of two builders that append at once neither counts on its receipt.
AppendersMet == \A b, c \in Appending : b # c => b \in excused

\* The latest report is by a builder that got so far; whoever else is filing met it.
LatestAt ==
  latest # NoBuilder =>
    /\ doing[latest] \in {"recall", "file", "done"}
    /\ \A b \in Filing : b # latest => latest \in excused

BacklogInv ==
  /\ BacklogTypes
  /\ \A b \in Builders : BuilderAt(b)
  /\ \A list \in Lists : Truthful(list) /\ Kept(list)
  /\ AppendersMet /\ LatestAt /\ HistoryFollowsLatest

\* Every nonempty set of positions has a first.
LEMMA FirstExists ==
  ASSUME NEW n \in Nat, NEW S \in SUBSET (1..n), S # {}
  PROVE  \E i \in S : \A j \in S : i <= j
<1>1. IsFiniteSet(S)
  <2>1. IsFiniteSet(1..n)
    BY FS_Interval
  <2> QED BY <2>1, FS_Subset
<1>2. PICK w : w = [x \in S |-> 0 - x]
  OBVIOUS
<1>3. w \in [S -> Int] /\ \A x \in S : w[x] = 0 - x /\ x \in Int
  BY <1>2
<1>4. PICK i \in S : \A j \in S : w[j] <= w[i]
  BY <1>1, <1>3, HighestExists
<1>5. ASSUME NEW j \in S PROVE i <= j
  <2>1. w[j] <= w[i] /\ w[j] = 0 - j /\ w[i] = 0 - i /\ i \in Int /\ j \in Int
    BY <1>3, <1>4
  <2> QED BY <2>1
<1> QED BY <1>5

\* The items of a priority list are there, and the decision names the first that is
\* not shipped: a CHOOSE that finds what it looks for.
LEMMA FirstUnfinished ==
  ASSUME NEW list, Unfinished(list) # {}
  PROVE  Selected(list) \in AnItem
<1> DEFINE U == Unfinished(list)
<1>1. Len(Items) \in Nat /\ DOMAIN Items = 1..Len(Items)
  BY BacklogAssumption, LenProperties
<1>2. U \subseteq Nat /\ U # {} /\ U \subseteq DOMAIN Items
  BY <1>1 DEF Unfinished
<1>3. PICK k \in U : \A j \in U : k <= j
  <2> HIDE DEF U
  <2> QED BY <1>1, <1>2, FirstExists
<1>5. (CHOOSE i \in U : \A j \in U : i <= j) \in U
  <2> HIDE DEF U
  <2> QED BY <1>3
<1> QED BY <1>2, <1>5 DEF Selected, AnItem

LEMMA DecisionTyped ==
  ASSUME NEW list
  PROVE  /\ Decision(list) \in {"idle", "blocked", "verify"}
         /\ Decision(list) # "idle" => Selected(list) \in AnItem
BY FirstUnfinished DEF Decision

\* The front of a list is a list.
LEMMA FrontTyped ==
  ASSUME NEW R, NEW list \in Seq(R), NEW n \in Nat
  PROVE  /\ Front(list, n) \in Seq(R)
         /\ Len(Front(list, n)) = IF Len(list) < n THEN Len(list) ELSE n
         /\ \A k \in 1..Len(Front(list, n)) : Front(list, n)[k] = list[k]
<1>1. Len(list) \in Nat
  BY LenProperties
<1> DEFINE m == IF Len(list) < n THEN Len(list) ELSE n
<1>2. m \in Nat /\ m <= Len(list) /\ m <= n
  BY <1>1
<1>3. Front(list, n) = SubSeq(list, 1, m)
  BY DEF Front
<1>4. \A i \in 1..m : list[i] \in R
  BY <1>1, <1>2, ElementOfSeq
<1> HIDE DEF m
<1>5. /\ SubSeq(list, 1, m) \in Seq(R)
      /\ Len(SubSeq(list, 1, m)) = m
      /\ \A i \in 1..m : SubSeq(list, 1, m)[i] = list[i]
  <2>1. /\ SubSeq(list, 1, m) \in Seq(R)
        /\ Len(SubSeq(list, 1, m)) = IF 1 <= m THEN m - 1 + 1 ELSE 0
        /\ \A i \in 1..(m - 1 + 1) : SubSeq(list, 1, m)[i] = list[1 + i - 1]
    BY <1>1, <1>2, <1>4, SubSeqProperties
  <2>2. (IF 1 <= m THEN m - 1 + 1 ELSE 0) = m /\ m - 1 + 1 = m
    BY <1>2
  <2>3. \A i \in 1..m : 1 + i - 1 = i
    BY <1>2
  <2> QED BY <2>1, <2>2, <2>3
<1> QED BY <1>3, <1>5 DEF m

\* A list with an element put in front.
LEMMA InFront ==
  ASSUME NEW R, NEW e \in R, NEW list \in Seq(R)
  PROVE  /\ <<e>> \o list \in Seq(R)
         /\ Len(<<e>> \o list) = Len(list) + 1
         /\ (<<e>> \o list)[1] = e
         /\ \A k \in 1..Len(list) : (<<e>> \o list)[k + 1] = list[k]
         /\ Len(list) \in Nat
<1>1. <<e>> \in Seq(R) /\ Len(<<e>>) = 1 /\ <<e>>[1] = e
  OBVIOUS
<1>2. Len(list) \in Nat
  BY LenProperties
<1>3. /\ <<e>> \o list \in Seq(R)
      /\ Len(<<e>> \o list) = Len(<<e>>) + Len(list)
      /\ \A i \in 1..(Len(<<e>>) + Len(list)) :
           (<<e>> \o list)[i] = IF i <= Len(<<e>>) THEN <<e>>[i] ELSE list[i - Len(<<e>>)]
  BY <1>1, ConcatProperties
<1>4. (<<e>> \o list)[1] = e
  BY <1>1, <1>2, <1>3
<1>5. ASSUME NEW k \in 1..Len(list)
      PROVE  (<<e>> \o list)[k + 1] = list[k]
  <2>1. k + 1 \in 1..(1 + Len(list)) /\ ~(k + 1 <= 1) /\ (k + 1) - 1 = k
    BY <1>2
  <2> QED BY <1>1, <1>3, <2>1
<1> QED BY <1>1, <1>2, <1>3, <1>4, <1>5

LEMMA BacklogConstants ==
  /\ Keep \in Nat \ {0} /\ KeepReports \in Nat \ {0}
  /\ AnItem = {Items[i] : i \in DOMAIN Items}
BY BacklogAssumption DEF AnItem

LEMMA BacklogInitial == BacklogInit => BacklogInv
<1> SUFFICES ASSUME BacklogInit PROVE BacklogInv
  OBVIOUS
<1> USE DEF BacklogInit
<1>1. <<>> \in Seq(ReceiptRow) /\ <<>> \in Seq(Builders) /\ Len(<<>>) = 0 /\ DOMAIN <<>> = {}
  OBVIOUS
<1>2. IsFiniteSet(appended) /\ Cardinality(appended) = 0
  BY FS_EmptySet
<1>3. BacklogTypes
  BY <1>1, <1>2, BacklogConstants DEF BacklogTypes, CycleSteps, Outcomes
<1>4. \A b \in Builders : BuilderAt(b)
  BY DEF BuilderAt
<1>5. Appending = {}
  BY DEF Appending
<1>6. \A list \in Lists : Truthful(list) /\ Kept(list)
  <2>1. Lists = {<<>>}
    BY <1>5 DEF Lists
  <2> QED BY <1>1, <1>2, <2>1 DEF Truthful, Kept
<1>7. AppendersMet /\ LatestAt /\ HistoryFollowsLatest
  BY <1>5 DEF AppendersMet, LatestAt, HistoryFollowsLatest
<1> QED BY <1>3, <1>4, <1>6, <1>7 DEF BacklogInv

\* Where a step leaves the receipts as they are, the lists keep what they have.
LEMMA ListsStay ==
  ASSUME \A list \in Lists : Truthful(list) /\ Kept(list),
         receipts' = receipts, appended' = appended, excused \subseteq excused',
         \A b \in Builders : doing'[b] = "append" => doing[b] = "append" /\ read'[b] = read[b],
         \A b \in appended : outcome'[b] = outcome[b] /\ item'[b] = item[b]
  PROVE  \A list \in Lists' : Truthful(list)' /\ Kept(list)'
<1> SUFFICES ASSUME NEW list \in Lists' PROVE Truthful(list)' /\ Kept(list)'
  OBVIOUS
<1>1. list \in Lists
  BY DEF Lists, Appending
<1>2. Truthful(list) /\ Kept(list)
  BY <1>1
<1>3. Truthful(list)'
  BY <1>2 DEF Truthful
<1>4. Kept(list)'
  BY <1>2 DEF Kept, Receipt
<1> QED BY <1>3, <1>4

\* AppendersMet is kept where nobody begins to append, LatestAt where nobody begins to file and
\* the latest report is left alone.
LEMMA MetStays ==
  ASSUME AppendersMet, excused \subseteq excused', Appending' \subseteq Appending
  PROVE  AppendersMet'
BY DEF AppendersMet

LEMMA LatestStays ==
  ASSUME LatestAt, latest' = latest, excused \subseteq excused', Filing' \subseteq Filing,
         latest # NoBuilder => doing'[latest] \in {"recall", "file", "done"}
  PROVE  LatestAt'
BY DEF LatestAt

\* A builder that does not move.
LEMMA BuilderStays ==
  ASSUME NEW b, BuilderAt(b), excused \subseteq excused', b \in appended' <=> b \in appended,
         doing'[b] = doing[b], item'[b] = item[b], outcome'[b] = outcome[b],
         read'[b] = read[b], cycle'[b] = cycle[b]
  PROVE  BuilderAt(b)'
BY DEF BuilderAt, ReceiptRow, AnItem

\* What a step of builder b does to the stages.
LEMMA Moves ==
  ASSUME BacklogTypes, NEW b \in Builders, NEW from, NEW to \in CycleSteps, Does(b, from, to)
  PROVE  /\ doing[b] = from /\ doing'[b] = to /\ doing' \in [Builders -> CycleSteps]
         /\ \A c \in Builders \ {b} : doing'[c] = doing[c]
BY DEF Does, BacklogTypes

\* A step that leaves every list alone: it keeps the invariant if it keeps the
\* types and the state of the builder that makes it.
LEMMA QuietStep ==
  ASSUME BacklogInv, BacklogTypes', NEW b \in Builders, BuilderAt(b)',
         receipts' = receipts, history' = history, latest' = latest, appended' = appended,
         excused \subseteq excused',
         \A c \in Builders \ {b} :
           /\ doing'[c] = doing[c] /\ item'[c] = item[c] /\ outcome'[c] = outcome[c]
           /\ read'[c] = read[c] /\ cycle'[c] = cycle[c],
         doing'[b] # "append",
         doing'[b] \in {"recall", "file"} => doing[b] \in {"recall", "file"},
         b \in appended => outcome'[b] = outcome[b] /\ item'[b] = item[b],
         latest = b => latest = NoBuilder \/ doing'[b] \in {"recall", "file", "done"},
         latest = b /\ doing'[b] = "done" => b \in excused' \/ doing[b] = "done"
  PROVE  BacklogInv'
<1>1. /\ BacklogTypes /\ \A c \in Builders : BuilderAt(c)
      /\ \A list \in Lists : Truthful(list) /\ Kept(list)
      /\ AppendersMet /\ LatestAt /\ HistoryFollowsLatest
  BY DEF BacklogInv
<1>2. \A c \in Builders : BuilderAt(c)'
  BY <1>1, BuilderStays
<1>3. appended \subseteq Builders
  BY <1>1 DEF BacklogTypes
<1>4. \A list \in Lists' : Truthful(list)' /\ Kept(list)'
  <2>1. \A c \in Builders : doing'[c] = "append" => doing[c] = "append" /\ read'[c] = read[c]
    OBVIOUS
  <2>2. \A c \in appended : outcome'[c] = outcome[c] /\ item'[c] = item[c]
    BY <1>3
  <2> QED BY <1>1, <2>1, <2>2, ListsStay
<1>5. Appending' \subseteq Appending /\ Filing' \subseteq Filing
  BY DEF Appending, Filing
<1>6. AppendersMet'
  BY <1>1, <1>5, MetStays
<1>7. latest # NoBuilder => latest \in Builders
  BY <1>1 DEF BacklogTypes
<1>8. latest # NoBuilder => doing'[latest] \in {"recall", "file", "done"}
  BY <1>1, <1>7 DEF LatestAt
<1>9. LatestAt'
  BY <1>1, <1>5, <1>8, LatestStays
<1>10. HistoryFollowsLatest'
  <2> SUFFICES ASSUME latest # NoBuilder, latest \notin excused', doing'[latest] = "done"
               PROVE  Head(history) = latest
    BY DEF HistoryFollowsLatest
  <2>1. doing[latest] = "done"
    BY <1>7
  <2> QED BY <1>1, <2>1 DEF HistoryFollowsLatest
<1> QED BY <1>2, <1>4, <1>6, <1>9, <1>10 DEF BacklogInv

LEMMA DeployKeeps == ASSUME BacklogInv, NEW i \in AnItem, Deploy(i) PROVE BacklogInv'
<1> USE DEF Deploy, stored, builderVars, backlogHistory
<1>1. /\ UNCHANGED <<receipts, latest, history, doing, item, outcome, read, cycle, appended, excused>>
      /\ live' = [live EXCEPT ![i] = ~live[i]]
  OBVIOUS
<1>2. BacklogTypes'
  BY <1>1 DEF BacklogInv, BacklogTypes
<1>3. \A b \in Builders : BuilderAt(b)'
  BY <1>1, BuilderStays DEF BacklogInv
<1>4. \A list \in Lists' : Truthful(list)' /\ Kept(list)'
  BY <1>1, ListsStay DEF BacklogInv
<1>5. AppendersMet' /\ LatestAt' /\ HistoryFollowsLatest'
  BY <1>1 DEF BacklogInv, AppendersMet, LatestAt, HistoryFollowsLatest, Appending, Filing
<1> QED BY <1>2, <1>3, <1>4, <1>5 DEF BacklogInv

LEMMA DecideKeeps == ASSUME BacklogInv, NEW b \in Builders, Decide(b) PROVE BacklogInv'
<1>1. BacklogTypes /\ BuilderAt(b) /\ LatestAt
  BY DEF BacklogInv
<1>2. PICK list \in {receipts, <<>>} :
        /\ Does(b, "idle", IF Decision(list) = "verify" THEN "verify" ELSE "end")
        /\ item' = [item EXCEPT ![b] = IF Decision(list) = "idle" THEN NoItem ELSE Selected(list)]
        /\ cycle' = [cycle EXCEPT ![b] = "running"]
        /\ outcome' = [outcome EXCEPT ![b] = Decision(list)]
        /\ read' = [read EXCEPT ![b] = list]
        /\ UNCHANGED <<live, stored, backlogHistory>>
  BY DEF Decide
<1> DEFINE to == IF Decision(list) = "verify" THEN "verify" ELSE "end"
<1>3. Decision(list) \in {"idle", "blocked", "verify"}
  BY DecisionTyped
<1>4. Decision(list) # "idle" => Selected(list) \in AnItem
  BY DecisionTyped
<1>5. to \in CycleSteps /\ to \in {"verify", "end"}
  BY DEF CycleSteps
<1>6. /\ doing[b] = "idle" /\ doing'[b] = to /\ doing' \in [Builders -> CycleSteps]
      /\ \A c \in Builders \ {b} : doing'[c] = doing[c]
  BY <1>1, <1>2, <1>5, Moves
<1>7. UNCHANGED <<live, receipts, latest, history, appended, excused>>
  BY <1>2 DEF stored, backlogHistory
<1>8. list \in Seq(ReceiptRow)
  <2>1. receipts \in Seq(ReceiptRow)
    BY <1>1 DEF BacklogTypes
  <2>2. <<>> \in Seq(ReceiptRow)
    OBVIOUS
  <2> QED BY <2>1, <2>2
<1>9. BacklogTypes'
  BY <1>1, <1>2, <1>3, <1>4, <1>6, <1>7, <1>8 DEF BacklogTypes, Outcomes
<1>10. /\ item'[b] = IF Decision(list) = "idle" THEN NoItem ELSE Selected(list)
       /\ outcome'[b] = Decision(list) /\ cycle'[b] = "running"
  BY <1>1, <1>2 DEF BacklogTypes
<1>11. b \notin appended
  BY <1>1, <1>6 DEF BuilderAt
<1>12. BuilderAt(b)'
  BY <1>3, <1>4, <1>6, <1>7, <1>10, <1>11 DEF BuilderAt, AnItem
<1>13. latest = b => latest = NoBuilder
  BY <1>1, <1>6 DEF LatestAt
<1>14. \A c \in Builders \ {b} :
         item'[c] = item[c] /\ outcome'[c] = outcome[c] /\ read'[c] = read[c] /\ cycle'[c] = cycle[c]
  BY <1>1, <1>2 DEF BacklogTypes
<1> QED BY <1>5, <1>6, <1>7, <1>9, <1>11, <1>12, <1>13, <1>14, QuietStep

LEMMA VerifyItemKeeps == ASSUME BacklogInv, NEW b \in Builders, VerifyItem(b) PROVE BacklogInv'
<1>1. BacklogTypes /\ BuilderAt(b) /\ LatestAt
  BY DEF BacklogInv
<1>2. PICK reached \in BOOLEAN :
        /\ Does(b, "verify", "recollect")
        /\ outcome' = [outcome EXCEPT ![b] = IF HealthMatches(item[b], reached) THEN "verified" ELSE "failed"]
        /\ UNCHANGED <<live, stored, item, read, cycle, lapses, backlogHistory>>
  BY DEF VerifyItem
<1>3. /\ doing[b] = "verify" /\ doing'[b] = "recollect" /\ doing' \in [Builders -> CycleSteps]
      /\ \A c \in Builders \ {b} : doing'[c] = doing[c]
  <2>1. "recollect" \in CycleSteps
    BY DEF CycleSteps
  <2> QED BY <1>1, <1>2, <2>1, Moves
<1>4. UNCHANGED <<live, receipts, latest, history, item, read, cycle, appended, excused>>
  BY <1>2 DEF stored, backlogHistory
<1>5. /\ outcome'[b] \in {"verified", "failed"} /\ outcome' \in [Builders -> Outcomes]
      /\ \A c \in Builders \ {b} : outcome'[c] = outcome[c]
  <2> DEFINE o == IF HealthMatches(item[b], reached) THEN "verified" ELSE "failed"
  <2>1. o \in {"verified", "failed"} /\ outcome' = [outcome EXCEPT ![b] = o]
    BY <1>2
  <2> HIDE DEF o
  <2> QED BY <1>1, <2>1 DEF BacklogTypes, Outcomes
<1>6. BacklogTypes'
  BY <1>1, <1>3, <1>4, <1>5 DEF BacklogTypes
<1>7. b \notin appended
  BY <1>1, <1>3 DEF BuilderAt
<1>8. BuilderAt(b)'
  BY <1>1, <1>3, <1>4, <1>5, <1>7 DEF BuilderAt, AnItem
<1>9. latest = b => latest = NoBuilder
  BY <1>1, <1>3 DEF LatestAt
<1> QED BY <1>3, <1>4, <1>5, <1>6, <1>7, <1>8, <1>9, QuietStep

LEMMA AppendFailsKeeps == ASSUME BacklogInv, NEW b \in Builders, AppendFails(b) PROVE BacklogInv'
<1>1. BacklogTypes /\ BuilderAt(b) /\ LatestAt
  BY DEF BacklogInv
<1>2. /\ doing[b] = "append" /\ doing'[b] = "end" /\ doing' \in [Builders -> CycleSteps]
      /\ \A c \in Builders \ {b} : doing'[c] = doing[c]
  <2>1. "end" \in CycleSteps /\ Does(b, "append", "end")
    BY DEF CycleSteps, AppendFails
  <2> QED BY <1>1, <2>1, Moves
<1>3. /\ UNCHANGED <<live, receipts, latest, history, item, outcome, read, cycle, appended>>
      /\ excused' = excused \cup {b}
  BY DEF AppendFails, Lapse, stored
<1>4. BacklogTypes'
  BY <1>1, <1>2, <1>3 DEF BacklogTypes
<1>5. BuilderAt(b)'
  BY <1>1, <1>2, <1>3 DEF BuilderAt
<1>6. latest = b => latest = NoBuilder
  BY <1>1, <1>2 DEF LatestAt
<1> QED BY <1>2, <1>3, <1>4, <1>5, <1>6, QuietStep

LEMMA EndCycleKeeps == ASSUME BacklogInv, NEW b \in Builders, EndCycle(b) PROVE BacklogInv'
<1>1. BacklogTypes /\ BuilderAt(b) /\ LatestAt
  BY DEF BacklogInv
<1>2. /\ doing[b] = "end" /\ doing'[b] = "report" /\ doing' \in [Builders -> CycleSteps]
      /\ \A c \in Builders \ {b} : doing'[c] = doing[c]
  <2>1. "report" \in CycleSteps /\ Does(b, "end", "report")
    BY DEF CycleSteps, EndCycle
  <2> QED BY <1>1, <2>1, Moves
<1> DEFINE ending == CASE outcome[b] = "idle" -> "completed"
                       [] outcome[b] = "verified" -> "progress"
                       [] OTHER -> outcome[b]
<1>3. /\ UNCHANGED <<live, receipts, latest, history, item, outcome, read, appended, excused>>
      /\ cycle' = [cycle EXCEPT ![b] = ending]
  BY DEF EndCycle, stored, backlogHistory
<1>4. /\ ending \in {"none", "running", "completed", "progress", "blocked", "failed"} \cup {"verify"}
      /\ ending = "progress" => outcome[b] = "verified"
      /\ ending = "verify" => outcome[b] = "verify"
  <2>1. outcome[b] \in Outcomes
    BY <1>1 DEF BacklogTypes
  <2> QED BY <2>1 DEF Outcomes
<1>5. outcome[b] # "verify"
  BY <1>1, <1>2 DEF BuilderAt
<1> HIDE DEF ending
<1>6. /\ cycle' \in [Builders -> {"none", "running", "completed", "progress", "blocked", "failed"}]
      /\ cycle'[b] = ending /\ \A c \in Builders \ {b} : cycle'[c] = cycle[c]
  BY <1>1, <1>3, <1>4, <1>5 DEF BacklogTypes
<1>7. BacklogTypes'
  BY <1>1, <1>2, <1>3, <1>6 DEF BacklogTypes
<1>8. BuilderAt(b)'
  BY <1>1, <1>2, <1>3, <1>4, <1>6 DEF BuilderAt
<1>9. latest = b => latest = NoBuilder
  BY <1>1, <1>2 DEF LatestAt
<1> QED BY <1>2, <1>3, <1>6, <1>7, <1>8, <1>9, QuietStep

LEMMA RecallKeeps == ASSUME BacklogInv, NEW b \in Builders, Recall(b) PROVE BacklogInv'
<1>1. BacklogTypes /\ BuilderAt(b)
  BY DEF BacklogInv
<1>2. /\ doing[b] = "recall" /\ doing'[b] = "file" /\ doing' \in [Builders -> CycleSteps]
      /\ \A c \in Builders \ {b} : doing'[c] = doing[c]
  <2>1. "file" \in CycleSteps /\ Does(b, "recall", "file")
    BY DEF CycleSteps, Recall
  <2> QED BY <1>1, <2>1, Moves
<1>3. /\ UNCHANGED <<live, receipts, latest, history, item, outcome, cycle, appended, excused>>
      /\ read' = [read EXCEPT ![b] = history]
  BY DEF Recall, stored, backlogHistory
<1>4. /\ read' \in [Builders -> Seq(ReceiptRow) \cup Seq(Builders)] /\ read'[b] \in Seq(Builders)
      /\ \A c \in Builders \ {b} : read'[c] = read[c]
  BY <1>1, <1>3 DEF BacklogTypes
<1>5. BacklogTypes'
  BY <1>1, <1>2, <1>3, <1>4 DEF BacklogTypes
<1>6. BuilderAt(b)'
  BY <1>1, <1>2, <1>3, <1>4 DEF BuilderAt
<1> QED BY <1>2, <1>3, <1>4, <1>5, <1>6, QuietStep

LEMMA ReportFailsKeeps == ASSUME BacklogInv, NEW b \in Builders, ReportFails(b) PROVE BacklogInv'
<1>1. BacklogTypes /\ BuilderAt(b)
  BY DEF BacklogInv
<1>2. /\ doing[b] \in {"report", "recall", "file"} /\ doing'[b] = "done"
      /\ doing' \in [Builders -> CycleSteps] /\ \A c \in Builders \ {b} : doing'[c] = doing[c]
  BY <1>1 DEF ReportFails, BacklogTypes, CycleSteps
<1>3. /\ UNCHANGED <<live, receipts, latest, history, item, outcome, read, cycle, appended>>
      /\ excused' = excused \cup {b}
  BY DEF ReportFails, Lapse, stored
<1>4. BacklogTypes'
  BY <1>1, <1>2, <1>3 DEF BacklogTypes
<1>5. BuilderAt(b)'
  BY <1>1, <1>2, <1>3 DEF BuilderAt
<1> QED BY <1>2, <1>3, <1>4, <1>5, QuietStep

\* Beginning to append with a list that is complete enough.
LEMMA JoinStep ==
  ASSUME BacklogInv, NEW b \in Builders, NEW list \in Seq(ReceiptRow),
         Does(b, "recollect", "append"), read' = [read EXCEPT ![b] = list],
         UNCHANGED <<live, stored, item, outcome, cycle, appended>>,
         excused \subseteq excused', Appending # {} => Appending \cup {b} \subseteq excused',
         Truthful(list), Kept(list)'
  PROVE  BacklogInv'
<1>1. /\ BacklogTypes /\ \A c \in Builders : BuilderAt(c)
      /\ \A l \in Lists : Truthful(l) /\ Kept(l)
      /\ AppendersMet /\ LatestAt /\ HistoryFollowsLatest
  BY DEF BacklogInv
<1>2. /\ doing[b] = "recollect" /\ doing'[b] = "append" /\ doing' \in [Builders -> CycleSteps]
      /\ \A c \in Builders \ {b} : doing'[c] = doing[c]
  <2>1. "append" \in CycleSteps
    BY DEF CycleSteps
  <2> QED BY <1>1, <2>1, Moves
<1>3. UNCHANGED <<live, receipts, latest, history, item, outcome, cycle, appended>>
  BY DEF stored
<1>4. /\ read' \in [Builders -> Seq(ReceiptRow) \cup Seq(Builders)] /\ read'[b] = list
      /\ \A c \in Builders \ {b} : read'[c] = read[c]
  BY <1>1 DEF BacklogTypes
<1>5. BacklogTypes'
  BY <1>1, <1>2, <1>3, <1>4 DEF BacklogTypes
<1>6. \A c \in Builders : BuilderAt(c)'
  <2>1. BuilderAt(b)'
    BY <1>1, <1>2, <1>3, <1>4 DEF BuilderAt, AnItem, ReceiptRow
  <2>2. ASSUME NEW c \in Builders \ {b} PROVE BuilderAt(c)'
    BY <1>1, <1>2, <1>3, <1>4, BuilderStays
  <2> QED BY <2>1, <2>2
<1>7. \A l \in Lists' : Truthful(l)' /\ Kept(l)'
  <2>1. ASSUME NEW l \in Lists, Truthful(l), Kept(l) PROVE Truthful(l)' /\ Kept(l)'
    <3>1. Truthful(l)'
      BY <1>3, <2>1 DEF Truthful
    <3>2. Kept(l)'
      BY <1>3, <2>1 DEF Kept, Receipt
    <3> QED BY <3>1, <3>2
  <2>2. Truthful(list)'
    BY <1>3 DEF Truthful
  <2>3. ASSUME NEW l \in Lists' PROVE l \in Lists \/ l = list
    BY <1>2, <1>3, <1>4 DEF Lists, Appending
  <2> QED BY <1>1, <2>1, <2>2, <2>3
<1>8. AppendersMet'
  <2> SUFFICES ASSUME NEW c \in Appending', NEW d \in Appending', c # d PROVE c \in excused'
    BY DEF AppendersMet
  <2>1. Appending' \subseteq Appending \cup {b}
    BY <1>2 DEF Appending
  <2>2. Appending # {}
    BY <2>1
  <2> QED BY <2>1, <2>2
<1>9. latest # NoBuilder => latest \in Builders \ {b}
  BY <1>1, <1>2 DEF BacklogTypes, LatestAt
<1>10. LatestAt'
  <2>1. Filing' \subseteq Filing
    BY <1>2 DEF Filing
  <2>2. latest # NoBuilder => doing'[latest] \in {"recall", "file", "done"}
    BY <1>1, <1>2, <1>9 DEF LatestAt
  <2> QED BY <1>1, <1>3, <2>1, <2>2, LatestStays
<1>11. HistoryFollowsLatest'
  BY <1>1, <1>2, <1>3, <1>9 DEF HistoryFollowsLatest
<1> QED BY <1>5, <1>6, <1>7, <1>8, <1>10, <1>11 DEF BacklogInv

LEMMA RecollectKeeps == ASSUME BacklogInv, NEW b \in Builders, Recollect(b) PROVE BacklogInv'
<1>1. /\ Does(b, "recollect", "append") /\ read' = [read EXCEPT ![b] = receipts]
      /\ excused' = excused \cup (IF Appending = {} THEN {} ELSE Appending \cup {b})
      /\ UNCHANGED <<live, stored, item, outcome, cycle, appended>>
  BY DEF Recollect
<1>2. receipts \in Seq(ReceiptRow) /\ Truthful(receipts) /\ Kept(receipts)
  BY DEF BacklogInv, BacklogTypes, Lists
<1>3. excused \subseteq excused' /\ (Appending # {} => Appending \cup {b} \subseteq excused')
  BY <1>1
<1>4. ASSUME NEW list, Kept(list) PROVE Kept(list)'
  BY <1>1, <1>3, <1>4 DEF Kept, Receipt
<1>5. PICK list : list = receipts
  OBVIOUS
<1> QED BY <1>1, <1>2, <1>3, <1>4, <1>5, JoinStep

LEMMA RecollectFailsKeeps == ASSUME BacklogInv, NEW b \in Builders, RecollectFails(b) PROVE BacklogInv'
<1>1. /\ Does(b, "recollect", "append") /\ read' = [read EXCEPT ![b] = <<>>]
      /\ excused' = excused \cup appended \cup Appending \cup {b}
      /\ UNCHANGED <<live, stored, item, outcome, cycle, appended>>
  BY DEF RecollectFails
<1>2. <<>> \in Seq(ReceiptRow) /\ Len(<<>>) = 0 /\ DOMAIN <<>> = {}
  OBVIOUS
<1>3. Truthful(<<>>)
  <2>1. Cardinality(appended) \in Nat
    BY FS_CardinalityType DEF BacklogInv, BacklogTypes
  <2> QED BY <1>2, <2>1 DEF Truthful
<1>4. Kept(<<>>)'
  BY <1>1 DEF Kept
<1> QED BY <1>1, <1>2, <1>3, <1>4, JoinStep

LEMMA ReportKeeps == ASSUME BacklogInv, NEW b \in Builders, Report(b) PROVE BacklogInv'
<1>1. /\ BacklogTypes /\ \A c \in Builders : BuilderAt(c)
      /\ \A l \in Lists : Truthful(l) /\ Kept(l)
      /\ AppendersMet
  BY DEF BacklogInv
<1>2. /\ doing[b] = "report" /\ doing'[b] = "recall" /\ doing' \in [Builders -> CycleSteps]
      /\ \A c \in Builders \ {b} : doing'[c] = doing[c]
  <2>1. "recall" \in CycleSteps /\ Does(b, "report", "recall")
    BY DEF CycleSteps, Report
  <2> QED BY <1>1, <2>1, Moves
<1>3. /\ UNCHANGED <<live, receipts, history, item, outcome, read, cycle, appended>>
      /\ latest' = b /\ excused \subseteq excused'
      /\ Filing # {} => Filing \cup {b} \subseteq excused'
  BY DEF Report
<1>4. BacklogTypes'
  BY <1>1, <1>2, <1>3 DEF BacklogTypes
<1>5. \A c \in Builders : BuilderAt(c)'
  <2>1. BuilderAt(b)'
    BY <1>1, <1>2, <1>3 DEF BuilderAt
  <2>2. ASSUME NEW c \in Builders \ {b} PROVE BuilderAt(c)'
    BY <1>1, <1>2, <1>3, BuilderStays
  <2> QED BY <2>1, <2>2
<1>6. \A l \in Lists' : Truthful(l)' /\ Kept(l)'
  <2>1. \A c \in Builders : doing'[c] = "append" => doing[c] = "append" /\ read'[c] = read[c]
    BY <1>2, <1>3
  <2> QED BY <1>1, <1>3, <2>1, ListsStay
<1>7. AppendersMet'
  <2>1. Appending' \subseteq Appending
    BY <1>2 DEF Appending
  <2> QED BY <1>1, <1>3, <2>1, MetStays
<1>8. LatestAt'
  <2>1. Filing' \subseteq Filing \cup {b}
    BY <1>2 DEF Filing
  <2>2. ASSUME NEW c \in Filing', c # b PROVE b \in excused'
    BY <1>3, <2>1, <2>2
  <2> QED BY <1>2, <1>3, <2>2 DEF LatestAt
<1>9. HistoryFollowsLatest'
  BY <1>2, <1>3 DEF HistoryFollowsLatest
<1> QED BY <1>4, <1>5, <1>6, <1>7, <1>8, <1>9 DEF BacklogInv

LEMMA FileKeeps == ASSUME BacklogInv, NEW b \in Builders, File(b) PROVE BacklogInv'
<1>1. /\ BacklogTypes /\ \A c \in Builders : BuilderAt(c)
      /\ \A l \in Lists : Truthful(l) /\ Kept(l)
      /\ AppendersMet /\ LatestAt /\ HistoryFollowsLatest
  BY DEF BacklogInv
<1>2. /\ doing[b] = "file" /\ doing'[b] = "done" /\ doing' \in [Builders -> CycleSteps]
      /\ \A c \in Builders \ {b} : doing'[c] = doing[c]
  <2>1. "done" \in CycleSteps /\ Does(b, "file", "done")
    BY DEF CycleSteps, File
  <2> QED BY <1>1, <2>1, Moves
<1>3. /\ UNCHANGED <<live, receipts, latest, item, outcome, cycle, appended, excused>>
      /\ history' = Front(<<b>> \o read[b], KeepReports) /\ read' = [read EXCEPT ![b] = <<>>]
  BY DEF File, backlogHistory
<1>4. /\ read' \in [Builders -> Seq(ReceiptRow) \cup Seq(Builders)]
      /\ \A c \in Builders \ {b} : read'[c] = read[c]
  <2>1. <<>> \in Seq(Builders)
    OBVIOUS
  <2> QED BY <1>1, <1>3, <2>1 DEF BacklogTypes
<1>5. history' \in Seq(Builders) /\ Len(history') <= KeepReports /\ Head(history') = b
  <2>1. read[b] \in Seq(Builders)
    BY <1>1, <1>2 DEF BuilderAt
  <2> DEFINE long == <<b>> \o read[b]
  <2>2. long \in Seq(Builders) /\ Len(long) = Len(read[b]) + 1 /\ long[1] = b /\ Len(read[b]) \in Nat
    BY <2>1, InFront
  <2>3. history' = Front(long, KeepReports)
    BY <1>3
  <2> HIDE DEF long
  <2>4. /\ history' \in Seq(Builders)
        /\ Len(history') = IF Len(long) < KeepReports THEN Len(long) ELSE KeepReports
        /\ \A k \in 1..Len(history') : history'[k] = long[k]
    BY <2>2, <2>3, BacklogConstants, FrontTyped
  <2>5. Len(history') <= KeepReports /\ 1 \in 1..Len(history') /\ Len(history') >= 1
    BY <2>2, <2>4, BacklogConstants
  <2>6. history'[1] = b
    BY <2>2, <2>4, <2>5
  <2>7. Head(history') = history'[1]
    OBVIOUS
  <2> QED BY <2>4, <2>5, <2>6, <2>7
<1>6. BacklogTypes'
  BY <1>1, <1>2, <1>3, <1>4, <1>5 DEF BacklogTypes
<1>7. \A c \in Builders : BuilderAt(c)'
  <2>1. BuilderAt(b)'
    BY <1>1, <1>2, <1>3 DEF BuilderAt
  <2>2. ASSUME NEW c \in Builders \ {b} PROVE BuilderAt(c)'
    BY <1>1, <1>2, <1>3, <1>4, BuilderStays
  <2> QED BY <2>1, <2>2
<1>8. \A l \in Lists' : Truthful(l)' /\ Kept(l)'
  <2>1. \A c \in Builders : doing'[c] = "append" => doing[c] = "append" /\ read'[c] = read[c]
    BY <1>2, <1>4
  <2> QED BY <1>1, <1>3, <2>1, ListsStay
<1>9. Appending' \subseteq Appending /\ Filing' \subseteq Filing
  BY <1>2 DEF Appending, Filing
<1>10. AppendersMet'
  BY <1>1, <1>3, <1>9, MetStays
<1>11. LatestAt'
  <2>1. latest # NoBuilder => doing'[latest] \in {"recall", "file", "done"}
    BY <1>1, <1>2 DEF LatestAt, BacklogTypes
  <2> QED BY <1>1, <1>3, <1>9, <2>1, LatestStays
<1>12. HistoryFollowsLatest'
  <2> SUFFICES ASSUME latest # NoBuilder, latest \notin excused PROVE Head(history') = latest
    BY <1>3 DEF HistoryFollowsLatest
  <2>1. b \in Filing
    BY <1>2 DEF Filing
  <2>2. latest = b
    BY <1>1, <2>1 DEF LatestAt
  <2> QED BY <1>5, <2>2
<1> QED BY <1>6, <1>7, <1>8, <1>10, <1>11, <1>12 DEF BacklogInv

\* The receipt of a builder that met no other stays until Keep newer ones are there.
LEMMA Append1Keeps == ASSUME BacklogInv, NEW b \in Builders, Append1(b) PROVE BacklogInv'
<1>1. /\ BacklogTypes /\ \A c \in Builders : BuilderAt(c)
      /\ \A l \in Lists : Truthful(l) /\ Kept(l)
      /\ AppendersMet /\ LatestAt /\ HistoryFollowsLatest
  BY DEF BacklogInv
<1>2. /\ doing[b] = "append" /\ doing'[b] = "end" /\ doing' \in [Builders -> CycleSteps]
      /\ \A c \in Builders \ {b} : doing'[c] = doing[c]
  <2>1. "end" \in CycleSteps /\ Does(b, "append", "end")
    BY DEF CycleSteps, Append1
  <2> QED BY <1>1, <2>1, Moves
<1> DEFINE ownReceipt == Receipt(b, item[b], outcome[b] = "verified")
<1>3. /\ UNCHANGED <<live, latest, history, item, outcome, cycle, excused>>
      /\ appended' = appended \cup {b} /\ read' = [read EXCEPT ![b] = <<>>]
      /\ receipts' = Front(<<ownReceipt>> \o read[b], Keep)
  BY DEF Append1
<1>4. /\ read' \in [Builders -> Seq(ReceiptRow) \cup Seq(Builders)]
      /\ \A c \in Builders \ {b} : read'[c] = read[c]
  <2>1. <<>> \in Seq(Builders)
    OBVIOUS
  <2> QED BY <1>1, <1>3, <2>1 DEF BacklogTypes
<1>5. /\ IsFiniteSet(appended') /\ Cardinality(appended) \in Nat
      /\ Cardinality(appended') = Cardinality(appended) + 1
  <2>1. b \notin appended
    BY <1>1, <1>2 DEF BuilderAt
  <2>2. IsFiniteSet(appended)
    BY <1>1 DEF BacklogTypes
  <2> QED BY <1>3, <2>1, <2>2, FS_AddElement, FS_CardinalityType
<1> DEFINE old == read[b]
           long == <<ownReceipt>> \o old
<1>6. /\ old \in Seq(ReceiptRow) /\ Truthful(old) /\ Kept(old)
      /\ DOMAIN old = 1..Len(old) /\ Len(old) <= Cardinality(appended)
  <2>1. old \in Seq(ReceiptRow)
    BY <1>1, <1>2 DEF BuilderAt
  <2>2. old \in Lists
    BY <1>2 DEF Lists, Appending
  <2>3. DOMAIN old = 1..Len(old)
    BY <2>1, LenProperties
  <2> QED BY <1>1, <2>1, <2>2, <2>3 DEF Truthful
<1>7. /\ ownReceipt \in ReceiptRow /\ ownReceipt.by = b
      /\ ownReceipt.advances = (outcome[b] = "verified")
  BY <1>1, <1>2 DEF BuilderAt, ReceiptRow, Receipt
<1>8. /\ long \in Seq(ReceiptRow) /\ Len(long) = Len(old) + 1 /\ long[1] = ownReceipt
      /\ \A k \in 1..Len(old) : long[k + 1] = old[k]
      /\ Len(old) \in Nat
  BY <1>6, <1>7, InFront
<1>9. receipts' = Front(long, Keep)
  BY <1>3
<1> HIDE DEF ownReceipt, old, long
<1>10. /\ receipts' \in Seq(ReceiptRow)
       /\ Len(receipts') = IF Len(long) < Keep THEN Len(long) ELSE Keep
       /\ \A k \in 1..Len(receipts') : receipts'[k] = long[k]
  BY <1>8, <1>9, BacklogConstants, FrontTyped
<1>11. /\ Len(receipts') <= Keep /\ Len(receipts') <= Len(old) + 1 /\ Len(receipts') \in Nat
       /\ Len(receipts') >= 1 /\ Keep \in Nat
       /\ \A n \in Nat : n <= Len(old) => n + 1 <= Len(receipts') \/ n + 1 > Keep
  BY <1>8, <1>10, BacklogConstants
<1>12. DOMAIN receipts' = 1..Len(receipts')
  BY <1>10, LenProperties
<1>13. \A k \in 1..Len(receipts') :
         receipts'[k] = ownReceipt \/ \E j \in 1..Len(old) : receipts'[k] = old[j]
  <2> TAKE k \in 1..Len(receipts')
  <2>1. CASE k = 1
    BY <1>8, <1>10, <2>1
  <2>2. CASE k # 1
    <3>1. k - 1 \in 1..Len(old) /\ (k - 1) + 1 = k
      BY <1>8, <1>11, <2>2
    <3>2. long[(k - 1) + 1] = old[k - 1]
      BY <1>8, <3>1
    <3> QED BY <1>10, <3>1, <3>2
  <2> QED BY <2>1, <2>2
<1>14. BacklogTypes'
  BY <1>1, <1>2, <1>3, <1>4, <1>5, <1>10, <1>11 DEF BacklogTypes
<1>15. \A c \in Builders : BuilderAt(c)'
  <2>1. BuilderAt(b)'
    BY <1>1, <1>2, <1>3 DEF BuilderAt
  <2>2. ASSUME NEW c \in Builders \ {b} PROVE BuilderAt(c)'
    BY <1>1, <1>2, <1>3, <1>4, BuilderStays
  <2> QED BY <2>1, <2>2
<1>16. Truthful(receipts)'
  <2>1. Len(receipts') <= Cardinality(appended')
    BY <1>5, <1>6, <1>8, <1>11
  <2>2. ASSUME NEW k \in DOMAIN receipts'
        PROVE  /\ receipts'[k].by \in appended'
               /\ receipts'[k].advances => outcome'[receipts'[k].by] = "verified"
    <3>1. CASE receipts'[k] = ownReceipt
      BY <1>3, <1>7, <3>1
    <3>2. ASSUME NEW j \in 1..Len(old), receipts'[k] = old[j]
          PROVE  /\ receipts'[k].by \in appended'
                 /\ receipts'[k].advances => outcome'[receipts'[k].by] = "verified"
      BY <1>3, <1>6, <3>2 DEF Truthful
    <3> QED BY <1>12, <1>13, <3>1, <3>2
  <2> QED BY <2>1, <2>2 DEF Truthful
<1>17. Kept(receipts)'
  <2> SUFFICES ASSUME NEW c \in appended', c \notin excused, outcome[c] = "verified"
               PROVE  \/ \E k \in DOMAIN receipts' : receipts'[k] = Receipt(c, item[c], TRUE)
                      \/ Cardinality(appended') > Keep
    BY <1>3 DEF Kept, Receipt
  <2>1. CASE c = b
    <3>1. ownReceipt = Receipt(c, item[c], TRUE)
      BY <2>1 DEF ownReceipt
    <3>2. 1 \in DOMAIN receipts' /\ receipts'[1] = ownReceipt
      BY <1>8, <1>10, <1>11, <1>12
    <3> QED BY <3>1, <3>2
  <2>2. CASE c # b
    <3>1. c \in appended \ excused
      BY <1>3, <2>2
    <3>2. \/ \E k \in 1..Len(old) : old[k] = Receipt(c, item[c], TRUE)
          \/ Cardinality(appended) > Keep
      BY <1>6, <3>1 DEF Kept
    <3>3. CASE Cardinality(appended) > Keep
      <4>1. Cardinality(appended') > Keep
        BY <1>5, <1>11, <3>3
      <4> QED BY <4>1
    <3>4. ASSUME NEW k \in 1..Len(old), old[k] = Receipt(c, item[c], TRUE)
          PROVE  \/ \E j \in DOMAIN receipts' : receipts'[j] = Receipt(c, item[c], TRUE)
                 \/ Cardinality(appended') > Keep
      <4>1. k \in Nat /\ k <= Len(old) /\ k + 1 >= 1
        BY <1>8
      <4>2. CASE k + 1 <= Len(receipts')
        <5>1. k + 1 \in 1..Len(receipts')
          BY <1>11, <4>1, <4>2
        <5>2. receipts'[k + 1] = old[k]
          BY <1>8, <1>10, <5>1
        <5> QED BY <1>12, <3>4, <5>1, <5>2
      <4>3. CASE k + 1 > Keep
        <5>1. Len(old) <= Cardinality(appended)
          BY <1>6
        <5>2. Cardinality(appended') > Keep
          BY <1>5, <1>8, <1>11, <4>1, <4>3, <5>1
        <5> QED BY <5>2
      <4> QED BY <1>11, <4>1, <4>2, <4>3
    <3> QED BY <3>2, <3>3, <3>4
  <2> QED BY <2>1, <2>2
<1>18. ASSUME NEW c \in Appending' PROVE Truthful(read[c])' /\ Kept(read[c])'
  <2>1. c \in Appending \ {b} /\ b \in Appending /\ b \in excused
    BY <1>1, <1>2 DEF Appending, AppendersMet
  <2>2. read'[c] = read[c]
    BY <1>4, <2>1 DEF Appending
  <2>3. Truthful(read[c]) /\ Kept(read[c])
    BY <1>1, <2>1 DEF Lists
  <2>4. Len(read[c]) \in Nat
    <3>1. read[c] \in Seq(ReceiptRow)
      BY <1>1, <2>1 DEF Appending, BuilderAt
    <3> QED BY <3>1, LenProperties
  <2>5. Truthful(read[c])'
    <3>1. Len(read'[c]) <= Cardinality(appended')
      BY <1>5, <2>2, <2>3, <2>4 DEF Truthful
    <3> QED BY <1>3, <2>2, <2>3, <3>1 DEF Truthful
  <2>6. Kept(read[c])'
    <3>1. Cardinality(appended) > Keep => Cardinality(appended') > Keep
      BY <1>5, <1>11
    <3>2. appended' \ excused' \subseteq appended \ excused
      BY <1>3, <2>1
    <3> QED BY <1>3, <2>2, <2>3, <3>1, <3>2 DEF Kept, Receipt
  <2> QED BY <2>5, <2>6
<1>19. \A l \in Lists' : Truthful(l)' /\ Kept(l)'
  <2> SUFFICES ASSUME NEW l \in Lists' PROVE Truthful(l)' /\ Kept(l)'
    OBVIOUS
  <2>1. CASE l = receipts'
    BY <1>16, <1>17, <2>1 DEF Truthful, Kept, Receipt
  <2>2. ASSUME NEW c \in Appending', l = read'[c] PROVE Truthful(l)' /\ Kept(l)'
    BY <1>18, <2>2 DEF Truthful, Kept, Receipt
  <2> QED BY <2>1, <2>2 DEF Lists
<1>20. Appending' \subseteq Appending /\ Filing' \subseteq Filing
  BY <1>2 DEF Appending, Filing
<1>21. AppendersMet'
  BY <1>1, <1>3, <1>20, MetStays
<1>22. latest # NoBuilder => latest \in Builders \ {b}
  BY <1>1, <1>2 DEF BacklogTypes, LatestAt
<1>23. LatestAt'
  <2>1. latest # NoBuilder => doing'[latest] \in {"recall", "file", "done"}
    BY <1>1, <1>2, <1>22 DEF LatestAt
  <2> QED BY <1>1, <1>3, <1>20, <2>1, LatestStays
<1>24. HistoryFollowsLatest'
  BY <1>1, <1>2, <1>3, <1>22 DEF HistoryFollowsLatest
<1> QED BY <1>14, <1>15, <1>19, <1>21, <1>23, <1>24 DEF BacklogInv

LEMMA BacklogStep == BacklogInv /\ [BacklogNext]_backlogVars => BacklogInv'
<1> SUFFICES ASSUME BacklogInv, [BacklogNext]_backlogVars PROVE BacklogInv'
  OBVIOUS
<1>1. CASE UNCHANGED backlogVars
  <2>1. UNCHANGED <<live, receipts, latest, history, doing, item, outcome, read, cycle, appended, excused>>
    BY <1>1 DEF backlogVars, stored, builderVars, backlogHistory
  <2>2. BacklogTypes' /\ AppendersMet' /\ LatestAt' /\ HistoryFollowsLatest'
    BY <2>1 DEF BacklogInv, BacklogTypes, AppendersMet, LatestAt, HistoryFollowsLatest, Appending, Filing
  <2>3. \A b \in Builders : BuilderAt(b)'
    BY <2>1, BuilderStays DEF BacklogInv
  <2>4. \A list \in Lists' : Truthful(list)' /\ Kept(list)'
    BY <2>1, ListsStay DEF BacklogInv
  <2> QED BY <2>2, <2>3, <2>4 DEF BacklogInv
<1>2. ASSUME NEW i \in AnItem, Deploy(i) PROVE BacklogInv'
  BY <1>2, DeployKeeps
<1>3. ASSUME NEW b \in Builders,
             \/ Decide(b) \/ VerifyItem(b) \/ Recollect(b) \/ RecollectFails(b) \/ Append1(b)
             \/ AppendFails(b) \/ EndCycle(b) \/ Report(b) \/ Recall(b) \/ File(b) \/ ReportFails(b)
      PROVE  BacklogInv'
  BY <1>3, DecideKeeps, VerifyItemKeeps, RecollectKeeps, RecollectFailsKeeps, Append1Keeps,
     AppendFailsKeeps, EndCycleKeeps, ReportKeeps, RecallKeeps, FileKeeps, ReportFailsKeeps
<1> QED BY <1>1, <1>2, <1>3 DEF BacklogNext

\* The inductive invariant of the build cycles.
THEOREM BacklogInvariance == BacklogSpec => []BacklogInv
<1> QED BY BacklogInitial, BacklogStep, PTL DEF BacklogSpec

\* A run that reports progress left its receipt, a receipt that advances the backlog is
\* true, and the history begins with the report shown as the latest, unless two builders
\* met over a list or a statement on it failed (appendFeatureReceipt, writeStrategyReport).
THEOREM CyclesRecorded == BacklogSpec => []CyclesAreRecorded
<1>1. BacklogInv => CyclesAreRecorded
  <2> SUFFICES ASSUME BacklogInv PROVE ProgressIsRecorded
    BY DEF CyclesAreRecorded, BacklogInv
  <2>1. Truthful(receipts) /\ Kept(receipts)
    BY DEF BacklogInv, Lists
  <2>2. ASSUME NEW b \in Builders, cycle[b] = "progress", b \notin excused
        PROVE  b \in appended /\ outcome[b] = "verified"
    BY <2>2 DEF BacklogInv, BuilderAt
  <2> QED BY <2>1, <2>2 DEF ProgressIsRecorded, Truthful, Kept
<1> QED BY <1>1, BacklogInvariance, PTL

-----------------------------------------------------------------------------
(* The control plane. *)

\* Every variable has its type.
EvidenceRow == [of : Features, kind : {"verdict", "measuring"}, ok : BOOLEAN, at : Nat]
CheckRow == [of : Features, ok : BOOLEAN, at : Nat, state : {"idle", "open", "closed"}]
Phases == {"idle", "linking", "features", "jobs", "metrics", "select", "store cursor",
           "store round", "done"}
Seen == [view : [Features -> FeatureRow], jobs : BOOLEAN, counts : [Stages -> Int]]

TableTypes ==
  /\ feature \in [Features -> FeatureRow] /\ feature[Codex].evidence # "none"
  /\ evidence \subseteq EvidenceRow
  /\ metric \in [Stages -> [count : Int, at : Nat]]
  /\ jobDone \in BOOLEAN
  /\ clock \in Nat
  /\ linked \in BOOLEAN
RoundTypes ==
  /\ check \in [Checks -> CheckRow]
  /\ phase \in [Rounds -> Phases]
  /\ sight \in [Rounds -> Seen]
  /\ begun \in [Rounds -> Nat]
  /\ contested \subseteq Features
  /\ torn \in BOOLEAN
  /\ drawn \in Seen
ControlTypes == TableTypes /\ RoundTypes

\* Nothing is dated later than the clock.
ClockLeads ==
  /\ \A e \in evidence : e.at <= clock
  /\ \A c \in Checks : check[c].at <= clock
  /\ \A r \in Rounds : begun[r] <= clock

\* The status of f is that of its latest verdict.
StatusAt(f) ==
  /\ feature[f].evidence \in {"verified", "stale"} => \E e \in Latest(Verdicts(f)) : e.ok
  /\ feature[f].evidence = "failed" => \E e \in Latest(Verdicts(f)) : ~e.ok
  /\ feature[f].evidence \notin {"verified", "stale", "failed"} => Verdicts(f) = {}

\* What is in flight on f will be its latest verdict when it commits.
Later(f) ==
  \A e \in Verdicts(f) :
    /\ \A c \in Open(f) : check[c].at > e.at
    /\ \A r \in Linking(f) : begun[r] > e.at

\* At most one transaction records a verdict of f.
RecordedAlone(f) ==
  /\ \A c, d \in Open(f) : c = d
  /\ \A r, q \in Linking(f) : r = q
  /\ Open(f) = {} \/ Linking(f) = {}

EvidenceAt(f) == f \notin contested => StatusAt(f) /\ Later(f) /\ RecordedAlone(f)
EvidenceIsOrdered == \A f \in Features : EvidenceAt(f)

\* Between rounds the two rows are one round's, unless they are torn.
Settled ==
  \/ torn
  \/ \E r \in Rounds : phase[r] = "store round"
  \/ cursorRow = NoCursor
  \/ cursorRow = Cursor(drawn) /\ roundRow = RoundOf(drawn)

\* A round that stored or confirmed the cursor still finds it its own while no
\* other round got as far.
Before == {"idle", "linking", "features", "jobs", "metrics", "select", "store cursor"}
CursorLatestAt(r) ==
  phase[r] \in {"store round", "done"} /\ sight[r].view # NoSight.view
    /\ (\A q \in Rounds \ {r} : phase[q] \in Before) => cursorRow = Cursor(sight[r])
CursorIsLatest == \A r \in Rounds : CursorLatestAt(r)

ControlInv == ControlTypes /\ ClockLeads /\ EvidenceIsOrdered /\ Settled /\ CursorIsLatest

-----------------------------------------------------------------------------
(* What a round selects. *)

\* Scores can be compared.
LEMMA ScoreIsNumber ==
  ASSUME NEW f, NEW row \in FeatureRow
  PROVE  Score(f, row) \in Int
<1>1. Weight(row) \in Nat /\ Confidence(row) \in Nat
  BY DEF Weight, Confidence
<1>2. Urgency(row) \in Int
  BY DEF Urgency, FeatureRow
<1>3. PICK k \in Nat : k = IF Action(f, row) = "verify" THEN 6 ELSE 1
  OBVIOUS
<1>4. PICK w \in Nat, c \in Nat, u \in Int :
        w = Weight(row) /\ c = Confidence(row) /\ u = Urgency(row)
  BY <1>1, <1>2
<1>5. Score(f, row) = w * w * c * u * k
  BY <1>3, <1>4 DEF Score
<1> QED BY <1>5

\* If anything is admissible, the round names an admissible feature that none outscores.
LEMMA FirstIsBest ==
  ASSUME NEW s, s.view \in [Features -> FeatureRow], Admissible(s) # {}
  PROVE  /\ FirstOf(Best(s)) \in Admissible(s)
         /\ \A g \in Admissible(s) :
              Score(g, s.view[g]) <= Score(FirstOf(Best(s)), s.view[FirstOf(Best(s))])
<1>1. PICK A : A = Admissible(s)
  OBVIOUS
<1>2. IsFiniteSet(A) /\ A # {} /\ A \subseteq Features
  <2>1. A \subseteq Features
    BY <1>1 DEF Admissible, Present
  <2> QED BY <1>1, <2>1, ControlAssumption, FS_Subset
<1>3. PICK w : w = [f \in A |-> Score(f, s.view[f])]
  OBVIOUS
<1>4. w \in [A -> Int] /\ \A f \in A : w[f] = Score(f, s.view[f])
  BY <1>2, <1>3, ScoreIsNumber
<1>5. PICK x \in A : \A y \in A : w[y] <= w[x]
  BY <1>2, <1>4, HighestExists
<1>6. PICK B : B = Best(s) /\ B \subseteq A /\ x \in B
  <2>1. \A g \in A : Score(g, s.view[g]) <= Score(x, s.view[x])
    BY <1>4, <1>5
  <2> QED BY <1>1, <2>1 DEF Best
<1>7. PICK v : v = [f \in B |-> 0 - Rank[f]]
  OBVIOUS
<1>8. \A f \in B : Rank[f] \in Nat
  BY <1>2, <1>6, ControlAssumption
<1>9. v \in [B -> Int] /\ \A f \in B : v[f] = 0 - Rank[f]
  BY <1>7, <1>8
<1>10. IsFiniteSet(B)
  BY <1>2, <1>6, FS_Subset
<1>11. PICK y \in B : \A g \in B : v[g] <= v[y]
  BY <1>6, <1>9, <1>10, HighestExists
<1>12. \A g \in B : Rank[y] <= Rank[g]
  BY <1>8, <1>9, <1>11
<1>13. FirstOf(B) \in B
  BY <1>11, <1>12 DEF FirstOf
<1> QED BY <1>1, <1>6, <1>13 DEF Best

-----------------------------------------------------------------------------
(* What a cursor tells of the round it was stored for. *)

\* Equal cursors agree on the rows there are, what is closed, the funnel, and on what the
\* selection reads of each row except its category.
LEMMA CursorTells ==
  ASSUME NEW s, NEW t, Cursor(s) = Cursor(t)
  PROVE  /\ s.counts = t.counts
         /\ ClosedComponents(s) = ClosedComponents(t)
         /\ Present(s.view) = Present(t.view)
         /\ \A f \in Present(s.view) :
              /\ Action(f, s.view[f]) = Action(f, t.view[f])
              /\ Component(f, s.view[f]) = Component(f, t.view[f])
              /\ s.view[f].target = t.view[f].target
              /\ Weight(s.view[f]) = Weight(t.view[f])
              /\ Confidence(s.view[f]) = Confidence(t.view[f])
              /\ Urgency(s.view[f]) = Urgency(t.view[f])
              /\ Blocked(f, s.view[f]) <=> Blocked(f, t.view[f])
              /\ s.view[f].evidence = "verified" <=> t.view[f].evidence = "verified"
<1> DEFINE Entry(f, row) ==
             [action |-> Action(f, row), component |-> Component(f, row),
              target |-> row.target,
              scores |-> <<Weight(row), Confidence(row), Urgency(row)>>,
              constraints |-> <<Protected(f), Blocked(f, row), row.evidence = "verified">>]
           Entries(u) == [f \in Present(u) |-> Entry(f, u[f])]
<1>1. /\ Cursor(s).counts = s.counts /\ Cursor(t).counts = t.counts
      /\ Cursor(s).closed = ClosedComponents(s) /\ Cursor(t).closed = ClosedComponents(t)
      /\ Cursor(s).candidates = Entries(s.view) /\ Cursor(t).candidates = Entries(t.view)
  BY DEF Cursor
<1>2. Entries(s.view) = Entries(t.view)
  BY <1>1
<1>3. Present(s.view) = Present(t.view)
  <2>1. DOMAIN Entries(s.view) = Present(s.view) /\ DOMAIN Entries(t.view) = Present(t.view)
    OBVIOUS
  <2> QED BY <1>2, <2>1
<1>4. ASSUME NEW f \in Present(s.view) PROVE Entry(f, s.view[f]) = Entry(f, t.view[f])
  <2>1. Entries(s.view)[f] = Entry(f, s.view[f]) /\ Entries(t.view)[f] = Entry(f, t.view[f])
    BY <1>3
  <2> QED BY <1>2, <2>1
<1>5. ASSUME NEW f \in Present(s.view)
      PROVE  /\ Action(f, s.view[f]) = Action(f, t.view[f])
             /\ Component(f, s.view[f]) = Component(f, t.view[f])
             /\ s.view[f].target = t.view[f].target
             /\ Weight(s.view[f]) = Weight(t.view[f])
             /\ Confidence(s.view[f]) = Confidence(t.view[f])
             /\ Urgency(s.view[f]) = Urgency(t.view[f])
             /\ Blocked(f, s.view[f]) = Blocked(f, t.view[f])
             /\ (s.view[f].evidence = "verified") = (t.view[f].evidence = "verified")
  BY <1>4
<1> QED BY <1>1, <1>3, <1>5

\* So, unless a category changed, they select the same feature, and the same task unless
\* its text changed: the digest leaves out nothing else that the selection reads.
LEMMA SameCursorSameRound ==
  ASSUME NEW s, NEW t, Cursor(s) = Cursor(t), SameCategories(s.view, t.view),
         s.view \in [Features -> FeatureRow]
  PROVE  LET a == RoundOf(s)
             b == RoundOf(t)
         IN /\ a.mode = b.mode /\ a.selected = b.selected
            /\ \/ b.mode = "build" /\ s.view[b.selected].text # t.view[b.selected].text
               \/ a = b
<1>1. /\ s.counts = t.counts
      /\ ClosedComponents(s) = ClosedComponents(t)
      /\ Present(s.view) = Present(t.view)
      /\ \A f \in Present(s.view) :
           /\ Action(f, s.view[f]) = Action(f, t.view[f])
           /\ Component(f, s.view[f]) = Component(f, t.view[f])
           /\ s.view[f].target = t.view[f].target
           /\ Weight(s.view[f]) = Weight(t.view[f])
           /\ Confidence(s.view[f]) = Confidence(t.view[f])
           /\ Urgency(s.view[f]) = Urgency(t.view[f])
           /\ Blocked(f, s.view[f]) <=> Blocked(f, t.view[f])
           /\ s.view[f].evidence = "verified" <=> t.view[f].evidence = "verified"
  BY CursorTells
<1>2. \A f \in Present(s.view) : FunnelStage(s.view[f]) = FunnelStage(t.view[f])
  BY DEF SameCategories, Present, FunnelStage
<1>3. \A f \in Present(s.view) : Score(f, s.view[f]) = Score(f, t.view[f])
  BY <1>1 DEF Score
<1>4. Admissible(s) = Admissible(t)
  BY <1>1, <1>2 DEF Admissible
<1>5. Admissible(s) \subseteq Present(s.view)
  BY DEF Admissible
<1>6. Best(s) = Best(t)
  BY <1>3, <1>4, <1>5 DEF Best
<1>7. CASE Admissible(s) = {}
  BY <1>4, <1>7 DEF RoundOf
<1>8. CASE Admissible(s) # {}
  <2>1. PICK f : f = FirstOf(Best(s))
    OBVIOUS
  <2>2. /\ RoundOf(s) = [mode |-> "build", selected |-> f, task |-> Capsule(f, s.view[f])]
        /\ RoundOf(t) = [mode |-> "build", selected |-> f, task |-> Capsule(f, t.view[f])]
    BY <1>4, <1>6, <1>8, <2>1 DEF RoundOf
  <2>3. f \in Present(s.view)
    BY <1>5, <1>8, <2>1, FirstIsBest
  <2>4. s.view[f].text = t.view[f].text => Capsule(f, s.view[f]) = Capsule(f, t.view[f])
    BY <1>1, <1>2, <2>3 DEF Capsule
  <2> QED BY <2>2, <2>4
<1> QED BY <1>7, <1>8

\* No cursor of features that were read is empty.
LEMMA RealView ==
  ASSUME NEW s, s.view[Codex].evidence # "none"
  PROVE  s.view # NoSight.view /\ Cursor(s) # NoCursor
<1>1. Codex \in Features /\ Codex \in Present(s.view)
  BY ControlAssumption DEF Present
<1>2. NoSight.view[Codex].evidence = "none"
  BY <1>1, ControlAssumption DEF NoSight, Sighting, FeatureRow
<1>3. Codex \notin Present(NoSight.view)
  BY <1>2 DEF Present
<1> QED BY <1>1, <1>2, <1>3, CursorTells DEF NoCursor

\* The types of the rows the steps read and write.
LEMMA ControlTypeFacts ==
  ASSUME ControlTypes
  PROVE  /\ feature \in [Features -> FeatureRow] /\ feature[Codex].evidence # "none"
         /\ evidence \subseteq EvidenceRow /\ metric \in [Stages -> [count : Int, at : Nat]]
         /\ jobDone \in BOOLEAN /\ clock \in Nat /\ linked \in BOOLEAN
         /\ check \in [Checks -> CheckRow] /\ phase \in [Rounds -> Phases]
         /\ sight \in [Rounds -> Seen] /\ begun \in [Rounds -> Nat]
         /\ contested \subseteq Features /\ torn \in BOOLEAN /\ drawn \in Seen
  BY DEF ControlTypes, TableTypes, RoundTypes

\* A receipt's row and what is read of it.
LEMMA ReceiptFacts ==
  ASSUME ControlTypes, NEW c \in Checks
  PROVE  /\ check[c] \in CheckRow /\ check[c].of \in Features /\ check[c].ok \in BOOLEAN
         /\ check[c].at \in Nat
<1>1. check[c] \in CheckRow
  BY ControlTypeFacts
<1> QED BY <1>1 DEF CheckRow

\* What is there to read, and what was not read yet, is of the type of a sight.
LEMMA ViewTypes ==
  /\ NoSight \in Seen
  /\ ControlTypes => Now \in Seen /\ Now.view = feature
<1>1. NoSight \in Seen
  <2>1. [f \in Features |-> [Seeds[f] EXCEPT !.evidence = "none"]] \in [Features -> FeatureRow]
    <3>1. ASSUME NEW f \in Features PROVE [Seeds[f] EXCEPT !.evidence = "none"] \in FeatureRow
      <4>1. PICK row : row = Seeds[f]
        OBVIOUS
      <4>2. row \in FeatureRow
        BY <4>1, ControlAssumption
      <4>3. [row EXCEPT !.evidence = "none"] \in FeatureRow
        BY <4>2 DEF FeatureRow
      <4> QED BY <4>1, <4>3
    <3> QED BY <3>1
  <2>2. [i \in Stages |-> Unknown] \in [Stages -> Int]
    BY DEF Unknown
  <2> QED BY <2>1, <2>2 DEF NoSight, Sighting, Seen
<1>2. ASSUME ControlTypes PROVE Now \in Seen /\ Now.view = feature
  <2>1. feature \in [Features -> FeatureRow] /\ jobDone \in BOOLEAN
    BY <1>2, ControlTypeFacts
  <2>2. [i \in Stages |-> metric[i].count] \in [Stages -> Int]
    BY <1>2, ControlTypeFacts
  <2> QED BY <2>1, <2>2 DEF Now, Sighting, Seen
<1> QED BY <1>1, <1>2

\* The initial state satisfies the invariant.
LEMMA ControlInitially == ControlInit => ControlInv
<1> SUFFICES ASSUME ControlInit PROVE ControlInv
  OBVIOUS
<1>1. ControlTypes
  <2>1. TableTypes
    <3>1. feature \in [Features -> FeatureRow] /\ feature[Codex].evidence # "none"
      BY ControlAssumption DEF ControlInit, Present
    <3>2. metric \in [Stages -> [count : Int, at : Nat]]
      BY DEF ControlInit, NoMetric, Unknown
    <3> QED BY <3>1, <3>2 DEF ControlInit, TableTypes
  <2>2. RoundTypes
    BY ViewTypes, ControlAssumption DEF ControlInit, RoundTypes, CheckRow, Idle, Phases
  <2> QED BY <2>1, <2>2 DEF ControlTypes
<1>2. ClockLeads
  BY DEF ControlInit, ClockLeads, Idle
<1>3. EvidenceIsOrdered
  <2> SUFFICES ASSUME NEW f \in Features PROVE StatusAt(f) /\ Later(f) /\ RecordedAlone(f)
    BY DEF EvidenceIsOrdered, EvidenceAt
  <2>1. Verdicts(f) = {} /\ Open(f) = {} /\ Linking(f) = {}
    BY DEF ControlInit, Verdicts, Open, Linking, Idle
  <2>2. feature[f].evidence \in {"none", "unverified", "partial"}
    BY ControlAssumption DEF ControlInit
  <2> QED BY <2>1, <2>2 DEF StatusAt, Later, RecordedAlone
<1>4. Settled /\ CursorIsLatest
  BY DEF ControlInit, Settled, CursorIsLatest, CursorLatestAt
<1> QED BY <1>1, <1>2, <1>3, <1>4 DEF ControlInv

-----------------------------------------------------------------------------
(* Evidence. *)

\* A step keeps what is known of f if it begins no transaction on f and leaves f's
\* status and verdicts.
LEMMA EvidenceKeptAt ==
  ASSUME NEW f \in Features, EvidenceAt(f),
         feature'[f].evidence = feature[f].evidence, Verdicts(f)' = Verdicts(f),
         f \in contested => f \in contested',
         \A c \in Checks : check'[c].state = "open" /\ check'[c].of = f => check'[c] = check[c],
         \A r \in Rounds : phase'[r] = "linking" => phase[r] = "linking" /\ begun'[r] = begun[r]
  PROVE  EvidenceAt(f)'
<1> SUFFICES ASSUME f \notin contested' PROVE StatusAt(f)' /\ Later(f)' /\ RecordedAlone(f)'
  BY DEF EvidenceAt
<1>1. StatusAt(f) /\ Later(f) /\ RecordedAlone(f)
  BY DEF EvidenceAt
<1>2. Open(f)' \subseteq Open(f) /\ \A c \in Open(f)' : check'[c].at = check[c].at
  BY DEF Open
<1>3. Linking(f)' \subseteq Linking(f) /\ \A r \in Linking(f)' : begun'[r] = begun[r]
  BY DEF Linking
<1>4. StatusAt(f)'
  BY <1>1 DEF StatusAt, Latest
<1>5. Later(f)'
  BY <1>1, <1>2, <1>3 DEF Later
<1>6. RecordedAlone(f)'
  BY <1>1, <1>2, <1>3 DEF RecordedAlone
<1> QED BY <1>4, <1>5, <1>6

\* So a step that changes no status, adds no verdict and begins nothing keeps all of it.
LEMMA EvidenceKept ==
  ASSUME EvidenceIsOrdered, UNCHANGED <<feature, contested>>,
         \A f \in Features : Verdicts(f)' = Verdicts(f),
         \A c \in Checks : check'[c].state = "open" => check'[c] = check[c],
         \A r \in Rounds : phase'[r] = "linking" => phase[r] = "linking" /\ begun'[r] = begun[r]
  PROVE  EvidenceIsOrdered'
<1> SUFFICES ASSUME NEW f \in Features PROVE EvidenceAt(f)'
  BY DEF EvidenceIsOrdered
<1>1. EvidenceAt(f)
  BY DEF EvidenceIsOrdered
<1> QED BY <1>1, EvidenceKeptAt

\* A step that adds no evidence adds no verdict.
LEMMA NoEvidence == UNCHANGED evidence => \A f \in Features : Verdicts(f)' = Verdicts(f)
  BY DEF Verdicts

Late == {"store round", "done"}

\* A step that stores nothing, and takes no round to its last statement, keeps what the
\* stored rows are.
LEMMA RowsKept ==
  ASSUME ControlTypes, Settled, CursorIsLatest, UNCHANGED <<cursorRow, roundRow, torn, drawn>>,
         \A r \in Rounds : phase[r] \in Late \/ phase'[r] \in Late =>
                             phase'[r] = phase[r] /\ sight'[r] = sight[r]
  PROVE  Settled' /\ CursorIsLatest'
<1>1. Settled'
  BY DEF Settled, Late
<1>2. ASSUME NEW r \in Rounds PROVE CursorLatestAt(r)'
  <2> SUFFICES ASSUME phase'[r] \in Late, sight'[r].view # NoSight.view,
                      \A q \in Rounds \ {r} : phase'[q] \in Before
               PROVE  cursorRow' = Cursor(sight'[r])
    BY DEF CursorLatestAt, Late
  <2>1. phase[r] \in Late /\ sight[r] = sight'[r]
    OBVIOUS
  <2>2. \A q \in Rounds \ {r} : phase[q] \in Before
    BY DEF Late, Before, ControlTypes, RoundTypes, Phases
  <2>3. CursorLatestAt(r)
    BY DEF CursorIsLatest
  <2> QED BY <2>1, <2>2, <2>3 DEF CursorLatestAt, Late
<1> QED BY <1>1, <1>2 DEF CursorIsLatest

\* A step that changes nothing.
LEMMA ControlStutters == ControlInv /\ UNCHANGED controlVars => ControlInv'
<1> SUFFICES ASSUME ControlInv, UNCHANGED controlVars PROVE ControlInv'
  OBVIOUS
<1>1. /\ UNCHANGED <<feature, evidence, metric, jobDone, clock, linked>>
      /\ UNCHANGED <<cursorRow, roundRow, check, phase, sight, begun, contested, torn, drawn>>
  BY DEF controlVars, controlTables
<1>2. ControlTypes' /\ ClockLeads'
  BY <1>1 DEF ControlInv, ControlTypes, TableTypes, RoundTypes, ClockLeads
<1>3. EvidenceIsOrdered'
  BY <1>1, NoEvidence, EvidenceKept DEF ControlInv
<1>4. Settled' /\ CursorIsLatest'
  BY <1>1, RowsKept DEF ControlInv
<1> QED BY <1>2, <1>3, <1>4 DEF ControlInv

\* A receipt's transaction begins.
LEMMA BeginReceiptStep ==
  ASSUME ControlInv, NEW c \in Checks, BeginReceipt(c)
  PROVE  ControlInv'
<1>0. ControlTypes /\ ClockLeads /\ EvidenceIsOrdered /\ Settled /\ CursorIsLatest
  BY DEF ControlInv
<1>1. PICK f \in Features, ok \in BOOLEAN :
        /\ clock' = clock + 1
        /\ check' = [check EXCEPT ![c] = [of |-> f, ok |-> ok, at |-> clock + 1, state |-> "open"]]
        /\ Contest(f)
        /\ UNCHANGED <<feature, evidence, metric, jobDone, linked, cursorRow, roundRow>>
        /\ UNCHANGED <<phase, sight, begun, torn, drawn>>
  BY DEF BeginReceipt, roundVars
<1>2. PICK q : q = [of |-> f, ok |-> ok, at |-> clock + 1, state |-> "open"]
  OBVIOUS
<1>3. /\ q \in CheckRow /\ q.at = clock + 1 /\ q.of = f /\ q.state = "open"
  BY <1>2, <1>0, ControlTypeFacts DEF CheckRow
<1>4. /\ check \in [Checks -> CheckRow] /\ clock \in Nat
      /\ check' = [check EXCEPT ![c] = q] /\ check'[c] = q
      /\ \A d \in Checks \ {c} : check'[d] = check[d]
  BY <1>0, <1>1, <1>2, ControlTypeFacts
<1>5. contested' \subseteq Features /\ contested \subseteq contested'
  BY <1>0, <1>1, ControlTypeFacts DEF Contest
<1>6. ControlTypes'
  <2>1. check' \in [Checks -> CheckRow] /\ clock' \in Nat
    BY <1>1, <1>3, <1>4
  <2> QED BY <2>1, <1>0, <1>1, <1>5 DEF ControlTypes, TableTypes, RoundTypes
<1>7. ClockLeads'
  <2>1. \A e \in evidence : e.at <= clock + 1
    BY <1>0, <1>4, ControlTypeFacts DEF ClockLeads, EvidenceRow
  <2>2. \A d \in Checks : check'[d].at <= clock + 1
    BY <1>0, <1>3, <1>4, ReceiptFacts DEF ClockLeads
  <2>3. \A r \in Rounds : begun[r] <= clock + 1
    BY <1>0, <1>4, ControlTypeFacts DEF ClockLeads
  <2> QED BY <2>1, <2>2, <2>3, <1>1 DEF ClockLeads
<1>8. ASSUME NEW g \in Features \ {f} PROVE EvidenceAt(g)'
  <2>1. EvidenceAt(g)
    BY <1>0 DEF EvidenceIsOrdered
  <2>2. \A d \in Checks : check'[d].state = "open" /\ check'[d].of = g => check'[d] = check[d]
    BY <1>3, <1>4
  <2> QED BY <2>1, <2>2, <1>1, <1>5, NoEvidence, EvidenceKeptAt
<1>9. EvidenceAt(f)'
  <2> SUFFICES ASSUME f \notin contested' PROVE StatusAt(f)' /\ Later(f)' /\ RecordedAlone(f)'
    BY DEF EvidenceAt
  <2>1. Open(f) = {} /\ Linking(f) = {}
    BY <1>1 DEF Contest
  <2>2. StatusAt(f) /\ Verdicts(f)' = Verdicts(f)
    BY <1>0, <1>1, <1>5, NoEvidence DEF EvidenceIsOrdered, EvidenceAt
  <2>3. Open(f)' = {c} /\ Linking(f)' = {}
    BY <2>1, <1>1, <1>3, <1>4 DEF Open, Linking
  <2>4. \A e \in Verdicts(f)' : check'[c].at > e.at
    BY <2>2, <1>0, <1>3, <1>4, ControlTypeFacts DEF ClockLeads, Verdicts, EvidenceRow
  <2>5. StatusAt(f)'
    BY <2>2, <1>1 DEF StatusAt, Latest
  <2> QED BY <2>3, <2>4, <2>5 DEF Later, RecordedAlone
<1>10. Settled' /\ CursorIsLatest'
  BY <1>0, <1>1, RowsKept
<1> QED BY <1>6, <1>7, <1>8, <1>9, <1>10 DEF ControlInv, EvidenceIsOrdered

\* A receipt's transaction ends, one way or the other.
LEMMA ReceiptClosed ==
  ASSUME ControlTypes, NEW c \in Checks, Closed(c)
  PROVE  /\ check' \in [Checks -> CheckRow]
         /\ check'[c].at = 0 /\ check'[c].state = "closed"
         /\ \A d \in Checks \ {c} : check'[d] = check[d]
         /\ \A d \in Checks : check'[d].state = "open" => d # c /\ check'[d] = check[d]
<1>1. PICK q : q = [Idle EXCEPT !.state = "closed"]
  OBVIOUS
<1>2. q \in CheckRow /\ q.at = 0 /\ q.state = "closed"
  BY <1>1, ControlAssumption DEF Idle, CheckRow
<1>3. check \in [Checks -> CheckRow] /\ check' = [check EXCEPT ![c] = q]
  BY <1>1, ControlTypeFacts DEF Closed
<1> QED BY <1>2, <1>3

\* A verdict that is committed is one of its feature and of no other.
LEMMA VerdictAdded ==
  ASSUME NEW f, NEW ok \in BOOLEAN, NEW t, evidence' = evidence \cup {Verdict(f, ok, t)}
  PROVE  /\ Verdict(f, ok, t) \in Verdicts(f)'
         /\ Verdicts(f)' = Verdicts(f) \cup {Verdict(f, ok, t)}
         /\ \A g \in Features \ {f} : Verdicts(g)' = Verdicts(g)
         /\ Verdict(f, ok, t).at = t /\ Verdict(f, ok, t).ok = ok
<1>1. PICK e : e = Verdict(f, ok, t)
  OBVIOUS
<1>2. e.of = f /\ e.kind = "verdict" /\ e.ok = ok /\ e.at = t
  BY <1>1 DEF Verdict
<1>3. evidence' = evidence \cup {e}
  BY <1>1
<1> QED BY <1>1, <1>2, <1>3 DEF Verdicts

\* A transaction that was alone on f leaves f with its verdict as the latest, and nothing
\* under way on it.
LEMMA CommitsAlone ==
  ASSUME ControlTypes, NEW f \in Features, NEW ok \in BOOLEAN, NEW t \in Nat,
         \A e \in Verdicts(f) : t > e.at,
         evidence' = evidence \cup {Verdict(f, ok, t)},
         feature'[f].evidence = IF ok THEN "verified" ELSE "failed",
         Open(f)' = {}, Linking(f)' = {}
  PROVE  EvidenceAt(f)'
<1>1. PICK e : e = Verdict(f, ok, t)
  OBVIOUS
<1>2. e.at = t /\ e.ok = ok /\ e \in Verdicts(f)' /\ Verdicts(f)' = Verdicts(f) \cup {e}
  BY <1>1, VerdictAdded
<1>3. \A d \in Verdicts(f) : d.at \in Nat
  BY ControlTypeFacts DEF Verdicts, EvidenceRow
<1>4. \A d \in Verdicts(f)' : d.at <= e.at
  BY <1>2, <1>3
<1>5. e \in Latest(Verdicts(f))'
  BY <1>2, <1>4 DEF Latest
<1>6. StatusAt(f)'
  BY <1>2, <1>5 DEF StatusAt
<1> QED BY <1>6 DEF EvidenceAt, Later, RecordedAlone

\* A receipt is committed.
LEMMA CommitReceiptStep ==
  ASSUME ControlInv, NEW c \in Checks, CommitReceipt(c)
  PROVE  ControlInv'
<1>0. ControlTypes /\ ClockLeads /\ EvidenceIsOrdered /\ Settled /\ CursorIsLatest
  BY DEF ControlInv
<1>1. PICK f \in Features, ok \in BOOLEAN, t \in Nat :
        f = check[c].of /\ ok = check[c].ok /\ t = check[c].at
  BY <1>0, ReceiptFacts
<1>2. /\ check[c].state = "open" /\ Closed(c)
      /\ evidence' = evidence \cup {Verdict(f, ok, t)}
      /\ feature' = [feature EXCEPT
           ![f].evidence = IF ok THEN "verified" ELSE "failed",
           ![f].life = IF ok /\ @ = "underway" THEN "active" ELSE @,
           ![f].open = ok \/ @]
      /\ UNCHANGED <<metric, jobDone, clock, linked, cursorRow, roundRow>>
      /\ UNCHANGED <<phase, sight, begun, contested, torn, drawn>>
  BY <1>1 DEF CommitReceipt, roundVars, histories
<1>3. /\ feature' \in [Features -> FeatureRow]
      /\ feature'[f].evidence = IF ok THEN "verified" ELSE "failed"
      /\ \A g \in Features \ {f} : feature'[g] = feature[g]
  <2>1. feature \in [Features -> FeatureRow] /\ feature[f] \in FeatureRow
    BY <1>0, ControlTypeFacts
  <2>2. PICK w : w = [feature[f] EXCEPT
                        !.evidence = IF ok THEN "verified" ELSE "failed",
                        !.life = IF ok /\ feature[f].life = "underway" THEN "active"
                                 ELSE feature[f].life,
                        !.open = ok \/ feature[f].open]
    OBVIOUS
  <2>3. w \in FeatureRow /\ w.evidence = IF ok THEN "verified" ELSE "failed"
    BY <2>1, <2>2 DEF FeatureRow
  <2>4. feature' = [feature EXCEPT ![f] = w]
    BY <2>1, <2>2, <1>2
  <2> QED BY <2>1, <2>3, <2>4
<1>4. /\ check' \in [Checks -> CheckRow] /\ check'[c].at = 0
      /\ \A d \in Checks \ {c} : check'[d] = check[d]
      /\ \A d \in Checks : check'[d].state = "open" => d # c /\ check'[d] = check[d]
  BY <1>0, <1>2, ReceiptClosed
<1>5. Verdict(f, ok, t) \in EvidenceRow /\ Verdict(f, ok, t).at = t
  BY DEF Verdict, EvidenceRow
<1>6. ControlTypes'
  <2>1. feature'[Codex].evidence # "none"
    BY <1>0, <1>3, ControlTypeFacts, ControlAssumption
  <2> QED BY <2>1, <1>0, <1>2, <1>3, <1>4, <1>5 DEF ControlTypes, TableTypes, RoundTypes
<1>7. ClockLeads'
  <2>1. t <= clock /\ clock \in Nat
    BY <1>0, <1>1, ControlTypeFacts DEF ClockLeads
  <2>2. \A e \in evidence' : e.at <= clock
    BY <2>1, <1>0, <1>2, <1>5 DEF ClockLeads
  <2>3. \A d \in Checks : check'[d].at <= clock
    BY <2>1, <1>0, <1>4 DEF ClockLeads
  <2> QED BY <2>2, <2>3, <1>0, <1>2 DEF ClockLeads
<1>8. ASSUME NEW g \in Features \ {f} PROVE EvidenceAt(g)'
  <2>1. EvidenceAt(g) /\ Verdicts(g)' = Verdicts(g)
    BY <1>0, <1>2, VerdictAdded DEF EvidenceIsOrdered
  <2> QED BY <2>1, <1>2, <1>3, <1>4, EvidenceKeptAt
<1>9. EvidenceAt(f)'
  <2> SUFFICES ASSUME f \notin contested PROVE EvidenceAt(f)'
    BY <1>2 DEF EvidenceAt
  <2>1. Later(f) /\ RecordedAlone(f) /\ c \in Open(f)
    BY <1>0, <1>1, <1>2 DEF EvidenceIsOrdered, EvidenceAt, Open
  <2>2. \A e \in Verdicts(f) : t > e.at
    BY <2>1, <1>1 DEF Later
  <2>3. Open(f)' = {}
    BY <2>1, <1>4 DEF RecordedAlone, Open
  <2>4. Linking(f)' = {}
    BY <2>1, <1>2 DEF RecordedAlone, Linking
  <2> QED BY <2>2, <2>3, <2>4, <1>0, <1>2, <1>3, CommitsAlone
<1>10. Settled' /\ CursorIsLatest'
  BY <1>0, <1>2, RowsKept
<1> QED BY <1>6, <1>7, <1>8, <1>9, <1>10 DEF ControlInv, EvidenceIsOrdered

\* A receipt's transaction is rolled back, or its feature is not known.
LEMMA DropReceiptStep ==
  ASSUME ControlInv, NEW c \in Checks, DropReceipt(c)
  PROVE  ControlInv'
<1>0. ControlTypes /\ ClockLeads /\ EvidenceIsOrdered /\ Settled /\ CursorIsLatest
  BY DEF ControlInv
<1>1. /\ Closed(c)
      /\ UNCHANGED <<feature, evidence, metric, jobDone, clock, linked, cursorRow, roundRow>>
      /\ UNCHANGED <<phase, sight, begun, contested, torn, drawn>>
  BY DEF DropReceipt, controlTables, roundVars, histories
<1>2. /\ check' \in [Checks -> CheckRow] /\ check'[c].at = 0
      /\ \A d \in Checks \ {c} : check'[d] = check[d]
      /\ \A d \in Checks : check'[d].state = "open" => check'[d] = check[d]
  BY <1>0, <1>1, ReceiptClosed
<1>3. ControlTypes'
  BY <1>0, <1>1, <1>2 DEF ControlTypes, TableTypes, RoundTypes
<1>4. ClockLeads'
  BY <1>0, <1>1, <1>2, ControlTypeFacts DEF ClockLeads
<1>5. EvidenceIsOrdered'
  BY <1>0, <1>1, <1>2, NoEvidence, EvidenceKept
<1>6. Settled' /\ CursorIsLatest'
  BY <1>0, <1>1, RowsKept
<1> QED BY <1>3, <1>4, <1>5, <1>6 DEF ControlInv

\* A feature is registered, or registered again.
LEMMA RegisterFeatureStep ==
  ASSUME ControlInv, NEW f \in Features, RegisterFeature(f)
  PROVE  ControlInv'
<1>0. ControlTypes /\ ClockLeads /\ EvidenceIsOrdered /\ Settled /\ CursorIsLatest
  BY DEF ControlInv
<1>1. PICK form \in Forms :
        /\ feature' = [feature EXCEPT ![f] = [form EXCEPT !.evidence =
             CASE feature[f].evidence = "none" -> "unverified"
               [] feature[f].evidence = "verified" -> "stale"
               [] OTHER -> feature[f].evidence]]
        /\ UNCHANGED <<evidence, metric, jobDone, clock, linked, cursorRow, roundRow>>
        /\ UNCHANGED <<check, phase, sight, begun, contested, torn, drawn>>
  BY DEF RegisterFeature, roundVars, histories
<1>2. PICK x : x = CASE feature[f].evidence = "none" -> "unverified"
                     [] feature[f].evidence = "verified" -> "stale"
                     [] OTHER -> feature[f].evidence
  OBVIOUS
<1>3. feature \in [Features -> FeatureRow] /\ feature[f] \in FeatureRow /\ form \in FeatureRow
  BY <1>0, ControlTypeFacts, ControlAssumption
<1>4. /\ x \in {"unverified", "partial", "verified", "failed", "stale"}
      /\ x \in {"verified", "stale"} => feature[f].evidence \in {"verified", "stale"}
      /\ x = "failed" => feature[f].evidence = "failed"
      /\ x \notin {"verified", "stale", "failed"} =>
           feature[f].evidence \notin {"verified", "stale", "failed"}
  BY <1>2, <1>3 DEF FeatureRow
<1>5. PICK w : w = [form EXCEPT !.evidence = x]
  OBVIOUS
<1>6. w \in FeatureRow /\ w.evidence = x
  BY <1>3, <1>4, <1>5 DEF FeatureRow
<1>7. /\ feature' = [feature EXCEPT ![f] = w] /\ feature' \in [Features -> FeatureRow]
      /\ feature'[f] = w /\ \A g \in Features \ {f} : feature'[g] = feature[g]
  BY <1>1, <1>2, <1>3, <1>5, <1>6
<1>8. ControlTypes'
  <2>1. feature'[Codex].evidence # "none"
    BY <1>0, <1>4, <1>6, <1>7, ControlTypeFacts, ControlAssumption
  <2> QED BY <2>1, <1>0, <1>1, <1>7 DEF ControlTypes, TableTypes, RoundTypes
<1>9. ClockLeads'
  BY <1>0, <1>1 DEF ClockLeads
<1>10. ASSUME NEW g \in Features \ {f} PROVE EvidenceAt(g)'
  <2>1. EvidenceAt(g)
    BY <1>0 DEF EvidenceIsOrdered
  <2> QED BY <2>1, <1>1, <1>7, NoEvidence, EvidenceKeptAt
<1>11. EvidenceAt(f)'
  <2> SUFFICES ASSUME f \notin contested PROVE StatusAt(f)' /\ Later(f)' /\ RecordedAlone(f)'
    BY <1>1 DEF EvidenceAt
  <2>1. StatusAt(f) /\ Later(f) /\ RecordedAlone(f) /\ Verdicts(f)' = Verdicts(f)
    BY <1>0, <1>1, NoEvidence DEF EvidenceIsOrdered, EvidenceAt
  <2>2. StatusAt(f)'
    BY <2>1, <1>4, <1>6, <1>7 DEF StatusAt, Latest
  <2> QED BY <2>1, <2>2, <1>1 DEF Later, RecordedAlone, Open, Linking
<1>12. Settled' /\ CursorIsLatest'
  BY <1>0, <1>1, RowsKept
<1> QED BY <1>8, <1>9, <1>10, <1>11, <1>12 DEF ControlInv, EvidenceIsOrdered

\* A run's metrics are recorded, with evidence that is no verdict.
LEMMA RecordMetricsStep ==
  ASSUME ControlInv, NEW c \in Snapshots, RecordMetrics(c)
  PROVE  ControlInv'
<1>0. ControlTypes /\ ClockLeads /\ EvidenceIsOrdered /\ Settled /\ CursorIsLatest
  BY DEF ControlInv
<1>1. PICK n \in Counted, t \in 0..clock :
        LET count == [i \in Stages |-> CASE i = 2 -> n.users [] i = 7 -> n.purchased
                                         [] OTHER -> Unknown]
        IN /\ metric' = [i \in Stages |-> IF count[i] # Unknown /\ t >= metric[i].at
                                          THEN [count |-> count[i], at |-> t] ELSE metric[i]]
           /\ evidence' = evidence \cup {Measuring(t)}
           /\ UNCHANGED <<feature, jobDone, clock, linked, cursorRow, roundRow>>
           /\ UNCHANGED <<check, phase, sight, begun, contested, torn, drawn>>
  BY DEF RecordMetrics, roundVars, histories
<1>2. clock \in Nat /\ t \in Nat /\ t <= clock
  BY <1>0, ControlTypeFacts
<1>3. PICK count : count = [i \in Stages |-> CASE i = 2 -> n.users [] i = 7 -> n.purchased
                                               [] OTHER -> Unknown]
  OBVIOUS
<1>4. \A i \in Stages : count[i] \in Int
  <2>1. n.users \in Int /\ n.purchased \in Int
    BY <1>1, ControlAssumption DEF Unknown
  <2> QED BY <2>1, <1>3 DEF Unknown
<1>5. metric' \in [Stages -> [count : Int, at : Nat]]
  <2>1. metric' = [i \in Stages |-> IF count[i] # Unknown /\ t >= metric[i].at
                                    THEN [count |-> count[i], at |-> t] ELSE metric[i]]
    BY <1>1, <1>3
  <2>2. metric \in [Stages -> [count : Int, at : Nat]]
    BY <1>0, ControlTypeFacts
  <2> QED BY <2>1, <2>2, <1>2, <1>4
<1>6. PICK e : e = Measuring(t)
  OBVIOUS
<1>7. e \in EvidenceRow /\ e.at = t /\ e.kind = "measuring"
  BY <1>2, <1>6, ControlAssumption DEF Measuring, EvidenceRow
<1>8. evidence' = evidence \cup {e}
  BY <1>1, <1>6
<1>9. ControlTypes'
  BY <1>0, <1>1, <1>5, <1>7, <1>8 DEF ControlTypes, TableTypes, RoundTypes
<1>10. ClockLeads'
  BY <1>0, <1>1, <1>2, <1>7, <1>8 DEF ClockLeads
<1>11. \A f \in Features : Verdicts(f)' = Verdicts(f)
  BY <1>7, <1>8 DEF Verdicts
<1>12. EvidenceIsOrdered'
  BY <1>0, <1>1, <1>11, EvidenceKept
<1>13. Settled' /\ CursorIsLatest'
  BY <1>0, <1>1, RowsKept
<1> QED BY <1>9, <1>10, <1>12, <1>13 DEF ControlInv

\* A writer outside reports.
LEMMA OutsideReportStep == ControlInv /\ OutsideReport => ControlInv'
<1> SUFFICES ASSUME ControlInv, OutsideReport PROVE ControlInv'
  OBVIOUS
<1>0. ControlTypes /\ ClockLeads /\ EvidenceIsOrdered /\ Settled /\ CursorIsLatest
  BY DEF ControlInv
<1>1. /\ \/ \E n \in Reported : metric' = [metric EXCEPT ![n.stage] = [count |-> n.count, at |-> clock]]
         \/ UNCHANGED metric
      /\ jobDone' \in {jobDone, TRUE}
      /\ UNCHANGED <<feature, evidence, clock, linked, cursorRow, roundRow>>
      /\ UNCHANGED <<check, phase, sight, begun, contested, torn, drawn>>
  BY DEF OutsideReport, roundVars, histories
<1>2. metric' \in [Stages -> [count : Int, at : Nat]]
  <2>1. metric \in [Stages -> [count : Int, at : Nat]] /\ clock \in Nat
    BY <1>0, ControlTypeFacts
  <2>2. ASSUME NEW n \in Reported,
               metric' = [metric EXCEPT ![n.stage] = [count |-> n.count, at |-> clock]]
        PROVE  metric' \in [Stages -> [count : Int, at : Nat]]
    <3>1. n.count \in Int
      BY ControlAssumption
    <3>2. [count |-> n.count, at |-> clock] \in [count : Int, at : Nat]
      BY <2>1, <3>1
    <3> QED BY <2>1, <2>2, <3>2
  <2> QED BY <2>1, <2>2, <1>1
<1>3. ControlTypes' /\ ClockLeads'
  BY <1>0, <1>1, <1>2 DEF ControlTypes, TableTypes, RoundTypes, ClockLeads
<1>4. EvidenceIsOrdered'
  BY <1>0, <1>1, NoEvidence, EvidenceKept
<1>5. Settled' /\ CursorIsLatest'
  BY <1>0, <1>1, RowsKept
<1> QED BY <1>3, <1>4, <1>5 DEF ControlInv

-----------------------------------------------------------------------------
(* The steps of a round. *)

\* A round goes on, and no other does.
LEMMA PhaseMoves ==
  ASSUME ControlTypes, NEW r \in Rounds, NEW from, NEW to \in Phases, Phase(r, from, to)
  PROVE  /\ phase[r] = from /\ phase'[r] = to /\ phase' \in [Rounds -> Phases]
         /\ \A q \in Rounds \ {r} : phase'[q] = phase[q]
  BY ControlTypeFacts DEF Phase

\* The identity is found linked, or cannot be.
LEMMA IdentityIsLinked ==
  ASSUME ControlInv, NEW r \in Rounds, Phase(r, "idle", "features"),
         UNCHANGED <<controlTables, check, sight, begun, edits, histories>>
  PROVE  ControlInv'
<1>0. ControlTypes /\ ClockLeads /\ EvidenceIsOrdered /\ Settled /\ CursorIsLatest
  BY DEF ControlInv
<1>1. /\ UNCHANGED <<feature, evidence, metric, jobDone, clock, linked, cursorRow, roundRow>>
      /\ UNCHANGED <<check, sight, begun, contested, torn, drawn>>
  BY DEF controlTables, histories
<1>2. /\ phase[r] = "idle" /\ phase'[r] = "features" /\ phase' \in [Rounds -> Phases]
      /\ \A q \in Rounds \ {r} : phase'[q] = phase[q]
  BY <1>0, PhaseMoves DEF Phases
<1>3. ControlTypes' /\ ClockLeads'
  BY <1>0, <1>1, <1>2 DEF ControlTypes, TableTypes, RoundTypes, ClockLeads
<1>4. EvidenceIsOrdered'
  BY <1>0, <1>1, <1>2, NoEvidence, EvidenceKept
<1>5. Settled' /\ CursorIsLatest'
  BY <1>0, <1>1, <1>2, RowsKept DEF Late
<1> QED BY <1>3, <1>4, <1>5 DEF ControlInv

\* A round begins to link the identity.
LEMMA LinkingBegins ==
  ASSUME ControlInv, NEW r \in Rounds, Phase(r, "idle", "linking"),
         clock' = clock + 1, begun' = [begun EXCEPT ![r] = clock + 1], Contest(Codex),
         UNCHANGED <<feature, evidence, metric, jobDone, snapped, linked, cursorRow, roundRow,
                     check, sight, edits, torn, drawn>>
  PROVE  ControlInv'
<1>0. ControlTypes /\ ClockLeads /\ EvidenceIsOrdered /\ Settled /\ CursorIsLatest
  BY DEF ControlInv
<1>1. UNCHANGED <<feature, evidence, metric, jobDone, linked, cursorRow, roundRow, check, sight,
                  torn, drawn>>
  OBVIOUS
<1>2. /\ phase[r] = "idle" /\ phase'[r] = "linking" /\ phase' \in [Rounds -> Phases]
      /\ \A q \in Rounds \ {r} : phase'[q] = phase[q]
  BY <1>0, PhaseMoves DEF Phases
<1>3. /\ clock \in Nat /\ clock' \in Nat /\ begun' \in [Rounds -> Nat] /\ begun'[r] = clock + 1
      /\ \A q \in Rounds \ {r} : begun'[q] = begun[q]
  BY <1>0, ControlTypeFacts
<1>4. contested' \subseteq Features /\ contested \subseteq contested' /\ Codex \in Features
  BY <1>0, ControlTypeFacts, ControlAssumption DEF Contest
<1>5. ControlTypes'
  BY <1>0, <1>1, <1>2, <1>3, <1>4 DEF ControlTypes, TableTypes, RoundTypes
<1>6. ClockLeads'
  <2>1. \A e \in evidence : e.at <= clock + 1
    BY <1>0, <1>3, ControlTypeFacts DEF ClockLeads, EvidenceRow
  <2>2. \A c \in Checks : check[c].at <= clock + 1
    BY <1>0, <1>3, ReceiptFacts DEF ClockLeads
  <2>3. \A q \in Rounds : begun'[q] <= clock + 1
    BY <1>0, <1>3, ControlTypeFacts DEF ClockLeads
  <2> QED BY <2>1, <2>2, <2>3, <1>1 DEF ClockLeads
<1>7. ASSUME NEW g \in Features \ {Codex} PROVE EvidenceAt(g)'
  <2> SUFFICES ASSUME g \notin contested' PROVE StatusAt(g)' /\ Later(g)' /\ RecordedAlone(g)'
    BY DEF EvidenceAt
  <2>1. StatusAt(g) /\ Later(g) /\ RecordedAlone(g) /\ Verdicts(g)' = Verdicts(g)
    BY <1>0, <1>1, <1>4, NoEvidence DEF EvidenceIsOrdered, EvidenceAt
  <2>2. Open(g)' = Open(g) /\ Linking(g)' = {}
    BY <1>1 DEF Open, Linking
  <2>3. StatusAt(g)'
    BY <2>1, <1>1 DEF StatusAt, Latest
  <2> QED BY <2>1, <2>2, <2>3, <1>1 DEF Later, RecordedAlone
<1>8. EvidenceAt(Codex)'
  <2> SUFFICES ASSUME Codex \notin contested'
               PROVE  StatusAt(Codex)' /\ Later(Codex)' /\ RecordedAlone(Codex)'
    BY DEF EvidenceAt
  <2>1. Open(Codex) = {} /\ Linking(Codex) = {}
    BY DEF Contest
  <2>2. StatusAt(Codex) /\ Verdicts(Codex)' = Verdicts(Codex)
    BY <1>0, <1>1, <1>4, NoEvidence DEF EvidenceIsOrdered, EvidenceAt
  <2>3. Open(Codex)' = {} /\ Linking(Codex)' = {r}
    BY <2>1, <1>1, <1>2 DEF Open, Linking
  <2>4. \A e \in Verdicts(Codex)' : begun'[r] > e.at
    BY <2>2, <1>0, <1>3, ControlTypeFacts DEF ClockLeads, Verdicts, EvidenceRow
  <2>5. StatusAt(Codex)'
    BY <2>2, <1>1 DEF StatusAt, Latest
  <2> QED BY <2>3, <2>4, <2>5 DEF Later, RecordedAlone
<1>9. Settled' /\ CursorIsLatest'
  BY <1>0, <1>1, <1>2, RowsKept DEF Late
<1> QED BY <1>5, <1>6, <1>7, <1>8, <1>9 DEF ControlInv, EvidenceIsOrdered

LEMMA SyncIdentityStep ==
  ASSUME ControlInv, NEW r \in Rounds, SyncIdentity(r)
  PROVE  ControlInv'
  BY IdentityIsLinked, LinkingBegins DEF SyncIdentity

\* The link commits with its evidence.
LEMMA LinkIdentityStep ==
  ASSUME ControlInv, NEW r \in Rounds, LinkIdentity(r)
  PROVE  ControlInv'
<1>0. ControlTypes /\ ClockLeads /\ EvidenceIsOrdered /\ Settled /\ CursorIsLatest
  BY DEF ControlInv
<1>1. /\ Phase(r, "linking", "features") /\ linked' = TRUE
      /\ evidence' = evidence \cup {Verdict(Codex, TRUE, begun[r])}
      /\ feature' = [feature EXCEPT ![Codex].evidence = "verified", ![Codex].life = "active",
                                    ![Codex].open = TRUE]
      /\ begun' = [begun EXCEPT ![r] = 0]
      /\ UNCHANGED <<metric, jobDone, clock, cursorRow, roundRow>>
      /\ UNCHANGED <<check, sight, contested, torn, drawn>>
  BY DEF LinkIdentity, histories
<1>2. /\ phase[r] = "linking" /\ phase'[r] = "features" /\ phase' \in [Rounds -> Phases]
      /\ \A q \in Rounds \ {r} : phase'[q] = phase[q]
  BY <1>0, <1>1, PhaseMoves DEF Phases
<1>3. Codex \in Features /\ begun[r] \in Nat /\ begun[r] <= clock /\ clock \in Nat
  BY <1>0, ControlTypeFacts, ControlAssumption DEF ClockLeads
<1>4. Verdict(Codex, TRUE, begun[r]) \in EvidenceRow /\ Verdict(Codex, TRUE, begun[r]).at = begun[r]
  BY <1>3 DEF Verdict, EvidenceRow
<1>5. /\ feature' \in [Features -> FeatureRow] /\ feature'[Codex].evidence = "verified"
      /\ \A g \in Features \ {Codex} : feature'[g] = feature[g]
  <2>1. feature \in [Features -> FeatureRow] /\ feature[Codex] \in FeatureRow
    BY <1>0, <1>3, ControlTypeFacts
  <2>2. PICK w : w = [feature[Codex] EXCEPT !.evidence = "verified", !.life = "active", !.open = TRUE]
    OBVIOUS
  <2>3. w \in FeatureRow /\ w.evidence = "verified"
    BY <2>1, <2>2 DEF FeatureRow
  <2>4. feature' = [feature EXCEPT ![Codex] = w]
    BY <2>1, <2>2, <1>1
  <2> QED BY <2>1, <2>3, <2>4, <1>3
<1>6. /\ begun' \in [Rounds -> Nat] /\ begun'[r] = 0
      /\ \A q \in Rounds \ {r} : begun'[q] = begun[q]
  BY <1>0, <1>1, ControlTypeFacts
<1>7. ControlTypes'
  BY <1>0, <1>1, <1>2, <1>4, <1>5, <1>6 DEF ControlTypes, TableTypes, RoundTypes
<1>8. ClockLeads'
  <2>1. \A e \in evidence' : e.at <= clock
    BY <1>0, <1>1, <1>3, <1>4 DEF ClockLeads
  <2>2. \A q \in Rounds : begun'[q] <= clock
    BY <1>0, <1>3, <1>6 DEF ClockLeads
  <2> QED BY <2>1, <2>2, <1>0, <1>1 DEF ClockLeads
<1>9. ASSUME NEW g \in Features \ {Codex} PROVE EvidenceAt(g)'
  <2>1. EvidenceAt(g) /\ Verdicts(g)' = Verdicts(g)
    BY <1>0, <1>1, VerdictAdded DEF EvidenceIsOrdered
  <2>2. \A q \in Rounds : phase'[q] = "linking" => phase[q] = "linking" /\ begun'[q] = begun[q]
    BY <1>2, <1>6
  <2> QED BY <2>1, <2>2, <1>1, <1>5, EvidenceKeptAt
<1>10. EvidenceAt(Codex)'
  <2> SUFFICES ASSUME Codex \notin contested PROVE EvidenceAt(Codex)'
    BY <1>1 DEF EvidenceAt
  <2>1. Later(Codex) /\ RecordedAlone(Codex) /\ r \in Linking(Codex)
    BY <1>0, <1>2, <1>3 DEF EvidenceIsOrdered, EvidenceAt, Linking
  <2>2. \A e \in Verdicts(Codex) : begun[r] > e.at
    BY <2>1 DEF Later
  <2>3. Open(Codex)' = {}
    BY <2>1, <1>1 DEF RecordedAlone, Open
  <2>4. Linking(Codex)' = {}
    BY <2>1, <1>2 DEF RecordedAlone, Linking
  <2>5. feature'[Codex].evidence = IF TRUE THEN "verified" ELSE "failed"
    BY <1>5
  <2> QED BY <2>2, <2>3, <2>4, <2>5, <1>0, <1>1, <1>3, CommitsAlone
<1>11. Settled' /\ CursorIsLatest'
  BY <1>0, <1>1, <1>2, RowsKept DEF Late
<1> QED BY <1>7, <1>8, <1>9, <1>10, <1>11 DEF ControlInv, EvidenceIsOrdered

\* What a round reads keeps the type, and nothing else changes.
LEMMA RoundReads ==
  ASSUME ControlInv, NEW r \in Rounds, NEW from \in Before, NEW to \in Before \ {"linking"},
         Phase(r, from, to), NEW v \in Seen, sight' = [sight EXCEPT ![r] = v],
         UNCHANGED <<controlTables, check, begun, edits, histories>>
  PROVE  ControlInv'
<1>0. ControlTypes /\ ClockLeads /\ EvidenceIsOrdered /\ Settled /\ CursorIsLatest
  BY DEF ControlInv
<1>1. /\ UNCHANGED <<feature, evidence, metric, jobDone, clock, linked, cursorRow, roundRow>>
      /\ UNCHANGED <<check, begun, contested, torn, drawn>>
  BY DEF controlTables, histories
<1>2. /\ phase[r] = from /\ phase'[r] = to /\ phase' \in [Rounds -> Phases]
      /\ \A q \in Rounds \ {r} : phase'[q] = phase[q]
  <2>1. to \in Phases
    BY DEF Phases, Before
  <2> QED BY <2>1, <1>0, PhaseMoves
<1>3. /\ sight' \in [Rounds -> Seen] /\ \A q \in Rounds \ {r} : sight'[q] = sight[q]
  BY <1>0, ControlTypeFacts
<1>4. ControlTypes' /\ ClockLeads'
  BY <1>0, <1>1, <1>2, <1>3 DEF ControlTypes, TableTypes, RoundTypes, ClockLeads
<1>5. EvidenceIsOrdered'
  BY <1>0, <1>1, <1>2, NoEvidence, EvidenceKept
<1>6. Settled' /\ CursorIsLatest'
  BY <1>0, <1>1, <1>2, <1>3, RowsKept DEF Late, Before
<1> QED BY <1>4, <1>5, <1>6 DEF ControlInv

LEMMA ReadFeaturesStep ==
  ASSUME ControlInv, NEW r \in Rounds, ReadFeatures(r)
  PROVE  ControlInv'
<1>1. sight \in [Rounds -> Seen] /\ sight[r] \in Seen /\ feature \in [Features -> FeatureRow]
  BY ControlTypeFacts DEF ControlInv
<1>2. PICK v : v = [sight[r] EXCEPT !.view = feature]
  OBVIOUS
<1>3. v \in Seen
  BY <1>1, <1>2 DEF Seen
<1>4. sight' = [sight EXCEPT ![r] = v]
  BY <1>1, <1>2 DEF ReadFeatures
<1> QED BY <1>3, <1>4, RoundReads DEF ReadFeatures, Before

LEMMA ReadJobsStep ==
  ASSUME ControlInv, NEW r \in Rounds, ReadJobs(r)
  PROVE  ControlInv'
<1>1. sight \in [Rounds -> Seen] /\ sight[r] \in Seen /\ jobDone \in BOOLEAN
  BY ControlTypeFacts DEF ControlInv
<1>2. PICK v : v = [sight[r] EXCEPT !.jobs = jobDone]
  OBVIOUS
<1>3. v \in Seen
  BY <1>1, <1>2 DEF Seen
<1>4. sight' = [sight EXCEPT ![r] = v]
  BY <1>1, <1>2 DEF ReadJobs
<1> QED BY <1>3, <1>4, RoundReads DEF ReadJobs, Before

LEMMA ReadMetricsStep ==
  ASSUME ControlInv, NEW r \in Rounds, ReadMetrics(r)
  PROVE  ControlInv'
<1>1. sight \in [Rounds -> Seen] /\ sight[r] \in Seen /\ Now.counts \in [Stages -> Int]
  BY ControlTypeFacts, ViewTypes DEF ControlInv, Seen
<1>2. PICK v : v = [sight[r] EXCEPT !.counts = Now.counts]
  OBVIOUS
<1>3. v \in Seen
  BY <1>1, <1>2 DEF Seen
<1>4. sight' = [sight EXCEPT ![r] = v]
  BY <1>1, <1>2 DEF ReadMetrics
<1> QED BY <1>3, <1>4, RoundReads DEF ReadMetrics, Before

\* The round is selected: it is stored, or the cursor is found to be its own already.
LEMMA SelectRoundStep ==
  ASSUME ControlInv, NEW r \in Rounds, Select(r)
  PROVE  ControlInv'
<1>0. ControlTypes /\ ClockLeads /\ EvidenceIsOrdered /\ Settled /\ CursorIsLatest
  BY DEF ControlInv
<1>1. /\ Phase(r, "select", IF cursorRow = Cursor(sight[r]) THEN "done" ELSE "store cursor")
      /\ UNCHANGED <<feature, evidence, metric, jobDone, clock, linked>>
      /\ UNCHANGED <<cursorRow, roundRow, check, sight, begun, contested, torn, drawn>>
  BY DEF Select, controlTables, histories
<1>2. /\ phase[r] = "select" /\ phase'[r] \in {"done", "store cursor"}
      /\ phase'[r] = "done" => cursorRow = Cursor(sight[r])
      /\ phase' \in [Rounds -> Phases]
      /\ \A q \in Rounds \ {r} : phase'[q] = phase[q]
  BY <1>0, <1>1, PhaseMoves DEF Phases
<1>3. ControlTypes' /\ ClockLeads'
  BY <1>0, <1>1, <1>2 DEF ControlTypes, TableTypes, RoundTypes, ClockLeads
<1>4. EvidenceIsOrdered'
  BY <1>0, <1>1, <1>2, NoEvidence, EvidenceKept
<1>5. CASE phase'[r] = "store cursor"
  <2>1. Settled' /\ CursorIsLatest'
    BY <1>0, <1>1, <1>2, <1>5, RowsKept DEF Late
  <2> QED BY <2>1, <1>3, <1>4 DEF ControlInv
<1>6. CASE phase'[r] = "done"
  <2>1. Settled'
    BY <1>0, <1>1, <1>2 DEF Settled
  <2>2. CursorLatestAt(r)'
    BY <1>1, <1>2, <1>6 DEF CursorLatestAt
  <2>3. ASSUME NEW q \in Rounds \ {r} PROVE CursorLatestAt(q)'
    BY <1>6 DEF CursorLatestAt, Before
  <2> QED BY <2>1, <2>2, <2>3, <1>3, <1>4 DEF ControlInv, CursorIsLatest
<1> QED BY <1>2, <1>5, <1>6

\* The cursor is stored.
LEMMA StoreCursorStep ==
  ASSUME ControlInv, NEW r \in Rounds, StoreCursor(r)
  PROVE  ControlInv'
<1>0. ControlTypes /\ ClockLeads /\ EvidenceIsOrdered /\ Settled /\ CursorIsLatest
  BY DEF ControlInv
<1>1. /\ Phase(r, "store cursor", "store round") /\ cursorRow' = Cursor(sight[r])
      /\ UNCHANGED <<feature, evidence, metric, jobDone, clock, linked, roundRow>>
      /\ UNCHANGED <<check, sight, begun, contested, torn, drawn>>
  BY DEF StoreCursor, histories
<1>2. /\ phase[r] = "store cursor" /\ phase'[r] = "store round" /\ phase' \in [Rounds -> Phases]
      /\ \A q \in Rounds \ {r} : phase'[q] = phase[q]
  BY <1>0, <1>1, PhaseMoves DEF Phases
<1>3. ControlTypes' /\ ClockLeads'
  BY <1>0, <1>1, <1>2 DEF ControlTypes, TableTypes, RoundTypes, ClockLeads
<1>4. EvidenceIsOrdered'
  BY <1>0, <1>1, <1>2, NoEvidence, EvidenceKept
<1>5. Settled'
  BY <1>2 DEF Settled
<1>6. CursorLatestAt(r)'
  BY <1>1 DEF CursorLatestAt
<1>7. ASSUME NEW q \in Rounds \ {r} PROVE CursorLatestAt(q)'
  BY <1>2 DEF CursorLatestAt, Before
<1> QED BY <1>3, <1>4, <1>5, <1>6, <1>7 DEF ControlInv, CursorIsLatest

\* The round is stored: unless another one stores as well, both rows are its own.
LEMMA StoreRoundStep ==
  ASSUME ControlInv, NEW r \in Rounds, StoreRound(r)
  PROVE  ControlInv'
<1>0. ControlTypes /\ ClockLeads /\ EvidenceIsOrdered /\ Settled /\ CursorIsLatest
  BY DEF ControlInv
<1>1. /\ Phase(r, "store round", "done") /\ roundRow' = RoundOf(sight[r])
      /\ torn' = (Storing # {r} \/ cursorRow # Cursor(sight[r])) /\ drawn' = sight[r]
      /\ UNCHANGED <<feature, evidence, metric, jobDone, clock, linked, cursorRow>>
      /\ UNCHANGED <<check, sight, begun, contested>>
  BY DEF StoreRound
<1>2. /\ phase[r] = "store round" /\ phase'[r] = "done" /\ phase' \in [Rounds -> Phases]
      /\ \A q \in Rounds \ {r} : phase'[q] = phase[q]
  BY <1>0, <1>1, PhaseMoves DEF Phases
<1>3. ControlTypes' /\ ClockLeads'
  <2>1. drawn' \in Seen /\ torn' \in BOOLEAN
    BY <1>0, <1>1, ControlTypeFacts
  <2> QED BY <2>1, <1>0, <1>1, <1>2 DEF ControlTypes, TableTypes, RoundTypes, ClockLeads
<1>4. EvidenceIsOrdered'
  BY <1>0, <1>1, <1>2, NoEvidence, EvidenceKept
<1>5. Settled'
  BY <1>1 DEF Settled
<1>6. CursorLatestAt(r)'
  <2>1. CursorLatestAt(r)
    BY <1>0 DEF CursorIsLatest
  <2> QED BY <2>1, <1>1, <1>2 DEF CursorLatestAt
<1>7. ASSUME NEW q \in Rounds \ {r} PROVE CursorLatestAt(q)'
  BY <1>2 DEF CursorLatestAt, Before
<1> QED BY <1>3, <1>4, <1>5, <1>6, <1>7 DEF ControlInv, CursorIsLatest

\* A round is cut short: between its two rows, they are torn.
LEMMA RoundEndsStep ==
  ASSUME ControlInv, NEW r \in Rounds, RoundEnds(r)
  PROVE  ControlInv'
<1>0. ControlTypes /\ ClockLeads /\ EvidenceIsOrdered /\ Settled /\ CursorIsLatest
  BY DEF ControlInv
<1>1. /\ phase[r] \notin {"idle", "done"} /\ phase' = [phase EXCEPT ![r] = "done"]
      /\ sight' = [sight EXCEPT ![r] = NoSight] /\ begun' = [begun EXCEPT ![r] = 0]
      /\ torn' = (torn \/ phase[r] = "store round")
      /\ UNCHANGED <<feature, evidence, metric, jobDone, clock, linked, cursorRow, roundRow>>
      /\ UNCHANGED <<check, contested, drawn>>
  BY DEF RoundEnds, controlTables
<1>2. /\ phase' \in [Rounds -> Phases] /\ phase'[r] = "done"
      /\ sight' \in [Rounds -> Seen] /\ sight'[r] = NoSight
      /\ begun' \in [Rounds -> Nat] /\ begun'[r] = 0
      /\ \A q \in Rounds \ {r} :
           phase'[q] = phase[q] /\ sight'[q] = sight[q] /\ begun'[q] = begun[q]
  BY <1>0, <1>1, ControlTypeFacts, ViewTypes DEF Phases
<1>3. ControlTypes' /\ ClockLeads'
  <2>1. ControlTypes'
    BY <1>0, <1>1, <1>2 DEF ControlTypes, TableTypes, RoundTypes
  <2>2. /\ \A e \in evidence' : e.at <= clock'
        /\ \A c \in Checks : check'[c].at <= clock'
    BY <1>0, <1>1 DEF ClockLeads
  <2>3. \A q \in Rounds : begun'[q] <= clock'
    <3> SUFFICES ASSUME NEW q \in Rounds PROVE begun'[q] <= clock'
      OBVIOUS
    <3>1. clock \in Nat /\ begun[q] <= clock /\ clock' = clock
      BY <1>0, <1>1, ControlTypeFacts DEF ClockLeads
    <3>2. begun'[q] = 0 \/ begun'[q] = begun[q]
      BY <1>2
    <3> QED BY <3>1, <3>2
  <2> QED BY <2>1, <2>2, <2>3 DEF ClockLeads
<1>4. EvidenceIsOrdered'
  BY <1>0, <1>1, <1>2, NoEvidence, EvidenceKept
<1>5. Settled'
  BY <1>0, <1>1, <1>2 DEF Settled
<1>6. CursorLatestAt(r)'
  BY <1>2 DEF CursorLatestAt
<1>7. ASSUME NEW q \in Rounds \ {r} PROVE CursorLatestAt(q)'
  BY <1>2 DEF CursorLatestAt, Before
<1> QED BY <1>3, <1>4, <1>5, <1>6, <1>7 DEF ControlInv, CursorIsLatest

-----------------------------------------------------------------------------
\* Every step keeps the invariant.
LEMMA ControlInductive == ControlInv /\ [ControlNext]_controlVars => ControlInv'
<1> SUFFICES ASSUME ControlInv, [ControlNext]_controlVars PROVE ControlInv'
  OBVIOUS
<1>1. CASE UNCHANGED controlVars
  BY <1>1, ControlStutters
<1>2. ASSUME NEW c \in Checks, BeginReceipt(c) \/ CommitReceipt(c) \/ DropReceipt(c)
      PROVE  ControlInv'
  BY <1>2, BeginReceiptStep, CommitReceiptStep, DropReceiptStep
<1>3. ASSUME NEW f \in Features, RegisterFeature(f) PROVE ControlInv'
  BY <1>3, RegisterFeatureStep
<1>4. ASSUME NEW c \in Snapshots, RecordMetrics(c) PROVE ControlInv'
  BY <1>4, RecordMetricsStep
<1>5. CASE OutsideReport
  BY <1>5, OutsideReportStep
<1>6. ASSUME NEW r \in Rounds,
             SyncIdentity(r) \/ LinkIdentity(r) \/ ReadFeatures(r) \/ ReadJobs(r)
               \/ ReadMetrics(r) \/ Select(r) \/ StoreCursor(r) \/ StoreRound(r) \/ RoundEnds(r)
      PROVE  ControlInv'
  BY <1>6, SyncIdentityStep, LinkIdentityStep, ReadFeaturesStep, ReadJobsStep, ReadMetricsStep,
     SelectRoundStep, StoreCursorStep, StoreRoundStep, RoundEndsStep
<1> QED BY <1>1, <1>2, <1>3, <1>4, <1>5, <1>6 DEF ControlNext

\* The strengthening of the properties below holds throughout every behaviour.
THEOREM ControlInvariance == ControlSpec => []ControlInv
<1>1. ControlInit => ControlInv
  BY ControlInitially
<1>2. ControlInv /\ [ControlNext]_controlVars => ControlInv'
  BY ControlInductive
<1> QED BY <1>1, <1>2, PTL DEF ControlSpec

\* The status a feature shows is that of the verdict that began last, whatever receipts and
\* links were committed, dropped or superseded by a registration and whatever metrics were
\* recorded, unless two verdicts' transactions overlapped on the feature.
THEOREM StatusIsTheLatest == ControlSpec => []StatusFollowsEvidence
<1>1. ControlInv => StatusFollowsEvidence
  <2> SUFFICES ASSUME ControlInv, NEW f \in Features \ contested
      PROVE  CASE feature[f].evidence \in {"verified", "stale"} ->
                    \E e \in Latest(Verdicts(f)) : e.ok
               [] feature[f].evidence = "failed" -> \E e \in Latest(Verdicts(f)) : ~e.ok
               [] OTHER -> Verdicts(f) = {}
    BY DEF StatusFollowsEvidence
  <2>1. StatusAt(f)
    BY DEF ControlInv, EvidenceIsOrdered, EvidenceAt
  <2>2. CASE feature[f].evidence \in {"verified", "stale"}
    BY <2>1, <2>2 DEF StatusAt
  <2>3. CASE feature[f].evidence = "failed"
    BY <2>1, <2>3 DEF StatusAt
  <2>4. CASE feature[f].evidence \notin {"verified", "stale", "failed"}
    BY <2>1, <2>4 DEF StatusAt
  <2> QED BY <2>2, <2>3, <2>4
<1> QED BY <1>1, ControlInvariance, PTL

\* After a round that went through with nothing it read changed since, the stored round
\* selects what the present state selects, and its task is the present one, as far as the
\* cursor can tell: no category changed since the stored round was drawn, and the selected
\* feature's text did not.  And the stored cursor is the present state's.  Excepted as the
\* property says.
THEOREM BuildersSeeThePresent == ControlSpec => []StoredRoundIsPresent
<1>1. ControlInv => StoredRoundIsPresent
  <2> SUFFICES ASSUME ControlInv, NEW r \in Rounds, phase[r] = "done", sight[r] = Now,
                      ~torn, Storing = {}
      PROVE  /\ cursorRow = Cursor(Now) /\ SameCategories(drawn.view, feature) =>
                  Agrees(roundRow, Now)
             /\ (\A q \in Rounds \ {r} : phase[q] \in {"idle", "linking", "features"}) =>
                  cursorRow = Cursor(Now)
    BY DEF StoredRoundIsPresent
  <2>1. Now.view = feature /\ Now.view # NoSight.view /\ Cursor(Now) # NoCursor
    BY ControlTypeFacts, ViewTypes, RealView DEF ControlInv
  <2>2. ASSUME cursorRow = Cursor(Now), SameCategories(drawn.view, feature)
        PROVE  Agrees(roundRow, Now)
    <3>1. ~\E q \in Rounds : phase[q] = "store round"
      BY DEF Storing
    <3>2. cursorRow = Cursor(drawn) /\ roundRow = RoundOf(drawn)
      BY <2>1, <2>2, <3>1 DEF ControlInv, Settled
    <3>3. drawn.view \in [Features -> FeatureRow]
      BY ControlTypeFacts DEF ControlInv, Seen
    <3> QED BY <2>1, <2>2, <3>2, <3>3, SameCursorSameRound DEF Agrees
  <2>3. ASSUME \A q \in Rounds \ {r} : phase[q] \in {"idle", "linking", "features"}
        PROVE  cursorRow = Cursor(Now)
    <3>1. CursorLatestAt(r)
      BY DEF ControlInv, CursorIsLatest
    <3> QED BY <2>1, <2>3, <3>1 DEF CursorLatestAt, Before
  <2> QED BY <2>2, <2>3
<1> QED BY <1>1, ControlInvariance, PTL

-----------------------------------------------------------------------------
\* A round is blocked only when there is nothing a builder may do; otherwise it names
\* a feature that is admissible and that none admissible outscores.
BestOf(round, s) ==
  IF Admissible(s) = {}
  THEN round.mode = "blocked" /\ round.selected = "none"
  ELSE /\ round.mode = "build"
       /\ round.selected \in Admissible(s)
       /\ \A g \in Admissible(s) : Score(g, s.view[g]) <= Score(round.selected, s.view[round.selected])

LEMMA SelectsBest ==
  ASSUME NEW s, s.view \in [Features -> FeatureRow]
  PROVE  BestOf(RoundOf(s), s)
<1>1. CASE Admissible(s) = {}
  BY <1>1 DEF BestOf, RoundOf, NoRound
<1>2. CASE Admissible(s) # {}
  <2>1. PICK f : f = FirstOf(Best(s))
    OBVIOUS
  <2>2. RoundOf(s) = [mode |-> "build", selected |-> f, task |-> Capsule(f, s.view[f])]
    BY <1>2, <2>1 DEF RoundOf
  <2> QED BY <1>2, <2>1, <2>2, FirstIsBest DEF BestOf
<1> QED BY <1>1, <1>2

\* The funnel's frontier is the first stage that loses more than half, if there is one.
LEMMA FrontierIsFirst ==
  ASSUME NEW counts
  PROVE  \/ /\ Frontier(counts) = 0
            /\ \A i \in Stages \ {1} : ~DropsAt(counts, i)
         \/ /\ Frontier(counts) \in Stages \ {1}
            /\ DropsAt(counts, Frontier(counts))
            /\ \A i \in Stages \ {1} : DropsAt(counts, i) => Frontier(counts) <= i
<1>1. PICK D : D = {i \in Stages \ {1} : DropsAt(counts, i)}
  OBVIOUS
<1>2. CASE D = {}
  BY <1>1, <1>2 DEF Frontier
<1>3. CASE D # {}
  <2>1. D \in SUBSET (1..9) /\ 9 \in Nat
    BY <1>1 DEF Stages
  <2>2. PICK i \in D : \A j \in D : i <= j
    BY <1>3, <2>1, FirstExists
  <2>3. PICK m : m = X!Min(D)
    OBVIOUS
  <2>4. m \in D /\ \A j \in D : m <= j
    BY <2>2, <2>3 DEF X!Min
  <2>5. Frontier(counts) = m
    BY <1>1, <1>3, <2>3 DEF Frontier
  <2> QED BY <1>1, <2>4, <2>5
<1> QED BY <1>2, <1>3

\* Whenever the cursor is the present state's, no round is being stored or was cut between
\* its rows, and no category changed since the stored round was drawn, the stored round is
\* the best a builder may do now: closureRuntime.ts stores nothing for an unchanged cursor,
\* and what it left stored still names the right feature.
BuildersGetTheBest ==
  \A r \in Rounds :
    /\ phase[r] = "done" /\ sight[r] = Now /\ ~torn /\ Storing = {}
    /\ cursorRow = Cursor(Now) /\ SameCategories(drawn.view, feature)
    => BestOf(roundRow, Now)

\* StoredRoundIsPresent compares with RoundOf; what RoundOf selects is the best.
THEOREM StoredRoundIsBest == ControlSpec => []BuildersGetTheBest
<1>1. ControlInv /\ StoredRoundIsPresent => BuildersGetTheBest
  <2> SUFFICES ASSUME ControlInv, StoredRoundIsPresent, NEW r \in Rounds,
                      phase[r] = "done", sight[r] = Now, ~torn, Storing = {},
                      cursorRow = Cursor(Now), SameCategories(drawn.view, feature)
               PROVE  BestOf(roundRow, Now)
    BY DEF BuildersGetTheBest
  <2>1. Agrees(roundRow, Now)
    BY DEF StoredRoundIsPresent
  <2>2. roundRow.mode = RoundOf(Now).mode /\ roundRow.selected = RoundOf(Now).selected
    BY <2>1 DEF Agrees
  <2>3. Now.view \in [Features -> FeatureRow]
    BY ViewTypes, ControlTypeFacts DEF ControlInv
  <2>4. BestOf(RoundOf(Now), Now)
    BY <2>3, SelectsBest
  <2> QED BY <2>2, <2>4 DEF BestOf
<1> QED BY <1>1, ControlInvariance, BuildersSeeThePresent, PTL
=============================================================================
