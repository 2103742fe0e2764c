---------------------------- MODULE ControlPlane ----------------------------
(***************************************************************************)
(* The unified control plane and the closure runtime on it.  A worker      *)
(* records the receipt of a production check in one transaction            *)
(* (recordUnifiedFeatureReceipt) and the metrics of a build cycle in       *)
(* another (recordUnifiedMetricSnapshots), the owner registers features,   *)
(* and a closure round (computeClosureRuntimeRound) links the MCP          *)
(* identity, reads the features, the factory's jobs, the metrics and the   *)
(* previous cursor one by one, selects a task and, when the cursor         *)
(* changed, stores the cursor and then the round.  A transaction commits   *)
(* in one step; what it stamps is the time it began.  The protected GPT's  *)
(* row is never written by this code, so the component "protected" is      *)
(* closed, and no caller passes an active task.                            *)
(***************************************************************************)
EXTENDS Integers, FiniteSets

X == INSTANCE FiniteSetsExt

CONSTANTS Features,   \* feature keys, of seeds and of registrations
          Core,       \* CORE_FEATURES, which the component "features" needs verified
          Seeds,      \* the rows the migration inserts, Absent for the other keys
          Rank,       \* the alphabetical order of the keys
          Browser,    \* whether browser control is configured
          McpUser,    \* whether the MCP identity is configured and its user exists
          Authority,  \* RMF_OPERATOR_MAX_AUTHORITY
          Forms,      \* what a registration may state
          Counted,    \* users and purchased credits a snapshot may count
          Reported,   \* chats and paid successes an outside writer may report
          Checks,     \* receipts that are recorded
          Snapshots,  \* runs that record their metrics
          Rounds,     \* closure rounds
          MaxEdits    \* bound: registrations and reports from outside

VARIABLES feature,    \* rmf_control_features
          evidence,   \* rmf_control_feature_evidence
          metric,     \* the latest rmf_control_metric_snapshots of each funnel stage
          jobDone,    \* a job of the GPT factory completed
          snapped,    \* runs with recorded metrics
          clock,      \* transactions begun
          linked,     \* the MCP identity is linked
          cursorRow,  \* closure_runtime:cursor
          roundRow,   \* closure_runtime:latest_round
          check,      \* per receipt: its feature, verdict, transaction time and state
          phase,      \* the statement a round runs next
          sight,      \* what a round read
          begun,      \* when a round's linking transaction began
          edits,      \* registrations and reports from outside so far
          contested,  \* history: features with overlapping verdict transactions
          torn,       \* history: the stored round may not be the cursor's
          drawn       \* history: what the stored round was selected from

controlTables == <<feature, evidence, metric, jobDone, snapped, clock, linked, cursorRow, roundRow>>
controlVars == <<controlTables, check, phase, sight, begun, edits, contested, torn, drawn>>

-----------------------------------------------------------------------------
\* Rows.

Codex == "codex_agent_account"
Monetary == "monetary_intelligence"
Monitor == "feature_monitor_adder"

\* Lifecycle: underway (planned, building, testing), active, stopped (blocked,
\* retired).  Open: the access is "available".  Target: the endpoint, or the
\* feature's own key where there is none.  Text: name and acceptance.  A key
\* without a row has the evidence "none".
FeatureRow ==
  [category : {"product", "access", "agent", "gpt_factory", "analytics", "money", "integration"},
   life : {"underway", "active", "stopped"}, open : BOOLEAN, target : STRING,
   priority : 1..100, text : STRING,
   evidence : {"none", "unverified", "partial", "verified", "failed", "stale"}]
Present(view) == {f \in Features : view[f].evidence # "none"}

Unknown == -1
Stages == 1..9
NoMetric == [i \in Stages |-> [count |-> Unknown, at |-> 0]]
Sighting(view, jobs, counts) == [view |-> view, jobs |-> jobs, counts |-> counts]
NoSight == Sighting([f \in Features |-> [Seeds[f] EXCEPT !.evidence = "none"]], FALSE,
                    [i \in Stages |-> Unknown])
Now == Sighting(feature, jobDone, [i \in Stages |-> metric[i].count])

ASSUME ControlAssumption ==
  /\ IsFiniteSet(Features) /\ {Codex, Monetary} \subseteq Features /\ Core \subseteq Features
  /\ Seeds \in [Features -> FeatureRow] /\ {Codex, Monetary} \subseteq Present(Seeds)
  /\ \A f \in Features : Seeds[f].evidence \in {"none", "unverified", "partial"}
  /\ Rank \in [Features -> Nat] /\ \A f, g \in Features : Rank[f] = Rank[g] => f = g
  /\ Browser \in BOOLEAN /\ McpUser \in BOOLEAN /\ Authority \in 0..6 /\ MaxEdits \in Nat
  /\ Forms \subseteq {row \in FeatureRow : row.evidence = "unverified"}
  /\ Counted \subseteq [users : Nat \cup {Unknown}, purchased : Nat \cup {Unknown}]
  /\ Reported \subseteq [stage : {1, 8}, count : Nat]
  /\ IsFiniteSet(Checks) /\ IsFiniteSet(Rounds)

-----------------------------------------------------------------------------
\* candidateFromFeature: what one row makes of its feature.

Ready(row) == row.life = "active" /\ row.open

Component(f, row) ==
  IF f \in {Codex, "full_feature_access"} THEN "identity"
  ELSE IF row.category = "gpt_factory" THEN "gpt_factory"
  ELSE IF f = Monitor \/ row.category = "agent" THEN "monitor"
  ELSE IF row.category = "money" THEN "money" ELSE "features"

\* A money feature is never verified by the builder.
Action(f, row) ==
  CASE row.category # "money" /\ Ready(row) -> "verify"
    [] row.category = "gpt_factory" /\ ~Ready(row) -> "non_protected_gpt_factory"
    [] OTHER -> IF Component(f, row) = "identity" THEN "browser_observe" ELSE "code"

Blocked(f, row) ==
  \/ Action(f, row) \in {"browser_observe", "non_protected_gpt_factory"} /\ ~Browser
  \/ f = "affiliate_attribution"
Protected(f) == f = "rate_my_face"

Weight(row) ==
  CASE row.category \in {"money", "product"} -> 5
    [] row.category = "gpt_factory" -> 4
    [] OTHER -> 3
Confidence(row) ==
  CASE row.evidence = "verified" -> 5 [] row.evidence = "partial" -> 3 [] OTHER -> 2
Urgency(row) == IF row.priority < 5 THEN 6 - row.priority ELSE 1

\* Three times the score: a verification costs a half, other work three.
Score(f, row) ==
  Weight(row) * Weight(row) * Confidence(row) * Urgency(row)
    * (IF Action(f, row) = "verify" THEN 6 ELSE 1)

\* The position in the funnel, 0 for operations; metricFor tells the same apart.
FunnelStage(row) ==
  CASE row.category = "gpt_factory" -> 1
    [] row.category = "access" -> 2
    [] row.category = "money" -> 5
    [] row.category \in {"analytics", "agent"} -> 0
    [] OTHER -> 8

-----------------------------------------------------------------------------
\* evaluateBusinessClosure and selectClosureRuntimeRound over what was read.

\* No writer of this code grants "full_authorized": identity stays unresolved.
ClosedComponents(s) ==
  LET Verified(f) == f \in Present(s.view) /\ s.view[f].life = "active" /\ s.view[f].evidence = "verified"
  IN {c \in {"features", "gpt_factory", "monitor", "money"} :
        CASE c = "features" -> \A f \in Core : Verified(f) /\ s.view[f].open
          [] c = "gpt_factory" -> s.jobs
          [] c = "monitor" -> Monitor \in Features /\ Verified(Monitor)
          [] c = "money" -> s.counts[7] > 0}

\* Needs both neighbouring counts: unknown data makes no bottleneck.
DropsAt(counts, i) ==
  /\ counts[i - 1] > 0 /\ counts[i] # Unknown
  /\ 2 * counts[i] < counts[i - 1]
Frontier(counts) ==
  LET drops == {i \in Stages \ {1} : DropsAt(counts, i)}
  IN IF drops = {} THEN 0 ELSE X!Min(drops)

Admissible(s) ==
  {f \in Present(s.view) :
     LET row == s.view[f]
     IN /\ row.target # "blank"
        /\ (IF Action(f, row) = "verify" THEN 0 ELSE 2) <= Authority
        /\ ~Protected(f) /\ ~Blocked(f, row)
        /\ row.evidence # "verified"
        /\ Component(f, row) \notin ClosedComponents(s)
        /\ Frontier(s.counts) # 0 => FunnelStage(row) <= Frontier(s.counts)}

\* Candidates with the best score; the first by key wins a tie.
Best(s) ==
  {f \in Admissible(s) : \A g \in Admissible(s) : Score(g, s.view[g]) <= Score(f, s.view[f])}
FirstOf(keys) == CHOOSE f \in keys : \A g \in keys : Rank[f] <= Rank[g]

\* toTask: the capsule a builder works from.
Capsule(f, row) ==
  [action |-> Action(f, row), component |-> Component(f, row), target |-> row.target,
   confidence |-> Confidence(row), stage |-> FunnelStage(row), text |-> row.text]
NoCapsule == [action |-> "none", component |-> "none", target |-> "none",
           confidence |-> 0, stage |-> 0, text |-> "none"]
NoRound == [mode |-> "none", selected |-> "none", task |-> NoCapsule]

RoundOf(s) ==
  IF Admissible(s) = {} THEN [NoRound EXCEPT !.mode = "blocked"]
  ELSE LET f == FirstOf(Best(s))
       IN [mode |-> "build", selected |-> f, task |-> Capsule(f, s.view[f])]

\* stableCursor: what the digest is taken of.  It leaves out the text and the
\* stage, which the round stores.
Cursor(s) ==
  LET Before(f, g) == \/ s.view[f].priority < s.view[g].priority
                      \/ s.view[f].priority = s.view[g].priority /\ Rank[f] < Rank[g]
      Entry(f, row) == [action |-> Action(f, row), component |-> Component(f, row),
                        target |-> row.target,
                        scores |-> <<Weight(row), Confidence(row), Urgency(row)>>,
                        constraints |-> <<Protected(f), Blocked(f, row), row.evidence = "verified">>]
  IN [closed |-> ClosedComponents(s), counts |-> s.counts,
      candidates |-> [f \in Present(s.view) |-> Entry(f, s.view[f])],
      order |-> {p \in Present(s.view) \X Present(s.view) : Before(p[1], p[2])}]
NoCursor == Cursor(NoSight)

-----------------------------------------------------------------------------
Idle == [of |-> Codex, ok |-> FALSE, at |-> 0, state |-> "idle"]

ControlInit ==
  /\ feature = Seeds
  /\ evidence = {}
  /\ metric = NoMetric
  /\ jobDone = FALSE
  /\ snapped = {}
  /\ clock = 0
  /\ linked = FALSE
  /\ cursorRow = NoCursor
  /\ roundRow = NoRound
  /\ check = [c \in Checks |-> Idle]
  /\ phase = [r \in Rounds |-> "idle"]
  /\ sight = [r \in Rounds |-> NoSight]
  /\ begun = [r \in Rounds |-> 0]
  /\ edits = 0
  /\ contested = {}
  /\ torn = FALSE
  /\ drawn = NoSight

-----------------------------------------------------------------------------
\* Evidence.

\* Transactions in flight on feature f.
Open(f) == {c \in Checks : check[c].state = "open" /\ check[c].of = f}
Linking(f) == {r \in Rounds : f = Codex /\ phase[r] = "linking"}
Contest(f) == contested' = contested \cup (IF Open(f) \cup Linking(f) = {} THEN {} ELSE {f})

Verdict(f, ok, t) == [of |-> f, kind |-> "verdict", ok |-> ok, at |-> t]
Measuring(t) == [of |-> Monetary, kind |-> "measuring", ok |-> TRUE, at |-> t]
Closed(c) == check' = [check EXCEPT ![c] = [Idle EXCEPT !.state = "closed"]]
roundVars == <<phase, sight, begun>>
histories == <<contested, torn, drawn>>

BeginReceipt(c) ==
  \E f \in Features, ok \in BOOLEAN :
    /\ check[c].state = "idle"
    /\ clock' = clock + 1
    /\ check' = [check EXCEPT ![c] = [of |-> f, ok |-> ok, at |-> clock + 1, state |-> "open"]]
    /\ Contest(f)
    /\ UNCHANGED <<feature, evidence, metric, jobDone, snapped, linked, cursorRow, roundRow,
                   roundVars, edits, torn, drawn>>

\* Mutant: only a verified receipt changes the feature's row.
CommitVerified(c) ==
  LET f == check[c].of
      ok == check[c].ok
  IN /\ check[c].state = "open"
     /\ Closed(c)
     /\ evidence' = evidence \cup {Verdict(f, ok, check[c].at)}
     /\ feature' = IF ok THEN [feature EXCEPT ![f].evidence = "verified"] ELSE feature
     /\ UNCHANGED <<metric, jobDone, snapped, clock, linked, cursorRow, roundRow,
                    roundVars, edits, histories>>

\* The evidence and the row of a known feature: a verified receipt makes it
\* available, and active unless it is blocked or retired.
CommitReceipt(c) ==
  LET f == check[c].of
      ok == check[c].ok
  IN /\ check[c].state = "open" /\ f \in Present(feature)
     /\ Closed(c)
     /\ evidence' = evidence \cup {Verdict(f, ok, check[c].at)}
     /\ feature' = [feature EXCEPT
          ![f].evidence = IF ok THEN "verified" ELSE "failed",
          ![f].life = IF ok /\ @ = "underway" THEN "active" ELSE @,
          ![f].open = ok \/ @]
     /\ UNCHANGED <<metric, jobDone, snapped, clock, linked, cursorRow, roundRow,
                    roundVars, edits, histories>>

\* The feature was not known, or the projection fails and is rolled back: the
\* run goes on.
DropReceipt(c) ==
  /\ check[c].state = "open"
  /\ Closed(c)
  /\ UNCHANGED <<controlTables, roundVars, edits, histories>>

\* registerUnifiedFeature: an upsert that makes verified evidence stale and
\* leaves other evidence as it was.
RegisterFeature(f) ==
  \E form \in Forms :
    /\ edits < MaxEdits
    /\ edits' = edits + 1
    /\ feature' = [feature EXCEPT ![f] = [form EXCEPT !.evidence =
         CASE feature[f].evidence = "none" -> "unverified"
           [] feature[f].evidence = "verified" -> "stale"
           [] OTHER -> feature[f].evidence]]
    /\ UNCHANGED <<evidence, metric, jobDone, snapped, clock, linked, cursorRow, roundRow,
                   check, roundVars, histories>>

\* A run's metrics, captured when it began, and the evidence that they are
\* measured; a run's second attempt finds them recorded, and what could not be
\* counted is not stored.
RecordMetrics(c) ==
  \E n \in Counted, t \in 0..clock :
    LET count == [i \in Stages |-> CASE i = 2 -> n.users [] i = 7 -> n.purchased [] OTHER -> Unknown]
    IN /\ c \notin snapped
       /\ snapped' = snapped \cup {c}
       /\ metric' = [i \in Stages |-> IF count[i] # Unknown /\ t >= metric[i].at
                                      THEN [count |-> count[i], at |-> t] ELSE metric[i]]
       /\ evidence' = evidence \cup {Measuring(t)}
       /\ UNCHANGED <<feature, jobDone, clock, linked, cursorRow, roundRow,
                      check, roundVars, edits, histories>>

\* Outside writers: a metric of a source this code reads only, or a factory's
\* job completed.
OutsideReport ==
  /\ edits < MaxEdits
  /\ edits' = edits + 1
  /\ \/ \E n \in Reported : metric' = [metric EXCEPT ![n.stage] = [count |-> n.count, at |-> clock]]
        /\ UNCHANGED jobDone
     \/ jobDone' = TRUE /\ UNCHANGED metric
  /\ UNCHANGED <<feature, evidence, snapped, clock, linked, cursorRow, roundRow,
                 check, roundVars, histories>>

-----------------------------------------------------------------------------
\* A closure round.

Phase(r, from, to) == phase[r] = from /\ phase' = [phase EXCEPT ![r] = to]
Storing == {r \in Rounds : phase[r] \in {"store cursor", "store round"}}

\* syncCodexMcpIdentity finds the identity linked or not configured, or begins
\* to link it.
SyncIdentity(r) ==
  \/ /\ linked \/ ~McpUser
     /\ Phase(r, "idle", "features")
     /\ UNCHANGED <<controlTables, check, sight, begun, edits, histories>>
  \/ /\ McpUser /\ ~linked
     /\ Phase(r, "idle", "linking")
     /\ clock' = clock + 1
     /\ begun' = [begun EXCEPT ![r] = clock + 1]
     /\ Contest(Codex)
     /\ UNCHANGED <<feature, evidence, metric, jobDone, snapped, linked, cursorRow, roundRow,
                    check, sight, edits, torn, drawn>>

\* The link, its evidence and the feature's row are committed together.
LinkIdentity(r) ==
  /\ Phase(r, "linking", "features")
  /\ linked' = TRUE
  /\ evidence' = evidence \cup {Verdict(Codex, TRUE, begun[r])}
  /\ feature' = [feature EXCEPT ![Codex].evidence = "verified", ![Codex].life = "active",
                                ![Codex].open = TRUE]
  /\ begun' = [begun EXCEPT ![r] = 0]
  /\ UNCHANGED <<metric, jobDone, snapped, clock, cursorRow, roundRow, check, sight, edits, histories>>

\* readUnifiedControlPlane's statements.
ReadFeatures(r) ==
  /\ Phase(r, "features", "jobs")
  /\ sight' = [sight EXCEPT ![r].view = feature]
  /\ UNCHANGED <<controlTables, check, begun, edits, histories>>
ReadJobs(r) ==
  /\ Phase(r, "jobs", "metrics")
  /\ sight' = [sight EXCEPT ![r].jobs = jobDone]
  /\ UNCHANGED <<controlTables, check, begun, edits, histories>>
ReadMetrics(r) ==
  /\ Phase(r, "metrics", "select")
  /\ sight' = [sight EXCEPT ![r].counts = Now.counts]
  /\ UNCHANGED <<controlTables, check, begun, edits, histories>>

\* Mutant: an unchanged funnel ends the round.
SelectByFunnel(r) ==
  /\ Phase(r, "select", IF cursorRow.counts = sight[r].counts THEN "done" ELSE "store cursor")
  /\ UNCHANGED <<controlTables, check, sight, begun, edits, histories>>

\* The previous cursor is read; an unchanged one ends the round.
Select(r) ==
  /\ Phase(r, "select", IF cursorRow = Cursor(sight[r]) THEN "done" ELSE "store cursor")
  /\ UNCHANGED <<controlTables, check, sight, begun, edits, histories>>

StoreCursor(r) ==
  /\ Phase(r, "store cursor", "store round")
  /\ cursorRow' = Cursor(sight[r])
  /\ UNCHANGED <<feature, evidence, metric, jobDone, snapped, clock, linked, roundRow,
                 check, sight, begun, edits, histories>>

\* The round that is stored last without another one under way makes both rows
\* its own again.
StoreRound(r) ==
  /\ Phase(r, "store round", "done")
  /\ roundRow' = RoundOf(sight[r])
  /\ torn' = (Storing # {r} \/ cursorRow # Cursor(sight[r]))
  /\ drawn' = sight[r]
  /\ UNCHANGED <<feature, evidence, metric, jobDone, snapped, clock, linked, cursorRow,
                 check, sight, begun, edits, contested>>

\* The database timeout of the route, or a statement that fails.
RoundEnds(r) ==
  /\ phase[r] \notin {"idle", "done"}
  /\ phase' = [phase EXCEPT ![r] = "done"]
  /\ sight' = [sight EXCEPT ![r] = NoSight]
  /\ begun' = [begun EXCEPT ![r] = 0]
  /\ torn' = (torn \/ phase[r] = "store round")
  /\ UNCHANGED <<controlTables, check, edits, contested, drawn>>

ControlNext ==
  \/ \E c \in Checks : BeginReceipt(c) \/ CommitReceipt(c) \/ DropReceipt(c)
  \/ \E f \in Features : RegisterFeature(f)
  \/ \E c \in Snapshots : RecordMetrics(c)
  \/ OutsideReport
  \/ \E r \in Rounds : SyncIdentity(r) \/ LinkIdentity(r) \/ ReadFeatures(r) \/ ReadJobs(r)
                       \/ ReadMetrics(r) \/ Select(r) \/ StoreCursor(r) \/ StoreRound(r) \/ RoundEnds(r)

ControlSpec == ControlInit /\ [][ControlNext]_controlVars

-----------------------------------------------------------------------------
ControlTypeOK ==
  /\ feature \in [Features -> FeatureRow]
  /\ evidence \subseteq [of : Features, kind : {"verdict", "measuring"}, ok : BOOLEAN, at : 0..clock]
  /\ metric \in [Stages -> {NoMetric[1]} \cup [count : Nat, at : 0..clock]]
  /\ jobDone \in BOOLEAN
  /\ snapped \subseteq Snapshots
  /\ clock \in 0..(Cardinality(Checks) + Cardinality(Rounds))
  /\ linked \in BOOLEAN
  /\ roundRow.mode \in {"none", "build", "blocked"} /\ roundRow.selected \in Features \cup {"none"}
  /\ check \in [Checks -> [of : Features, ok : BOOLEAN, at : 0..clock, state : {"idle", "open", "closed"}]]
  /\ edits \in 0..MaxEdits
  /\ contested \subseteq Features
  /\ torn \in BOOLEAN

\* The status a feature shows is that of its latest verdict, a receipt's or the
\* identity link's: verified or stale after one that passed, failed after one
\* that did not, and what it was seeded or registered with before any -- what a
\* metric snapshot adds to the evidence of "monetary_intelligence" is no verdict
\* -- unless two transactions recorded verdicts of the feature at the same time,
\* when the one that began first may commit last.
Verdicts(f) == {e \in evidence : e.of = f /\ e.kind = "verdict"}
Latest(rows) == {e \in rows : \A d \in rows : d.at <= e.at}
StatusFollowsEvidence ==
  \A f \in Features \ contested :
    CASE feature[f].evidence \in {"verified", "stale"} -> \E e \in Latest(Verdicts(f)) : e.ok
      [] feature[f].evidence = "failed" -> \E e \in Latest(Verdicts(f)) : ~e.ok
      [] OTHER -> Verdicts(f) = {}

\* A builder works from the stored round.  After a round that went through,
\* with nothing it read changed since and the cursor stored that of the present
\* state, the stored round selects what the present state selects -- also when
\* the call found the cursor unchanged and stored nothing -- as long as no
\* feature moved to another category since the stored round was drawn; and the
\* stored task is the present one unless the selected feature's text changed:
\* the cursor leaves both out.  If no other round got as far as its reads, the
\* cursor stored is the present one's.  Excepted: an earlier round cut between
\* its two rows, and two rounds that stored at the same time.
SameCategories(u, v) == \A f \in Features : u[f].category = v[f].category
Agrees(round, s) ==
  LET chosen == RoundOf(s)
  IN /\ round.mode = chosen.mode /\ round.selected = chosen.selected
     /\ \/ chosen.mode = "build" /\ drawn.view[chosen.selected].text # s.view[chosen.selected].text
        \/ round = chosen
StoredRoundIsPresent ==
  \A r \in Rounds :
    phase[r] = "done" /\ sight[r] = Now /\ ~torn /\ Storing = {} =>
      /\ cursorRow = Cursor(Now) /\ SameCategories(drawn.view, feature) => Agrees(roundRow, Now)
      /\ (\A q \in Rounds \ {r} : phase[q] \in {"idle", "linking", "features"}) =>
           cursorRow = Cursor(Now)
=============================================================================
