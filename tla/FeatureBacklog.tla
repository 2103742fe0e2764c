--------------------------- MODULE FeatureBacklog ---------------------------
(***************************************************************************)
(* The build cycle of the operator: a worker that runs a business_improve  *)
(* signal reads the feature receipts, decides on the first item of the     *)
(* backlog that is not shipped (decideManagerialAction), verifies it       *)
(* against production's health, appends a receipt, ends its run and        *)
(* reports a strategy.  The receipts and the history of reports are lists  *)
(* in one row of rmf_agent_context each, read, changed and written back:   *)
(* two workers can overwrite each other, and a read that fails is taken    *)
(* for an empty list.  At this commit the repository's evidence is         *)
(* complete for every item except those that need a secret, so an item is  *)
(* shipped, blocked or pending verification and nothing is dispatched.     *)
(***************************************************************************)
EXTENDS Integers, Sequences, FiniteSets

LOCAL S == INSTANCE SequencesExt

CONSTANTS Items,      \* the backlog, by priority
          NeedSecret, \* items with requires_secret
          Secrets,    \* whether the provider credentials are configured
          Host,       \* whether the production URL is known
          Builders,   \* worker calls that run a build cycle
          Keep,       \* receipts kept in the list (80 in the code)
          KeepReports,\* reports kept in the history (40 in the code)
          MaxLapses   \* bound: statements on the two lists that fail

ASSUME BacklogAssumption ==
  /\ Items \in Seq({Items[i] : i \in DOMAIN Items})
  /\ Keep \in Nat \ {0} /\ KeepReports \in Nat \ {0} /\ MaxLapses \in Nat
  /\ Secrets \in BOOLEAN /\ Host \in BOOLEAN

VARIABLES live,      \* what production's health shows, per item
          receipts,  \* feature_backlog:receipts, newest first
          latest,    \* business_strategy:latest
          history,   \* business_strategy:history, newest first
          doing,     \* the statement a builder runs next
          item,      \* the item it selected
          outcome,   \* what its cycle came to: idle, blocked, verified or failed
          read,      \* the list it read last
          cycle,     \* the status of its run
          lapses,    \* statements that failed so far
          appended,  \* history: builders whose receipt was written
          excused    \* history: builders that overlapped another or lapsed

stored == <<receipts, latest, history>>
builderVars == <<doing, item, outcome, read, cycle>>
backlogHistory == <<appended, excused>>
backlogVars == <<live, stored, builderVars, lapses, backlogHistory>>

AnItem == {Items[i] : i \in DOMAIN Items}
NoItem == "no item"
NoBuilder == "no builder"

\* A receipt of builder b for item i; it advances the backlog iff it is verified.
Receipt(b, i, ok) == [by |-> b, item |-> i, advances |-> ok]

-----------------------------------------------------------------------------
\* deriveBacklog and decideManagerialAction.

Shipped(i, list) == \E k \in DOMAIN list : list[k].item = i /\ list[k].advances
Unfinished(list) == {k \in DOMAIN Items : ~Shipped(Items[k], list)}
Selected(list) == Items[CHOOSE k \in Unfinished(list) : \A j \in Unfinished(list) : k <= j]

Decision(list) ==
  CASE Unfinished(list) = {} -> "idle"
    [] Unfinished(list) # {} /\ Selected(list) \in NeedSecret /\ ~Secrets -> "blocked"
    [] Unfinished(list) # {} /\ ~(Selected(list) \in NeedSecret /\ ~Secrets) /\ ~Host -> "blocked"
    [] OTHER -> "verify"

-----------------------------------------------------------------------------
BacklogInit ==
  /\ live = [i \in AnItem |-> TRUE]
  /\ receipts = <<>>
  /\ latest = NoBuilder
  /\ history = <<>>
  /\ doing = [b \in Builders |-> "idle"]
  /\ item = [b \in Builders |-> NoItem]
  /\ outcome = [b \in Builders |-> "none"]
  /\ read = [b \in Builders |-> <<>>]
  /\ cycle = [b \in Builders |-> "none"]
  /\ lapses = 0
  /\ appended = {}
  /\ excused = {}

Does(b, from, to) == doing[b] = from /\ doing' = [doing EXCEPT ![b] = to]

\* Builders between the read and the write of the receipts, of the history.
Appending == {b \in Builders : doing[b] = "append"}
Filing == {b \in Builders : doing[b] \in {"recall", "file"}}

\* A statement on one of the lists fails, and the code goes on.
Lapse(b) == lapses < MaxLapses /\ lapses' = lapses + 1 /\ excused' = excused \cup {b}

-----------------------------------------------------------------------------
\* A deployment turns a feature on or off.
Deploy(i) ==
  /\ live' = [live EXCEPT ![i] = ~live[i]]
  /\ UNCHANGED <<stored, builderVars, lapses, backlogHistory>>

\* readFeatureReceipts and the decision: idle and blocked end the run.
Decide(b) ==
  \E list \in {receipts, <<>>} :
    /\ Does(b, "idle", IF Decision(list) = "verify" THEN "verify" ELSE "end")
    /\ IF list = receipts THEN UNCHANGED lapses
       ELSE lapses < MaxLapses /\ lapses' = lapses + 1
    /\ item' = [item EXCEPT ![b] = IF Decision(list) = "idle" THEN NoItem ELSE Selected(list)]
    /\ cycle' = [cycle EXCEPT ![b] = "running"]
    /\ outcome' = [outcome EXCEPT ![b] = Decision(list)]
    /\ read' = [read EXCEPT ![b] = list]
    /\ UNCHANGED <<live, stored, backlogHistory>>

\* verifyFeatureAgainstHealth: what health shows of the item is its acceptance.
HealthMatches(i, reached) == reached /\ live[i]

\* featureProductionVerify: health is fetched, or is not reached in 8 seconds.
VerifyItem(b) ==
  \E reached \in BOOLEAN :
    /\ Does(b, "verify", "recollect")
    /\ outcome' = [outcome EXCEPT ![b] = IF HealthMatches(item[b], reached) THEN "verified" ELSE "failed"]
    /\ UNCHANGED <<live, stored, item, read, cycle, lapses, backlogHistory>>

\* Mutant: the list read before the decision is used.
RecollectNothing(b) ==
  /\ Does(b, "recollect", "append")
  /\ excused' = excused \cup (IF Appending = {} THEN {} ELSE Appending \cup {b})
  /\ UNCHANGED <<live, stored, item, outcome, read, cycle, lapses, appended>>

\* appendFeatureReceipt reads the list again ...
Recollect(b) ==
  /\ Does(b, "recollect", "append")
  /\ read' = [read EXCEPT ![b] = receipts]
  /\ excused' = excused \cup (IF Appending = {} THEN {} ELSE Appending \cup {b})
  /\ UNCHANGED <<live, stored, item, outcome, cycle, lapses, appended>>

\* (a failed read gives an empty list, and every receipt before it is lost)
RecollectFails(b) ==
  /\ Does(b, "recollect", "append")
  /\ lapses < MaxLapses /\ lapses' = lapses + 1
  /\ read' = [read EXCEPT ![b] = <<>>]
  /\ excused' = excused \cup appended \cup Appending \cup {b}
  /\ UNCHANGED <<live, stored, item, outcome, cycle, appended>>

Front(list, n) == SubSeq(list, 1, IF Len(list) < n THEN Len(list) ELSE n)

\* Mutant: the list is not cut.
AppendUncut(b) ==
  /\ Does(b, "append", "end")
  /\ receipts' = <<Receipt(b, item[b], outcome[b] = "verified")>> \o read[b]
  /\ appended' = appended \cup {b}
  /\ read' = [read EXCEPT ![b] = <<>>]
  /\ UNCHANGED <<live, latest, history, item, outcome, cycle, lapses, excused>>

\* ... and writes it back with the receipt in front.
Append1(b) ==
  /\ Does(b, "append", "end")
  /\ receipts' = Front(<<Receipt(b, item[b], outcome[b] = "verified")>> \o read[b], Keep)
  /\ appended' = appended \cup {b}
  /\ read' = [read EXCEPT ![b] = <<>>]
  /\ UNCHANGED <<live, latest, history, item, outcome, cycle, lapses, excused>>

\* The write fails, which nobody is told.
AppendFails(b) ==
  /\ Does(b, "append", "end")
  /\ Lapse(b)
  /\ UNCHANGED <<live, stored, item, outcome, read, cycle, appended>>

\* The run ends completed if it verified its item or had nothing to do.
EndCycle(b) ==
  /\ Does(b, "end", "report")
  /\ cycle' = [cycle EXCEPT ![b] =
       CASE outcome[b] = "idle" -> "completed"
         [] outcome[b] = "verified" -> "progress"
         [] OTHER -> outcome[b]]
  /\ UNCHANGED <<live, stored, item, outcome, read, lapses, backlogHistory>>

\* writeStrategyReport: the latest report ...
Report(b) ==
  /\ Does(b, "report", "recall")
  /\ latest' = b
  /\ excused' = excused \cup (IF Filing = {} THEN {} ELSE Filing \cup {b})
  /\ UNCHANGED <<live, receipts, history, item, outcome, read, cycle, lapses, appended>>

\* ... the history as it is ...
Recall(b) ==
  /\ Does(b, "recall", "file")
  /\ read' = [read EXCEPT ![b] = history]
  /\ UNCHANGED <<live, stored, item, outcome, cycle, lapses, backlogHistory>>

\* ... and the history with the report in front.
File(b) ==
  /\ Does(b, "file", "done")
  /\ history' = Front(<<b>> \o read[b], KeepReports)
  /\ read' = [read EXCEPT ![b] = <<>>]
  /\ UNCHANGED <<live, receipts, latest, item, outcome, cycle, lapses, backlogHistory>>

\* A statement of the report fails: the rest of it is left out.
ReportFails(b) ==
  /\ doing[b] \in {"report", "recall", "file"}
  /\ doing' = [doing EXCEPT ![b] = "done"]
  /\ Lapse(b)
  /\ UNCHANGED <<live, stored, item, outcome, read, cycle, appended>>

BacklogNext ==
  \/ \E i \in AnItem : Deploy(i)
  \/ \E b \in Builders :
       Decide(b) \/ VerifyItem(b) \/ Recollect(b) \/ RecollectFails(b) \/ Append1(b)
       \/ AppendFails(b) \/ EndCycle(b) \/ Report(b) \/ Recall(b) \/ File(b) \/ ReportFails(b)

BacklogSpec == BacklogInit /\ [][BacklogNext]_backlogVars

-----------------------------------------------------------------------------
BacklogTypeOK ==
  /\ live \in [AnItem -> BOOLEAN]
  /\ Len(receipts) <= Keep
  /\ \A k \in DOMAIN receipts :
       receipts[k] \in [by : Builders, item : AnItem, advances : BOOLEAN]
  /\ latest \in Builders \cup {NoBuilder}
  /\ Len(history) <= KeepReports /\ S!ToSet(history) \subseteq Builders
  /\ item \in [Builders -> AnItem \cup {NoItem}]
  /\ outcome \in [Builders -> {"none", "idle", "blocked", "verify", "verified", "failed"}]
  /\ cycle \in [Builders -> {"none", "running", "completed", "progress", "blocked", "failed"}]
  /\ lapses \in 0..MaxLapses

\* A run that reports feature progress and the backlog agree.  If it ran into
\* no other append and no statement failed, its receipt is in the stored list,
\* as long as fewer than Keep came after it; and a receipt that advances the
\* backlog is there only because its builder saw production match.
ProgressIsRecorded ==
  /\ \A b \in Builders :
       cycle[b] = "progress" /\ b \notin excused =>
         \/ \E k \in DOMAIN receipts : receipts[k] = Receipt(b, item[b], TRUE)
         \/ Cardinality(appended) > Keep
  /\ \A k \in DOMAIN receipts : receipts[k].advances => outcome[receipts[k].by] = "verified"

\* The owner's console shows the latest report and the history side by side:
\* once a report that met no other is filed, and until the next one, the
\* history begins with it, so what the owner reads as the last cycle is one.
HistoryFollowsLatest ==
  latest # NoBuilder /\ latest \notin excused /\ doing[latest] = "done" =>
    Head(history) = latest
\* What a build cycle leaves behind is true: its receipt and its report.
CyclesAreRecorded == ProgressIsRecorded /\ HistoryFollowsLatest
=============================================================================
