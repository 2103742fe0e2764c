------------------------ MODULE OperatorQueue_proofs ------------------------
(***************************************************************************)
(* Theorems about OperatorQueue: types, the cap on a signal's runs, who    *)
(* may hold a signal, closed signals and the heartbeat's key, for any      *)
(* number of workers, heartbeats, signals, crashes and legacy runs, and    *)
(* that the table of signals is a RetryQueue.                              *)
(***************************************************************************)
EXTENDS OperatorQueue, Sums_proofs, FiniteSetTheorems, TLAPS

Early == {"idle", "sweep", "recount"}
Holding == {"insert", "execute", "close"}
Steps == Early \cup {"select", "maintain"} \cup Holding
RunStates == {"running", "overdue", "stale_timeout", "ended"}
SignalRow ==
  [kind : {"business_improve", "other"}, status : Open \cup Closed,
   attempts : 0..MaxAttempts, stale : BOOLEAN, by : Heartbeats \cup {"owner"}]
Plans == [close : SUBSET Nat, requeue : SUBSET Nat, claim : Nat]

QueueTypes ==
  /\ signals \in Seq(SignalRow)
  /\ Len(signals) \in 1..MaxSignals
  /\ runs \in Seq(Seq(RunStates))
  /\ Len(runs) = Len(signals)
  /\ at \in [Workers -> Steps]
  /\ plan \in [Workers -> Plans]
  /\ mine \in [Workers -> Nat]
  /\ row \in [Workers -> Nat]
  /\ hb \in [Heartbeats -> {"idle", "claim", "again", "insert", "answered", "dead"}]

\* Plans and claims name signals there are; a worker at a step that needs its run row
\* has one.
PlanAt(w) ==
  plan[w].close \subseteq Ids /\ plan[w].requeue \subseteq Ids /\ plan[w].claim \in Ids \cup {0}
ClaimAt(w) ==
  /\ mine[w] # 0 <=> at[w] \in Holding
  /\ mine[w] # 0 => mine[w] \in Ids /\ row[w] \in 0..Len(runs[mine[w]])
  /\ row[w] # 0 <=> at[w] \in {"execute", "close"}
WorkersAreSound == \A w \in Workers : PlanAt(w) /\ ClaimAt(w)

\* Once a recount has seen it, a signal's attempt_count covers its run rows and those
\* its claimants are about to insert; before, nobody has got as far as claiming it.
Inserting(i) == {w \in Holders(i) : at[w] = "insert"}
Counted(i) == Len(runs[i]) + Cardinality(Inserting(i)) <= signals[i].attempts
Uncounted(i) ==
  /\ Holders(i) = {}
  /\ Len(runs[i]) <= MaxAttempts
  /\ signals[i].status \in Closed \/ \A w \in Workers : at[w] \in Early
CountedAt(i) == Counted(i) \/ Uncounted(i)

\* A held signal is queued only when it was requeued under its holder, and only then
\* may it have two.
HeldAt(i) == Holders(i) # {} => signals[i].status # "queued" \/ i \in stolen
ExclusiveAt(i) == \A v, w \in Holders(i) : v # w => i \in stolen

SignalsAreSound == \A i \in Ids : CountedAt(i) /\ HeldAt(i) /\ ExclusiveAt(i)

QueueInv == QueueTypes /\ WorkersAreSound /\ SignalsAreSound /\ HeartbeatEnqueues

-----------------------------------------------------------------------------
\* The larger of two numbers, as greatest(attempt_count, count(*)) computes it.
LEMMA MaxOfTwo ==
  ASSUME NEW a \in Nat, NEW b \in Nat
  PROVE  F!Max({a, b}) \in {a, b} /\ F!Max({a, b}) >= a /\ F!Max({a, b}) >= b
<1>1. \E x \in {a, b} : \A y \in {a, b} : x >= y
  <2>1. CASE a >= b
    BY <2>1
  <2>2. CASE b >= a
    BY <2>2
  <2> QED BY <2>1, <2>2
<1>2. F!Max({a, b}) \in {a, b} /\ \A y \in {a, b} : F!Max({a, b}) >= y
  BY <1>1 DEF F!Max
<1> QED BY <1>2

\* A set of signal ids that is not empty has a largest one: the newest signal.
LEMMA MaxOfIds ==
  ASSUME NEW n \in Nat, NEW S \in SUBSET (1..n), S # {}
  PROVE  F!Max(S) \in S
<1>1. IsFiniteSet(S)
  <2>1. IsFiniteSet(1..n)
    BY FS_Interval
  <2> QED BY <2>1, FS_Subset
<1>2. PICK w : w = [x \in S |-> x]
  OBVIOUS
<1>3. w \in [S -> Int] /\ \A x \in S : w[x] = x /\ x \in Int
  BY <1>2
<1>4. PICK x \in S : \A y \in S : w[y] <= w[x]
  BY <1>1, <1>3, HighestExists
<1>5. \A y \in S : x >= y
  BY <1>3, <1>4
<1> QED BY <1>5 DEF F!Max

-----------------------------------------------------------------------------
\* Indexed facts of the tables that every step starts from.
LEMMA RowsAreTyped ==
  ASSUME QueueTypes
  PROVE  /\ Ids = 1..Len(signals)
         /\ Len(signals) \in Nat
         /\ \A i \in Ids :
              /\ signals[i] \in SignalRow
              /\ signals[i].attempts \in Nat /\ signals[i].attempts <= MaxAttempts
              /\ signals[i].status \in Open \cup Closed
              /\ runs[i] \in Seq(RunStates)
              /\ Len(runs[i]) \in Nat
<1>1. signals \in Seq(SignalRow) /\ runs \in Seq(Seq(RunStates)) /\ Len(runs) = Len(signals)
  BY DEF QueueTypes
<1>2. Ids = 1..Len(signals) /\ Len(signals) \in Nat
  BY <1>1 DEF Ids
<1>3. \A i \in Ids : signals[i] \in SignalRow /\ runs[i] \in Seq(RunStates)
  BY <1>1, <1>2
<1>4. \A r \in SignalRow : /\ r.attempts \in Nat /\ r.attempts <= MaxAttempts
                          /\ r.status \in Open \cup Closed
  BY DEF SignalRow, MaxAttempts
<1>5. \A q \in Seq(RunStates) : Len(q) \in Nat
  OBVIOUS
<1> QED BY <1>2, <1>3, <1>4, <1>5

\* Those about to insert a run are finitely many.
LEMMA InsertersAreFinite ==
  ASSUME NEW i
  PROVE  IsFiniteSet(Inserting(i)) /\ Cardinality(Inserting(i)) \in Nat
<1>1. Inserting(i) \in SUBSET Workers
  BY DEF Inserting, Holders
<1>2. IsFiniteSet(Inserting(i))
  BY <1>1, FS_Subset, QueueAssumption
<1> QED BY <1>2, FS_CardinalityType

\* The same after a step.
LEMMA InsertersAreFiniteNext ==
  ASSUME NEW i
  PROVE  IsFiniteSet(Inserting(i)') /\ Cardinality(Inserting(i)') \in Nat
<1>1. Inserting(i)' \in SUBSET Workers
  BY DEF Inserting, Holders
<1>2. IsFiniteSet(Inserting(i)')
  BY <1>1, FS_Subset, QueueAssumption
<1> QED BY <1>2, FS_CardinalityType

\* The cap follows from what the recounts and claims have counted.
LEMMA CountedIsBounded ==
  ASSUME QueueTypes, NEW i \in Ids, CountedAt(i)
  PROVE  Len(runs[i]) <= MaxAttempts
  BY RowsAreTyped, InsertersAreFinite DEF CountedAt, Counted, Uncounted, MaxAttempts

\* A signal keeps its invariant in a step that gives it no new holder, no new run row
\* and no smaller attempt_count.
LEMMA SignalKept ==
  ASSUME QueueTypes, NEW i \in Ids,
         CountedAt(i), HeldAt(i), ExclusiveAt(i),
         Holders(i)' \subseteq Holders(i),
         Inserting(i)' \subseteq Inserting(i),
         runs'[i] = runs[i] \/ Len(runs'[i]) = Len(runs[i]),
         signals'[i].attempts = signals[i].attempts,
         signals[i].status \in Closed => signals'[i].status \in Closed,
         signals'[i].status = "queued" =>
            signals[i].status = "queued" \/ Holders(i) = {} \/ i \in stolen',
         \A w \in Workers : at[w] \in Early => at'[w] \in Early,
         stolen \subseteq stolen'
  PROVE  CountedAt(i)' /\ HeldAt(i)' /\ ExclusiveAt(i)'
<1>1. CountedAt(i)'
  <2>1. Len(runs'[i]) = Len(runs[i]) /\ Len(runs[i]) \in Nat /\ signals[i].attempts \in Nat
    BY RowsAreTyped
  <2>2. CASE Counted(i)
    <3>1. Cardinality(Inserting(i)') <= Cardinality(Inserting(i))
      BY InsertersAreFinite, FS_Subset
    <3>2. Counted(i)'
      BY <2>1, <2>2, <3>1, InsertersAreFinite, InsertersAreFiniteNext DEF Counted
    <3> QED BY <3>2 DEF CountedAt
  <2>3. CASE Uncounted(i)
    <3>1. Uncounted(i)'
      BY <2>1, <2>3 DEF Uncounted, MaxAttempts
    <3> QED BY <3>1 DEF CountedAt
  <2> QED BY <2>2, <2>3 DEF CountedAt
<1>2. HeldAt(i)'
  BY DEF HeldAt
<1>3. ExclusiveAt(i)'
  BY DEF ExclusiveAt
<1> QED BY <1>1, <1>2, <1>3

\* An inserted signal has no run and no holder.
LEMMA Inserted ==
  ASSUME QueueTypes, WorkersAreSound, SignalsAreSound, NEW s \in SignalRow, s.attempts = 0,
         Insert(s), at' = at, plan' = plan, mine' = mine, row' = row, stolen' = stolen
  PROVE  /\ signals' \in Seq(SignalRow) /\ Len(signals') \in 1..MaxSignals
         /\ runs' \in Seq(Seq(RunStates)) /\ Len(runs') = Len(signals')
         /\ Ids \subseteq Ids' /\ \A i \in Ids : signals'[i] = signals[i]
         /\ WorkersAreSound'
         /\ SignalsAreSound'
<1> DEFINE n == Len(signals) + 1
<1>1. signals \in Seq(SignalRow) /\ runs \in Seq(Seq(RunStates)) /\ Len(runs) = Len(signals)
      /\ Len(signals) \in Nat
  BY DEF QueueTypes
<1>2. signals' = Append(signals, s) /\ runs' = Append(runs, <<>>) /\ n <= MaxSignals
  BY <1>1, QueueAssumption DEF Insert
<1>3. << >> \in Seq(RunStates)
  OBVIOUS
<1>4. /\ signals' \in Seq(SignalRow) /\ Len(signals') \in 1..MaxSignals
      /\ runs' \in Seq(Seq(RunStates)) /\ Len(runs') = Len(signals')
  BY <1>1, <1>2, <1>3, QueueAssumption
<1>5. Ids = 1..Len(signals) /\ Ids' = Ids \cup {n} /\ n \notin Ids /\ n # 0
  BY <1>1, <1>2, <1>4 DEF Ids
<1>6. /\ \A i \in Ids : signals'[i] = signals[i] /\ runs'[i] = runs[i]
      /\ signals'[n] = s /\ runs'[n] = << >>
  BY <1>1, <1>2, <1>5
<1>7. WorkersAreSound'
  <2> SUFFICES ASSUME NEW w \in Workers PROVE PlanAt(w)' /\ ClaimAt(w)'
    BY DEF WorkersAreSound
  <2>1. PlanAt(w) /\ ClaimAt(w)
    BY DEF WorkersAreSound
  <2>2. PlanAt(w)'
    BY <1>5, <2>1 DEF PlanAt
  <2>3. mine[w] \in Ids => mine[w] \in Ids' /\ runs'[mine[w]] = runs[mine[w]]
    BY <1>5, <1>6
  <2>5. at'[w] = at[w] /\ mine'[w] = mine[w] /\ row'[w] = row[w]
    OBVIOUS
  <2>4. ClaimAt(w)'
    <3> HIDE DEF n
    <3> QED BY <2>1, <2>3, <2>5 DEF ClaimAt
  <2> QED BY <2>2, <2>4
<1>8. SignalsAreSound'
  <2> SUFFICES ASSUME NEW i \in Ids' PROVE CountedAt(i)' /\ HeldAt(i)' /\ ExclusiveAt(i)'
    BY DEF SignalsAreSound
  <2>1. CASE i \in Ids
    <3>1. CountedAt(i) /\ HeldAt(i) /\ ExclusiveAt(i)
      BY <2>1 DEF SignalsAreSound
    <3>2. Holders(i)' = Holders(i) /\ Inserting(i)' = Inserting(i)
      BY DEF Holders, Inserting
    <3> QED BY <1>6, <2>1, <3>1, <3>2, SignalKept
  <2>2. CASE i = n
    <3>1. Holders(i)' = {}
      BY <1>5, <2>2 DEF Holders, WorkersAreSound, ClaimAt
    <3>2. Inserting(i)' = {}
      BY <3>1 DEF Inserting
    <3>4. Cardinality(Inserting(i)') = 0
      BY <3>2, FS_EmptySet
    <3>5. Len(runs'[i]) = 0 /\ signals'[i].attempts = 0
      BY <1>6, <2>2
    <3>3. Counted(i)'
      BY <3>4, <3>5 DEF Counted
    <3> QED BY <3>1, <3>3 DEF CountedAt, HeldAt, ExclusiveAt
  <2> QED BY <1>5, <2>1, <2>2
<1> QED BY <1>4, <1>5, <1>6, <1>7, <1>8

-----------------------------------------------------------------------------
\* What ClosedStaysClosed says of one step.
StaysClosed ==
  \A i \in Ids : signals[i].status \in Closed => signals'[i].status \in Closed

\* A function on 1..n is a sequence of length n.
LEMMA TableOf ==
  ASSUME NEW n \in Nat, NEW S, NEW q \in [1..n -> S]
  PROVE  q \in Seq(S) /\ Len(q) = n /\ DOMAIN q = 1..n
  OBVIOUS

\* A keyed signal stays keyed.
LEMMA KeyKept ==
  ASSUME HeartbeatEnqueues, hb' = hb,
         \A i \in Ids : i \in Ids' /\ signals'[i].by = signals[i].by
  PROVE  HeartbeatEnqueues'
  BY DEF HeartbeatEnqueues, Keyed

\* A worker that does not move keeps its plan and its claim.
LEMMA WorkerKept ==
  ASSUME NEW v \in Workers, PlanAt(v), ClaimAt(v), Ids' = Ids,
         plan'[v] = plan[v], at'[v] = at[v], mine'[v] = mine[v], row'[v] = row[v],
         \A i \in Ids : /\ Len(runs[i]) \in Nat /\ Len(runs'[i]) \in Nat
                        /\ Len(runs'[i]) >= Len(runs[i]),
         row[v] \in Nat
  PROVE  PlanAt(v)' /\ ClaimAt(v)'
<1>1. PlanAt(v)'
  BY DEF PlanAt
<1>2. ClaimAt(v)'
  BY DEF ClaimAt
<1> QED BY <1>1, <1>2

\* A step of the tables that changes no attempt_count and opens no signal, while
\* workers may let go of a claim but take none.
LEMMA QuietStep ==
  ASSUME QueueInv, QueueTypes', WorkersAreSound', Ids' = Ids, hb' = hb,
         \A i \in Ids :
           /\ Len(runs'[i]) = Len(runs[i])
           /\ signals'[i].attempts = signals[i].attempts
           /\ signals'[i].by = signals[i].by
           /\ signals[i].status \in Closed => signals'[i].status \in Closed
           /\ signals'[i].status = "queued" =>
                signals[i].status = "queued" \/ Holders(i) = {} \/ i \in stolen',
         \A v \in Workers :
           /\ mine'[v] \in {mine[v], 0}
           /\ at'[v] = "insert" => at[v] = "insert"
           /\ at[v] \in Early => at'[v] \in Early,
         stolen \subseteq stolen'
  PROVE  QueueInv' /\ StaysClosed
<1>1. SignalsAreSound'
  <2> SUFFICES ASSUME NEW i \in Ids PROVE CountedAt(i)' /\ HeldAt(i)' /\ ExclusiveAt(i)'
    BY DEF SignalsAreSound
  <2>1. CountedAt(i) /\ HeldAt(i) /\ ExclusiveAt(i)
    BY DEF QueueInv, SignalsAreSound
  <2>2. i # 0
    BY RowsAreTyped DEF QueueInv
  <2>3. Holders(i)' \subseteq Holders(i)
    BY <2>2 DEF Holders
  <2>4. Inserting(i)' \subseteq Inserting(i)
    BY <2>3 DEF Inserting, Holders
  <2>5. QueueTypes
    BY DEF QueueInv
  <2> QED BY <2>1, <2>3, <2>4, <2>5, SignalKept
<1>2. HeartbeatEnqueues'
  BY KeyKept DEF QueueInv
<1>3. StaysClosed
  BY DEF StaysClosed
<1> QED BY <1>1, <1>2, <1>3 DEF QueueInv

\* The same when the tables are left alone and one worker moves.
LEMMA MoveStep ==
  ASSUME QueueInv, QueueTypes', NEW w \in Workers, hb' = hb,
         signals' = signals, runs' = runs, stolen' = stolen,
         \A v \in Workers \ {w} : /\ plan'[v] = plan[v] /\ at'[v] = at[v]
                                  /\ mine'[v] = mine[v] /\ row'[v] = row[v],
         mine'[w] \in {mine[w], 0},
         at'[w] # "insert",
         at[w] \in Early => at'[w] \in Early,
         PlanAt(w)', ClaimAt(w)'
  PROVE  QueueInv' /\ StaysClosed
<1>1. Ids' = Ids
  BY DEF Ids
<1>2. WorkersAreSound'
  <2> SUFFICES ASSUME NEW v \in Workers, v # w PROVE PlanAt(v)' /\ ClaimAt(v)'
    BY DEF WorkersAreSound
  <2>1. PlanAt(v) /\ ClaimAt(v)
    BY DEF QueueInv, WorkersAreSound
  <2>2. \A i \in Ids : Len(runs[i]) \in Nat
    BY RowsAreTyped DEF QueueInv
  <2>3. row[v] \in Nat
    BY DEF QueueInv, QueueTypes
  <2> QED BY <1>1, <2>1, <2>2, <2>3, WorkerKept
<1>3. \A v \in Workers :
           /\ mine'[v] \in {mine[v], 0}
           /\ at'[v] = "insert" => at[v] = "insert"
           /\ at[v] \in Early => at'[v] \in Early
  OBVIOUS
<1> QED BY <1>1, <1>2, <1>3, QuietStep

\* A poll of the worker begins.
LEMMA StartStep ==
  ASSUME QueueInv, NEW w \in Workers, Start(w)
  PROVE  QueueInv' /\ StaysClosed
<1>1. /\ at \in [Workers -> Steps] /\ at[w] = "idle" /\ at' = [at EXCEPT ![w] = "sweep"]
      /\ signals' = signals /\ runs' = runs /\ plan' = plan /\ mine' = mine /\ row' = row
      /\ hb' = hb /\ stolen' = stolen
  BY DEF QueueInv, QueueTypes, Start, Goto, tables, heartbeatVars
<1>2. QueueTypes'
  BY <1>1 DEF QueueInv, QueueTypes, Steps, Early
<1>3. at'[w] = "sweep" /\ \A v \in Workers \ {w} : at'[v] = at[v]
  BY <1>1
<1>4. PlanAt(w) /\ ClaimAt(w)
  BY DEF QueueInv, WorkersAreSound
<1>5. PlanAt(w)'
  BY <1>1, <1>4 DEF PlanAt, Ids
<1>6. ClaimAt(w)'
  BY <1>1, <1>3, <1>4 DEF ClaimAt, Ids, Holding
<1> QED BY <1>1, <1>2, <1>3, <1>5, <1>6, MoveStep DEF Early

\* Overdue runs of every signal are ended, which changes their status only.
LEMMA SweepStep ==
  ASSUME QueueInv, NEW w \in Workers, SweepRuns(w)
  PROVE  QueueInv' /\ StaysClosed
<1> DEFINE swept(i) == [j \in DOMAIN runs[i] |->
                IF runs[i][j] = "overdue" THEN "stale_timeout" ELSE runs[i][j]]
<1>1. /\ at \in [Workers -> Steps] /\ at[w] = "sweep" /\ at' = [at EXCEPT ![w] = "recount"]
      /\ runs' = [i \in Ids |-> swept(i)]
      /\ signals' = signals /\ plan' = plan /\ mine' = mine /\ row' = row
      /\ hb' = hb /\ stolen' = stolen
  BY DEF QueueInv, QueueTypes, SweepRuns, Goto, heartbeatVars
<1>2. QueueTypes
  BY DEF QueueInv
<1>3. Ids' = Ids /\ Ids = 1..Len(signals) /\ Len(signals) \in Nat
  BY <1>1, <1>2, RowsAreTyped DEF Ids
<1>4. ASSUME NEW i \in Ids PROVE swept(i) \in Seq(RunStates) /\ Len(swept(i)) = Len(runs[i])
  <2>1. runs[i] \in Seq(RunStates) /\ Len(runs[i]) \in Nat
    BY <1>2, RowsAreTyped
  <2>2. swept(i) \in [1..Len(runs[i]) -> RunStates]
    BY <2>1 DEF RunStates
  <2> HIDE DEF swept
  <2> QED BY <2>1, <2>2, TableOf
<1>5. runs' \in Seq(Seq(RunStates)) /\ Len(runs') = Len(signals)
      /\ \A i \in Ids : runs'[i] = swept(i)
  <2> HIDE DEF swept
  <2>1. runs' \in [1..Len(signals) -> Seq(RunStates)]
    BY <1>1, <1>3, <1>4
  <2>2. runs' \in Seq(Seq(RunStates)) /\ Len(runs') = Len(signals)
    BY <1>3, <2>1, TableOf
  <2> QED BY <1>1, <2>2
<1>6. at'[w] = "recount" /\ \A v \in Workers \ {w} : at'[v] = at[v]
  BY <1>1
<1>7. QueueTypes'
  BY <1>1, <1>5 DEF QueueInv, QueueTypes, Steps, Early
<1>8. \A i \in Ids : Len(runs'[i]) = Len(runs[i]) /\ Len(runs[i]) \in Nat
  <2> HIDE DEF swept
  <2> QED BY <1>2, <1>4, <1>5, RowsAreTyped
<1>9. WorkersAreSound'
  <2> SUFFICES ASSUME NEW v \in Workers PROVE PlanAt(v)' /\ ClaimAt(v)'
    BY DEF WorkersAreSound
  <2>1. PlanAt(v) /\ ClaimAt(v) /\ row[v] \in Nat
    BY DEF QueueInv, QueueTypes, WorkersAreSound
  <2>2. CASE v = w
    <3>1. PlanAt(w)'
      BY <1>1, <1>3, <2>1, <2>2 DEF PlanAt
    <3>2. ClaimAt(w)'
      BY <1>1, <1>6, <2>1, <2>2 DEF ClaimAt, Holding
    <3> QED BY <2>2, <3>1, <3>2
  <2>3. CASE v # w
    <3> HIDE DEF swept
    <3> QED BY <1>1, <1>3, <1>6, <1>8, <2>1, <2>3, WorkerKept
  <2> QED BY <2>2, <2>3
<1>10. \A v \in Workers :
           /\ mine'[v] \in {mine[v], 0}
           /\ at'[v] = "insert" => at[v] = "insert"
           /\ at[v] \in Early => at'[v] \in Early
  BY <1>1, <1>6 DEF Early
<1>11. \A i \in Ids :
           /\ Len(runs'[i]) = Len(runs[i])
           /\ signals'[i].attempts = signals[i].attempts
           /\ signals'[i].by = signals[i].by
           /\ signals[i].status \in Closed => signals'[i].status \in Closed
           /\ signals'[i].status = "queued" =>
                signals[i].status = "queued" \/ Holders(i) = {} \/ i \in stolen'
  BY <1>1, <1>8
<1>12. hb' = hb /\ stolen \subseteq stolen' /\ Ids' = Ids
  BY <1>1, <1>3
<1> QED BY <1>7, <1>9, <1>10, <1>11, <1>12, QuietStep

\* attempt_count is raised to the number of runs: from here on it counts them.
LEMMA RecountStep ==
  ASSUME QueueInv, NEW w \in Workers, Recount(w)
  PROVE  QueueInv' /\ StaysClosed
<1> DEFINE counted(i) == IF signals[i].status \in Open
              THEN [signals[i] EXCEPT !.attempts = F!Max({signals[i].attempts, Len(runs[i])})]
              ELSE signals[i]
<1>1. /\ at \in [Workers -> Steps] /\ at[w] = "recount" /\ at' = [at EXCEPT ![w] = "select"]
      /\ signals' = [i \in Ids |-> counted(i)]
      /\ runs' = runs /\ plan' = plan /\ mine' = mine /\ row' = row
      /\ hb' = hb /\ stolen' = stolen
  BY DEF QueueInv, QueueTypes, Recount, Goto, heartbeatVars
<1>2. QueueTypes
  BY DEF QueueInv
<1>3. Ids = 1..Len(signals) /\ Len(signals) \in Nat
  BY <1>2, RowsAreTyped
<1>4. ASSUME NEW i \in Ids
      PROVE  /\ counted(i) \in SignalRow
             /\ counted(i).status = signals[i].status /\ counted(i).by = signals[i].by
             /\ signals[i].status \in Open =>
                  counted(i).attempts >= signals[i].attempts /\ counted(i).attempts >= Len(runs[i])
             /\ signals[i].status \notin Open => counted(i).attempts = signals[i].attempts
  <2> DEFINE m == F!Max({signals[i].attempts, Len(runs[i])})
  <2>1. signals[i] \in SignalRow /\ signals[i].attempts \in 0..MaxAttempts /\ Len(runs[i]) \in Nat
    BY <1>2, RowsAreTyped DEF SignalRow
  <2>2. Len(runs[i]) <= MaxAttempts
    BY <1>2, CountedIsBounded DEF QueueInv, SignalsAreSound
  <2>3. m \in {signals[i].attempts, Len(runs[i])} /\ m >= signals[i].attempts /\ m >= Len(runs[i])
    BY <2>1, MaxOfTwo DEF MaxAttempts
  <2>4. m \in 0..MaxAttempts
    <3> HIDE DEF m
    <3> QED BY <2>1, <2>2, <2>3 DEF MaxAttempts
  <2> HIDE DEF m
  <2>5. [signals[i] EXCEPT !.attempts = m] \in SignalRow
    BY <2>1, <2>4 DEF SignalRow
  <2>6. /\ [signals[i] EXCEPT !.attempts = m].attempts = m
        /\ [signals[i] EXCEPT !.attempts = m].status = signals[i].status
        /\ [signals[i] EXCEPT !.attempts = m].by = signals[i].by
    BY <2>1 DEF SignalRow
  <2>7. counted(i) = IF signals[i].status \in Open
                     THEN [signals[i] EXCEPT !.attempts = m] ELSE signals[i]
    BY DEF m
  <2> HIDE DEF counted
  <2> QED BY <2>1, <2>3, <2>5, <2>6, <2>7
<1> HIDE DEF counted
<1>5. signals' \in [1..Len(signals) -> SignalRow]
  BY <1>1, <1>3, <1>4
<1>6. signals' \in Seq(SignalRow) /\ Len(signals') = Len(signals) /\ Ids' = Ids
  BY <1>3, <1>5, TableOf DEF Ids
<1>7. \A i \in Ids : signals'[i] = counted(i)
  BY <1>1
<1>8. at'[w] = "select" /\ \A v \in Workers \ {w} : at'[v] = at[v]
  BY <1>1
<1>9. QueueTypes'
  BY <1>1, <1>6 DEF QueueInv, QueueTypes, Steps
<1>10. WorkersAreSound'
  <2> SUFFICES ASSUME NEW v \in Workers PROVE PlanAt(v)' /\ ClaimAt(v)'
    BY DEF WorkersAreSound
  <2>1. PlanAt(v) /\ ClaimAt(v)
    BY DEF QueueInv, WorkersAreSound
  <2>2. PlanAt(v)'
    BY <1>1, <1>6, <2>1 DEF PlanAt
  <2>3. ClaimAt(v)'
    BY <1>1, <1>6, <1>8, <2>1 DEF ClaimAt, Holding
  <2> QED BY <2>2, <2>3
<1>11. SignalsAreSound'
  <2> SUFFICES ASSUME NEW i \in Ids PROVE CountedAt(i)' /\ HeldAt(i)' /\ ExclusiveAt(i)'
    BY <1>6 DEF SignalsAreSound
  <2>1. CountedAt(i) /\ HeldAt(i) /\ ExclusiveAt(i)
    BY DEF QueueInv, SignalsAreSound
  <2>2. Holders(i)' = Holders(i)
    BY <1>1 DEF Holders
  <2>3. Inserting(i)' = Inserting(i)
    BY <1>1, <1>8, <2>2 DEF Inserting, Holders
  <2>4. HeldAt(i)' /\ ExclusiveAt(i)'
    BY <1>1, <1>4, <1>7, <2>1, <2>2 DEF HeldAt, ExclusiveAt
  <2>5. Len(runs[i]) \in Nat /\ signals[i].attempts \in Nat /\ signals[i].status \in Open \cup Closed
    BY <1>2, RowsAreTyped
  <2>6. counted(i).attempts \in Nat
    BY <1>4 DEF SignalRow
  <2>7. CASE Counted(i)
    <3>1. counted(i).attempts >= signals[i].attempts
      BY <1>4, <2>5
    <3>2. Counted(i)'
      BY <1>1, <1>7, <2>3, <2>5, <2>6, <2>7, <3>1, InsertersAreFinite DEF Counted
    <3> QED BY <2>4, <3>2 DEF CountedAt
  <2>8. CASE Uncounted(i) /\ signals[i].status \in Open
    <3>1. Cardinality(Inserting(i)') = 0
      BY <2>3, <2>8, FS_EmptySet DEF Uncounted, Inserting
    <3>2. Counted(i)'
      BY <1>1, <1>4, <1>7, <2>5, <2>6, <2>8, <3>1 DEF Counted
    <3> QED BY <2>4, <3>2 DEF CountedAt
  <2>9. CASE Uncounted(i) /\ signals[i].status \in Closed
    <3>1. Uncounted(i)'
      BY <1>1, <1>4, <1>7, <2>2, <2>9 DEF Uncounted
    <3> QED BY <2>4, <3>1 DEF CountedAt
  <2> QED BY <2>1, <2>5, <2>7, <2>8, <2>9 DEF CountedAt
<1>12. HeartbeatEnqueues'
  BY <1>1, <1>4, <1>6, <1>7, KeyKept DEF QueueInv
<1>13. StaysClosed
  BY <1>4, <1>7 DEF StaysClosed
<1> QED BY <1>9, <1>10, <1>11, <1>12, <1>13 DEF QueueInv

\* The plan names rows that were selected, and claims the newest it may.
LEMMA PlanIsOfIds ==
  ASSUME QueueTypes
  PROVE  /\ MaintenancePlan.close \subseteq Ids
         /\ MaintenancePlan.requeue \subseteq Ids
         /\ MaintenancePlan.claim \in Ids \cup {0}
         /\ MaintenancePlan \in Plans
<1> DEFINE
      late == {i \in Ids : signals[i].status = "running" /\ signals[i].stale}
      retry == {i \in late : CanRetryAfterStale(i)}
      queued == {i \in Ids : signals[i].status = "queued"} \cup retry
      current == {i \in queued : CanRetryAfterStale(i)}
      leftover == {i \in queued :
                     \/ Exhausted(i)
                     \/ TimedOutBefore(i) /\ ~CanRetryAfterStale(i)
                     \/ current # {} /\ i < F!Max(current)}
      claimable == queued \ leftover
      first == IF current \cap claimable # {} THEN current \cap claimable ELSE claimable
      claim == IF first = {} THEN 0 ELSE F!Max(first)
<1>1. MaintenancePlan = [close |-> (late \ retry) \cup leftover,
                         requeue |-> retry \ leftover, claim |-> claim]
  BY DEF MaintenancePlan
<1>2. Ids = 1..Len(signals) /\ Len(signals) \in Nat
  BY RowsAreTyped
<1>3. late \subseteq Ids /\ retry \subseteq Ids /\ queued \subseteq Ids
  OBVIOUS
<1>4. leftover \subseteq Ids /\ claimable \subseteq Ids
  BY <1>3
<1>5. first \subseteq Ids
  BY <1>4
<1>6. claim \in Ids \cup {0}
  <2> HIDE DEF first
  <2> QED BY <1>2, <1>5, MaxOfIds
<1> HIDE DEF late, retry, queued, leftover, claim
<1>7. /\ MaintenancePlan.close = (late \ retry) \cup leftover
      /\ MaintenancePlan.requeue = retry \ leftover
      /\ MaintenancePlan.claim = claim
  BY <1>1
<1>8. Ids \subseteq Nat
  BY <1>2
<1>9. MaintenancePlan \in Plans
  BY <1>1, <1>3, <1>4, <1>6, <1>8 DEF Plans
<1> QED BY <1>3, <1>4, <1>6, <1>7, <1>9

\* The maintenance reads the table into the worker's plan.
LEMMA SelectStep ==
  ASSUME QueueInv, NEW w \in Workers, SelectAndPlan(w)
  PROVE  QueueInv' /\ StaysClosed
<1>1. /\ at \in [Workers -> Steps] /\ at[w] = "select" /\ at' = [at EXCEPT ![w] = "maintain"]
      /\ plan \in [Workers -> Plans] /\ plan' = [plan EXCEPT ![w] = MaintenancePlan]
      /\ signals' = signals /\ runs' = runs /\ mine' = mine /\ row' = row
      /\ hb' = hb /\ stolen' = stolen
  BY DEF QueueInv, QueueTypes, SelectAndPlan, Goto, tables, heartbeatVars
<1>2. QueueTypes
  BY DEF QueueInv
<1>3. /\ at'[w] = "maintain" /\ plan'[w] = MaintenancePlan
      /\ \A v \in Workers \ {w} : at'[v] = at[v] /\ plan'[v] = plan[v]
  BY <1>1
<1>4. QueueTypes'
  <2>1. plan' \in [Workers -> Plans] /\ at' \in [Workers -> Steps]
    BY <1>1, <1>2, PlanIsOfIds DEF Steps
  <2> QED BY <1>1, <2>1 DEF QueueInv, QueueTypes
<1>5. PlanAt(w)'
  BY <1>1, <1>2, <1>3, PlanIsOfIds DEF PlanAt, Ids
<1>6. ClaimAt(w)'
  BY <1>1, <1>3 DEF ClaimAt, Ids, Holding, QueueInv, WorkersAreSound
<1> QED BY <1>1, <1>3, <1>4, <1>5, <1>6, MoveStep DEF Early

\* Nothing is queued: the poll ends.
LEMMA IdleStep ==
  ASSUME QueueInv, NEW w \in Workers, ClaimNothing(w)
  PROVE  QueueInv' /\ StaysClosed
<1>1. /\ at \in [Workers -> Steps] /\ at[w] = "maintain" /\ at' = [at EXCEPT ![w] = "idle"]
      /\ plan \in [Workers -> Plans] /\ plan' = [plan EXCEPT ![w] = NoPlan]
      /\ signals' = signals /\ runs' = runs /\ mine' = mine /\ row' = row
      /\ hb' = hb /\ stolen' = stolen
  BY DEF QueueInv, QueueTypes, ClaimNothing, Planned, Goto, tables, heartbeatVars
<1>2. NoPlan \in Plans
  BY DEF NoPlan, Plans
<1>3. /\ at'[w] = "idle" /\ plan'[w] = NoPlan
      /\ \A v \in Workers \ {w} : at'[v] = at[v] /\ plan'[v] = plan[v]
  BY <1>1
<1>4. QueueTypes'
  <2>1. plan' \in [Workers -> Plans] /\ at' \in [Workers -> Steps]
    BY <1>1, <1>2 DEF Steps, Early
  <2> QED BY <1>1, <2>1 DEF QueueInv, QueueTypes
<1>5. PlanAt(w)'
  BY <1>3 DEF PlanAt, NoPlan
<1>6. ClaimAt(w)'
  BY <1>1, <1>3 DEF ClaimAt, Ids, Holding, QueueInv, WorkersAreSound
<1> QED BY <1>1, <1>3, <1>4, <1>5, <1>6, MoveStep DEF Early

\* The worker dies: what it held stays held in the tables.
LEMMA DieStep ==
  ASSUME QueueInv, NEW w \in Workers, Die(w)
  PROVE  QueueInv' /\ StaysClosed
<1>1. /\ at \in [Workers -> Steps] /\ at' = [at EXCEPT ![w] = "idle"]
      /\ plan \in [Workers -> Plans] /\ plan' = [plan EXCEPT ![w] = NoPlan]
      /\ mine \in [Workers -> Nat] /\ mine' = [mine EXCEPT ![w] = 0]
      /\ row \in [Workers -> Nat] /\ row' = [row EXCEPT ![w] = 0]
      /\ signals' = signals /\ runs' = runs /\ hb' = hb /\ stolen' = stolen
  BY DEF QueueInv, QueueTypes, Die, Released, Goto, tables, heartbeatVars
<1>2. NoPlan \in Plans
  BY DEF NoPlan, Plans
<1>3. /\ at'[w] = "idle" /\ plan'[w] = NoPlan /\ mine'[w] = 0 /\ row'[w] = 0
      /\ \A v \in Workers \ {w} : /\ at'[v] = at[v] /\ plan'[v] = plan[v]
                                  /\ mine'[v] = mine[v] /\ row'[v] = row[v]
  BY <1>1
<1>4. QueueTypes'
  <2>1. /\ plan' \in [Workers -> Plans] /\ at' \in [Workers -> Steps]
        /\ mine' \in [Workers -> Nat] /\ row' \in [Workers -> Nat]
    BY <1>1, <1>2 DEF Steps, Early
  <2> QED BY <1>1, <2>1 DEF QueueInv, QueueTypes
<1>5. PlanAt(w)'
  BY <1>3 DEF PlanAt, NoPlan
<1>6. ClaimAt(w)'
  BY <1>3 DEF ClaimAt, Holding
<1> QED BY <1>1, <1>3, <1>4, <1>5, <1>6, MoveStep DEF Early

\* A guarded update of one signal's row, and what is left of the plan it came from.
LEMMA SignalUpdated ==
  ASSUME QueueTypes, NEW i \in Ids, NEW r \in SignalRow, signals' = [signals EXCEPT ![i] = r]
  PROVE  /\ signals' \in Seq(SignalRow) /\ Len(signals') = Len(signals) /\ Ids' = Ids
         /\ signals'[i] = r /\ \A j \in Ids \ {i} : signals'[j] = signals[j]
<1>1. signals \in Seq(SignalRow)
  BY DEF QueueTypes
<1>2. i \in DOMAIN signals
  BY DEF Ids
<1> QED BY <1>1, <1>2 DEF Ids

\* What each update does to a row.
LEMMA StatusSet ==
  ASSUME NEW r \in SignalRow, NEW s \in Open \cup Closed, NEW q, q = [r EXCEPT !.status = s]
  PROVE  q \in SignalRow /\ q.status = s /\ q.attempts = r.attempts /\ q.by = r.by
  BY DEF SignalRow

\* Writing a row's stale mark leaves its other fields.
LEMMA StaleSet ==
  ASSUME NEW r \in SignalRow, NEW b \in BOOLEAN, NEW q, q = [r EXCEPT !.stale = b]
  PROVE  q \in SignalRow /\ q.status = r.status /\ q.attempts = r.attempts /\ q.by = r.by
  BY DEF SignalRow

\* Writing a row's attempts leaves its other fields.
LEMMA AttemptsSet ==
  ASSUME NEW r \in SignalRow, NEW n \in 0..MaxAttempts, NEW q, q = [r EXCEPT !.attempts = n]
  PROVE  q \in SignalRow /\ q.status = r.status /\ q.attempts = n /\ q.by = r.by
  BY DEF SignalRow

\* An exhausted signal of the plan is failed, if it is still open.
LEMMA CloseStep ==
  ASSUME QueueInv, NEW w \in Workers, NEW i \in Ids, CloseSignal(w, i)
  PROVE  QueueInv' /\ StaysClosed
<1> DEFINE s == IF signals[i].status \in Open THEN "failed" ELSE signals[i].status
           r == [signals[i] EXCEPT !.status = s]
           p == [plan[w] EXCEPT !.close = plan[w].close \ {i}]
<1>1. QueueTypes /\ plan \in [Workers -> Plans]
  BY DEF QueueInv, QueueTypes
<1>2. /\ signals' = [signals EXCEPT ![i] = r]
      /\ plan' = [plan EXCEPT ![w] = p]
      /\ runs' = runs /\ at' = at /\ mine' = mine /\ row' = row
      /\ hb' = hb /\ stolen' = stolen
  BY <1>1 DEF CloseSignal, heartbeatVars
<1>3. signals[i] \in SignalRow /\ s \in Open \cup Closed
  BY <1>1, RowsAreTyped DEF Open, Closed
<1>4. r \in SignalRow /\ r.status = s /\ r.attempts = signals[i].attempts /\ r.by = signals[i].by
  <2> HIDE DEF s
  <2> QED BY <1>3, StatusSet
<1>5. /\ p \in Plans /\ p.close \subseteq plan[w].close /\ p.requeue = plan[w].requeue
      /\ p.claim = plan[w].claim
  BY <1>1 DEF Plans
<1>6. s = "queued" => signals[i].status = "queued"
  BY DEF Closed
<1>7. signals[i].status \in Closed => s \in Closed
  BY DEF Closed
<1> HIDE DEF s, r, p
<1>8. /\ signals' \in Seq(SignalRow) /\ Len(signals') = Len(signals) /\ Ids' = Ids
      /\ signals'[i] = r /\ \A j \in Ids \ {i} : signals'[j] = signals[j]
  BY <1>1, <1>2, <1>4, SignalUpdated
<1>9. plan' \in [Workers -> Plans] /\ plan'[w] = p
      /\ \A v \in Workers \ {w} : plan'[v] = plan[v]
  BY <1>1, <1>2, <1>5
<1>10. QueueTypes'
  BY <1>2, <1>8, <1>9 DEF QueueInv, QueueTypes
<1>11. WorkersAreSound'
  <2> SUFFICES ASSUME NEW v \in Workers PROVE PlanAt(v)' /\ ClaimAt(v)'
    BY DEF WorkersAreSound
  <2>1. PlanAt(v) /\ ClaimAt(v)
    BY DEF QueueInv, WorkersAreSound
  <2>2. PlanAt(v)'
    BY <1>5, <1>8, <1>9, <2>1 DEF PlanAt
  <2>3. ClaimAt(v)'
    BY <1>2, <1>8, <2>1 DEF ClaimAt
  <2> QED BY <2>2, <2>3
<1>12. \A j \in Ids :
           /\ Len(runs'[j]) = Len(runs[j])
           /\ signals'[j].attempts = signals[j].attempts
           /\ signals'[j].by = signals[j].by
           /\ signals[j].status \in Closed => signals'[j].status \in Closed
           /\ signals'[j].status = "queued" =>
                signals[j].status = "queued" \/ Holders(j) = {} \/ j \in stolen'
  BY <1>2, <1>4, <1>6, <1>7, <1>8
<1>13. \A v \in Workers :
           /\ mine'[v] \in {mine[v], 0}
           /\ at'[v] = "insert" => at[v] = "insert"
           /\ at[v] \in Early => at'[v] \in Early
  BY <1>2
<1> QED BY <1>2, <1>8, <1>10, <1>11, <1>12, <1>13, QuietStep

\* A requeue under a live worker is what stolen remembers.
LEMMA RequeueStep ==
  ASSUME QueueInv, NEW w \in Workers, NEW i \in Ids, RequeueSignal(w, i)
  PROVE  QueueInv' /\ StaysClosed
<1> DEFINE r == IF signals[i].status = "running"
                THEN [[signals[i] EXCEPT !.status = "queued"] EXCEPT !.stale = FALSE]
                ELSE signals[i]
           p == [plan[w] EXCEPT !.requeue = plan[w].requeue \ {i}]
<1>1. QueueTypes /\ plan \in [Workers -> Plans]
  BY DEF QueueInv, QueueTypes
<1>2. /\ plan' = [plan EXCEPT ![w] = p]
      /\ runs' = runs /\ at' = at /\ mine' = mine /\ row' = row /\ hb' = hb
  BY <1>1 DEF RequeueSignal, heartbeatVars
<1>3. signals[i] \in SignalRow
  BY <1>1, RowsAreTyped
<1>4. /\ r \in SignalRow /\ r.attempts = signals[i].attempts /\ r.by = signals[i].by
      /\ r.status = IF signals[i].status = "running" THEN "queued" ELSE signals[i].status
  <2> DEFINE q == [signals[i] EXCEPT !.status = "queued"]
             t == [q EXCEPT !.stale = FALSE]
  <2>1. q \in SignalRow /\ q.status = "queued" /\ q.attempts = signals[i].attempts
        /\ q.by = signals[i].by
    BY <1>3, StatusSet DEF Open
  <2>2. t \in SignalRow /\ t.status = "queued" /\ t.attempts = signals[i].attempts
        /\ t.by = signals[i].by
    <3> HIDE DEF q
    <3>1. t \in SignalRow /\ t.status = q.status /\ t.attempts = q.attempts /\ t.by = q.by
      BY <2>1, StaleSet
    <3> QED BY <2>1, <3>1
  <2>3. r = IF signals[i].status = "running" THEN t ELSE signals[i]
    OBVIOUS
  <2> HIDE DEF r, q, t
  <2> QED BY <1>3, <2>2, <2>3
<1>6. signals' = [signals EXCEPT ![i] = r]
  <2>1. CASE signals[i].status = "running"
    BY <1>1, <2>1 DEF RequeueSignal, QueueTypes
  <2>2. CASE signals[i].status # "running"
    <3>1. signals' = signals /\ r = signals[i]
      BY <2>2 DEF RequeueSignal
    <3>2. signals = [signals EXCEPT ![i] = signals[i]]
      BY <1>1 DEF QueueTypes, Ids
    <3> QED BY <3>1, <3>2
  <2> QED BY <2>1, <2>2
<1>7. /\ stolen \subseteq stolen'
      /\ signals[i].status = "running" /\ Holders(i) # {} => i \in stolen'
  <2>1. CASE signals[i].status = "running" /\ Holders(i) # {}
    BY <2>1 DEF RequeueSignal
  <2>2. CASE ~ (signals[i].status = "running" /\ Holders(i) # {})
    BY <2>2 DEF RequeueSignal
  <2> QED BY <2>1, <2>2
<1>8. /\ p \in Plans /\ p.close = plan[w].close /\ p.requeue \subseteq plan[w].requeue
      /\ p.claim = plan[w].claim
  BY <1>1 DEF Plans
<1> HIDE DEF r, p
<1>9. /\ signals' \in Seq(SignalRow) /\ Len(signals') = Len(signals) /\ Ids' = Ids
      /\ signals'[i] = r /\ \A j \in Ids \ {i} : signals'[j] = signals[j]
  BY <1>1, <1>4, <1>6, SignalUpdated
<1>10. plan' \in [Workers -> Plans] /\ plan'[w] = p
      /\ \A v \in Workers \ {w} : plan'[v] = plan[v]
  BY <1>1, <1>2, <1>8
<1>11. QueueTypes'
  BY <1>2, <1>9, <1>10 DEF QueueInv, QueueTypes
<1>12. WorkersAreSound'
  <2> SUFFICES ASSUME NEW v \in Workers PROVE PlanAt(v)' /\ ClaimAt(v)'
    BY DEF WorkersAreSound
  <2>1. PlanAt(v) /\ ClaimAt(v)
    BY DEF QueueInv, WorkersAreSound
  <2>2. PlanAt(v)'
    BY <1>8, <1>9, <1>10, <2>1 DEF PlanAt
  <2>3. ClaimAt(v)'
    BY <1>2, <1>9, <2>1 DEF ClaimAt
  <2> QED BY <2>2, <2>3
<1>13. \A j \in Ids :
           /\ Len(runs'[j]) = Len(runs[j])
           /\ signals'[j].attempts = signals[j].attempts
           /\ signals'[j].by = signals[j].by
           /\ signals[j].status \in Closed => signals'[j].status \in Closed
           /\ signals'[j].status = "queued" =>
                signals[j].status = "queued" \/ Holders(j) = {} \/ j \in stolen'
  BY <1>2, <1>4, <1>7, <1>9 DEF Closed
<1>14. \A v \in Workers :
           /\ mine'[v] \in {mine[v], 0}
           /\ at'[v] = "insert" => at[v] = "insert"
           /\ at[v] \in Early => at'[v] \in Early
  BY <1>2
<1> QED BY <1>2, <1>7, <1>9, <1>11, <1>12, <1>13, <1>14, QuietStep

\* A claim takes a queued row: if somebody holds it, it was requeued under them.  It
\* adds one to attempt_count and one to those about to insert a run.
LEMMA ClaimStep ==
  ASSUME QueueInv, NEW w \in Workers, Claim(w)
  PROVE  QueueInv' /\ StaysClosed
<1>1. QueueTypes /\ PlanAt(w) /\ ClaimAt(w)
  BY DEF QueueInv, WorkersAreSound
<1>3. PICK i \in Ids : /\ i = plan[w].claim /\ i # 0
                      /\ signals[i].status = "queued" /\ signals[i].attempts < MaxAttempts
  BY <1>1 DEF Claim, PlanAt, Available
<1> DEFINE r == [signals[i] EXCEPT !.status = "running", !.stale = FALSE, !.attempts = @ + 1]
<1>2. /\ at \in [Workers -> Steps] /\ at[w] = "maintain" /\ at' = [at EXCEPT ![w] = "insert"]
      /\ plan \in [Workers -> Plans] /\ plan' = [plan EXCEPT ![w] = NoPlan]
      /\ mine \in [Workers -> Nat] /\ mine' = [mine EXCEPT ![w] = i]
      /\ signals' = [signals EXCEPT ![i] = r]
      /\ runs' = runs /\ row' = row /\ hb' = hb /\ stolen' = stolen
  <2>1. Taken(w, i) /\ at[w] = "maintain"
    BY <1>3 DEF Claim, Planned
  <2>2. signals' = [signals EXCEPT ![i] = r]
    BY <1>1, <2>1 DEF Taken, QueueTypes, Ids
  <2>3. /\ at' = [at EXCEPT ![w] = "insert"] /\ plan' = [plan EXCEPT ![w] = NoPlan]
        /\ mine' = [mine EXCEPT ![w] = i]
        /\ runs' = runs /\ row' = row /\ hb' = hb /\ stolen' = stolen
    BY <2>1 DEF Taken, Goto, heartbeatVars
  <2> QED BY <1>1, <2>1, <2>2, <2>3 DEF QueueTypes
<1>4. signals[i] \in SignalRow /\ signals[i].attempts \in 0..MaxAttempts /\ Len(runs[i]) \in Nat
  BY <1>1, <1>3, RowsAreTyped DEF SignalRow
<1>5. /\ r \in SignalRow /\ r.status = "running" /\ r.by = signals[i].by
      /\ r.attempts = signals[i].attempts + 1
  <2> DEFINE q == [signals[i] EXCEPT !.status = "running"]
             t == [q EXCEPT !.stale = FALSE]
             n == signals[i].attempts + 1
             u == [t EXCEPT !.attempts = n]
  <2>1. n \in 0..MaxAttempts
    BY <1>3, <1>4 DEF MaxAttempts
  <2>2. q \in SignalRow /\ q.status = "running" /\ q.by = signals[i].by
    <3>1. "running" \in Open \cup Closed
      BY DEF Open
    <3> QED BY <1>4, <3>1, StatusSet
  <2>3. t \in SignalRow /\ t.status = "running" /\ t.by = signals[i].by
    <3> HIDE DEF q
    <3> QED BY <2>2, StaleSet
  <2>4. u \in SignalRow /\ u.status = "running" /\ u.by = signals[i].by /\ u.attempts = n
    <3> HIDE DEF t, n
    <3> QED BY <2>1, <2>3, AttemptsSet
  <2>5. r = u
    BY <1>4 DEF SignalRow
  <2> QED BY <2>4, <2>5
<1> HIDE DEF r
<1>6. NoPlan \in Plans
  BY DEF NoPlan, Plans
<1>7. /\ signals' \in Seq(SignalRow) /\ Len(signals') = Len(signals) /\ Ids' = Ids
      /\ signals'[i] = r /\ \A j \in Ids \ {i} : signals'[j] = signals[j]
  BY <1>1, <1>2, <1>3, <1>5, SignalUpdated
<1>8. /\ at'[w] = "insert" /\ plan'[w] = NoPlan /\ mine'[w] = i
      /\ \A v \in Workers \ {w} : at'[v] = at[v] /\ plan'[v] = plan[v] /\ mine'[v] = mine[v]
  BY <1>2
<1>9. QueueTypes'
  <2>1. i \in Nat
    BY <1>1, <1>3, RowsAreTyped
  <2>2. /\ at' \in [Workers -> Steps] /\ plan' \in [Workers -> Plans]
        /\ mine' \in [Workers -> Nat]
    BY <1>2, <1>6, <2>1 DEF Steps, Holding
  <2> QED BY <1>2, <1>7, <2>2 DEF QueueInv, QueueTypes
<1>10. WorkersAreSound'
  <2> SUFFICES ASSUME NEW v \in Workers PROVE PlanAt(v)' /\ ClaimAt(v)'
    BY DEF WorkersAreSound
  <2>1. PlanAt(v) /\ ClaimAt(v) /\ row[v] \in Nat
    BY DEF QueueInv, QueueTypes, WorkersAreSound
  <2>2. CASE v = w
    <3>1. PlanAt(w)'
      BY <1>8 DEF PlanAt, NoPlan
    <3>2. row[w] = 0 /\ row[w] \in 0..Len(runs[i])
      BY <1>1, <1>2, <1>4 DEF ClaimAt
    <3>3. ClaimAt(w)'
      BY <1>2, <1>3, <1>7, <1>8, <3>2 DEF ClaimAt, Holding
    <3> QED BY <2>2, <3>1, <3>3
  <2>3. CASE v # w
    <3>1. \A j \in Ids : Len(runs[j]) \in Nat
      BY <1>1, RowsAreTyped
    <3> QED BY <1>2, <1>7, <1>8, <2>1, <2>3, <3>1, WorkerKept
  <2> QED BY <2>2, <2>3
<1>11. SignalsAreSound'
  <2> SUFFICES ASSUME NEW j \in Ids PROVE CountedAt(j)' /\ HeldAt(j)' /\ ExclusiveAt(j)'
    BY <1>7 DEF SignalsAreSound
  <2>1. CountedAt(j) /\ HeldAt(j) /\ ExclusiveAt(j)
    BY DEF QueueInv, SignalsAreSound
  <2>2. mine[w] = 0
    BY <1>1, <1>2 DEF ClaimAt, Holding
  <2>3. CASE j # i
    <3>1. Holders(j)' \subseteq Holders(j)
      BY <1>8, <2>3 DEF Holders
    <3>2. Inserting(j)' \subseteq Inserting(j)
      BY <1>8, <2>3 DEF Inserting, Holders
    <3>3. \A v \in Workers : at[v] \in Early => at'[v] \in Early
      BY <1>2, <1>8 DEF Early
    <3> QED BY <1>1, <1>2, <1>7, <2>1, <2>3, <3>1, <3>2, <3>3, SignalKept
  <2>4. CASE j = i
    <3>1. Holders(i)' = Holders(i) \cup {w}
      BY <1>3, <1>8, <2>2 DEF Holders
    <3>2. Inserting(i)' = Inserting(i) \cup {w} /\ w \notin Inserting(i)
      BY <1>2, <1>3, <1>8, <2>2 DEF Inserting, Holders
    <3>3. Counted(i)
      <4>1. ~ Uncounted(i)
        BY <1>2, <1>3 DEF Uncounted, Early, Closed
      <4> QED BY <2>1, <2>4, <4>1 DEF CountedAt
    <3>4. Cardinality(Inserting(i)') = Cardinality(Inserting(i)) + 1
      BY <3>2, InsertersAreFinite, FS_AddElement
    <3>5. Counted(i)'
      BY <1>2, <1>4, <1>5, <1>7, <3>3, <3>4, InsertersAreFinite DEF Counted
    <3>6. HeldAt(i)'
      BY <1>5, <1>7 DEF HeldAt
    <3>7. ExclusiveAt(i)'
      <4>1. Holders(i) # {} => i \in stolen
        BY <1>3, <2>1, <2>4 DEF HeldAt
      <4> QED BY <1>2, <3>1, <4>1 DEF ExclusiveAt
    <3> QED BY <2>4, <3>5, <3>6, <3>7 DEF CountedAt
  <2> QED BY <2>3, <2>4
<1>12. HeartbeatEnqueues'
  BY <1>2, <1>5, <1>7, KeyKept DEF QueueInv
<1>13. StaysClosed
  BY <1>3, <1>7 DEF StaysClosed, Closed
<1> QED BY <1>9, <1>10, <1>11, <1>12, <1>13 DEF QueueInv

\* The run row takes the place of its inserter in what attempt_count covers.
LEMMA InsertRunStep ==
  ASSUME QueueInv, NEW w \in Workers, InsertRun(w)
  PROVE  QueueInv' /\ StaysClosed
<1>1. QueueTypes /\ ClaimAt(w)
  BY DEF QueueInv, WorkersAreSound
<1>3. PICK i \in Ids : i = mine[w] /\ i # 0
  BY <1>1 DEF ClaimAt, Holding, InsertRun
<1> DEFINE q == Append(runs[i], "running")
<1>2. /\ at \in [Workers -> Steps] /\ at[w] = "insert" /\ at' = [at EXCEPT ![w] = "execute"]
      /\ row \in [Workers -> Nat] /\ row' = [row EXCEPT ![w] = Len(runs[i]) + 1]
      /\ runs \in Seq(Seq(RunStates)) /\ runs' = [runs EXCEPT ![i] = q]
      /\ signals' = signals /\ plan' = plan /\ mine' = mine /\ hb' = hb /\ stolen' = stolen
  BY <1>1, <1>3 DEF QueueTypes, InsertRun, Goto, heartbeatVars
<1>4. /\ Ids = 1..Len(signals) /\ Ids = DOMAIN runs /\ Ids' = Ids
      /\ \A j \in Ids : Len(runs[j]) \in Nat /\ runs[j] \in Seq(RunStates)
  BY <1>1, <1>2, RowsAreTyped DEF QueueTypes, Ids
<1>5. q \in Seq(RunStates) /\ Len(q) = Len(runs[i]) + 1
  BY <1>3, <1>4 DEF RunStates
<1> HIDE DEF q
<1>6. /\ runs' \in Seq(Seq(RunStates)) /\ Len(runs') = Len(runs)
      /\ runs'[i] = q /\ \A j \in Ids \ {i} : runs'[j] = runs[j]
  BY <1>2, <1>3, <1>4, <1>5
<1>7. /\ at'[w] = "execute" /\ row'[w] = Len(runs[i]) + 1
      /\ \A v \in Workers \ {w} : at'[v] = at[v] /\ row'[v] = row[v]
  BY <1>2
<1>8. QueueTypes'
  <2>1. at' \in [Workers -> Steps] /\ row' \in [Workers -> Nat]
    BY <1>2, <1>3, <1>4 DEF Steps, Holding
  <2> QED BY <1>2, <1>6, <2>1 DEF QueueInv, QueueTypes
<1>9. \A j \in Ids : Len(runs'[j]) \in Nat /\ Len(runs'[j]) >= Len(runs[j])
  <2> SUFFICES ASSUME NEW j \in Ids PROVE Len(runs'[j]) \in Nat /\ Len(runs'[j]) >= Len(runs[j])
    OBVIOUS
  <2>1. CASE j = i
    BY <1>4, <1>5, <1>6, <2>1
  <2>2. CASE j # i
    BY <1>4, <1>6, <2>2
  <2> QED BY <2>1, <2>2
<1>10. WorkersAreSound'
  <2> SUFFICES ASSUME NEW v \in Workers PROVE PlanAt(v)' /\ ClaimAt(v)'
    BY DEF WorkersAreSound
  <2>1. PlanAt(v) /\ ClaimAt(v) /\ row[v] \in Nat
    BY DEF QueueInv, QueueTypes, WorkersAreSound
  <2>2. CASE v = w
    <3>1. PlanAt(w)'
      BY <1>2, <1>4, <2>1, <2>2 DEF PlanAt
    <3>2. mine'[w] = i /\ row'[w] \in 0..Len(runs'[i]) /\ row'[w] # 0
      BY <1>2, <1>3, <1>4, <1>5, <1>6, <1>7
    <3>3. ClaimAt(w)'
      BY <1>3, <1>4, <1>7, <3>2 DEF ClaimAt, Holding
    <3> QED BY <2>2, <3>1, <3>3
  <2>3. CASE v # w
    BY <1>2, <1>4, <1>7, <1>9, <2>1, <2>3, WorkerKept
  <2> QED BY <2>2, <2>3
<1>11. SignalsAreSound'
  <2> SUFFICES ASSUME NEW j \in Ids PROVE CountedAt(j)' /\ HeldAt(j)' /\ ExclusiveAt(j)'
    BY <1>4 DEF SignalsAreSound
  <2>1. CountedAt(j) /\ HeldAt(j) /\ ExclusiveAt(j)
    BY DEF QueueInv, SignalsAreSound
  <2>2. Holders(j)' = Holders(j)
    BY <1>2 DEF Holders
  <2>3. HeldAt(j)' /\ ExclusiveAt(j)'
    BY <1>2, <2>1, <2>2 DEF HeldAt, ExclusiveAt
  <2>4. CASE j # i
    <3>1. Inserting(j)' \subseteq Inserting(j)
      BY <1>2, <1>7 DEF Inserting, Holders
    <3>2. \A v \in Workers : at[v] \in Early => at'[v] \in Early
      BY <1>2, <1>7 DEF Early
    <3> QED BY <1>1, <1>2, <1>6, <2>1, <2>2, <2>4, <3>1, <3>2, SignalKept
  <2>5. CASE j = i
    <3>1. Inserting(i)' = Inserting(i) \ {w} /\ w \in Inserting(i)
      BY <1>2, <1>3, <1>7 DEF Inserting, Holders
    <3>2. Counted(i)
      BY <2>1, <2>5, <3>1 DEF CountedAt, Uncounted, Inserting
    <3>3. Cardinality(Inserting(i)') = Cardinality(Inserting(i)) - 1
      BY <3>1, InsertersAreFinite, FS_RemoveElement
    <3>4. Len(runs[i]) \in Nat /\ signals[i].attempts \in Nat
      BY <1>1, <1>3, RowsAreTyped
    <3>5. Counted(i)'
      BY <1>2, <1>5, <1>6, <3>2, <3>3, <3>4, InsertersAreFinite DEF Counted
    <3> QED BY <2>3, <2>5, <3>5 DEF CountedAt
  <2> QED BY <2>4, <2>5
<1>12. HeartbeatEnqueues'
  BY <1>2, <1>4, KeyKept DEF QueueInv
<1>13. StaysClosed
  BY <1>2 DEF StaysClosed
<1> QED BY <1>8, <1>10, <1>11, <1>12, <1>13 DEF QueueInv

\* One run row is rewritten: by the worker it belongs to, or by the clock.
LEMMA RunRowStep ==
  ASSUME QueueInv, QueueTypes', WorkersAreSound', NEW i \in Ids, NEW j, NEW state \in RunStates,
         runs' = [runs EXCEPT ![i][j] = state],
         signals' = signals, hb' = hb, stolen' = stolen,
         \A v \in Workers :
           /\ mine'[v] \in {mine[v], 0}
           /\ at'[v] = "insert" => at[v] = "insert"
           /\ at[v] \in Early => at'[v] \in Early
  PROVE  QueueInv' /\ StaysClosed
<1>1. Ids' = Ids
  BY DEF Ids
<1>2. \A k \in Ids : Len(runs'[k]) = Len(runs[k])
  <2>1. runs \in Seq(Seq(RunStates)) /\ Ids = DOMAIN runs
    BY DEF QueueInv, QueueTypes, Ids
  <2> SUFFICES ASSUME NEW k \in Ids PROVE Len(runs'[k]) = Len(runs[k])
    OBVIOUS
  <2>2. CASE k # i
    BY <2>1, <2>2
  <2>3. CASE k = i
    <3>1. runs'[i] = [runs[i] EXCEPT ![j] = state] /\ runs[i] \in Seq(RunStates)
      BY <2>1
    <3> QED BY <2>3, <3>1
  <2> QED BY <2>2, <2>3
<1>3. \A k \in Ids :
           /\ Len(runs'[k]) = Len(runs[k])
           /\ signals'[k].attempts = signals[k].attempts
           /\ signals'[k].by = signals[k].by
           /\ signals[k].status \in Closed => signals'[k].status \in Closed
           /\ signals'[k].status = "queued" =>
                signals[k].status = "queued" \/ Holders(k) = {} \/ k \in stolen'
  BY <1>2
<1> QED BY <1>1, <1>3, QuietStep

\* Rewriting a run row keeps the table's type and every length.
LEMMA RunRowTyped ==
  ASSUME QueueTypes, NEW i \in Ids, NEW j, NEW state \in RunStates,
         runs' = [runs EXCEPT ![i][j] = state]
  PROVE  /\ runs' \in Seq(Seq(RunStates)) /\ Len(runs') = Len(runs)
         /\ \A k \in Ids : Len(runs'[k]) = Len(runs[k])
<1>1. runs \in Seq(Seq(RunStates)) /\ Ids = DOMAIN runs
  BY DEF QueueTypes, Ids
<1> DEFINE q == [runs[i] EXCEPT ![j] = state]
<1>2. runs[i] \in Seq(RunStates)
  BY <1>1
<1>3. q \in Seq(RunStates) /\ Len(q) = Len(runs[i])
  <2>1. runs[i] \in [1..Len(runs[i]) -> RunStates] /\ Len(runs[i]) \in Nat
    BY <1>2
  <2>2. q \in [1..Len(runs[i]) -> RunStates]
    BY <2>1
  <2> HIDE DEF q
  <2> QED BY <2>1, <2>2, TableOf
<1>4. runs' = [runs EXCEPT ![i] = q]
  BY <1>1
<1> HIDE DEF q
<1>5. runs' \in Seq(Seq(RunStates)) /\ Len(runs') = Len(runs)
  <2>1. PICK n \in Nat : n = Len(runs)
    BY <1>1
  <2>2. PICK S : S = Seq(RunStates)
    OBVIOUS
  <2>3. runs \in [1..n -> S]
    BY <1>1, <2>1, <2>2
  <2>4. runs' \in [1..n -> S]
    BY <1>3, <1>4, <2>2, <2>3
  <2>5. runs' \in Seq(S) /\ Len(runs') = n
    BY <2>4, TableOf
  <2> QED BY <2>1, <2>2, <2>5
<1>6. runs'[i] = q /\ \A k \in Ids \ {i} : runs'[k] = runs[k]
  BY <1>1, <1>4
<1> QED BY <1>3, <1>5, <1>6

\* The worker ends the run it inserted.
LEMMA EndRunStep ==
  ASSUME QueueInv, NEW w \in Workers, EndRun(w)
  PROVE  QueueInv' /\ StaysClosed
<1>1. QueueTypes /\ ClaimAt(w)
  BY DEF QueueInv, WorkersAreSound
<1>2. PICK i \in Ids : i = mine[w] /\ i # 0
  BY <1>1 DEF ClaimAt, Holding, EndRun
<1>3. /\ at \in [Workers -> Steps] /\ at[w] = "execute" /\ at' = [at EXCEPT ![w] = "close"]
      /\ runs' = [runs EXCEPT ![i][row[w]] = "ended"]
      /\ signals' = signals /\ plan' = plan /\ mine' = mine /\ row' = row
      /\ hb' = hb /\ stolen' = stolen
  BY <1>1, <1>2 DEF QueueTypes, EndRun, Goto, heartbeatVars
<1>4. at'[w] = "close" /\ \A v \in Workers \ {w} : at'[v] = at[v]
  BY <1>3
<1>5. "ended" \in RunStates
  BY DEF RunStates
<1>6. /\ runs' \in Seq(Seq(RunStates)) /\ Len(runs') = Len(runs) /\ Ids' = Ids
      /\ \A k \in Ids : Len(runs'[k]) = Len(runs[k])
  BY <1>1, <1>3, <1>5, RunRowTyped DEF Ids
<1>7. QueueTypes'
  BY <1>3, <1>6 DEF QueueInv, QueueTypes, Steps, Holding
<1>8. WorkersAreSound'
  <2> SUFFICES ASSUME NEW v \in Workers PROVE PlanAt(v)' /\ ClaimAt(v)'
    BY DEF WorkersAreSound
  <2>1. PlanAt(v) /\ ClaimAt(v)
    BY DEF QueueInv, WorkersAreSound
  <2>2. PlanAt(v)'
    BY <1>3, <1>6, <2>1 DEF PlanAt
  <2>3. ClaimAt(v)'
    BY <1>3, <1>4, <1>6, <2>1 DEF ClaimAt, Holding
  <2> QED BY <2>2, <2>3
<1>9. \A v \in Workers :
           /\ mine'[v] \in {mine[v], 0}
           /\ at'[v] = "insert" => at[v] = "insert"
           /\ at[v] \in Early => at'[v] \in Early
  BY <1>3, <1>4 DEF Early
<1> QED BY <1>3, <1>5, <1>7, <1>8, <1>9, RunRowStep

\* The worker ends the signal it claimed.
LEMMA EndSignalStep ==
  ASSUME QueueInv, NEW w \in Workers, NEW result \in Closed, EndSignal(w, result)
  PROVE  QueueInv' /\ StaysClosed
<1>1. QueueTypes /\ ClaimAt(w)
  BY DEF QueueInv, WorkersAreSound
<1>2. PICK i \in Ids : i = mine[w] /\ i # 0
  BY <1>1 DEF ClaimAt, Holding, EndSignal
<1> DEFINE r == [signals[i] EXCEPT !.status = result]
<1>3. /\ at \in [Workers -> Steps] /\ at[w] = "close" /\ at' = [at EXCEPT ![w] = "idle"]
      /\ mine \in [Workers -> Nat] /\ mine' = [mine EXCEPT ![w] = 0]
      /\ row \in [Workers -> Nat] /\ row' = [row EXCEPT ![w] = 0]
      /\ signals' = [signals EXCEPT ![i] = r]
      /\ runs' = runs /\ plan' = plan /\ hb' = hb /\ stolen' = stolen
  BY <1>1, <1>2 DEF QueueTypes, EndSignal, Released, Goto, heartbeatVars
<1>4. signals[i] \in SignalRow /\ result \in Open \cup Closed
  BY <1>1, RowsAreTyped
<1>5. r \in SignalRow /\ r.status = result /\ r.attempts = signals[i].attempts
      /\ r.by = signals[i].by
  BY <1>4, StatusSet
<1> HIDE DEF r
<1>6. /\ signals' \in Seq(SignalRow) /\ Len(signals') = Len(signals) /\ Ids' = Ids
      /\ signals'[i] = r /\ \A j \in Ids \ {i} : signals'[j] = signals[j]
  BY <1>1, <1>3, <1>5, SignalUpdated
<1>7. /\ at'[w] = "idle" /\ mine'[w] = 0 /\ row'[w] = 0
      /\ \A v \in Workers \ {w} : at'[v] = at[v] /\ mine'[v] = mine[v] /\ row'[v] = row[v]
  BY <1>3
<1>8. QueueTypes'
  <2>1. at' \in [Workers -> Steps] /\ mine' \in [Workers -> Nat] /\ row' \in [Workers -> Nat]
    BY <1>3 DEF Steps, Early
  <2> QED BY <1>3, <1>6, <2>1 DEF QueueInv, QueueTypes
<1>9. WorkersAreSound'
  <2> SUFFICES ASSUME NEW v \in Workers PROVE PlanAt(v)' /\ ClaimAt(v)'
    BY DEF WorkersAreSound
  <2>1. PlanAt(v) /\ ClaimAt(v)
    BY DEF QueueInv, WorkersAreSound
  <2>2. PlanAt(v)'
    BY <1>3, <1>6, <2>1 DEF PlanAt
  <2>3. ClaimAt(v)'
    BY <1>3, <1>6, <1>7, <2>1 DEF ClaimAt, Holding
  <2> QED BY <2>2, <2>3
<1>10. \A j \in Ids :
           /\ Len(runs'[j]) = Len(runs[j])
           /\ signals'[j].attempts = signals[j].attempts
           /\ signals'[j].by = signals[j].by
           /\ signals[j].status \in Closed => signals'[j].status \in Closed
           /\ signals'[j].status = "queued" =>
                signals[j].status = "queued" \/ Holders(j) = {} \/ j \in stolen'
  BY <1>3, <1>5, <1>6 DEF Closed
<1>11. \A v \in Workers :
           /\ mine'[v] \in {mine[v], 0}
           /\ at'[v] = "insert" => at[v] = "insert"
           /\ at[v] \in Early => at'[v] \in Early
  BY <1>3, <1>7 DEF Early
<1> QED BY <1>3, <1>6, <1>8, <1>9, <1>10, <1>11, QuietStep

\* The clock moves no worker.
LEMMA ClockStep ==
  ASSUME QueueInv, TimePasses
  PROVE  QueueInv' /\ StaysClosed
<1>1. /\ plan' = plan /\ at' = at /\ mine' = mine /\ row' = row /\ hb' = hb /\ stolen' = stolen
  BY DEF TimePasses, SignalGoesStale, RunGoesStale, workerVars, heartbeatVars
<1>2. QueueTypes
  BY DEF QueueInv
<1>3. \A v \in Workers :
           /\ mine'[v] \in {mine[v], 0}
           /\ at'[v] = "insert" => at[v] = "insert"
           /\ at[v] \in Early => at'[v] \in Early
  BY <1>1
<1>4. ASSUME Ids' = Ids, \A k \in Ids : Len(runs'[k]) = Len(runs[k])
      PROVE  WorkersAreSound'
  <2> SUFFICES ASSUME NEW v \in Workers PROVE PlanAt(v)' /\ ClaimAt(v)'
    BY DEF WorkersAreSound
  <2>1. PlanAt(v) /\ ClaimAt(v)
    BY DEF QueueInv, WorkersAreSound
  <2>2. PlanAt(v)'
    BY <1>1, <1>4, <2>1 DEF PlanAt
  <2>3. ClaimAt(v)'
    BY <1>1, <1>4, <2>1 DEF ClaimAt
  <2> QED BY <2>2, <2>3
<1>5. ASSUME NEW i \in Ids, SignalGoesStale(i)
      PROVE  QueueInv' /\ StaysClosed
  <2> DEFINE r == [signals[i] EXCEPT !.stale = TRUE]
  <2>1. signals' = [signals EXCEPT ![i] = r] /\ runs' = runs
    BY <1>2, <1>5 DEF SignalGoesStale, QueueTypes
  <2>2. r \in SignalRow /\ r.status = signals[i].status /\ r.attempts = signals[i].attempts
        /\ r.by = signals[i].by
    BY <1>2, RowsAreTyped, StaleSet
  <2> HIDE DEF r
  <2>3. /\ signals' \in Seq(SignalRow) /\ Len(signals') = Len(signals) /\ Ids' = Ids
        /\ signals'[i] = r /\ \A j \in Ids \ {i} : signals'[j] = signals[j]
    BY <1>2, <2>1, <2>2, SignalUpdated
  <2>4. QueueTypes'
    BY <1>1, <1>2, <2>1, <2>3 DEF QueueTypes
  <2>5. WorkersAreSound'
    BY <1>4, <2>1, <2>3
  <2>6. \A j \in Ids :
           /\ Len(runs'[j]) = Len(runs[j])
           /\ signals'[j].attempts = signals[j].attempts
           /\ signals'[j].by = signals[j].by
           /\ signals[j].status \in Closed => signals'[j].status \in Closed
           /\ signals'[j].status = "queued" =>
                signals[j].status = "queued" \/ Holders(j) = {} \/ j \in stolen'
    BY <2>1, <2>2, <2>3
  <2> QED BY <1>1, <1>3, <2>3, <2>4, <2>5, <2>6, QuietStep
<1>6. ASSUME NEW i \in Ids, NEW j \in DOMAIN runs[i], RunGoesStale(i, j)
      PROVE  QueueInv' /\ StaysClosed
  <2>1. runs' = [runs EXCEPT ![i][j] = "overdue"] /\ signals' = signals
    BY <1>6 DEF RunGoesStale
  <2>2. "overdue" \in RunStates
    BY DEF RunStates
  <2>3. /\ runs' \in Seq(Seq(RunStates)) /\ Len(runs') = Len(runs) /\ Ids' = Ids
        /\ \A k \in Ids : Len(runs'[k]) = Len(runs[k])
    BY <1>2, <2>1, <2>2, RunRowTyped DEF Ids
  <2>4. QueueTypes'
    BY <1>1, <1>2, <2>1, <2>3 DEF QueueTypes
  <2>5. WorkersAreSound'
    BY <1>4, <2>3
  <2> QED BY <1>1, <1>3, <2>1, <2>2, <2>4, <2>5, RunRowStep
<1> QED BY <1>5, <1>6 DEF TimePasses

-----------------------------------------------------------------------------
\* An insert, by whomever.
LEMMA InsertStep ==
  ASSUME QueueInv, NEW s \in SignalRow, s.attempts = 0, Insert(s),
         at' = at, plan' = plan, mine' = mine, row' = row, stolen' = stolen,
         hb' \in [Heartbeats -> {"idle", "claim", "again", "insert", "answered", "dead"}],
         hb' = hb \/ s.by \in Heartbeats
  PROVE  QueueInv' /\ StaysClosed
<1>1. QueueTypes /\ WorkersAreSound /\ SignalsAreSound /\ HeartbeatEnqueues
  BY DEF QueueInv
<1>2. /\ signals' \in Seq(SignalRow) /\ Len(signals') \in 1..MaxSignals
      /\ runs' \in Seq(Seq(RunStates)) /\ Len(runs') = Len(signals')
      /\ Ids \subseteq Ids' /\ \A i \in Ids : signals'[i] = signals[i]
      /\ WorkersAreSound'
      /\ SignalsAreSound'
  BY <1>1, Inserted
<1>3. QueueTypes'
  BY <1>1, <1>2 DEF QueueTypes
<1>4. HeartbeatEnqueues'
  <2>1. CASE hb' = hb
    BY <1>1, <1>2, <2>1, KeyKept
  <2>2. CASE s.by \in Heartbeats
    <3> DEFINE n == Len(signals) + 1
    <3>1. signals' = Append(signals, s) /\ signals \in Seq(SignalRow)
      BY <1>1 DEF Insert, QueueTypes
    <3>2. n \in DOMAIN signals' /\ signals'[n] = s
      BY <3>1
    <3>3. n \in Keyed'
      BY <2>2, <3>2 DEF Keyed, Ids
    <3> QED BY <3>3 DEF HeartbeatEnqueues
  <2> QED BY <2>1, <2>2
<1>5. StaysClosed
  BY <1>2 DEF StaysClosed
<1> QED BY <1>2, <1>3, <1>4, <1>5 DEF QueueInv

\* The heartbeat's own statements leave the tables alone, and it answers only when it
\* saw a keyed signal.
LEMMA HeartbeatStep ==
  ASSUME QueueInv, NEW h \in Heartbeats,
         LookForKey(h) \/ ClaimKey(h) \/ ClaimKeyThrows(h) \/ LookAgain(h) \/ HeartbeatDies(h)
  PROVE  QueueInv' /\ StaysClosed
<1> DEFINE Places == {"idle", "claim", "again", "insert", "answered", "dead"}
<1>1. /\ signals' = signals /\ runs' = runs /\ plan' = plan /\ at' = at
      /\ mine' = mine /\ row' = row /\ stolen' = stolen
  BY DEF LookForKey, ClaimKey, ClaimKeyThrows, LookAgain, HeartbeatDies, tables, workerVars
<1>2. QueueTypes /\ HeartbeatEnqueues /\ hb \in [Heartbeats -> Places]
  BY DEF QueueInv, QueueTypes
<1>3. \E p \in Places : hb' = [hb EXCEPT ![h] = p] /\ (p = "answered" => Keyed # {})
  BY DEF LookForKey, ClaimKey, ClaimKeyThrows, LookAgain, HeartbeatDies
<1>4. PICK p \in Places : hb' = [hb EXCEPT ![h] = p] /\ (p = "answered" => Keyed # {})
  BY <1>3
<1>5. hb' \in [Heartbeats -> Places] /\ hb'[h] = p
      /\ \A g \in Heartbeats \ {h} : hb'[g] = hb[g]
  BY <1>2, <1>4
<1>6. QueueTypes'
  BY <1>1, <1>2, <1>5 DEF QueueTypes
<1>7. Keyed' = Keyed
  BY <1>1 DEF Keyed, Ids
<1>8. HeartbeatEnqueues'
  BY <1>2, <1>4, <1>5, <1>7 DEF HeartbeatEnqueues
<1>9. WorkersAreSound'
  <2>1. WorkersAreSound
    BY DEF QueueInv
  <2> QED BY <1>1, <2>1 DEF WorkersAreSound, PlanAt, ClaimAt, Ids
<1>10. SignalsAreSound'
  <2>1. SignalsAreSound
    BY DEF QueueInv
  <2> SUFFICES ASSUME NEW i \in Ids PROVE CountedAt(i)' /\ HeldAt(i)' /\ ExclusiveAt(i)'
    BY <1>1 DEF SignalsAreSound, Ids
  <2>2. CountedAt(i) /\ HeldAt(i) /\ ExclusiveAt(i)
    BY <2>1 DEF SignalsAreSound
  <2>3. Holders(i)' = Holders(i) /\ Inserting(i)' = Inserting(i)
    BY <1>1 DEF Holders, Inserting
  <2> QED BY <1>1, <1>2, <2>2, <2>3, SignalKept
<1>11. StaysClosed
  BY <1>1 DEF StaysClosed
<1> QED BY <1>6, <1>8, <1>9, <1>10, <1>11 DEF QueueInv

\* The owner and the heartbeats add signals, or refuse to.
LEMMA ProducerStep ==
  ASSUME QueueInv, Producers
  PROVE  QueueInv' /\ StaysClosed
<1>1. hb \in [Heartbeats -> {"idle", "claim", "again", "insert", "answered", "dead"}]
  BY DEF QueueInv, QueueTypes
<1>2. \A kind \in {"business_improve", "other"}, by \in Heartbeats \cup {"owner"} :
        LET s == Signal(kind, by) IN s \in SignalRow /\ s.attempts = 0 /\ s.by = by
  BY DEF Signal, SignalRow, Open, MaxAttempts
<1>3. ASSUME NEW kind \in {"business_improve", "other"}, EnqueueSignal(kind)
      PROVE  QueueInv' /\ StaysClosed
  <2>1. /\ Insert(Signal(kind, "owner")) /\ at' = at /\ plan' = plan /\ mine' = mine
        /\ row' = row /\ stolen' = stolen /\ hb' = hb
    BY <1>3 DEF EnqueueSignal, workerVars, heartbeatVars
  <2> QED BY <1>1, <1>2, <2>1, InsertStep
<1>4. ASSUME NEW h \in Heartbeats, InsertKeyed(h)
      PROVE  QueueInv' /\ StaysClosed
  <2>1. /\ Insert(Signal("business_improve", h)) /\ at' = at /\ plan' = plan /\ mine' = mine
        /\ row' = row /\ stolen' = stolen /\ hb' = [hb EXCEPT ![h] = "answered"]
    BY <1>4 DEF InsertKeyed, workerVars
  <2>2. hb' \in [Heartbeats -> {"idle", "claim", "again", "insert", "answered", "dead"}]
    BY <1>1, <2>1
  <2> QED BY <1>2, <2>1, <2>2, InsertStep
<1> QED BY <1>3, <1>4, HeartbeatStep DEF Producers

\* At the start only runs recorded earlier exist, all ended.
LEMMA Initially ==
  ASSUME Init
  PROVE  QueueInv
<1>1. PICK n \in LegacyRuns : runs = <<[j \in 1..n |-> "stale_timeout"]>>
  BY DEF Init
<1>2. n \in 0..MaxAttempts
  BY QueueAssumption
<1>3. /\ signals = <<Signal("business_improve", "owner")>>
      /\ at = [w \in Workers |-> "idle"] /\ plan = [w \in Workers |-> NoPlan]
      /\ mine = [w \in Workers |-> 0] /\ row = [w \in Workers |-> 0]
      /\ hb = [h \in Heartbeats |-> "idle"]
  BY DEF Init
<1>4. Signal("business_improve", "owner") \in SignalRow
  BY DEF Signal, SignalRow, Open, MaxAttempts
<1> DEFINE q == [j \in 1..n |-> "stale_timeout"]
<1>5. q \in Seq(RunStates) /\ Len(q) = n
  <2>1. n \in Nat
    BY <1>2
  <2>2. q \in [1..n -> RunStates]
    BY DEF RunStates
  <2> HIDE DEF q
  <2> QED BY <2>1, <2>2, TableOf
<1>6. runs = <<q>>
  BY <1>1
<1> HIDE DEF q
<1>7. Ids = {1} /\ runs[1] = q /\ Len(runs) = 1 /\ Len(signals) = 1
  BY <1>3, <1>6 DEF Ids
<1>8. NoPlan \in Plans
  BY DEF NoPlan, Plans
<1>9. QueueTypes
  <2>1. signals \in Seq(SignalRow) /\ runs \in Seq(Seq(RunStates))
    BY <1>3, <1>4, <1>5, <1>6
  <2>2. 1 \in 1..MaxSignals
    BY QueueAssumption
  <2>3. at \in [Workers -> Steps] /\ mine \in [Workers -> Nat] /\ row \in [Workers -> Nat]
    BY <1>3 DEF Steps, Early
  <2>4. plan \in [Workers -> Plans]
    BY <1>3, <1>8
  <2>5. hb \in [Heartbeats -> {"idle", "claim", "again", "insert", "answered", "dead"}]
    BY <1>3
  <2> QED BY <1>7, <2>1, <2>2, <2>3, <2>4, <2>5 DEF QueueTypes
<1>10. WorkersAreSound
  <2> SUFFICES ASSUME NEW w \in Workers PROVE PlanAt(w) /\ ClaimAt(w)
    BY DEF WorkersAreSound
  <2>1. plan[w] = NoPlan /\ mine[w] = 0 /\ row[w] = 0 /\ at[w] = "idle"
    BY <1>3
  <2>2. PlanAt(w)
    BY <2>1 DEF PlanAt, NoPlan
  <2>3. ClaimAt(w)
    BY <2>1 DEF ClaimAt, Holding
  <2> QED BY <2>2, <2>3
<1>11. SignalsAreSound
  <2> SUFFICES CountedAt(1) /\ HeldAt(1) /\ ExclusiveAt(1)
    BY <1>7 DEF SignalsAreSound
  <2>1. Holders(1) = {}
    BY <1>3 DEF Holders
  <2>2. \A w \in Workers : at[w] \in Early
    BY <1>3 DEF Early
  <2>3. Uncounted(1)
    BY <1>2, <1>5, <1>7, <2>1, <2>2 DEF Uncounted, MaxAttempts
  <2> QED BY <2>1, <2>3 DEF CountedAt, HeldAt, ExclusiveAt
<1>12. HeartbeatEnqueues
  BY <1>3 DEF HeartbeatEnqueues
<1> QED BY <1>9, <1>10, <1>11, <1>12 DEF QueueInv

\* A step that changes nothing keeps the invariant.
LEMMA Stuttering ==
  ASSUME QueueInv, UNCHANGED vars
  PROVE  QueueInv' /\ StaysClosed
<1>1. /\ signals' = signals /\ runs' = runs /\ plan' = plan /\ at' = at
      /\ mine' = mine /\ row' = row /\ stolen' = stolen /\ hb' = hb
  BY DEF vars, tables, workerVars, heartbeatVars
<1>2. StaysClosed
  BY <1>1 DEF StaysClosed
<1>3. QueueTypes'
  BY <1>1 DEF QueueInv, QueueTypes
<1>4. WorkersAreSound'
  BY <1>1 DEF QueueInv, WorkersAreSound, PlanAt, ClaimAt, Ids
<1>5. SignalsAreSound'
  BY <1>1 DEF QueueInv, SignalsAreSound, CountedAt, Counted, Uncounted, HeldAt, ExclusiveAt,
              Inserting, Holders, Ids
<1>6. HeartbeatEnqueues'
  BY <1>1 DEF QueueInv, HeartbeatEnqueues, Keyed, Ids
<1> QED BY <1>2, <1>3, <1>4, <1>5, <1>6 DEF QueueInv

\* Every step keeps the invariant and opens no closed signal.
LEMMA Inductive ==
  QueueInv /\ [Next]_vars => QueueInv' /\ StaysClosed
<1> SUFFICES ASSUME QueueInv, [Next]_vars
             PROVE  QueueInv' /\ StaysClosed
  OBVIOUS
<1>1. CASE Producers
  BY <1>1, ProducerStep
<1>2. ASSUME NEW w \in Workers, Work(w)
      PROVE  QueueInv' /\ StaysClosed
  BY <1>2, StartStep, SweepStep, RecountStep, SelectStep, CloseStep, RequeueStep, ClaimStep,
     IdleStep, InsertRunStep, EndRunStep, EndSignalStep DEF Work
<1>3. ASSUME NEW w \in Workers, Die(w)
      PROVE  QueueInv' /\ StaysClosed
  BY <1>3, DieStep
<1>4. CASE TimePasses
  BY <1>4, ClockStep
<1>5. CASE UNCHANGED vars
  BY <1>5, Stuttering
<1> QED BY <1>1, <1>2, <1>3, <1>4, <1>5 DEF Next

-----------------------------------------------------------------------------
\* The strengthened invariant: attempt_count covers the runs there are and those about
\* to be inserted, for every interleaving of any number of workers.
THEOREM Invariance == Spec => []QueueInv
<1>1. QueueInv /\ [Next]_vars => QueueInv'
  BY Inductive
<1> QED BY Initially, <1>1, PTL DEF Spec

\* Every variable keeps its type; a worker holds a signal exactly while it runs it.
THEOREM QueueTypesHold == Spec => []TypeOK
<1>1. QueueInv => TypeOK
  BY RowsAreTyped DEF QueueInv, QueueTypes, WorkersAreSound, ClaimAt, TypeOK, SignalRow,
     Ids, Holding
<1> QED BY <1>1, Invariance, PTL

\* However workers race, die and retry, no signal runs more than SIGNAL_MAX_ATTEMPTS
\* times (planQueueMaintenance, the claim's guard and the recount together).
THEOREM NoSignalRunsForEver == Spec => []RunsAreBounded
<1>1. QueueInv => RunsAreBounded
  BY CountedIsBounded DEF QueueInv, SignalsAreSound, RunsAreBounded
<1> QED BY <1>1, Invariance, PTL

\* Two workers hold one signal only after it was requeued under a live one.
THEOREM ClaimsAreExclusive == Spec => []ExclusiveUnlessStolen
<1>1. ASSUME QueueInv, NEW i \in Ids, i \notin stolen
      PROVE  ~ (Cardinality(Holders(i)) > 1)
  <2>1. \A v, w \in Holders(i) : v = w
    BY <1>1 DEF QueueInv, SignalsAreSound, ExclusiveAt
  <2>2. CASE Holders(i) = {}
    BY <2>2, FS_EmptySet
  <2>3. CASE Holders(i) # {}
    <3>1. PICK v : Holders(i) = {v}
      BY <2>1, <2>3
    <3> QED BY <3>1, FS_Singleton
  <2> QED BY <2>2, <2>3
<1>2. QueueInv => ExclusiveUnlessStolen
  BY <1>1 DEF ExclusiveUnlessStolen
<1> QED BY <1>2, Invariance, PTL

\* A heartbeat that answers found or inserted a signal with its key.
THEOREM HeartbeatsEnqueue == Spec => []HeartbeatEnqueues
<1>1. QueueInv => HeartbeatEnqueues
  BY DEF QueueInv
<1> QED BY <1>1, Invariance, PTL

\* No outdated plan, requeue or claim opens a signal that was closed: what every
\* implementation of a RetryQueue owes, stated by itself.
THEOREM ClosedSignalsStayClosed == Spec => ClosedStaysClosed
<1>1. QueueInv /\ [Next]_vars =>
        [\A i \in Ids : signals[i].status \in Closed => signals'[i].status \in Closed]_vars
  BY Inductive DEF StaysClosed
<1> QED BY <1>1, Invariance, PTL DEF Spec, ClosedStaysClosed

-----------------------------------------------------------------------------
(* The queue is a RetryQueue: a job's state is its signal's status, and what it has
   left is what the larger of attempt_count and the number of its runs leaves. *)

\* The three states, and which statuses are which.
LEMMA States ==
  /\ StateOf("queued") = "waiting" /\ StateOf("running") = "taken"
  /\ \A s \in Closed : StateOf(s) = "closed"
  /\ \A s \in Open \cup Closed :
       /\ StateOf(s) = "waiting" <=> s = "queued"
       /\ StateOf(s) = "taken" <=> s = "running"
       /\ StateOf(s) = "closed" <=> s \in Closed
BY DEF StateOf, Open, Closed

\* The table of jobs, a row for each signal.
LEMMA JobFacts ==
  ASSUME QueueTypes
  PROVE  /\ DOMAIN Jobs = Ids
         /\ Jobs = [i \in Ids |-> Jobs[i]]
         /\ \A i \in Ids :
              /\ Jobs[i].state = StateOf(signals[i].status)
              /\ Jobs[i].left = MaxAttempts - EffectiveAttempts(i)
              /\ Jobs[i] = [state |-> Jobs[i].state, left |-> Jobs[i].left]
              /\ EffectiveAttempts(i) \in Nat
              /\ EffectiveAttempts(i) >= signals[i].attempts /\ EffectiveAttempts(i) >= Len(runs[i])
              /\ EffectiveAttempts(i) \in {signals[i].attempts, Len(runs[i])}
<1>1. /\ DOMAIN Jobs = Ids /\ Jobs = [i \in Ids |-> Jobs[i]]
      /\ \A i \in Ids : /\ Jobs[i].state = StateOf(signals[i].status)
                        /\ Jobs[i].left = MaxAttempts - EffectiveAttempts(i)
                        /\ Jobs[i] = [state |-> Jobs[i].state, left |-> Jobs[i].left]
  BY DEF Jobs
<1>2. ASSUME NEW i \in Ids
      PROVE  /\ EffectiveAttempts(i) \in {signals[i].attempts, Len(runs[i])}
             /\ EffectiveAttempts(i) >= signals[i].attempts /\ EffectiveAttempts(i) >= Len(runs[i])
             /\ EffectiveAttempts(i) \in Nat
  <2>1. signals[i].attempts \in Nat /\ Len(runs[i]) \in Nat
    BY RowsAreTyped
  <2>2. PICK a \in Nat, b \in Nat : a = signals[i].attempts /\ b = Len(runs[i])
    BY <2>1
  <2> QED BY <2>2, MaxOfTwo DEF EffectiveAttempts
<1> QED BY <1>1, <1>2

\* Once a recount has seen it, a signal's attempt_count is the larger of the two.
LEMMA CountLeads ==
  ASSUME QueueTypes, NEW i \in Ids, Counted(i)
  PROVE  EffectiveAttempts(i) = signals[i].attempts
<1>1. Len(runs[i]) \in Nat /\ signals[i].attempts \in Nat
  BY RowsAreTyped
<1>2. Len(runs[i]) <= signals[i].attempts
  BY <1>1, InsertersAreFinite DEF Counted
<1> QED BY <1>1, <1>2, JobFacts

\* Steps that change neither a state nor the larger count.
LEMMA JobsKept ==
  ASSUME Ids' = Ids,
         \A i \in Ids : /\ StateOf(signals'[i].status) = StateOf(signals[i].status)
                        /\ EffectiveAttempts(i)' = EffectiveAttempts(i)
  PROVE  Jobs' = Jobs
BY DEF Jobs

\* Steps that change no status, no attempt_count and no number of runs.
LEMMA TablesKept ==
  ASSUME Ids' = Ids,
         \A i \in Ids : /\ signals'[i].status = signals[i].status
                        /\ signals'[i].attempts = signals[i].attempts
                        /\ Len(runs'[i]) = Len(runs[i])
  PROVE  Jobs' = Jobs
<1>1. \A i \in Ids : EffectiveAttempts(i)' = EffectiveAttempts(i)
  BY DEF EffectiveAttempts
<1> QED BY <1>1, JobsKept

\* An update of one signal is one of its job.
LEMMA JobUpdated ==
  ASSUME QueueTypes, NEW i \in Ids, Ids' = Ids, runs' = runs,
         \A j \in Ids \ {i} : signals'[j] = signals[j]
  PROVE  Jobs' = [Jobs EXCEPT ![i] = [state |-> StateOf(signals'[i].status),
                                      left |-> MaxAttempts - EffectiveAttempts(i)']]
<1>1. \A j \in Ids \ {i} : EffectiveAttempts(j)' = EffectiveAttempts(j)
  BY DEF EffectiveAttempts
<1> QED BY <1>1 DEF Jobs

\* An update of a status is one of a state.
LEMMA StateUpdated ==
  ASSUME QueueTypes, NEW i \in Ids, NEW s \in Open \cup Closed,
         signals' = [signals EXCEPT ![i].status = s] \/
         signals' = [signals EXCEPT ![i].status = s, ![i].stale = FALSE],
         runs' = runs
  PROVE  Jobs' = [Jobs EXCEPT ![i].state = StateOf(s)]
<1>1. signals \in Seq(SignalRow) /\ Ids = DOMAIN signals /\ signals[i] \in SignalRow
  BY DEF QueueTypes, Ids
<1>2. /\ Ids' = Ids /\ \A j \in Ids \ {i} : signals'[j] = signals[j]
      /\ signals'[i].status = s /\ signals'[i].attempts = signals[i].attempts
  BY <1>1 DEF Ids, SignalRow
<1>3. EffectiveAttempts(i)' = EffectiveAttempts(i)
  BY <1>2 DEF EffectiveAttempts
<1>4. Jobs' = [Jobs EXCEPT ![i] = [state |-> StateOf(s), left |-> Jobs[i].left]]
  BY <1>2, <1>3, JobUpdated, JobFacts
<1>5. Jobs[i] = [state |-> Jobs[i].state, left |-> Jobs[i].left]
  BY JobFacts
<1> QED BY <1>4, <1>5

\* What a step of the queue is to a RetryQueue.
JobStep == Queue!Next \/ Jobs' = Jobs

\* An update of a status to a closed one.
LEMMA ClosingStep ==
  ASSUME QueueTypes, NEW i \in Ids, Jobs' = [Jobs EXCEPT ![i].state = "closed"]
  PROVE  JobStep
<1>1. CASE Jobs[i].state = "closed"
  <2>1. Jobs[i] = [state |-> "closed", left |-> Jobs[i].left] /\ Jobs = [j \in Ids |-> Jobs[j]]
    BY <1>1, JobFacts
  <2>2. [Jobs EXCEPT ![i].state = "closed"] = Jobs
    BY <2>1
  <2> QED BY <2>2 DEF JobStep
<1>2. CASE Jobs[i].state # "closed"
  BY <1>2, JobFacts DEF JobStep, Queue!Next, Queue!Close
<1> QED BY <1>1, <1>2

\* Both inserts add a fresh job.
LEMMA AddingStep ==
  ASSUME QueueTypes, NEW by, NEW kind, Insert(Signal(kind, by))
  PROVE  JobStep
<1> DEFINE s == Signal(kind, by)
<1>0. PICK n : n = Len(signals) + 1
  OBVIOUS
<1>1. signals \in Seq(SignalRow) /\ runs \in Seq(Seq(RunStates)) /\ Len(runs) = Len(signals)
  BY DEF QueueTypes
<1>2. signals' = Append(signals, s) /\ runs' = Append(runs, << >>)
  BY DEF Insert
<1>3. Ids = 1..Len(signals) /\ Ids' = 1..n /\ Len(signals) \in Nat
  BY <1>0, <1>1, <1>2 DEF Ids
<1>4. /\ \A i \in Ids : signals'[i] = signals[i] /\ runs'[i] = runs[i]
      /\ signals'[n] = s /\ runs'[n] = << >>
  BY <1>0, <1>1, <1>2, <1>3
<1>5. \A i \in Ids : EffectiveAttempts(i)' = EffectiveAttempts(i)
  BY <1>4 DEF EffectiveAttempts
<1>6. s.status = "queued" /\ s.attempts = 0 /\ Len(<< >>) = 0
  BY DEF Signal
<1>7. EffectiveAttempts(n)' = 0
  <2>1. signals'[n].attempts = 0 /\ Len(runs'[n]) = 0
    BY <1>4, <1>6
  <2>2. EffectiveAttempts(n)' = F!Max({signals'[n].attempts, Len(runs'[n])})
    BY DEF EffectiveAttempts
  <2>3. F!Max({signals'[n].attempts, Len(runs'[n])}) \in {0}
    BY <2>1, MaxOfTwo
  <2> QED BY <2>2, <2>3
<1> HIDE DEF s
<1>8. Jobs' = [i \in 1..n |-> IF i = n THEN [state |-> "waiting", left |-> MaxAttempts]
                              ELSE Jobs[i]]
  <2>1. Jobs' = [i \in 1..n |-> [state |-> StateOf(signals'[i].status),
                                 left |-> MaxAttempts - EffectiveAttempts(i)']]
    BY <1>3 DEF Jobs
  <2>2. [state |-> StateOf(signals'[n].status), left |-> MaxAttempts - EffectiveAttempts(n)']
          = [state |-> "waiting", left |-> MaxAttempts]
    BY <1>4, <1>6, <1>7, States DEF MaxAttempts
  <2>3. ASSUME NEW i \in Ids
        PROVE  [state |-> StateOf(signals'[i].status), left |-> MaxAttempts - EffectiveAttempts(i)']
                 = Jobs[i]
    BY <1>4, <1>5, <2>3 DEF Jobs
  <2>4. \A i \in 1..n : i # n => i \in Ids
    BY <1>0, <1>3
  <2> QED BY <2>1, <2>2, <2>3, <2>4
<1>9. Jobs' = Append(Jobs, [state |-> "waiting", left |-> MaxAttempts])
  <2>1. PICK m, q : m \in Nat /\ m = Len(signals) /\ q = Jobs /\ DOMAIN q = 1..m
    BY <1>3, JobFacts
  <2>2. Len(q) = m
    BY <2>1
  <2> QED BY <1>0, <1>8, <2>1, <2>2
<1> QED BY <1>9 DEF JobStep, Queue!Next, Queue!Add, Queue!Waiting

\* Steps of workers, heartbeats and the clock that leave the signals alone and insert no
\* run: a RetryQueue does not see them.
LEMMA UnseenStep ==
  ASSUME QueueInv, NEW w \in Workers,
         \/ Start(w) \/ SelectAndPlan(w) \/ ClaimNothing(w) \/ EndRun(w) \/ Die(w)
         \/ SweepRuns(w)
  PROVE  JobStep
<1>1. QueueTypes /\ ClaimAt(w)
  BY DEF QueueInv, WorkersAreSound
<1>2. signals' = signals /\ Ids' = Ids
  BY DEF Start, SelectAndPlan, ClaimNothing, EndRun, Die, SweepRuns, tables, Ids
<1>3. \A i \in Ids : Len(runs'[i]) = Len(runs[i])
  <2>1. CASE runs' = runs
    BY <2>1
  <2>2. CASE EndRun(w)
    <3>1. mine[w] \in Ids /\ "ended" \in RunStates
      BY <1>1, <2>2 DEF EndRun, ClaimAt, Holding, RunStates
    <3> QED BY <1>1, <2>2, <3>1, RunRowTyped DEF EndRun
  <2>3. CASE SweepRuns(w)
    <3>1. ASSUME NEW i \in Ids PROVE Len(runs'[i]) = Len(runs[i])
      <4>1. runs[i] \in Seq(RunStates) /\ Len(runs[i]) \in Nat
        BY <1>1, RowsAreTyped
      <4>2. runs'[i] = [j \in DOMAIN runs[i] |->
               IF runs[i][j] = "overdue" THEN "stale_timeout" ELSE runs[i][j]]
        BY <2>3 DEF SweepRuns
      <4>3. runs'[i] \in [1..Len(runs[i]) -> RunStates]
        BY <4>1, <4>2 DEF RunStates
      <4> QED BY <4>1, <4>3, TableOf
    <3> QED BY <3>1
  <2> QED BY <2>1, <2>2, <2>3 DEF Start, SelectAndPlan, ClaimNothing, Die, tables
<1> QED BY <1>2, <1>3, TablesKept DEF JobStep

\* Raising attempt_count to the number of runs leaves the larger of the two.
LEMMA RecountJobs ==
  ASSUME QueueInv, NEW w \in Workers, Recount(w)
  PROVE  JobStep
<1>1. QueueTypes
  BY DEF QueueInv
<1>2. /\ signals' = [i \in Ids |->
           IF signals[i].status \in Open
           THEN [signals[i] EXCEPT !.attempts = EffectiveAttempts(i)] ELSE signals[i]]
      /\ runs' = runs /\ Ids' = Ids
  BY DEF Recount, EffectiveAttempts, Ids
<1>3. ASSUME NEW i \in Ids
      PROVE  /\ signals'[i].status = signals[i].status
             /\ EffectiveAttempts(i)' = EffectiveAttempts(i)
  <2>1. signals[i] \in SignalRow /\ signals[i].attempts \in Nat /\ Len(runs[i]) \in Nat
    BY <1>1, RowsAreTyped
  <2>2. /\ signals'[i].status = signals[i].status
        /\ signals'[i].attempts \in {signals[i].attempts, EffectiveAttempts(i)}
    BY <1>2, <2>1 DEF SignalRow
  <2>3. PICK a \in Nat, b \in Nat, c \in Nat, d \in Nat :
            /\ a = signals[i].attempts /\ b = Len(runs[i]) /\ c = signals'[i].attempts
            /\ d = EffectiveAttempts(i)
    BY <1>1, <2>1, <2>2, JobFacts
  <2>4. d \in {a, b} /\ d >= a /\ d >= b /\ c \in {a, d}
    BY <1>1, <2>2, <2>3, JobFacts
  <2>5. EffectiveAttempts(i) = F!Max({a, b}) /\ EffectiveAttempts(i)' = F!Max({c, b})
    BY <1>2, <2>3 DEF EffectiveAttempts
  <2>6. F!Max({c, b}) = d
    <3>1. F!Max({c, b}) \in {c, b} /\ F!Max({c, b}) >= c /\ F!Max({c, b}) >= b
      BY MaxOfTwo
    <3>2. c = a => F!Max({c, b}) = d
      BY <2>3, <2>5
    <3>3. c = d => F!Max({c, b}) = d
      BY <2>4, <3>1
    <3> QED BY <2>4, <3>2, <3>3
  <2> QED BY <2>2, <2>3, <2>5, <2>6
<1> QED BY <1>2, <1>3, JobsKept DEF JobStep

\* The maintenance closes jobs and puts taken ones back.
LEMMA MaintenanceJobs ==
  ASSUME QueueInv, NEW w \in Workers, NEW i \in Ids, CloseSignal(w, i) \/ RequeueSignal(w, i)
  PROVE  JobStep
<1>1. QueueTypes /\ signals[i].status \in Open \cup Closed /\ i \in DOMAIN signals
      /\ signals \in Seq(SignalRow)
  BY RowsAreTyped DEF QueueInv, QueueTypes, Ids
<1>2. CASE CloseSignal(w, i)
  <2> DEFINE s == IF signals[i].status \in Open THEN "failed" ELSE signals[i].status
  <2>1. s \in Closed /\ "closed" = StateOf(s)
    BY <1>1, States DEF Closed
  <2>2. signals' = [signals EXCEPT ![i].status = s] /\ runs' = runs
    BY <1>2 DEF CloseSignal
  <2> HIDE DEF s
  <2>3. Jobs' = [Jobs EXCEPT ![i].state = "closed"]
    BY <1>1, <2>1, <2>2, StateUpdated
  <2> QED BY <1>1, <2>3, ClosingStep
<1>3. CASE RequeueSignal(w, i) /\ signals[i].status = "running"
  <2>1. signals' = [signals EXCEPT ![i].status = "queued", ![i].stale = FALSE] /\ runs' = runs
    BY <1>3 DEF RequeueSignal
  <2>2. "queued" \in Open \cup Closed
    BY DEF Open
  <2>3. Jobs' = [Jobs EXCEPT ![i].state = "waiting"]
    <3>1. Jobs' = [Jobs EXCEPT ![i].state = StateOf("queued")]
      BY <1>1, <2>1, <2>2, StateUpdated
    <3> QED BY <3>1, States
  <2>4. Jobs[i].state = "taken"
    BY <1>1, <1>3, JobFacts, States
  <2> QED BY <1>1, <2>3, <2>4, JobFacts DEF JobStep, Queue!Next, Queue!PutBack
<1>4. CASE RequeueSignal(w, i) /\ signals[i].status # "running"
  BY <1>4, TablesKept DEF RequeueSignal, JobStep, Ids
<1> QED BY <1>2, <1>3, <1>4

\* A claim takes a waiting job and uses up one try.
LEMMA ClaimJobs ==
  ASSUME QueueInv, NEW w \in Workers, Claim(w)
  PROVE  JobStep
<1>1. QueueTypes /\ PlanAt(w)
  BY DEF QueueInv, WorkersAreSound
<1>2. PICK i \in Ids : /\ i = plan[w].claim /\ i # 0
                      /\ signals[i].status = "queued" /\ signals[i].attempts < MaxAttempts
  BY <1>1 DEF Claim, PlanAt, Available
<1>3. /\ signals' = [signals EXCEPT ![i].status = "running", ![i].stale = FALSE,
                                   ![i].attempts = @ + 1]
      /\ runs' = runs /\ at[w] = "maintain"
  BY <1>2 DEF Claim, Planned, Taken
<1>4. signals \in Seq(SignalRow) /\ i \in DOMAIN signals /\ signals[i] \in SignalRow
      /\ signals[i].attempts \in Nat /\ Len(runs[i]) \in Nat
  BY <1>1, RowsAreTyped DEF QueueTypes, Ids
<1>5. /\ Ids' = Ids /\ \A j \in Ids \ {i} : signals'[j] = signals[j]
      /\ signals'[i].status = "running" /\ signals'[i].attempts = signals[i].attempts + 1
  BY <1>3, <1>4 DEF Ids, SignalRow
<1>6. Counted(i)
  BY <1>2, <1>3 DEF QueueInv, SignalsAreSound, CountedAt, Uncounted, Early, Closed
<1>7. EffectiveAttempts(i) = signals[i].attempts /\ Len(runs[i]) <= signals[i].attempts
  BY <1>1, <1>6, CountLeads, JobFacts
<1>8. EffectiveAttempts(i)' = EffectiveAttempts(i) + 1
  <2>1. PICK a \in Nat, b \in Nat : a = signals[i].attempts /\ b = Len(runs[i]) /\ b <= a
    BY <1>4, <1>7
  <2>2. EffectiveAttempts(i)' = F!Max({a + 1, b})
    BY <1>3, <1>5, <2>1 DEF EffectiveAttempts
  <2>3. a + 1 \in Nat /\ F!Max({a + 1, b}) = a + 1
    BY <2>1, MaxOfTwo
  <2> QED BY <1>7, <2>1, <2>2, <2>3
<1>9. Jobs[i].state = "waiting" /\ Jobs[i].left = MaxAttempts - signals[i].attempts
  BY <1>1, <1>2, <1>7, JobFacts, States
<1>10. Jobs[i].left > 0 /\ MaxAttempts - EffectiveAttempts(i)' = Jobs[i].left - 1
  BY <1>2, <1>4, <1>7, <1>8, <1>9 DEF MaxAttempts
<1>11. Jobs' = [Jobs EXCEPT ![i] = [state |-> "taken", left |-> Jobs[i].left - 1]]
  <2>1. Jobs' = [Jobs EXCEPT ![i] = [state |-> StateOf(signals'[i].status),
                                     left |-> MaxAttempts - EffectiveAttempts(i)']]
    BY <1>1, <1>3, <1>5, JobUpdated
  <2>2. [state |-> StateOf(signals'[i].status), left |-> MaxAttempts - EffectiveAttempts(i)']
          = [state |-> "taken", left |-> Jobs[i].left - 1]
    BY <1>5, <1>10, States
  <2> QED BY <2>1, <2>2
<1>12. Queue!Take(i)
  BY <1>1, <1>9, <1>10, <1>11, JobFacts DEF Queue!Take
<1> QED BY <1>1, <1>12, JobFacts DEF JobStep, Queue!Next

\* The run a claim was counted for is inserted: the larger count stays.
LEMMA InsertRunJobs ==
  ASSUME QueueInv, QueueInv', NEW w \in Workers, InsertRun(w)
  PROVE  JobStep
<1>1. QueueTypes /\ ClaimAt(w) /\ QueueTypes'
  BY DEF QueueInv, WorkersAreSound
<1>2. PICK i \in Ids : i = mine[w] /\ i # 0 /\ w \in Inserting(i)
  BY <1>1 DEF ClaimAt, Holding, InsertRun, Inserting, Holders
<1>3. signals' = signals /\ Ids' = Ids /\ \A j \in Ids \ {i} : runs'[j] = runs[j]
  BY <1>2 DEF InsertRun, Ids
<1>4. Counted(i)
  BY <1>2 DEF QueueInv, SignalsAreSound, CountedAt, Uncounted, Inserting
<1>5. Len(runs'[i]) <= signals[i].attempts
  <2>1. Cardinality(Inserting(i)) >= 1
    BY <1>2, InsertersAreFinite, FS_EmptySet
  <2>2. runs'[i] = Append(runs[i], "running") /\ runs[i] \in Seq(RunStates)
        /\ Len(runs[i]) \in Nat /\ signals[i].attempts \in Nat
    BY <1>1, <1>2, RowsAreTyped DEF InsertRun, QueueTypes, Ids
  <2>3. Len(runs'[i]) = Len(runs[i]) + 1
    BY <2>2
  <2> QED BY <1>4, <2>1, <2>2, <2>3, InsertersAreFinite DEF Counted
<1>6. EffectiveAttempts(i)' = signals[i].attempts
  <2>1. signals[i].attempts \in Nat /\ Len(runs'[i]) \in Nat
    <3>1. runs' \in Seq(Seq(RunStates)) /\ i \in DOMAIN runs'
      BY <1>1, <1>3 DEF QueueTypes, Ids
    <3>2. runs'[i] \in Seq(RunStates)
      BY <3>1
    <3> QED BY <1>1, <3>2, RowsAreTyped
  <2>2. PICK a \in Nat, b \in Nat : a = signals[i].attempts /\ b = Len(runs'[i]) /\ b <= a
    BY <1>5, <2>1
  <2>3. EffectiveAttempts(i)' = F!Max({a, b})
    BY <1>3, <2>2 DEF EffectiveAttempts
  <2> QED BY <2>2, <2>3, MaxOfTwo
<1>7. EffectiveAttempts(i) = signals[i].attempts
  BY <1>1, <1>4, CountLeads
<1>8. \A j \in Ids \ {i} : EffectiveAttempts(j)' = EffectiveAttempts(j)
  BY <1>3 DEF EffectiveAttempts
<1> QED BY <1>3, <1>6, <1>7, <1>8, JobsKept DEF JobStep

\* The worker closes the job it took, open or not.
LEMMA EndSignalJobs ==
  ASSUME QueueInv, NEW w \in Workers, NEW result \in Closed, EndSignal(w, result)
  PROVE  JobStep
<1>1. QueueTypes /\ ClaimAt(w)
  BY DEF QueueInv, WorkersAreSound
<1>2. PICK i \in Ids : i = mine[w]
  BY <1>1 DEF ClaimAt, Holding, EndSignal
<1>3. signals' = [signals EXCEPT ![i].status = result] /\ runs' = runs
  BY <1>2 DEF EndSignal
<1>4. Jobs' = [Jobs EXCEPT ![i].state = "closed"]
  <2>1. Jobs' = [Jobs EXCEPT ![i].state = StateOf(result)]
    BY <1>1, <1>3, StateUpdated
  <2> QED BY <2>1, States
<1> QED BY <1>1, <1>4, ClosingStep

\* The clock.
LEMMA ClockJobs ==
  ASSUME QueueInv, TimePasses
  PROVE  JobStep
<1>1. QueueTypes /\ signals \in Seq(SignalRow) /\ Ids = DOMAIN signals
  BY DEF QueueInv, QueueTypes, Ids
<1>2. ASSUME NEW i \in Ids, SignalGoesStale(i) PROVE JobStep
  <2>1. signals[i] \in SignalRow
    BY <1>1
  <2>2. Ids' = Ids /\ \A j \in Ids : /\ signals'[j].status = signals[j].status
                                    /\ signals'[j].attempts = signals[j].attempts
                                    /\ runs' = runs
    BY <1>1, <1>2, <2>1 DEF SignalGoesStale, Ids, SignalRow
  <2> QED BY <2>2, TablesKept DEF JobStep
<1>3. ASSUME NEW i \in Ids, NEW j, RunGoesStale(i, j) PROVE JobStep
  <2>1. "overdue" \in RunStates
    BY DEF RunStates
  <2>2. signals' = signals /\ Ids' = Ids /\ \A k \in Ids : Len(runs'[k]) = Len(runs[k])
    BY <1>1, <1>3, <2>1, RunRowTyped DEF RunGoesStale, Ids
  <2> QED BY <2>2, TablesKept DEF JobStep
<1> QED BY <1>2, <1>3 DEF TimePasses

\* The owner and the heartbeats.
LEMMA ProducerJobs ==
  ASSUME QueueInv, Producers
  PROVE  JobStep
<1>1. QueueTypes
  BY DEF QueueInv
<1>2. ASSUME NEW kind, EnqueueSignal(kind) PROVE JobStep
  BY <1>1, <1>2, AddingStep DEF EnqueueSignal
<1>3. ASSUME NEW h \in Heartbeats, InsertKeyed(h) PROVE JobStep
  BY <1>1, <1>3, AddingStep DEF InsertKeyed
<1>4. ASSUME NEW h \in Heartbeats,
             LookForKey(h) \/ ClaimKey(h) \/ ClaimKeyThrows(h) \/ LookAgain(h) \/ HeartbeatDies(h)
      PROVE  JobStep
  <2>1. signals' = signals /\ runs' = runs
    BY <1>4 DEF LookForKey, ClaimKey, ClaimKeyThrows, LookAgain, HeartbeatDies, tables
  <2> QED BY <2>1, TablesKept DEF JobStep, Ids
<1> QED BY <1>2, <1>3, <1>4 DEF Producers

\* The first signal's legacy runs are tries used up before.
LEMMA FirstJob ==
  ASSUME Init
  PROVE  Queue!Init
<1>1. PICK n \in LegacyRuns : runs = <<[j \in 1..n |-> "stale_timeout"]>>
  BY DEF Init
<1>2. n \in 0..MaxAttempts
  BY QueueAssumption
<1> DEFINE q == [j \in 1..n |-> "stale_timeout"]
<1>3. Len(q) = n
  BY <1>2 DEF MaxAttempts
<1>4. runs[1] = q /\ signals[1] = Signal("business_improve", "owner") /\ Ids = {1}
  <2> HIDE DEF q
  <2> QED BY <1>1 DEF Init, Ids, q
<1> HIDE DEF q
<1>5. signals[1].attempts = 0 /\ signals[1].status = "queued"
  BY <1>4 DEF Signal
<1>6. EffectiveAttempts(1) = n
  <2>1. EffectiveAttempts(1) = F!Max({0, n})
    BY <1>3, <1>4, <1>5 DEF EffectiveAttempts
  <2> QED BY <1>2, <2>1, MaxOfTwo DEF MaxAttempts
<1>7. Jobs = [i \in {1} |-> [state |-> "waiting", left |-> MaxAttempts - n]]
  BY <1>4, <1>5, <1>6, States DEF Jobs
<1>8. Jobs = <<[state |-> "waiting", left |-> MaxAttempts - n]>>
  BY <1>7
<1>9. MaxAttempts - n \in 0..MaxAttempts
  BY <1>2 DEF MaxAttempts
<1> QED BY <1>8, <1>9 DEF Queue!Init, Queue!Waiting

\* Every step of the queue is a step of a RetryQueue or none.
LEMMA JobsStep ==
  ASSUME QueueInv, QueueInv', [Next]_vars
  PROVE  [Queue!Next]_Jobs
<1>1. CASE Producers
  BY <1>1, ProducerJobs DEF JobStep
<1>2. ASSUME NEW w \in Workers, Work(w)
      PROVE  JobStep
  BY <1>2, UnseenStep, RecountJobs, MaintenanceJobs, ClaimJobs, InsertRunJobs, EndSignalJobs DEF Work
<1>3. ASSUME NEW w \in Workers, Die(w)
      PROVE  JobStep
  BY <1>3, UnseenStep
<1>4. CASE TimePasses
  BY <1>4, ClockJobs DEF JobStep
<1>5. CASE UNCHANGED vars
  BY <1>5, TablesKept DEF vars, tables, JobStep, Ids
<1> QED BY <1>1, <1>2, <1>3, <1>4, <1>5 DEF Next, JobStep

\* Whatever workers, maintenance, crashes and heartbeats do, a signal has its
\* SIGNAL_MAX_ATTEMPTS tries, each claim uses one up, and nothing gives one back: the
\* claim's guard, the recount and planQueueMaintenance together keep this one count.
THEOREM QueueIsRetryQueue == Spec => ImplementsRetryQueue
<1>1. Init => Queue!Init
  BY FirstJob
<1>2. QueueInv /\ QueueInv' /\ [Next]_vars => [Queue!Next]_Jobs
  BY JobsStep
<1> QED BY <1>1, <1>2, Invariance, PTL DEF Spec, ImplementsRetryQueue, Queue!Spec
=============================================================================
