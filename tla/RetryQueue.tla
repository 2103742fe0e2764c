----------------------------- MODULE RetryQueue -----------------------------
(***************************************************************************)
(* What the operator signal queue promises those who enqueue, with no word *)
(* about workers, plans, run rows or counters: a job is waiting, taken or  *)
(* closed, and has a number of tries left.  Taking a job uses up one try,  *)
(* whatever becomes of the taker; nothing gives a try back, and nothing    *)
(* opens a closed job.  OperatorQueue (the statements of enqueueSignal,    *)
(* nextSignal and runOneSignal, interleaved) implements it.                *)
(***************************************************************************)
EXTENDS Naturals, Sequences

CONSTANT Tries    \* times a job may be taken

VARIABLE jobs     \* the jobs enqueued so far, oldest first

Waiting(n) == [state |-> "waiting", left |-> n]

\* The first job may have used up tries before this queue counted them.
Init == \E n \in 0..Tries : jobs = <<Waiting(n)>>

Add == jobs' = Append(jobs, Waiting(Tries))

Take(i) ==
  /\ jobs[i].state = "waiting"
  /\ jobs[i].left > 0
  /\ jobs' = [jobs EXCEPT ![i] = [state |-> "taken", left |-> @.left - 1]]

\* The taker was given up; the tries it used up stay used up.
PutBack(i) ==
  /\ jobs[i].state = "taken"
  /\ jobs' = [jobs EXCEPT ![i].state = "waiting"]

\* Done, failed, handed over for approval or given up, by its taker or by another.
Close(i) ==
  /\ jobs[i].state # "closed"
  /\ jobs' = [jobs EXCEPT ![i].state = "closed"]

Next == Add \/ \E i \in DOMAIN jobs : Take(i) \/ PutBack(i) \/ Close(i)

Spec == Init /\ [][Next]_jobs
=============================================================================
