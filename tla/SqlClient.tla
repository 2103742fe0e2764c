----------------------------- MODULE SqlClient -----------------------------
(***************************************************************************)
(* lib/db.ts as a request sees it.  An isolate has one SQL client for all  *)
(* requests it runs; resetDbClient drops it, starts a new generation and   *)
(* leaves the statements in flight one second to finish.  A function that  *)
(* calls db() for each statement gets the present client, one that keeps   *)
(* the client in a local variable goes on with the one it took: after a    *)
(* reset its next statement is rejected.                                   *)
(***************************************************************************)
CONSTANTS Requests,   \* route invocations
          Isolates,   \* warm function instances
          Home        \* the isolate a request runs in

ASSUME HomeAssumption == Home \in [Requests -> Isolates]

VARIABLES ended,   \* requests whose kept client belongs to an older generation
          flying   \* requests with a statement in flight when their client was dropped

clientVars == <<ended, flying>>

ClientTypeOK == ended \subseteq Requests /\ flying \subseteq Requests

ClientInit == ended = {} /\ flying = {}

\* A statement of r reaches the database: through db(), or through the kept
\* client while that is open, or as the last statement in flight at its end.
Reaches(r, kept) == kept => (r \notin ended \/ r \in flying)

\* A statement of r may be rejected although the database is healthy.
Cut(r, kept) == r \in flying \/ (kept /\ r \in ended)

\* The request goes on to its next statement, with the client it had.
Proceed(r) == flying' = flying \ {r} /\ UNCHANGED ended

\* The request takes the present client into a variable and goes on.
Take(r) == ended' = ended \ {r} /\ flying' = flying \ {r}

\* resetDbClient in r's isolate, under every request running there.
Reset(r, running) ==
  LET mates == {q \in running : Home[q] = Home[r]}
  IN ended' = ended \cup mates /\ flying' = flying \cup mates
=============================================================================
