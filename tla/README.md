# A TLA+ verification of Rate My Face

Rate My Face is a Next.js application on Vercel with a Postgres (Supabase) database,
Stripe payments, a GPT Action / MCP surface and an operator agent that runs from cron.
This directory holds TLA+ models of its core, TLC configurations that check them, and
TLAPS proofs. Paths below are relative to the repository's root.

Two facts shape everything. The server is many short-lived isolates over one database,
and **almost no handler uses a transaction**: an operation is a sequence of SQL
statements, between any two of which other isolates run and after any of which the isolate
may be killed or its single SQL client closed under it (`withDatabaseTimeout`,
`withWorkerTimeout`, `resetDbClient` in `lib/db.ts`). So in every module here **a
statement is a step**, and a request may stop after any step without undoing anything.

## Inventory

| Part | State | Operations | What makes it correct |
|---|---|---|---|
| Credit ledger, `lib/stripeBilling.ts` | `rmf_credit_accounts` (balance, lifetime_purchased, lifetime_spent), `rmf_credit_ledger` (UNIQUE `external_ref`) | `grantCredits`, `ensureSignupCreditGrant`, `revokeCredits`, `consumeCredits` | no balance below zero, a reference applied once, rows explain the counters |
| Stripe webhook, `app/api/stripe/webhook/route.ts` | `rmf_stripe_events`, `rmf_billing_accounts`, `rmf_entitlements` | mark the event, save the customer, grant, retrieve and write the subscription | at-least-once, unordered delivery grants once, only for money received, and eventually; entitlement follows the subscription |
| Checkout, portal, entitlements | the user's billing row and entitlement; Stripe customers and sessions | look up premium, find or create the customer, create a session | one customer and one premium per user |
| Operator queue and worker, `lib/operatorQueue.ts`, `lib/operatorAgent.ts` | `rmf_agent_signals`, `rmf_agent_runs`, idempotency keys in `rmf_agent_context` | enqueue, heartbeat, maintenance, claim, run, close | bounded retries, one worker per signal, nothing lost or starved |
| Operator approval and closure | `rmf_agent_approvals` | execute, halt or ask; approve (requeue), reject | a decision acts once; the authority ceiling |
| Feature backlog, business loop | receipts and report history, one JSON value each, in `rmf_agent_context` | decide, verify, append a receipt, file a report | no lost receipt; reports follow each other |
| Unified control plane, closure runtime | `rmf_control_features`, evidence, cursor and latest round | register, record a receipt, measure, link the identity, run a round | status is that of the latest verdict; the stored round is the present one |
| OAuth bridge, `lib/oauthBridge.ts` | `rmf_oauth_codes`, `rmf_oauth_tokens`, a schema promise per isolate | approve, exchange, refresh, look up a bearer | a code or a refresh token used once, no lost session |
| Compare jobs, appearance agent | jobs, results, plans, check-ins | charged actions with a job life cycle | nothing recorded unpaid, final status honest, one active plan, real days |
| Personal experiments, intelligence and agent | experiments, comparisons, outcomes, agent runs and receipts | create, record, complete; propose, decide, complete | status machines under row locks; evidence verified; exact verdicts |
| Provider connections | `rmf_provider_connections`, signed states | connect, callback, disconnect, list | a disconnect leaves no token and is not undone by an older callback |
| Personal network, account learning | two mirrored profile stores, interactions, recommendations | save, merge and write, migrate, mirror, erase | no lost update, one row per link, erasure complete |
| Database client, `lib/db.ts` | client, generation, schema slots | open, time out, reset, run DDL once | no pinned failure, no stale slot |

Browser control, MCP/OpenAPI/health, dashboards, authentication, pages and migrations hold
little control of their own; `PROJECT.json` lists each with the reason it is left out.

How the parts interact: every paid route calls `ensureSignupCreditGrant` and then
`consumeCredits` before its work; the webhook and the operator's credits route call
`grantCredits` / `revokeCredits` on the same tables; the heartbeat cron, the owner's
dashboard and chat, and approvals insert signals, and the run cron and the chat run
workers over them; a worker's run reads the backlog's receipts, appends one, and projects it
into the control plane, from which a closure round selects the next task. Compare and
appearance write interactions and recommendations into the stores of the personal network,
the personal agent cites rows of the studies, and the social outcomes look at the provider
connection. All share the one SQL client of their isolate.

The hard behaviours, each listed with its line in `PROJECT.json` under `hazards`: races
between the statements of two requests, crashes between two statements, work that goes on
after its caller was answered 504, repeated, reordered and lost deliveries, plans applied
after they are outdated, retries, and bounded recycling.

## Modules

| Module | Models | Checked by |
|---|---|---|
| `CreditAccount` | abstract specification: what an account promises its owner | as a property of `credits`, and proved |
| `CreditLedger` | the ledger functions and the routes' call sequences | `credits`, `silent_edit`, `CreditLedger_proofs` |
| `StripeBilling` | Stripe and the webhook handler, over an instance of `CreditLedger` | `packs`, `subscription`, `lost_payment`, `StripeBilling_proofs` |
| `Checkout` | the checkouts, the portal and `getEntitlements`, with the webhook's writes to the same rows | `access` (part `checkout`), `Account_proofs` |
| `RetryQueue` | abstract specification: what the queue promises those who enqueue | as a property of `queue`, and proved |
| `OperatorQueue` | producers, maintenance, claim and worker | `queue`, `heartbeat_retry`, `OperatorQueue_proofs` |
| `OperatorApproval` | a worker's closure and run next to the approval route | `operator` (part `approval`), `OperatorApproval_proofs` |
| `FeatureBacklog` | build cycles over the receipts and the report history | `operator` (part `backlog`), `OperatorApproval_proofs` |
| `ControlPlane` | feature evidence, metrics, identity link and closure rounds | `operator` (parts `evidence` and `rounds`), `OperatorApproval_proofs` |
| `SqlClient` | `lib/db.ts` as a request sees it: present and kept clients | with the two modules below |
| `PaidActions` | compare, compare test, appearance plan and check-in, and the privacy delete under them | `paid` (part `jobs`), `late_charge`, `Account_proofs` |
| `PersonalIntelligence` | studies, product and social outcomes, agent runs | `paid` (part `studies`), `ProviderConnections_proofs` |
| `PersonalEvidence` | the verdicts, as pure operators | `paid` (part `verdicts`), `ProviderConnections_proofs` |
| `AccountLearning` | the two stores and their mirroring | `access` (part `learning`), `forgotten`, `OAuthBridge_proofs` |
| `OAuthBridge` | approve, exchange, refresh, bearer look-up | `access` (part `bridge`), `OAuthBridge_proofs` |
| `ProviderConnections` | the TikTok connection behind its schema slot | `access` (part `provider`), `ProviderConnections_proofs` |
| `Sums` | the sum of a function over a set, for the properties of `CreditLedger` | with `CreditLedger`, and `Sums_proofs` |
| `..._proofs` (eight modules) | theorems; `Sums_proofs` holds lemmas the others share, and four of the rest treat further components that share no variable with the first | TLAPS |
| `MC...` | the modules as TLC runs them | |

Parts that share no table are checked in one run: `MCPaid`, `MCAccess` and `MCOperator` extend
several modules, choose a `part` in the initial state and leave the other parts' variables
alone, so a run covers the union of the parts and not their product. Requests named alike in
two parts have nothing to do with each other.
In `MCOperator` the control plane is two parts, as its evidence and its rounds ask for different
bounds.

Definitions marked "Mutant:" in the modules are not part of a specification. Each is the
form a neighbouring definition would take under a plausible bug; replacing the definition
by it makes TLC report the property it is paired with in `PROJECT.json`.

Properties that end in "UnlessOverlapped" (or "Raced", "Breaking") say what the code keeps
although it neither locks nor guards: the exception is spelled out in terms of who was under
way when a request began (the history variables `prior`, `earlier`, `over`, `previous`,
`sawPlans`, `crossed`, `excused`, `contested`), never in terms of the outcome. So each one
both states the guarantee and draws the line at which it ends.

### CreditLedger

`balance`, `purchased`, `spent` are the columns of `rmf_credit_accounts` (a missing row reads
as 0, as `creditBalance` does); `ledger` is the set of rows. A *request* is one invocation of
a route, with the ledger calls it will make (`MeteredPlan`, `SignInPlan`, `PurchasePlan`,
`OperatorPlan`). Its `pc` is the statement of the current call it runs next:

| Step | Statement |
|---|---|
| `LookFound`, `LookMissed` | `select balance_after ... where external_ref = ...` and the early return |
| `ApplyGrant` | `insert ... on conflict do update set balance = balance + n` |
| `ApplyDebit`, `Refuse` | `update ... where balance >= n returning balance`, one row or none |
| `WriteRow`, `DuplicateRow` | the ledger insert, and its rejection by UNIQUE |
| `Abort` | killed, timed out, client reset, statement error |

`updates` (every account update of a user in row-lock order) and `settled` (the references
recorded when a request began) are history variables that only properties read. A row's
`upd` ties it to the update it records; `after` is the `RETURNING` value the insert uses.

Metadata, timestamps, `action` and the text of references are left out. Amounts are fixed
per kind of call. `bigint` overflow is out of reach of the amounts the routes admit.

Properties: `SettledRefIsFree` (a retry of a recorded operation moves nothing); `AuditTrail` (every update has its row or belongs to a request at or stopped at its
insert; rows agree with the balance they found); `Reconciles` (all three counters equal the
sums over the rows, up to those requests); `ImplementsAccount` (refinement of
`CreditAccount`). `NoSilentBalanceEdits` is what the operator route's comment promises, and
fails (below).

### StripeBilling

Stripe is external: `CompleteSession`, `SettleSession`, `ChangeSubscription` create events,
`Deliver` sends an event again and again, also after it was answered, also concurrently. A
delivery `d` is one invocation of the handler; `at[d]` is the statement it is at:
mark → customer → grant (the steps of `CreditLedger`, instantiated with deliveries as
requests) or retrieve → account → entitle → answer. `Fail` is a throw (500) or a death at any
of them; the mark survives it. The mark and everything after it are in the source's order,
which is what `lost_payment` is about. A payload is fixed when Stripe creates the event:
`PaidEvent` is the test on `payment_status`, `snap` the subscription object.

Statuses are `active` and `canceled`, the two classes `entitledStatus` tells apart; a state
carries its period end as its index in the subscription's history. `linked` is the set of
users whose customer id is saved; a user has one customer.

Properties: `CreditedAtMostOnce`, `CreditedOnlyIfPaid`, `PaidIsCreditedUnlessLost` (liveness)
and `EntitlementFollowsStripe`. The last is stated for users whose subscription events were
handled one by one in Stripe's order (`inOrder`, a history variable) and none of which was
lost: the handler compares nothing, so an older snapshot handled later does win. The
repository promises nothing about that case, so it is a listed hazard and not a finding.

### OperatorQueue

`signals` and `runs` are the two tables, `keyClaimed` the day's idempotency key. A worker is
a call of `runOneSignal`: `SweepRuns`, `Recount`, `SelectAndPlan` (the `select` and
`planQueueMaintenance` over its rows), one `CloseSignal` / `RequeueSignal` per planned row
with the guard of the update, then `Claim` or `ClaimNothing`, `InsertRun`, `EndRun`,
`EndSignal`. A heartbeat is `enqueueSignalIdempotent`: `LookForKey`, `ClaimKey`, `LookAgain`,
`InsertKeyed`, with `ClaimKeyThrows` for the swallowed error (possible if `ClaimFaults` says so)
and `HeartbeatDies` for the timeout.

What a run does is a free outcome: every exit of `runOneSignal` writes the run row and then
the signal, and only the final status differs. An approval's decision moves a closed signal
to another closed status and enqueues a new signal; the latter is `EnqueueSignal`.

Time: a row goes stale (`SignalGoesStale`, `RunGoesStale`) only when no live worker holds it,
because `withWorkerTimeout` (45 s) ends a worker's statements long before its rows are two
minutes old. Signal ids stand for `created_at`.

Properties: `RunsAreBounded` (the promise at the top of `lib/operatorQueue.ts`),
`ExclusiveUnlessStolen` (two live workers share a signal only after a requeue from an outdated
plan -- which the model does reach), `HeartbeatEnqueues`, `ImplementsRetryQueue`, and the liveness
properties `QueueDrains` and `RunsEnd`.

`RetryQueue` knows neither workers nor run rows: a job is waiting, taken or closed and has a number
of tries left; taking it uses up a try, and nothing gives one back or opens a closed job. `Jobs` maps
a signal to its job: `StateOf` its status, and what the larger of `attempt_count` and the number of
its run rows leaves of the limit. The two are counts of one thing and each is wrong at times (a worker
that died between claim and run left no row, a legacy run no count); the larger is what a claim raises
by one and nothing lowers. That closed signals stay closed (`ClosedStaysClosed`) is a consequence, and
a theorem of its own.

### SqlClient and PaidActions

An isolate has one client. A function that calls `db()` for every statement survives a reset;
one that keeps the client in `sql` does not: its next statement is rejected (`ended`), but the
one in flight may still land (`flying`). `Kept(r)` says which statements of which writer go
through a kept client.

A request of `PaidActions` walks through `Steps[kind]`, one SQL statement a step: the snapshot
the route reads (`Peek`), the charge (`Spend` of `CreditAccount`, which `CreditLedger`
implements), the second read of the writer (`Reread`), the job, plan or check-in
(`InsertJob`, `RunJob`, `Vision`, `StoreResult`, `CompleteJob`; `InsertPlan`; `Pick`,
`InsertCheckin`, `Advance`), the learning rows (`Note`), the answer. `Timeout` tells the caller
504 and drops the isolate's client, **and the request goes on**; `Rejected` is any statement
that fails, in the job's `try` block followed by `FailJob`; `Killed` ends an isolate; `Erase` is
the privacy delete, which takes job rows away under a running job. `Blurred` views are the
selects of `readAppearanceHistorySnapshot` whose failure is swallowed and read as "none".

`EveryRecordIsPaid`: no job, plan, check-in or follow-up without a credit that left the account,
one credit per request, none from a request that was refused. `JobsAreHonest`: status, result
and answer agree. `OneActivePlanUnlessRaced`, `PlanDaysAreReal`: the check-then-insert of plans
and the day computed before the insert and written after it. `NoChargeAfterTimeout` fails
(below). A job left `running` by a dead isolate stays so -- no sweep exists -- and a paid action
that fails keeps its credit; the code intends neither otherwise, so no property denies it.

### PersonalIntelligence and PersonalEvidence

A write that checks a status first is a transaction with `select ... for update`: `Lock` waits
for `owner`, `Commit...` publishes all its writes at once and releases the lock, `RolledBack`
undoes it. Single statements (`CreateStudy`, `CompleteStudy`, `WriteProduct`, `WriteSocial`,
`Propose`) take no lock but wait for one. An answer that shows a study reads the row and its
outcomes by two statements (`ViewRow`, `ViewOutcomes`). `TimeUp` answers 504 and resets.

`RecordsAreFinal`: a study once shown as completed keeps exactly the outcomes it was shown with
(a recorder holds the lock the completion waits for), and the receipts of an agent run alone
tell its state, with one decision and at most one verified completion after an approval.

`PersonalEvidence` computes in hundredths what the code computes in rounded doubles. The double of
an average differs from the average in its last bits, which `Math.round(x * 100)` notices only at a
tie, an average of k/2 hundredths with k odd: there the product may come out below the half (1.275 *
100 is 127.49999999999999). `Falls` is the set of the k for which it does; it is a parameter, of which
only two things are assumed (no eighth falls, its double being exact, and of k and -k one at most,
doubles being symmetric). The runs use the set for averages of forty values, the fewest that end on
such a tie. The rounded averages are subtracted and the difference is rounded again, which yields the
exact difference.

`VerdictsAreExact` compares with the rational arithmetic, for lists of every length: what is called
ahead is ahead by more than the margin, and what is called tied is within it. There are two
exceptions, both at the margin itself. With more than 25 pairs a lead at most a hundredth beyond it
may be overlooked (`Overlooked`). And a lead of just the margin may pass for more when both sides have
a multiple of forty outcomes (`AtMargin`): 61/40 and 51/40 are exactly 0.25 apart, become 1.53 and
1.27, and the code answers `favors_a`. The sample `Collected` starts from 39 outcomes on each side so
that TLC reaches that case. A product that "works" has a true average above 3.5, one that "did not
work" below 2.5, and up to 100 outcomes a "mixed" one neither. Turned round, an improved trend never
reads improved nor a declined one declined, and below 15 values the one reads as the other, also below
zero (a half is rounded upwards on both sides, and averages of eight values may end on one). Metric
values are whole numbers up to a million.
`planPersonalAgentAction` and `answerFromHistory` are the operators `PlanAction` and
`HistoryState`; which words a question shares with a record is a free choice of the machine.

### AccountLearning

A document maps keys to the request that wrote them; requests run the statements of
`accountLearningSync.ts` and `accountLearningPipeline.ts` one by one (`LegacyWrite`,
`ProfileRead`, `ProfileWrite`, `Migrate`, `Event`, `Find`, `LinkRow`, `AddRow`, `Like`, the four
deletes). `ErasedUnlessOverlapped`, `WrittenUnlessOverlapped`, `OneRowPerLinkUnlessOverlapped`
quantify over requests that began after the one in question had ended; a request that overlaps
a delete is what `forgotten` shows.

### OAuthBridge

Codes and pairs are named by the request that issued them. Each request awaits its isolate's
schema promise (`schema`), which is never cleared when it was rejected, then selects, spends
and issues. `Found` holds the three where clauses. `SpentOnceUnlessOverlapped`: one pair per code
or refresh token, for the right client. `LostOnlyByBreaking`: nobody is signed out except by a
request that broke off between spending and issuing. `BearersAreRecognised`: a valid token is
known, a refreshed one is not, unless the look-up failed or the isolate's schema had.

### ProviderConnections

`runOncePerDbClient` is modelled as it is written: a slot with a generation, an attempt per
entry, `Settle` clearing the slot only for its own generation. `SchemaOncePerClient` is the
comment at `lib/db.ts:81`; `DisconnectSticksUnlessOverlapped` relates the row to what TikTok
granted and to who was under way. A signed state may come back any number of times, and TikTok
may have spent a code although its answer timed out.

### Checkout

Requests of one user begin in the order of `Queue` and overlap freely; events are sent by `Pay` and
`Cancel` and handled once or given up half-way (`LoseEvent`), with the webhook's four writes to the
customer column and the entitlement in their order. `SoldOnceUnlessOverlapped`: two Stripe
customers only from overlapping checkouts (or one that stopped before it saved), and premium is
sold again to a user who holds a handled, live subscription only after two subscriptions were
sold and the end of one took the entitlement of both.

### OperatorApproval, FeatureBacklog, ControlPlane

`OperatorApproval` has the worker's side (`Resolve` with the operator `Closure`, `Ask`, `EndRun`,
`EndSignal`) and the route's four statements; `crossed` collects the calls that met another call
or a worker still on its way. `ApprovalsStick`: an undisturbed decision is what approval, run and
signal all carry, acts once, and asks for no more authority than was missing.

`FeatureBacklog` keeps the receipts and the report history as the lists they are: read, put in
front, cut, written back. A read that fails is an empty list. `CyclesAreRecorded`: progress
that was reported is in the list, and the history begins with the latest report.

`ControlPlane` keeps `rmf_control_features` with what its readers tell apart: category, lifecycle
(under way, active, stopped), whether access is open, the endpoint (`target`), priority, the text
(name and acceptance together) and the evidence status, `partial` included, as most seeds of the
migration have it. `evidence` are the evidence rows: verdicts, and the `measuring` rows that every
metric snapshot adds for `monetary_intelligence` without touching that feature's status.

| Action | Code |
|---|---|
| `BeginReceipt`, `CommitReceipt`, `DropReceipt` | the transaction of `recordUnifiedFeatureReceipt`, stamped with the time it began |
| `RegisterFeature` | the upsert of `registerUnifiedFeature`, all its fields; verified evidence becomes stale |
| `RecordMetrics` | `recordUnifiedMetricSnapshots`: once per run, unknown counts left out, the `measuring` row |
| `OutsideReport` | a metric or a finished factory job that other programs write |
| `SyncIdentity`, `LinkIdentity` | `syncCodexMcpIdentity`: the link, its evidence and the feature's row together |
| `ReadFeatures`, `ReadJobs`, `ReadMetrics` | the statements of `readUnifiedControlPlane` |
| `Select`, `StoreCursor`, `StoreRound` | compare with the previous cursor; store the cursor, then the round |
| `RoundEnds` | the route's timeout, or a statement that fails |

`RoundOf` is the pure selection (`Component`, `Action`, `Score`, `ClosedComponents`, `Frontier`,
`Admissible`): the first by key of the admissible features with the best score. `Cursor` is what the
code's digest is taken of. It leaves out a feature's text and its place in the funnel, and the round
stores both, so the second property has to except them.

- `StatusFollowsEvidence`: a feature shows the verdict of its latest verdict row, unless two verdicts
  were under way at the same time (`contested`). A `measuring` row is no verdict.
- `StoredRoundIsPresent`: when a round has gone through and the stored cursor is that of the present
  state, the stored round selects what the present state selects, unless a feature moved to another
  category; and its task is the present one, unless the selected feature was reworded. Excepted are
  rounds cut between the two rows (`torn`) and rounds that stored at the same time.

Left out: the deletion of an auth user between two links, the limit of 60 on the metrics read (one
row per stage is what the selection uses), and the protected GPT's row, which nothing here writes, so
that its component is closed.

## Runs

| Run | Bounds | Shows |
|---|---|---|
| `credits` | 3 requests, 2 users, 1 session, 1 operator reference, amounts 1, 2, 3 | safety of the ledger and the refinement |
| `silent_edit` | the same | **violated**: two calls that both miss the look-up move the balance twice; the second insert is rejected |
| `packs` | 1 user, 1 delayed session, 3 deliveries per event | at most once, only if paid, eventually |
| `subscription` | 1 user, 2 states, 2 deliveries per event | entitlement follows Stripe |
| `lost_payment` | 1 user, 1 session, 2 deliveries | **violated**: a death after the mark loses the payment for good |
| `queue` | 2 workers, 1 heartbeat, 2 signals, 1 crash, 1 legacy run | safety, refinement and liveness of the queue |
| `heartbeat_retry` | 1 worker, 2 heartbeats, 3 signals, no statement failing | **violated**: overlapping heartbeats enqueue twice |
| `paid` | jobs: 2 requests, 1 or 2 credits, 1-day plans, 1 trouble; studies: 4 requests, 1 timeout; verdicts: 7 values from none, 3 from 39 on each side | nothing unpaid, honest jobs, plans and days, final records, exact verdicts |
| `late_charge` | the jobs of `paid` | **violated**: a request that timed out before its charge is charged after its 504 |
| `access` | learning: 3 requests, 2 keys, 1 failure; bridge: 4 requests, 2 isolates, 2 clients, 1 failure; provider: 3 requests, 3 schema attempts, 1 reset; checkout: 3 requests, 2 sales, 1 end, 1 stop | what was erased, written, spent, issued, disconnected or sold stays so |
| `forgotten` | the learning of `access` | **violated**: a write that had read before the delete restores what was deleted |
| `operator` | approval: 3 signals, 2 workers, 2 owner calls, 1 fault; backlog: 2 items, 3 builders, lists of 2, 1 lapse; evidence: 3 features, 2 receipts, 1 snapshot, 1 link, 1 registration; rounds: 3 features, 2 rounds and two of a receipt, a snapshot and an edit | decisions, receipts and reports, a feature's status, the stored round |

Why the bounds are enough: in `credits`, two requests race on a reference or on a balance and
the third is the retry or the one that spends what the race left; the amounts make a clawback
and a usage compete for one bonus, and two users let a reference of one be looked up by the
other (operator references). In `packs` both events of a session, three deliveries each, cover
a duplicate of each while a third is in progress. In `queue` the crash leaves a stale claim for
two workers to plan for, and a legacy run lets a signal reach the limit of three; two signals
suffice for superseding. In `paid` two requests race for one credit, one plan or one day; the
account starts with a history, without a plan and with two credits, or lacks one of these (with an earlier
plan, the requests are about plans and check-ins); and one day takes a plan from its start to its completion; the studies
need a creator, a recorder, a completer and one who looks or cites; seven values give
a trend halves of three and of four. In `access` every "unless overlapped" needs two requests that overlap or a
third that comes after both; a code, its exchange, a refresh and a refresh or look-up of the
refreshed pair take four; a failed attempt, its retry and one of the next generation take three.
In `operator` lists of two make the third receipt push one out, and the third builder overlaps or
follows the other two. `evidence` and `rounds` have one feature of each kind that counts: a core
feature whose verification closes a component, the identity, which a round links itself, and the money
feature that every snapshot adds evidence for. Two receipts, or a receipt and the link, are the verdicts
that may overlap; a form that rewords a feature and one that moves it to another category are the two
things the cursor may miss; and a second round follows, overlaps or finds the first one's rows.

Symmetry: users and requests of `credits` are interchangeable, and in `operator` two owner calls
(receipts on the control plane) and two workers (rounds) are; no temporal property is checked in the
latter and only a step property in the former. Deadlock checking is off because each model
rightly stops: every request ends, and bounded producers run out.

Fairness. `CreditLedger`, `ControlPlane` and the modules of `access` and `operator` have none: only safety is
claimed. `StripeBilling`: a running handler takes its next step (weak fairness of `Handle(d)`, which
dying is part of), and Stripe redelivers what was not answered; nothing obliges it to repeat an
answered event. `OperatorQueue`: the cron of `vercel.json` keeps starting workers, a live worker goes
on, and time passes; producers owe nothing, and a crash is never owed. The number of crashes is
bounded by `Crashes`, so liveness says that finitely many of them lose nothing. `PaidActions` owes
one thing, the timer of `withDatabaseTimeout`; a statement may hang for ever, which is why nothing
is said to be answered.

## What the violations say

1. **A balance edit without a row.** `app/api/operator/credits/route.ts:43`: "Every mutation
   writes rmf_credit_ledger — no silent balance edits." The account is updated before the
   ledger row is inserted, outside a transaction; when two calls with one reference overlap,
   the loser's insert throws and its update stays: the row is unique, the movement is not.
2. **A paid session that is never credited.** `STRIPE_BILLING_CONTEXT.md:22` promises checkout →
   verified webhook → durable ledger. The event id is recorded first and the work done after it;
   a handler that dies in between answers nothing or 500, and every redelivery is a duplicate.
3. **Two daily signals.** `lib/operatorAgent.ts:221`: "Retries with the same key cannot
   duplicate." The call that loses the claim of the key looks for the winner's signal; if the
   winner has not inserted it yet, the loser falls through to its own insert, and the winner inserts
   too. In this run the claim never throws (`ClaimFaults` is FALSE). (The fall-through is also what
   keeps a dead heartbeat's key from suppressing the day: `HeartbeatEnqueues`.)
4. **A charge after the answer.** `app/api/compare/route.ts:172`: "Compare did not complete in time.
   Check rmf_credit_ledger before retrying." The work that lost the race is not stopped; its next
   `db()` opens a new client and the charge lands after the caller looked.
5. **Remembered after deletion.** `lib/accountLearningSync.ts:103`: "Privacy delete: clear both
   Account Learning stores." A write that read the profile before the delete's last statement stores
   the whole merged document again after the delete was confirmed.

Smaller disagreements met while reading, without a run of their own: `lib/compareJobs.ts:237`
describes a job's life cycle as forward only, the catch sets a completed job to failed when a
follow-up write throws; `POST /api/personal` charges an operation it then refuses as unknown;
`updateProfile` for a user who has only a legacy context mirrors the patch alone over it; a ship
receipt that is followed by eighty others leaves the list, and its item is unfinished again;
`agentFeatureBacklog.ts:488` handles a status `in_flight` that nothing produces;
`lib/closureRuntime.ts:252` says of an idle round that nothing material changed, but the digest it compares (`:140`) leaves out a feature's name and
acceptance, which the stored task carries (`:201`): after the selected feature is registered again with
another wording, rounds are idle and the builder goes on from the old text; registering
`codex_agent_account` again makes its evidence stale, and the sync, which finds the link, never
renews it.

## Proofs

### CreditLedger_proofs

`CreditLedger_proofs` proves, for every set of requests, users, sessions and references and
every amount allowed by `CreditsAssumption` (amounts are positive, the signup bonus may be 0):

| Theorem | States |
|---|---|
| `Invariance` | `Spec => []IInv` |
| `TypeCorrect` | `Spec => []TypeOK`, balances never negative included |
| `RetriesFree` | `Spec => []SettledRefIsFree` |
| `AuditTrailHolds` | `Spec => []AuditTrail` |
| `LedgerImplementsAccount` | `Spec => ImplementsAccount` |
| `BooksReconcile` | `Spec => []Reconciles` |

None of the properties is inductive alone. `IInv` adds: a request inside a call has that call
(`CallPending`); a reference about to be applied was not recorded when the request began
(`FreshRef`, which makes retries free); a request that owes a row points at its own update, and
that update has no row (`OwnUpdate`, which makes the row the insert adds the only one); a row
repeats the update it records (`RowsMatch`); updates form a chain from 0 to the present balance
(`Chain`); every update is explained (`Explained`); only a request that has begun has updates
(`Begun`). One lemma per action shows that it keeps `IInv` (`PcStep` serves the four that only
move the request, `MovedStep` both account updates). `AuditTrail` follows from `RowsMatch`,
`Chain` and `Explained`. For the refinement each account update is one step of `CreditAccount`,
chosen by the call's reason, and every other statement leaves the three counters alone.

`BooksReconcile` says that balance, `lifetime_purchased` and `lifetime_spent` are what the rows add up
to, with what requests at or stopped at their insert still owe. Its invariant is `IInv` with the
equation itself and with the fact that finitely many requests have begun: `Requests` may be infinite,
the sum is over those with an update. Each step adds one update with its debt, or turns one debt into
one row, so `Sums_proofs` has to say only what one more element does to a sum.

### Sums_proofs

Lemmas, for every finite set and every function on it to the integers. `Sum` folds over a set in an
order nobody fixes, so what is proved first is that the order does not matter (`AnyOrder`, `Splits`):
then a sum is an integer (`SumIsInt`), one more element adds its value (`SumOfOneMore`), a sum splits in
two (`SumSplits`) and the sum of the opposites is the opposite (`SumOfOpposites`). The induction is
over sets and not by the library's induction theorems, which no installed prover can instantiate: a
property that fails for a finite set fails for a subset none of whose own subsets fails
(`SmallestSubset`). `HighestExists` is the same for the greatest value of a function, which the
ids of `OperatorQueue` and the scores of `ControlPlane` need.

### OAuthBridge_proofs

For every set of requests, isolates and clients and any number of failures:

| Theorem | States |
|---|---|
| `BridgeInvariance` | `BridgeSpec => []IInv` |
| `BridgeTypes` | `BridgeSpec => []BridgeTypeOK` |
| `GrantsSpentOnce` | `BridgeSpec => []SpentOnceUnlessOverlapped` |
| `SessionsLostOnlyByBreaking` | `BridgeSpec => []LostOnlyByBreaking` |
| `BearersRecognised` | `BridgeSpec => []BearersAreRecognised` |

`IInv` adds to the types: what a request has written by the stage it is at (`Staged`), that what it
presents was issued (`Presented`), that a request past its select holds a grant of its own client,
and a spent one past its update (`Granted`), that a request which arrived after a pair was bought
with the same grant does not get past its select (`Refused`), and the spender of every spent grant
(`Spent`). `SpentOnceUnlessOverlapped` follows from `Granted` and `Refused`, `LostOnlyByBreaking` from
`Spent`. One assumption was named for it: no client is called "none".

The same module holds the theorems about `AccountLearning`, for every set of callers and keys and
any number of failures:

| Theorem | States |
|---|---|
| `LearnInvariance` | `LearnSpec => []LearnInv` |
| `ErasedForGood` | `LearnSpec => []ErasedUnlessOverlapped` |
| `WrittenStays` | `LearnSpec => []WrittenUnlessOverlapped` |
| `OneRowPerLink` | `LearnSpec => []OneRowPerLinkUnlessOverlapped` |

The hazard of these stores is not what they hold but what is still on its way to them: a document read
a while ago replaces the whole of the present one. So `LearnInv` speaks of stores and requests alike.
`EraserAt` says how far a delete that met nobody has come, and after its "ok" that nothing written
before it is `Carried`, stored or in anybody's document. `WriterAt` says that a preference whose writer
met nobody is in the profile and in every document that will replace it, and that no later migration
overwrites it (`Storing`, `Keeping`). `RowsAt` says that the interaction behind a row is stored or
was taken by a delete (`Accounted`), and that a request about to add a row for the link saw none
except of requests it overlaps (`Apart`, `Fresh`). `LearnerAt` ties all of this to the statement a
request is at. `WorkKeeps` carries what most statements leave alone, `DocumentStepKeeps` and
`RowStepKeeps` do so for those that change documents and rows; then there is one lemma per statement.
A touched row is removed and appended (`Touch`): the order of rows is that of `updated_at`.

### ProviderConnections_proofs

| Theorem | States |
|---|---|
| `SlotInvariance` | `ProviderSpec => []SlotInv` |
| `SchemaRunsOncePerClient` | `ProviderSpec => []SchemaOncePerClient` |
| `LinkInvariance` | `ProviderSpec => []LinkInv` |
| `DisconnectSticks` | `ProviderSpec => []DisconnectSticksUnlessOverlapped` |

`SlotInv` says that attempts belong to generations begun (`Recorded`), that a slot with an attempt
has that attempt's generation, and that an attempt of the present generation that did not fail is the
one the slot holds (`Held`). The last is what makes a second attempt impossible.

`LinkInv` is an invariant of its own, about the other half of the module. It adds to
`DisconnectSticksUnlessOverlapped` the types, what a request does by where it is (`UserAt`: a
callback past the exchange has a token, and only a request that has ended was told "ok") and that
the requests counted as ended had ended (`Ended`). With the last, a request about to change the row
is in nobody's `over`, so its token is never one a later disconnect could have removed. It needs
that no request is called "none", the token of a row without one.

The same module holds the theorems about `PersonalIntelligence`, for every set of requests and any
number of timeouts:

| Theorem | States |
|---|---|
| `IntelInvariance` | `IntelSpec => []IntelInv` |
| `RecordsFinal` | `IntelSpec => []RecordsAreFinal` |

Under the row lock what was found when the lock was taken still holds at the commit (`StillOpen`): a
study is active, a run awaits its decision or is approved. `CompleteStudy` takes no lock but waits
for it, so no outcome is added to a study after it was shown completed (`ShownAt`). `StoryAt` is the
part about agent runs: by the status of a run, which receipts it has and in which order (the
reading, the decision, completions that showed nothing and at most one that did, last);
`StoryIsReplayed` shows that this list, read alone, yields the status. `RowAt` names a row's creator
and the one holder of its lock. No request may be called "none", the owner of a free lock.

And it holds `VerdictsExact` (`EvidenceSpec => []VerdictsAreExact`) about `PersonalEvidence`, for every
list of outcomes and of metric values, and every set `Falls` that doubles may have.

The state is only what was observed; the proof is about the operators. A rounded average is within half
a hundredth of the true one, and goes down from the half itself only where the doubles fall
(`RoundedFacts`). So the difference of two, times the pairs, is within one hundredth per pair of the
lead (`GapIsClose`), and it is a whole hundredth too large only if one average was rounded up from the half
and the other one down. A tie that falls is no eighth, and `TiesTakeForty` shows that an average which
ends on such a tie is one of a multiple of forty values: 200 times the sum is k times the number, and
what divides the left side and not k divides the number (`Fives`). Both margins are multiples of
a hundredth, as that difference is: what is called ahead is ahead, or at the margin with forties
(`MarginIsKept`), and a direction is never turned (`DirectionIsExact`). With at most 25 pairs the lead
cannot lie strictly between the margin and one hundredth more, as its own unit is then too coarse
(`BeyondMargin`, `WithinMargin`); `FavoredLeads` is the same for products. For a trend turned round, the
rounded average of the opposites is the opposite or one hundredth more (`RoundedOpposite`, which needs that
k and -k do not both fall), the latter only with at least eight values (`TurnedAverage`,
`TurnedHalves`). Most leaves are nonlinear arithmetic over a few named products, which is why they are
many and short.

### OperatorQueue_proofs

For every finite set of workers and any number of heartbeats, signals, attempts and crashes:

| Theorem | States |
|---|---|
| `Invariance` | `Spec => []QueueInv` |
| `QueueTypesHold` | `Spec => []TypeOK` |
| `NoSignalRunsForEver` | `Spec => []RunsAreBounded` |
| `ClaimsAreExclusive` | `Spec => []ExclusiveUnlessStolen` |
| `HeartbeatsEnqueue` | `Spec => []HeartbeatEnqueues` |
| `ClosedSignalsStayClosed` | `Spec => ClosedStaysClosed` |
| `QueueIsRetryQueue` | `Spec => ImplementsRetryQueue` |

`RunsAreBounded` counts run rows; what bounds them is `attempts`, which is raised at the claim, one
statement before the row is inserted. So `QueueInv` counts the workers in between: the rows of a
signal plus the holders about to insert one never exceed its attempts (`Counted`). The exception is a
legacy row of the migration, which has more runs than attempts said; for it nobody holds the signal
and either it is closed or no worker has got past its recount (`Uncounted`): whoever selects it has
recounted it. `HeldAt` and `ExclusiveAt` say when a held signal may be queued or shared: only after
a requeue from an outdated plan. Workers are finite because the proof counts them.

For `QueueIsRetryQueue` each statement is a step of `RetryQueue` or none. A claim is a `Take`: its guard
looks at `attempt_count` alone, and `Counted` makes that the larger of the two counts (`CountLeads`),
since whoever claims has recounted. Inserting the run row then changes nothing, as the
attempt had been counted; the recount changes nothing, as it raises the smaller count to the larger.
A signal whose legacy runs are not counted yet is `Uncounted`, and nobody takes it before it is.

### StripeBilling_proofs

For every set of users and sessions and any number of states and deliveries:

| Theorem | States |
|---|---|
| `Invariance` | `Spec => []BillingInv` |
| `BillingTypesHold` | `Spec => []TypeOK` |
| `SessionsAreCreditedOnce` | `Spec => []CreditedAtMostOnce` |
| `CreditsArePaid` | `Spec => []CreditedOnlyIfPaid` |
| `EntitlementIsCurrent` | `Spec => []EntitlementFollowsStripe` |

An event is *owned* by the delivery that recorded it, and by that one only (`OwnedOnce`): the insert
into `rmf_stripe_events` decides. Every account update is of a delivery that owns its event, of its
user and with the reference of its session, one per delivery (`UpdatesAreOwn`), and of an event whose
payload says paid (`DeliveriesAreSound`, `EmittedArePaid`). Both events of a session can only be paid
if the first one was not, so one of them moves the balance, whatever the ledger's own look-up saw.

For the entitlement, `Follows(u)` speaks of users whose events were handled in order so far: while no
delivery works for `u`, both rows show the state of the last event seen; while one does, its
snapshot is the newest and the account row is written before the entitlement. `SnapsAreSound` and
`HistoriesAreEmitted` tie snapshots and events to the subscription's history. One assumption was
added: a pack holds at least one credit.

### OperatorApproval_proofs

For every set of signals, workers and calls: `Invariance` (`ApprovalSpec => []ApprovalInv`) and
`DecisionsStand` (`ApprovalSpec => []ApprovalsStick`). `ApprovalInv` adds where a worker and a call may
be by what they have written (`WorkerAt`, `OwnerAt`), that a signal is run by one worker (`MineOnce`:
a requeued approval is a new signal), and for a call that was not crossed that its worker is at its end,
that nobody else has acted on the same approval, and that the rows it has passed carry its verdict
(`AloneAt`, row by row in the order of the statements).

The same module holds the theorems about `FeatureBacklog`, for every backlog, set of builders and
length of the lists: `BacklogInvariance` (`BacklogSpec => []BacklogInv`) and `CyclesRecorded`
(`BacklogSpec => []CyclesAreRecorded`). A list of receipts is a value that is read, extended and written
back, so what is said of the stored list is said of every list a builder has read (`Truthful`: no
receipt claims more than its builder saw; `Kept`: nothing is missing but what the cut or an
overlapping builder took), and two builders that append at once have both met another (`AppendersMet`).
`LatestAt` and `HistoryFollowsLatest` are the same for the report history. `FirstUnfinished` says that
the item a cycle picks exists, which is why `BacklogAssumption` makes the backlog a sequence.

It also holds the theorems about `ControlPlane`, for every finite set of features, receipts and rounds,
every set of snapshots, forms and measurements, and any number of edits:

| Theorem | States |
|---|---|
| `ControlInvariance` | `ControlSpec => []ControlInv` |
| `StatusIsTheLatest` | `ControlSpec => []StatusFollowsEvidence` |
| `BuildersSeeThePresent` | `ControlSpec => []StoredRoundIsPresent` |
| `StoredRoundIsBest` | `ControlSpec => []BuildersGetTheBest` |

The evidence half of `ControlInv`: stamps never exceed the clock (`ClockLeads`), and of a feature without
overlapping verdicts the status is the latest verdict's (`StatusAt`), whatever is in flight began after
it (`Later`) and is alone (`RecordedAlone`), so the last to commit is the last to have begun. Only verdicts
count: `RecordMetrics` adds rows that `Verdicts` does not contain. The round half: a stored cursor is
that of a round which stored both rows (`Settled`), and while no other round got as far as its reads it
is the one seen last (`CursorIsLatest`). What equal cursors say of the rows they were taken of is
`CursorTells`, and `SameCursorSameRound` is what the property rests on: two views with equal cursors
select the same feature unless a category changed, and store the same task unless the text of the
selected one did. The cursor keeps neither the lifecycle nor the score; the lemma shows that selection
reads them only through what it does keep (action, component, the scores' factors, the constraints and
the counts). `ControlAssumption` says that features, receipts and rounds are finite, that keys are
ordered, and what seeds, forms and measurements look like.

`StoredRoundIsPresent` says that the stored round is the one the code's comparisons select;
`BuildersGetTheBest` says what that one is, without the comparisons, under the same condition (the stored
cursor is the present one's and no category changed): "blocked" if no feature is admissible, else an
admissible one that no admissible one outscores. `RoundOf` chooses with CHOOSE; `FirstIsBest` and
`SelectsBest` show that each choice finds what it looks for, which is where features must be finite and
scores numbers (`ScoreIsNumber`); `FrontierIsFirst` says that the funnel's frontier is the first stage
that loses more than half.

### Account_proofs

Two components that share no variable, for every set of requests.

| Theorem | States |
|---|---|
| `CheckoutInvariance` | `CheckoutSpec => []CheckoutInv` |
| `SoldOnce` | `CheckoutSpec => []SoldOnceUnlessOverlapped` |
| `PaidInvariance` | `PaidSpec => []PaidInv` |
| `RecordsArePaid` | `PaidSpec => []EveryRecordIsPaid` |
| `JobsTellTheTruth` | `PaidSpec => []JobsAreHonest` |
| `PlanDays` | `PaidSpec => []PlanDaysAreReal` |
| `OnePlan` | `PaidSpec => []OneActivePlanUnlessRaced` |

`CheckoutInv`: a request that creates a customer had found none on record, so none of the requests that
had ended before it began saved one (`PreviousAt`); what a session, its subscription and its two events
say of each other (`SaleAt`, `NewsAt`); and a live subscription that was handled shows as premium unless
another one's end was handled after it (`ShownAt`).

`PaidInv`: what a request has charged and written by the statement it is at. `RoutesRepeatNothing` and
`NextStatement` say that `After` is the next of the route's statements; `RouteAt` puts the charge between
the statements before it, which have no record, and those after it; `BooksBalance` is the account, one
cost per charged request. `JobAt` follows the job: each statement finds what the ones before it wrote, or
the privacy delete took it. `CheckinAt`, `PlanAt`: the day a check-in writes was computed on a plan that
exists, from a calendar that only goes on. For `OneActivePlanUnlessRaced` the step that matters is the one between
the second read and the insert: a plan seen completed then may be set back to active before the insert. So
`CreatorAt` keeps, for the creator of every plan, that each plan it had read is *passed*: completed, or set
back by a check-in slower than the one that completed it (`Reverted`), and `PassedStays` shows that no step
undoes this. The routes' timer owes its step by fairness; no theorem uses it.

TLC checked each inductive invariant first, over the reachable states of the run's bounds.

Only model-checked: the type invariants of `MCPaid`, `MCAccess` and `MCOperator`, which join those of the
parts (each part's own types are a conjunct of its inductive invariant), and all liveness, which the
prover cannot treat (nor `ENABLED`).

## Not modelled

`PROJECT.json` gives the reason for each part. In short: pages, dashboards, static documents and
read-only aggregation have no state; authentication checks are stateless; what models, browsers,
GitHub and TikTok answer is a free choice; report texts, metadata, hashes and PKCE are data no
property tells apart. `railway-browser/server.mjs` holds one owner session and its timer, and is the
one stateful part without a module. `queueGptFactoryJob` writes a row nothing here reads.
`lib/personalIntelligence.ts:179` inserts provider evidence after the connection was read: the step
is in `PersonalIntelligence` (`ReadConnection`, `WriteSocial`), but no document says that evidence
must not outlive the connection it came from, so no property does.

## Plan

Done: the ledger, the webhook, the queue; the metered actions, the personal suite, the two learning
stores, the bridge, the provider connection, the checkouts, approval, backlog and control plane; a
theorem for every safety property of the runs and for both refinements. What is left:

1. A module for the one browser session of `railway-browser/server.mjs` and its timer.
2. The approval's model restated over `RetryQueue`: `OperatorApproval` has its own workers and needs of
   the queue only that a claim is exclusive and that closed signals stay closed.
3. An abstract specification of the operator's decisions (asked, decided once, acted on), which
   `OperatorApproval` would implement for calls that were not crossed.
