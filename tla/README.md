# A TLA+ verification of SproutOS's background work, billing and project operations

SproutOS hosts customers' projects and charges for them from prepaid credit. This directory
models the part of it where mistakes cost money or data and where tests reach least: the
background job queue, the credit ledger, top-ups through Stripe, the path of metered usage into
the ledger, what happens to an organization that runs out of credit, and the jobs that change
what a project serves or rents: releases, rollbacks, previews, deletion, sandboxes and workflow
runs. TLC checks the models on small instances, TLAPS proves the central invariants for every
value of the constants.

## 1. Inventory

The repository has some 1700 files. The core logic is in `lib/typescript/jobs`,
`lib/typescript/billing` and the handlers of `apps/internal-api`; around it are proxies and
services in Rust, front ends, provider clients and infrastructure. `PROJECT.json` lists every
component with its status. The ones that keep state of their own and share it:

| component | state | operations | hard because | correct when |
|---|---|---|---|---|
| job queue, `jobs/src/queue.ts` | table `background_job` | enqueue, claim, succeed, fail, heartbeat, reclaimExpired | several processes poll; leases run out under slow handlers; processes die | a job is not run twice at once, not lost, not moved once settled, and settles |
| worker loop, `jobs/src/worker.ts` | slots of a process | work, runOne | a barrier over all slots before each reclaim | progress although processes die |
| credit ledger, `billing/src/ledger.ts` | accounts, transactions, entries | post, spend, balances, lockAvailableBalance | READ COMMITTED, two reads make one balance | entries sum to zero, nobody is overdrawn |
| holds, `billing/src/holds.ts`, `agent/src/run.ts` | `credit_hold` | place, settle, release, expire | a run races its hold's expiry | a reservation ends once and for all |
| usage import, `billing/src/import-rollups.ts`, `observability/src/usage-rollups.ts` | `usage_rollup`, a cursor | cursor, watermark, query, apply | overlapping executions, late rows, corrections | Postgres follows ClickHouse |
| usage charging, `billing/src/charge.ts` | charged quantities, postings | claim, charge | races with imports and itself, retries | usage is billed once, and billed |
| top-ups, `billing/src/topup.ts` | `topup` | begin, settle, fail | Stripe and Postgres do not commit together | a payment is credited, once |
| Stripe webhook, `internal-api/src/v1/stripe-webhooks.ts` | `stripe_webhook_event` | claim, handle, finish | duplicated, reordered and failing deliveries | every event is handled |
| credit state, `jobs/src/credit-state.ts` | `credit_retention_state` | refresh | runs beside the deletion | suspends and restores in time |
| deletion for non-payment, `jobs/src/nonpayment-retention.ts`, `billing/src/reprieve.ts` | the same row, a job per generation | scan, delete | irreversible; races payments, refreshes and its own retries | nobody who paid loses data |
| static suspension, `jobs/src/static-suspension.ts` | served prefixes | reconcile | ordering of restore and withdraw | a paying customer is served |
| project lock, `jobs/src/project-lock.ts` | an advisory lock per project | wait, heartbeat, release | the lease may go while the lock is held | one operation at a time, and nobody waits for ever |
| publish, `jobs/src/publish.ts` | `deployment`, the live pointer, alias, routes, live key, queue target | release, migrate, retire a preview | five things no transaction covers, put back by compensation | a migration runs once, before its code; traffic and rows agree |
| rollback, `internal-api/src/v1/deployments.ts` | the same | move traffic back | a request: nobody repeats it | the same |
| route refresh and router, `jobs/src/refresh-routes.ts`, `services/router/src/resolve.rs` | `route:<host>`, `live:<project>` | refresh, read-through, backfill | they take no lock | routes converge to what is live, a deleted project is dark |
| teardown, `jobs/src/teardown.ts` | everything a project has at any provider | the delete request, the job | one provider call at a time, from the top after a failure | nothing is left |
| sandboxes, `jobs/src/sandbox.ts` | `sandbox`, the provider's container | request, provision, start, stop, destroy, reap, reconcile, repair | long provider calls between reading and writing the row | no container without a row, no row that lies for long |
| workflows, `workflows/src/graph.ts`, `jobs/src/workflow-run.ts` | `workflow_run` and its steps | validate, order, run | retries and attempts beside one another | one attempt runs the steps, in order, and the run is billed once |

They interact through Postgres: every recurring or deferred step is a job of the queue; a
webhook settles a top-up, which posts to the ledger and refreshes the credit state; the refresh
opens a suspension window; the deletion job of that window reads the ledger and the top-ups and
may start a top-up itself; charging lowers the balance the refresh reads. Releases, preview and
project teardowns and rollbacks exclude one another by the project lock; a suspension makes them
refuse, stops sandboxes and cancels workflow runs; the deletion for non-payment and the delete
request both end in the project's teardown.

Not modelled, with the reason in `PROJECT.json`: metering collectors, Android signing, template
upkeep, statements, seats and money arithmetic (planned, section 8), and most of the API's request
handlers, proxies, provider clients, front ends, CLI and infrastructure (pure I/O, byte-level
protocols or one statement per operation). Of the components in the table the parts left out are
listed under the modelling decisions below.

## 2. Modules

| module | models | state and actions |
|---|---|---|
| `JobQueue` | queue and worker loop | one function per column of `background_job`; one action per statement; `Crash`, `Tick`, `Sweep` |
| `JobLife` | what the queue promises | the abstract job: submitted, handed to one execution, settled by it, recovered when it is gone; `JobQueue` implements it (`ImplementsLife`) |
| `CreditLedger` | ledger, holds, the debit of a usage charge | posted, revenue and clearing balances, holds, row locks, and what each connection has read; a transaction is a start, a lock, two reads and a commit |
| `Account` | what the ledger promises | the abstract account: what is free and a pot per open hold, changed by single steps; `CreditLedger` implements it (`ImplementsAccount`) |
| `TopUps` | top-ups and the Stripe webhook | the `topup` row, the intent at Stripe, events sent, claimed, handled and processed |
| `Retention` | refresh, deletion, static access | EXTENDS `TopUps`: the lifecycle row, its locks, the refresh's read and write, the deletion job statement by statement |
| `UsageCharging` | import and charging of usage | ClickHouse's totals, `usage_rollup`, the cursor, what an import has read, what a charge has locked |
| `Release` | project lock, publish, rollback, previews, route refresh, router | the rows, the five things that carry traffic, and for each job or request where it is and which writes it has left; a failed write turns the list into the compensation |
| `Teardown` | project deletion | EXTENDS `Release`: the teardown job, provider call by provider call, beside everything that serves the project |
| `Sandbox` | one sandbox | the row, the provider's container, the jobs pending or running and what each of them read |
| `Workflow` | graphs and runs | `validateGraph` and `topologicalOrder` as functions; one run, its step rows, and the attempts of its job |
| `MC...` | TLC instances of the above | values for constants |
| `...Proofs` | theorems and proofs | section 6 |

How the models relate to the code:

* **Statements are the atoms.** A statement of Postgres or a call to Stripe or ClickHouse is one
  step; what a handler does between two of them is part of the step before. Where a transaction
  makes several statements atomic by locks (a usage charge after its `FOR UPDATE`), the locks are
  modelled and the writes are one step at the commit; where it does not (the refresh, which reads
  its row without a lock; the claim, which checks top-ups and then the balance) the steps are
  apart.
* **Data is abstracted to what properties tell apart.** Amounts are small integers, keys are
  sets or model values, timestamps are relative to the database clock (`leaseIn`, `runIn`) or
  reduced to none/future/past (`deadline`). Payloads, notices, error texts and rating are left
  out.
* **Faults** are named and counted: in `JobQueue` a crash, a handler that overruns its lease, a
  lost acknowledgement and the window between the sub-select and the update of `reclaimExpired`
  (under READ COMMITTED the update does not look at the sub-select's conditions again); elsewhere
  an execution that dies between any two statements.
* **External code** (Stripe, ClickHouse, PostgreSQL's locks and clock) is modelled from how the
  code uses it and marked external in the map.

Modelling decisions to know of:

* `JobQueue`: a job id stands for one call of `enqueue()`. A process that restarts keeps its
  worker id; a handler that outlives a crash of the loop does not exist. The sweep's thirty days
  are any time.
* `CreditLedger`: one organization. The balance cache that `balances()` mentions has no writer in
  the repository and is left out; the foreign-key lock a top-up takes on the account would only
  remove interleavings and is left out too. `spend()` has no caller in production and is checked
  like one. A usage charge of several organizations is several single ones here.
* `Retention`: the warning stage is not modelled: a funded refresh drops or keeps the generation
  nondeterministically (safe or low). The refresh a webhook makes is the refresher `"sweep"`,
  which may run at any time. A stale inventory (`assertRetentionInventoryFresh`) is a
  `WorkerDies`. An organization is taken to have a project, so teardown's guard is always
  reached. Nothing keeps a refresh from running between the statements of a deletion's claim, and
  every run allows it; a second execution of the deletion job, which `JobQueue` excludes when
  processes only crash, is covered by the theorems. `saw` is the status an execution
  has read (`state.status`) until it ends.
* `UsageCharging`: a posting covers all the units it was rated from, a capped one too; a
  correction that moves an event to another hour is a removal there and an event here. Two
  charges that lock the accounts of two organizations in opposite order are aborted by Postgres:
  one of them is a `ChargeDies`.
* `Release`: a Lambda version is identified with its deployment, and the ARN of an alias, which
  never changes, is left out: what a route adds is the deployment it names. All refusals of a
  release before it touches traffic (credit, serving mode, missing artifact or configuration) are
  one. `servingMode` claimed in a transaction whose answer is lost, the router's in-process cache,
  the cleanup of a retired static preview's objects and a lock session that is lost while the work
  goes on are not modelled. `Setups` says which operations, rows and disturbances are considered
  together: their product would be out of TLC's reach.
* `TrafficFollowsPointer` and `OnePreview` speak of a project nobody is working on. They leave out
  a rollback whose API process died: nobody repeats it, and the alias then differs from the live
  pointer until the next release. The runs' single disturbance excludes two more cases in which
  the code leaves traffic apart from the pointer: a rollback whose compensation fails too, and a
  release that crashes after it moved the alias and whose retry is refused because the
  organization has been suspended since. A static release's compensation does not put the live key
  back; `RoutesConverge` relies on its expiry.
* `Teardown`: services are destroyed in any order; the certificate objects of a domain are part of
  its deletion's step. After a teardown for non-payment the live pointer stays, so that the
  refresher publishes routes to a function that is gone; `DeletedGoesDark` is about a deleted
  project. Static hosts are removed by the hostnames on the rows: a static release that dies before its
  hostname is recorded leaves its host behind, pointing at objects that are deleted by their prefix, and
  `DoneMeansGone` speaks of recorded ones only. The function is deleted with each deployment that is torn
  down, so that a project with nothing but previews, all of them torn down before, may keep it; the
  situations considered have a deployment of the live slot (`LiveSlotTaken`).
* `Sandbox`: one row, from its insertion to its removal. A job of the queue is a slot that runs
  until an attempt completes or `Tries` have failed. `cut` records that an attempt ended, or a
  container was lost, while only that attempt knew the container: a crash between the provider's
  create and the row's update, followed by a deletion, leaves a container nothing references, and
  two provisions around a loss can record a stale id. `cut` also covers a case without a fault,
  which takes four requests: a slow provision records a container that has been taken away
  meanwhile over the id of a later one, since the update at `sandbox.ts:830` is conditional on the
  row's state and not on its id (`NothingUnreferenced`, refuted in section 3). `NoOrphan` excuses all three.
  Metering, the branches (only that their cleanup may fail), always-on sandboxes, the provider's error
  state and the state `idle`, which no code writes, are left out. A stop or reconcile that decided before a
  start can leave `stopped` over a running container until the provider's own timer stops it.
* `Workflow`: one run; what a node computes is its outcome, nondeterministic for nodes that run in
  the project's function. `invoked` counts the executions an attempt has set off. The worker's
  `LambdaClient` keeps the SDK's default of three requests per call (`Sends`), so that a node in the
  function may run once for each request of one Invoke (`Resend`): `lambda/src/migrate.ts:66` takes that
  into account for migrations, `workflow-run.ts:393` does not. The steps of a project that is not there
  (`workflow-run.ts:163`) are not modelled: a workflow's row has a project. `assertAcyclic` is stated by
  reachability, which is what the depth-first search of `graph.ts:138` decides: the search itself would be
  a RECURSIVE operator, about which nothing could be proved. A failed step
  does not stop the steps after it and a branch executes every path: the model does what the loop does. A manual run whose request dies between the
  commit and the enqueue stays `queued`; `QueuedIsTaken` is about runs whose job exists.

## 3. Runs

Passing:

| run | instance | shows |
|---|---|---|
| `queue_faulty` | 2 processes of 1 slot, 2 enqueues with one key, 2 attempts, all faults, 2 of them | attempt numbers fence executions (`FencingToken`), nothing is marked done that did not run (`NothingLost`), enqueues with one key agree (`EnqueueAgreement`), every job settles for good (`EveryJobSettles`) |
| `queue_crash` | 2 processes, 2 jobs, lease 2, reclaim limit 1, 2 crashes | the queue implements `JobLife` (`ImplementsLife`): one execution at a time, settled by it and for good, recovered only when it is gone; a crash costs at most one attempt (`AttemptCeiling`) |
| `ledger` | 2 connections, 2 holds, a top-up, a debit key used repeatedly, costs above and below the hold, a reserve | the ledger implements `Account` (`ImplementsAccount`): single steps, each key once, nothing taken that is not there; `NeverOverdrawn`, `HeldIsSum`, `ReserveKept`, `HoldsEnd`, `TransactionsEnd` |
| `topups` | a customer's top-up, declined and tried again, and an automatic one, 2 copies of each event, 1 failure | `CreditedOnce`, `SucceededIsFinal`, `CustomersAreCredited` |
| `retention` | an automatic and a customer's top-up, one window, usage, 1 failure, the refresh at any moment | `DeletionSparesPayers`; what takes an organization back from a claimed cleanup read it before the claim (`OnlyStaleReadsRevive`) |
| `usage` | 2 hours in one batch, 2 imports and 2 charges at once, late rows, 3 events, 1 failure | `SettledIsBilled`, `NeverOverbilled` |
| `usage_live` | 2 organizations, 1 import, 2 charges, every correction, 4 events, 1 failure | `ImportsConverge`, `UsageIsCharged` |
| `project` | 3 deployments, 2 operations in 17 situations (release against rollback, release twice, first releases of both modes, previews, a closed pull request, suspension, deletion of a function or of a static site), up to 2 faults | `MigratesOnce`, `SchemaBeforeCode`, `TrafficFollowsPointer`, `OnePreview`, `EveryoneFinishes`, `RoutesConverge`, `DeletedGoesDark`, `DoneMeansGone` |
| `sandbox` | 2 jobs at a time, 2 attempts, 2 or 3 requests, 2 containers in all; failing attempts, a loss, a suspension or a project's deletion | `NoOrphan`, `DeletingIsFinal`, `DestroyCompletes`, `RunningIsCorrected`, `StaleJoinIsCleared`, `StartingEnds` |
| `workflow` | all graphs of 3 nodes and of 4 without self-edges are ordered; a chain and a diamond are run with 3 attempts, 3 disturbances and up to 3 requests per Invoke | `OrderIsCanonical`, `OneAttemptInOrder`, `BilledOnce`, `StatusIsHonest`, `QueuedIsTaken` |

`CHECK_DEADLOCK FALSE` stands where the system may stop: requests, payments and usage are finite in
number in an instance, and when all of them have been dealt with nothing is left to do.

Expected to fail, each a disagreement between a comment and the code it stands by:

* `topups_swallow` (one top-up, one copy of each event, one failure) checks
  `EventsGetProcessed`, that every event Stripe sends is eventually processed. An event whose handler
  fails is answered 500 and delivered again, but its claim row is there, so the redelivery is taken for
  a duplicate, answered 200 and never handled; `stripe-webhooks.ts:88` says that "the retry re-enters
  the same path rather than being swallowed as a duplicate".
* `teardown_retry` (a deletion beside a preview's teardown, one fault) checks
  `TeardownCompletes`, that a teardown once asked for ends with nothing left: "A teardown that failed
  halfway must be safe to run again" (`teardown.ts:60`). When an attempt stops after the Postgres driver
  has destroyed the database and deleted its instance row, and before the service's row is marked,
  `driverFor` throws in every later attempt (line 566) until the job is dead, with the rest of the project
  still there. `DoneMeansGone` is what holds: a teardown that reports success has left nothing, but for
  the hosts of section 2.

The modules also state what other comments and tests say and the models refute, or what holds only
under a run's constants. Each row gives the instance in which TLC finds the counterexample, as a
change to a run's configuration or as a configuration of its own (`MCRetentionOwned`,
`MCRetentionResume` and `MCSandboxUnreferenced`, which no run uses):

| property | cfg | change | what happens |
|---|---|---|---|
| `RetriesStop` (an invariant) | `MCJobQueueCrash` | one job, `Lease = 1` | `queue.ts:224` "a job that reliably kills its worker is a job that should dead-letter"; `reclaimExpired` requeues without comparing `attempt` with `max_attempts`, and only `fail()`, which a killed worker never calls, does (`AttemptCeiling` is what holds) |
| `DeadLettersStop` | `MCJobQueueCrash` | one job, `Lease = 1`, `Faults = {"overrun"}` | `queue.test.ts:164`; `succeed()` and `fail()` update by id alone, so a slow execution moves a job that has been dead-lettered meanwhile |
| `ReclaimSparesLiveLeases` | `MCJobQueueCrash` | one job, `Lease = 1`, `Faults = {"crash", "window"}` | of two overlapping reclaims the second takes back a job that has just been claimed |
| `PaidIsCredited` | `MCTopUpsSwallow` | `AutoReloads = {t1}`, `MaxFaults = 0` | the webhook of an auto-reload overtakes `begin()` storing the intent id (`topup.ts:106`); the payment is never credited |
| `DeletionSparesPayers` | `MCRetentionOwned` | `Copies = 2`, `Retries = 1` | a declined intent is `failed`, the customer pays it with another card, the claim sees nothing in flight |
| `LifecycleOwned` | `MCRetentionOwned` | none | `credit-state.ts:89` "Once irreversible cleanup has been claimed, only that workflow may move the lifecycle"; the refresh locks the organization and reads the lifecycle row without a lock, the claim locks the lifecycle row alone: a refresh that read before the claim writes `suspended` over `deleting` after it, the cleanup runs into a teardown that refuses, and a retry decides afresh instead of resuming (`OnlyStaleReadsRevive` is what holds) |
| `CleanupResumes` | `MCRetentionResume` | none | `nonpayment-retention.ts:76` "a retry must resume the same deletion claim"; an execution begun in one window may claim in the next one of the same generation, whose deadline lies ahead, because the claim does not compare it; if it dies, the retry returns at the deadline check (line 72) before it comes to the branch that resumes, and is done, and the scan looks for `suspended` only |
| `DeletionWaitsForDeadline` | `MCRetentionOwned` | `MaxSpend = 1` | a generation survives a reprieve while the balance is low; the claim does not compare `deleteAfter` |
| `PayersAreServed` | `MCRetentionResume` | `MaxFaults = 0`, `MaxSpend = 0` | `credit-state.ts:205` "A top-up must actively remove an earlier refusal"; the refresh clears the generation and enqueues the restore under the old one, and the job drops it |
| `DueWindowsGetJobs` | `MCRetentionResume` | `MaxFaults = 0` | the second window of a kept generation finds its idempotency key used |
| `DeclinedProceeds` | `MCRetentionResume` | `MaxFaults = 0`, `MaxSpend = 0`, `TopUps = {t1}`, `AutoReloads = {t1}`, `AutoReload = TRUE` | a declined off-session payment leaves its row `pending`, and the deletion defers to it for ever |
| `SettledIsBilled` | `MCUsageCharging` | `Grains = {1}`, `BatchSize = 1`, `Importers = {i1}`, `Chargers = {c1}`, `Corrections = {"removeByo"}`, `Late = FALSE`, `MaxEvents = 4`, `MaxFaults = 0`, no symmetry | `charge.ts:311` "Keyed on the rows and the quantity they will stand at"; a row returns to a quantity it was charged at, the key repeats, the usage is stamped as charged and free |
| `ImportsConverge` | `MCUsageChargingLive` | `Late = TRUE`; or `Importers = {i1, i2}` with `Grains = {1}`, `Org <- OneOrg`, `Corrections = {}`, `MaxEvents = 2` | a row stamped before the watermark becomes readable after the query; or a stale import overwrites a newer total and the cursor passes it |
| `ClosedStaysDown` (an invariant) | `MCTeardown` | `Setups <- MCClosed` | `github-events.ts:361` says `torn_down` stops a queued revision; `publishRelease` looks at the status before it waits for the lock, so a release that waits out the preview's teardown brings it back |
| `FailedMigrationIsMarked` (an invariant) | `MCTeardown` | `Setups <- MCTwin` | `publish.ts:682` "The deployment is marked failed"; a second execution of the job writes `deploying` and then stops at the failed migration, leaving it so |
| `RunningIsBootstrapped` (an invariant) | `MCSandbox` | `Slots = {j1}`, `Setups <- MCProblem` | `sandbox.ts:784,851`: a failed bootstrap leaves `failed` with the container's id, the reaper's stop makes it `stopped`, and the next request enqueues a start, which does not bootstrap |
| `NothingUnreferenced` (an invariant) | `MCSandboxUnreferenced` | none | `teardown.ts:419` "The reverse leaves a paid container nothing references"; without any fault, a provision that is slow to record a container another has discarded meanwhile overwrites the id a later one recorded, and the deletion destroys by the stale id |
| the same | `MCSandboxUnreferenced` | `Setups <- MCProject` | `teardown.ts:416`: a project's teardown destroys a sandbox without marking its row, so a provision that is creating meanwhile goes on to record a container of a removed row |
| `NodesRunOnce` (an invariant) | `MCWorkflow` | none | the answer of an Invoke is lost and the client sends the request again, so that one step runs its node twice (`OneAttemptInOrder` is what holds) |
| `RunEnds` | `MCWorkflow` | `Graphs <- MCRunnable`, `Troubles = {"throw", "early"}`, `MaxFaults = 1` | `workflow-run.ts:268` "Any throw ends the run, here, rather than leaving it `running`"; a statement between the claim and the try block, or `finishRun` itself, may throw, and no retry claims a running run |

## 4. Bounds

Every bound is a constant and a guard: `MaxFaults`, `MaxAge`, `Copies`, `Retries`, `MaxGen`,
`MaxSpend`, `MaxEvents`, `MaxIds`, `Tries`, `MaxAttempts`, `Sends` and, per situation, `budget` and `asks`. They
are chosen so that the cases the properties are about occur:

* two processes, connections, importers or chargers are the least that can race; what a third one
  could add is covered by the theorems, which bound none of them;
* two attempts and two faults let a job be lost, recovered and lost again, and be dead-lettered; a
  lease of 1 is enough for it to lapse under a live handler, 2 for a heartbeat to matter;
* two holds, a cost of 3 against an amount of 2 and a reserve of 1 reach capped settlements, an
  exhausted balance and a debit that must stop at the reserve;
* three events and two hours let an import be stale, a batch span rows and a row be charged twice;
* three deployments are one that is live and two that compete for its place; two operations and up
  to two disturbances reach every compensation and a second execution of one job. Which operations
  and disturbances meet is listed in `MCSetups`;
* two containers and three requests let a sandbox be lost and made anew while an older job still
  acts on it;
* all graphs of three nodes and the loop-free ones of four contain every kind of tie, cycle and
  unreachable part for the ordering; running a chain and a diamond has steps in sequence and in
  parallel branches.

## 5. Fairness

* `JobQueue`: live processes poll and reclaim, handlers end, the clock advances, `enqueue()`
  finishes. Nothing is assumed of faults, heartbeats or the sweep. The loop in `worker.ts` has no
  exit but shutdown, and a handler that never ends is outside what the queue promises.
* `CreditLedger`: weak fairness of a connection's next statement, strong fairness of getting the
  account lock (Postgres queues waiters), holds lapse and the recurring expiry runs.
* `TopUps`, `Retention`: `begin()` and handlers proceed, Stripe redelivers until it gets its 2xx
  (in `TopUps` only that some delivery or handler moves, which is enough); in `Retention` jobs,
  the refresh and the scan recur, time passes. Customers and cards owe nothing.
* `UsageCharging`: both jobs recur (every ten minutes in `handlers.ts`), an import waiting for
  locked rows gets them, ClickHouse shows what it has stamped. Usage and faults owe nothing.
* `Teardown` (and `Release`): weak fairness of each operation's next step, of the teardown job, of
  the refresher, of the router's backfill once it has read, and of the expiry of each key. An
  operation polls for the lock until it gets it; that it is free long enough is what
  `EveryoneFinishes` checks, since operations are finite in number. Disturbances owe nothing.
* `Sandbox`: weak fairness of every job's next step, strong fairness of the recurring reaper,
  repair and reconcile jobs: the scheduler enqueues them every minute, and in the model they
  compete for slots with other jobs. Users, the provider's timer and faults owe nothing.
* `Workflow`: weak fairness of the attempts' steps and claims. A request owes no enqueue.

## 6. Theorems

All proofs are in the `...Proofs` modules, from the constants' named assumptions
(`QueueAssumption`, `LedgerAssumption`, ...), and hold for any sets of jobs, workers, holds,
top-ups, hours and so on.

**JobQueueProofs.** `TypeCorrect`. `Fencing`: no two live executions of a job carry one attempt
number and none is ahead of its row, under every fault; inductive because `reclaimExpired` and
`fail()` never lower `attempt` and `claim()` raises it. `AtLeastOnce`: strengthened by "a slot
about to call `succeed()` has completed its job" (`LostInv`). `SingleProcessExclusion`: with one process no
job runs twice at once even when leases run out, because `work()` reclaims only when all its
slots are idle; the invariant (`SoloInv`) says that no slot is live while its process reclaims and
that no live job is back in the queue. `CrashSafety`, `CrashExclusion`, `CrashTerminal`: with any
number of processes when crashes are the only fault. The invariant (`LeaseInv`) is `Fencing`'s
with "a live execution's row is running, under its worker, at its attempt, with a lease"; two
executions of a job would then share the attempt number of its row, which fencing excludes.
`QueueImplementsLife`: under the same assumption every step of `JobQueue` is a step of `JobLife` or
leaves its state alone; the case of `reclaimExpired` is where `LeaseInv` is needed, a row whose
lease has lapsed having no live execution. `CrashCeiling`: `CeilingInv` adds that a row which is queued,
or running with no execution, is strictly below the ceiling: its next attempt is paid for by the
retry it has left or by the crash that lost its execution.
`Idempotent`: `KeyInv` says that a key has at most one row and that a call that has inserted or
found one names it; it needs that rows only disappear by the sweep (`RowsStay`). `ReclaimSafe`:
without the window between the halves of its statement `reclaimExpired` spares unexpired leases.

**CreditLedgerProofs.** `HardFloor` (nobody is overdrawn) rests on `Serial`: a connection past its
lock holds the account lock; what it read of the postings is at most what is posted, and what it
read of the holds at least what is held, because only the lock's holder debits or places a hold,
and the others can only raise the balance. The order of the two reads does not matter for that
reason. `ReserveSafe` follows from the same
invariant; `DoubleEntry` from the shape of each posting, capped settlements included; `ClosesOnce`
from the ownership of the hold's row lock (`Owned`). `HeldCountsActive`: the sum over the active
holds is written as the number of units they reserve (`Reserved`, pairs of a hold and a number up
to its amount), so that a hold that is placed or closed adds or removes as many as its amount
(`SumPlaced`, `SumClosed`); that a closing hold is still active comes from `Owned` again.
`LedgerImplementsAccount` is the refinement: what is free is posted minus held, a pot is the amount of an
active hold, and the commit of a transaction is the abstract step, everything before it a stutter. The
abstract steps look at the balance of the moment, the transactions at what they read some statements
before, so `Serial` is what makes a commit's debit one the abstract account allows (`ReadsAreSafe`).

**TopUpsProofs.** The invariant `TopUpInv` says which rows, intents and event handlers can occur
together: an event exists only for what happened to the intent, a handler past its lookup has a
linked row, a credit has its idempotency key (`Declines`, `Linking`, `Handling`, `Keyed`). From it
`CreditsAtMostOnce`, `SettledOnlyIfCredited` and `SettledForGood`.

**UsageChargingProofs.** `BillsAtMostOnce`: the invariant `ChargeInv` bounds what ClickHouse
reports, what every import has read however long ago, and what a row records as settled by the
peak of platform-funded usage, and says that billed and forgiven units never exceed a row's
settled platform part. It holds with overlapping and stale imports, late rows and all
corrections, where several of the liveness and completeness properties do not.
`SettlesOnlyBilled` assumes `Corrections = {}`; with corrections it is false (section 3). A key names
the rows of a batch and the quantities they stand at, so it must not come up again for other usage.
The invariant `BilledInv` says that the row and every reading not yet applied is what ClickHouse said
some time ago (`Past`); that any two of them are therefore comparable, whichever is applied first
(`Chain`); and that nothing at or below a quantity a posted key stands for has anything left to
charge (`Posted`). So a stale import that lowers a row does no harm to billing, if some to its total.

**RetentionProofs.** `Retention` extends `TopUps`, and its theorems start from `TopUpInv`: the deletion
job and the refresh only begin top-ups, cut a `begin()` short and spend (`TopUpsKept`), which also
gives `ReloadsCreditOnce`. `PayersAreSpared`, with no bound on executions, refreshes and overlaps: a
row that failed, or will fail once a `payment_failed` event is handled, is of an intent that was
declined (`Refusals`), so a paid intent that is not yet credited has a row the claim's check sees, and
what the check saw paid is in the ledger (`Checked`). It assumes `Retries = 0`; the instance in section 3
shows why. `ClaimIsExclusive`: the claim holds the lifecycle row's lock from its check to its commit,
and the generation stays the one of its payload. `ClaimsAreUndoneByStaleReads` is what is left of
`credit-state.ts:89` (`LifecycleOwned` is refuted, section 3), with no condition on how many executions and
refreshes overlap: an execution that has seen a claimed cleanup never again decides about it
(`Undecided`: it is at the teardown or past it, or has ended), so that the steps which can write
`suspended` or `active` belong to those that read before the claim (`WhoRevives`).

**TeardownProofs.** `MigratesAtMostOnce` and `SchemaComesFirst`, over `Release` and `Teardown`
together. The invariant `ProjectInv` says that whoever is past the acquisition holds the project's
lock (`Held`); that a deployment whose migrator was invoked is no longer `pending`, and that an
operation about to invoke it has written `running` and nobody has invoked it yet (`Migrating`); and
that whoever is about to move an alias or a static host, or to put it back, moves it to a
deployment whose schema is there (`Serving`). It needs no bound on faults, operations or situations.

`TrafficFollows` proves `TrafficFollowsPointer` for any number of deployments, jobs and requests, under
one condition on the situations, `Mendable` (in `Teardown`; `MCTeardown` assumes it, so TLC evaluates it
on the situations of the run). The property speaks of the end, and while an operation is under way, or
has been cut off, pointer, alias and queue target disagree in many ways. The invariant `FollowInv`
therefore says who will make them agree again (`Settled`): they agree already (`Clean`), or the holder
of the lock is at its writes (`Moving`), or a release of the live slot is owed (`Owed`), one that
was cut off and whose retry nothing can refuse any more. The rest of `FollowInv` makes each of these
come true: what a release or a rollback has not left to write it has written (`Progress`, `Rolling`),
in an order that marks the pointer after the alias and gives the serving mode back after traffic
(`Shaped`, `InOrder`); a serving mode that a first release has claimed is taken back only when
nothing is live (`Claims`); a compensation in progress is of a release that is owed, or has nothing to
put back (`Undone`); and no job runs out of attempts (`Budgeted`). Each condition of `Mendable` is there
because without it TLC finds the property violated in an instance of two operations:

* fewer disturbances than attempts: a release whose last attempt fails at a write and again at its
  compensation is dead, with the alias moved and the pointer not (this takes one disturbance more than
  there are attempts, so the condition asks for slightly more than is needed);
* no suspension after another fault: the retry of a release that crashed after it had moved
  the alias is refused while the project is suspended;
* one disturbance where writes may fail and there is a rollback: a request is not repeated, so a rollback whose compensation
  throws leaves the alias where it was (a rollback whose process dies is left out by `Ended`);
* no first preview of another mode than the first releases: it may claim the serving mode after a first
  release has crashed between its alias and its own claim, whose retry is then refused.

`PreviewsAgree` proves `OnePreview`, again for any number of deployments, jobs and requests, under `Mendable`
and one more condition, `Tidy` (in `Teardown`, and evaluated by TLC in `MCTeardown`). The property is
about the end of a protocol in which two previews are ready at once as a matter of course: a release
points the traffic at its preview, marks it ready, and only then retires the one before. `PreviewInv`,
beside `FollowInv`, says who clears that up. A ready preview nobody has a job for is of the project's
mode and is the one shown, or another release is replacing it or, cut off, is coming back to do so
(`Shown`); the only other ready preview a release meets under the lock is the one in its `prev`, which
it retires as its last write (`Replacing`); a compensation finds that one still ready (`PuttingBack`); a
teardown unpoints the traffic only when its own preview is the only ready one (`Closing`); the
serving mode is given back only while every ready preview has a job to come (`Unclaimed`). `Single` and
`Lasting` are what makes the second and the fourth true where no worker fails. With TLC the invariant
was first checked on instances of three and four jobs, mixes of releases and teardowns of
up to four deployments in both modes. `Tidy` allows any number of previews where no worker fails and two
where one does, and keeps the teardown of a preview apart from the others' releases where one fails or
the project is suspended. Without it TLC finds `OnePreview` violated:

* three previews and a crash between the write of `ready` and the retirement of the one before: the
  next preview retires only the newest that is ready, and the retry of the crashed one, torn down by
  then, does nothing; the oldest stays ready and is not shown;
* two previews, a crash after the second has moved the traffic, and its teardown before its retry: a
  deployment that never became ready has no hostname on its row, so the teardown leaves the traffic on it
  (`publish.ts`, `RetireWrites`), and the first stays ready and is not shown;
* two previews and a suspension: the second execution of the first one's release, refused after the
  second preview has replaced it, marks the torn-down row as failed, and its teardown then unpoints
  the traffic of the second.

The proof attempt of `TrafficFollows` also found two `CASE` expressions of the model (the writes of a compensation and of a
preview's teardown) with overlapping guards, of which TLC takes the first while TLA+ leaves the choice
open; they are now conditionals.

`ReturnsWhatItRented` and `FunctionStaysGone` prove two of the three parts of `DoneMeansGone`: when a
teardown reports success the services, their rows, the sandboxes and a deleted project's variables are
gone, for services of any kind and any number of failed attempts, and from then on so is the function.
The first needs no condition: `Returning` says what has been returned at each step of an attempt, which
an attempt that starts over finds again because a resource exists only while its row does. The second
assumes `LiveSlotTaken`. Its invariant `GoneInv` says that once the teardown has had the lock nobody
under the lock has traffic left to move (`Barred`), because the deletion or the suspension came first and
is looked at again under the lock, and that a deployment of the live slot is torn down by the teardown
alone, after the function is gone. `WorkInv` supplies, without the conditions of `FollowInv`, which
writes each operation can have left.

**SandboxProofs.** `DeletionStands` from the conditional update alone. `LeavesNoOrphan` from
`SandboxInv`: a container that exists is named by the row, or by an attempt that has created it and
is about to record it or to discard it (`Named`); cleanups concern containers that are already
missing, and a number is never reused (`JobOK`), so that clearing an id loses nothing. The proof
found the overwritten id that `cut` now covers: the run's requests are too few for it.

**WorkflowProofs.** `BillsExactlyOnce` needs only the transaction in which `finishRun()` leaves `running` and bills.
`OneAttemptExecutes` and `HonestStatus` rest on `RunInv`: one attempt at most is past the claim
(`Alone`), it walks the order by its position (`Ordered`, `Progress`), and nothing has been executed
before the claim (`Fresh`). That `topologicalOrder` returns a topological order of every validated
graph is the lemma `Sorts`, proved from the code's loop. The library's induction theorems being out
of reach, induction is by the least counterexample (`LeastNat`, from the well-foundedness of finite
sets), which also unfolds a loop into the sequence of its states (`Repeats`). Kahn's loop keeps
`KahnInv`: `inDegree` counts the predecessors not yet placed, `ready` is the set of open nodes, and
each node of the order was the least open one when it was placed (`Greedy`). If the loop stops early,
every node left has a predecessor left; of those nodes the one that reaches most is reached from
itself, since its predecessor reaches no more than it does, and `assertAcyclic` refuses the graph
(`AcyclicFills`; reachability is the least set closed under `adjacency`, `ReachFacts`). A greedy order
is topological and precedes every other topological order at the first place they differ
(`GreedyIsTopological`, `GreedyIsFirst`): `CanonicalOrder`, for every graph.

## 7. What is only model-checked

Liveness (`EveryJobSettles`, `HoldsEnd`, `TransactionsEnd`, `CustomersAreCredited`,
`ImportsConverge`, `UsageIsCharged`, `EveryoneFinishes`, `RoutesConverge`, `DeletedGoesDark`,
`DestroyCompletes`, `RunningIsCorrected`,
`StaleJoinIsCleared`, `StartingEnds`, `QueuedIsTaken`) is out of the prover's reach. Every other
property of a passing run is stated by a theorem of section 6, except that the static hosts of
`DoneMeansGone` are only model-checked; `TrafficFollows`, `PreviewsAgree` and `FunctionStaysGone` hold under
the conditions named there, outside of which the properties fail.

## 8. Plan

In this order, the most consequential first:

1. *Done:* the queue and the abstract job it implements, the ledger with holds and the abstract account it
   implements, top-ups with the webhook, retention composed with top-ups, usage import and charging,
   the operations on a project composed with its deletion, sandboxes, workflow runs.
2. *Done:* the proofs of the safety properties the passing runs check, but for the static hosts of
   `DoneMeansGone`.
3. The metering of sandboxes (the last interval before a stop) and the metering outbox in front of
   `UsageCharging`.
4. `Money`: proportional allocation and rounding of `billing/src/money.ts` as operators checked
   against a reference over bounded inputs; statements and seats on top of the ledger.
5. Custom domains and their certificates: reconciliation leases and ACME orders.
