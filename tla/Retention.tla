------------------------------ MODULE Retention ------------------------------
(***************************************************************************)
(* What happens to an organization that runs out of credit: the five-      *)
(* minute refresh of lib/typescript/jobs/src/credit-state.ts suspends it   *)
(* and starts a 48-hour window, nonpayment-retention.ts deletes its data   *)
(* when the window ends, after one last look at the balance (decideReprieve*)
(* of billing/src/reprieve.ts) and one last auto-reload, and static-       *)
(* suspension.ts withdraws and restores its static sites.                  *)
(*                                                                         *)
(* Composed with TopUps: the balance is the one top-ups raise, the auto-   *)
(* reload is a begin() of the deletion job, and a payment in flight is what*)
(* deletion must not race.  Usage lowers the balance (Spend).              *)
(***************************************************************************)
EXTENDS TopUps

CONSTANTS
  Workers,     \* executions of the deletion job in flight
  AutoReload,  \* the customer enabled it and has a payment method
  Reserve,     \* protectedRetentionReserve()
  MaxGen,      \* bound: generations minted
  MaxSpend,    \* bound: usage charged
  NULL

ASSUME RetentionAssumption ==
  /\ AutoReload \in BOOLEAN
  /\ Reserve \in Nat /\ MaxGen \in Nat /\ MaxSpend \in Nat
  /\ NULL \notin Workers \cup {"sweep"} /\ NULL \notin TopUps /\ "sweep" \notin Workers

VARIABLES
  status,      \* credit_retention_state.status
  gen,         \* its generation, 0 for null
  minted,      \* generations minted so far
  deadline,    \* deleteAfter: "none", in the "future" or in the "past"
  attempt,     \* the latest auto-reload, and the latest one before exhaustedAt
  before,
  refresher,   \* who runs refreshOrganizationCreditState(), which locks the organization row
  seen,        \* what that transaction read: <<exhausted, status, generation>>
  jobs,        \* [1..MaxGen -> the deletion job of a generation]
  pc,          \* [Workers -> where deleteNonpaymentData() is]
  mine,        \* [Workers -> the generation in its payload]
  saw,         \* [Workers -> the status in the state the execution read]
  since,       \* [Workers -> before, as it was then]
  charge,      \* [Workers -> the top-up its begin() is about]
  stateLock,   \* worker with FOR UPDATE on the credit_retention_state row
  paidAtCheck, \* payments Stripe had made when the claim looked for pending top-ups
  access,      \* static reconciliation jobs ever enqueued: <<generation, suspended>>
  reconciled,  \* those that have run
  served,      \* the static sites are up
  spent        \* usage charged so far

stateVars   == <<status, gen, minted, deadline, attempt, before>>
refreshVars == <<refresher, seen>>
jobVars     == <<jobs, pc, mine, saw, since, charge, stateLock, paidAtCheck>>
accessVars  == <<access, reconciled, served>>
retVars     == <<stateVars, refreshVars, jobVars, accessVars, spent>>
vars        == <<topupVars, retVars>>

Exhausted == balance <= Reserve

-----------------------------------------------------------------------------
(* refreshOrganizationCreditState(): one transaction, which reads and then writes. *)

\* Who may start one: the five-minute sweep or a webhook at any time, a worker after a reprieve.  It
\* locks the organization, and reads the retention row without a lock: a claim may be under way.
RefreshRead(r) ==
  /\ refresher = NULL
  /\ r \in Workers => pc[r] = "refresh"
  /\ refresher' = r
  /\ seen' = <<Exhausted, status, gen>>
  /\ UNCHANGED <<topupVars, stateVars, jobVars, accessVars, spent>>

\* A worker's deletion job is over once its refresh is.
RefreshDone(r) ==
  /\ refresher' = NULL
  /\ IF r \in Workers
     THEN pc' = [pc EXCEPT ![r] = "idle"] /\ jobs' = [jobs EXCEPT ![mine[r]] = "done"]
     ELSE UNCHANGED <<pc, jobs>>
  /\ UNCHANGED <<topupVars, seen, mine, saw, since, charge, stateLock, paidAtCheck, reconciled, served, spent>>

\* Irreversible cleanup has been claimed.
Claimed(s) == s \in {"deleting", "data_deleted"}

RefreshSkip(r) ==
  /\ refresher = r
  /\ Claimed(seen[2])
  /\ RefreshDone(r)
  /\ UNCHANGED <<stateVars, access>>

\* The generation a refresh writes: the one it read, or a new one.
KeepOrMint(g) ==
  IF seen[3] # 0 THEN g = seen[3] /\ UNCHANGED minted
  ELSE minted < MaxGen /\ g = minted + 1 /\ minted' = g

RefreshSuspends(r) ==
  /\ refresher = r /\ stateLock = NULL
  /\ ~Claimed(seen[2]) /\ seen[1]
  /\ \E g \in 1..MaxGen :
       /\ KeepOrMint(g)
       /\ gen' = g
       /\ access' = IF seen[2] = "suspended" THEN access ELSE access \cup {<<g, TRUE>>}
  /\ status' = "suspended"
  /\ deadline' = IF deadline = "none" THEN "future" ELSE deadline
  /\ before' = IF deadline = "none" THEN attempt ELSE before
  /\ UNCHANGED attempt
  /\ RefreshDone(r)

\* Funded: the generation is dropped when the balance is safe and kept while it is low.
RefreshActivates(r) ==
  /\ refresher = r /\ stateLock = NULL
  /\ ~Claimed(seen[2]) /\ ~seen[1]
  /\ \/ gen' = 0 /\ UNCHANGED minted
     \/ \E g \in 1..MaxGen : KeepOrMint(g) /\ gen' = g
  /\ access' = IF seen[2] = "suspended" /\ seen[3] # 0 THEN access \cup {<<seen[3], FALSE>>} ELSE access
  /\ status' = "active"
  /\ deadline' = "none"
  /\ UNCHANGED <<attempt, before>>
  /\ RefreshDone(r)

RefreshRest(r) == RefreshSkip(r) \/ RefreshSuspends(r) \/ RefreshActivates(r)

-----------------------------------------------------------------------------
(* The deletion job. *)

Tick ==
  /\ deadline = "future"
  /\ deadline' = "past"
  /\ UNCHANGED <<topupVars, status, gen, minted, attempt, before, refreshVars, jobVars, accessVars, spent>>

\* scanNonpaymentRetention(): enqueue() does nothing when the key has been used.
Scan ==
  /\ status = "suspended" /\ deadline = "past" /\ gen # 0
  /\ jobs[gen] = "none"
  /\ jobs' = [jobs EXCEPT ![gen] = "queued"]
  /\ UNCHANGED <<topupVars, stateVars, refreshVars, pc, mine, saw, since, charge, stateLock, paidAtCheck,
                 accessVars, spent>>

Goto(w, p) == pc' = [pc EXCEPT ![w] = p] /\ UNCHANGED <<jobs, mine, saw, since>>

\* The handler returns, or throws and is retried.
Leave(w, j) ==
  /\ pc' = [pc EXCEPT ![w] = "idle"]
  /\ jobs' = [jobs EXCEPT ![mine[w]] = j]
  /\ UNCHANGED <<mine, saw, since>>
Return(w) == Leave(w, "done")
Throw(w)  == Leave(w, "queued")

\* Mutant of Begins: a claim that was interrupted is decided again.
BeginsAfresh(g) ==
  IF gen # g \/ status \in {"active", "data_deleted"} \/ deadline # "past" THEN "done" ELSE "decide"

\* Where an execution for generation g starts, from one read of the state.
Begins(g) ==
  CASE gen # g \/ status \in {"active", "data_deleted"} \/ deadline # "past" -> "done"
    [] OTHER -> IF status = "deleting" THEN "teardown" ELSE "decide"

StartDelete(w, g) ==
  /\ pc[w] = "idle" /\ jobs[g] = "queued"
  /\ mine' = [mine EXCEPT ![w] = g]
  /\ saw' = [saw EXCEPT ![w] = status]
  /\ since' = [since EXCEPT ![w] = before]
  /\ IF Begins(g) = "done"
     THEN jobs' = [jobs EXCEPT ![g] = "done"] /\ UNCHANGED pc
     ELSE jobs' = [jobs EXCEPT ![g] = "running"] /\ pc' = [pc EXCEPT ![w] = Begins(g)]
  /\ UNCHANGED <<topupVars, stateVars, refreshVars, charge, stateLock, paidAtCheck, accessVars, spent>>

\* decideReprieve(): the balance, then whether to charge.
Decide(w) ==
  /\ pc[w] = "decide"
  /\ Goto(w, CASE ~Exhausted -> "reprieve" [] Exhausted /\ AutoReload -> "attempt" [] OTHER -> "claim")
  /\ UNCHANGED <<topupVars, stateVars, refreshVars, charge, stateLock, paidAtCheck, accessVars, spent>>

\* autoCharge(): a top-up in flight counts as charged, a settled one as not enough.
AttemptKnown(w) ==
  /\ pc[w] = "attempt" /\ attempt # since[w]
  /\ row[attempt] # "failed"
  /\ Goto(w, IF row[attempt] = "succeeded" THEN "claim" ELSE "reread")
  /\ UNCHANGED <<topupVars, stateVars, refreshVars, charge, stateLock, paidAtCheck, accessVars, spent>>

AttemptBegin(w, t) ==
  /\ pc[w] = "attempt" /\ t \in AutoReloads
  /\ attempt # since[w] => row[attempt] = "failed"
  /\ BeginInsert(t)
  /\ attempt' = t
  /\ charge' = [charge EXCEPT ![w] = t]
  /\ Goto(w, "begin")
  /\ UNCHANGED <<status, gen, minted, deadline, before, refreshVars, stateLock, paidAtCheck, accessVars, spent>>

\* begin() returned, or threw and was caught.
AttemptEnds(w) ==
  /\ pc[w] = "begin"
  /\ step[charge[w]] \in {"returned", "threw"}
  /\ Goto(w, IF step[charge[w]] = "returned" THEN "reread" ELSE "claim")
  /\ charge' = [charge EXCEPT ![w] = NULL]
  /\ UNCHANGED <<topupVars, stateVars, refreshVars, stateLock, paidAtCheck, accessVars, spent>>

\* The balance again; the credit of a payment in flight is awaited by throwing.
Reread(w) ==
  /\ pc[w] = "reread"
  /\ IF Exhausted THEN Throw(w) ELSE Goto(w, "reprieve")
  /\ UNCHANGED <<topupVars, stateVars, refreshVars, charge, stateLock, paidAtCheck, accessVars, spent>>

\* An update by organization id alone.
Reprieve(w) ==
  /\ pc[w] = "reprieve" /\ stateLock = NULL
  /\ status' = "active" /\ deadline' = "none"
  /\ Goto(w, "announce")
  /\ UNCHANGED <<topupVars, gen, minted, attempt, before, refreshVars, charge, stateLock, paidAtCheck,
                 accessVars, spent>>

Announce(w) ==
  /\ pc[w] = "announce"
  /\ access' = access \cup {<<mine[w], FALSE>>}
  /\ Goto(w, "refresh")
  /\ UNCHANGED <<topupVars, stateVars, refreshVars, charge, stateLock, paidAtCheck, reconciled,
                 served, spent>>

\* Mutant of InFlight: only top-ups Stripe knows of.
InFlightLinked == {t \in TopUps : row[t] = "processing"}

InFlight == {t \in TopUps : row[t] \in {"pending", "processing"}}

\* The claim transaction: the row lock, the generation and the top-ups in flight.
CheckPending(w) ==
  /\ pc[w] = "claim" /\ stateLock = NULL
  /\ IF gen # mine[w] \/ status = "active" THEN Return(w) /\ UNCHANGED <<stateLock, paidAtCheck>>
     ELSE IF InFlight # {} THEN Throw(w) /\ UNCHANGED <<stateLock, paidAtCheck>>
     ELSE /\ Goto(w, "final")
          /\ stateLock' = w
          /\ paidAtCheck' = {t \in TopUps : intent[t] = "paid"}
  /\ UNCHANGED <<topupVars, stateVars, refreshVars, charge, accessVars, spent>>

\* Its second half: the account lock, the balance for the last time, and the commit.
Final(w) ==
  /\ pc[w] = "final"
  /\ stateLock' = NULL
  /\ IF Exhausted THEN status' = "deleting" /\ UNCHANGED deadline /\ Goto(w, "teardown")
                  ELSE status' = "active" /\ deadline' = "none" /\ Goto(w, "announce")
  /\ UNCHANGED <<topupVars, gen, minted, attempt, before, refreshVars, charge, paidAtCheck, accessVars, spent>>

\* tearDownProject() refuses an organization that is not deleting.
Teardown(w) ==
  /\ pc[w] = "teardown"
  /\ IF status = "deleting" THEN Goto(w, "finish") ELSE Throw(w)
  /\ UNCHANGED <<topupVars, stateVars, refreshVars, charge, stateLock, paidAtCheck, accessVars, spent>>

FinishDelete(w) ==
  /\ pc[w] = "finish" /\ stateLock = NULL
  /\ status' = "data_deleted"
  /\ Return(w)
  /\ UNCHANGED <<topupVars, gen, minted, deadline, attempt, before, refreshVars, charge, stateLock, paidAtCheck,
                 accessVars, spent>>

\* The process dies, a provider call fails or the inventory is stale: the job is retried, its
\* transaction is rolled back and a begin() it was in goes no further.
WorkerDies(w) ==
  /\ pc[w] # "idle" /\ refresher # w
  /\ Fault
  /\ Throw(w)
  /\ charge' = [charge EXCEPT ![w] = NULL]
  /\ step' = [t \in TopUps |->
       IF charge[w] = t /\ step[t] \in {"inserted", "created"} THEN "threw" ELSE step[t]]
  /\ stateLock' = IF stateLock = w THEN NULL ELSE stateLock
  /\ UNCHANGED <<row, linked, stripeVars, sent, webhookVars, creditVars, stateVars, refreshVars,
                 paidAtCheck, accessVars, spent>>

-----------------------------------------------------------------------------
(* Static sites, usage and top-ups. *)

\* reconcileStaticAccess(): a job whose generation or state is no longer current does nothing.
Reconcile(a) ==
  /\ a \in access \ reconciled
  /\ reconciled' = reconciled \cup {a}
  /\ served' = IF gen = a[1] /\ (status # "active") = a[2] THEN ~a[2] ELSE served
  /\ UNCHANGED <<topupVars, stateVars, refreshVars, jobVars, access, spent>>

\* chargeUsage() and storage retention take what is left of the balance.
Spend ==
  /\ balance > 0 /\ spent < MaxSpend
  /\ balance' = balance - 1
  /\ spent' = spent + 1
  /\ UNCHANGED <<rowVars, stripeVars, sent, webhookVars, keys, credits, faults, stateVars, refreshVars,
                 jobVars, accessVars>>

TopUpStep ==
  /\ \/ \E t \in TopUps : BeginRest(t) \/ BeginDies(t) \/ CustomerPays(t) \/ CardDeclined(t)
     \/ \E t \in TopUps \ AutoReloads : BeginInsert(t)
     \/ \E e \in Events : Deliver(e) \/ Handle(e) \/ HandlerFails(e)
  /\ UNCHANGED retVars

-----------------------------------------------------------------------------
Init ==
  /\ TopUpInit
  /\ status = "active" /\ gen = 0 /\ minted = 0 /\ deadline = "none" /\ attempt = NULL /\ before = NULL
  /\ refresher = NULL /\ seen = <<FALSE, "active", 0>>
  /\ jobs = [g \in 1..MaxGen |-> "none"]
  /\ pc = [w \in Workers |-> "idle"]
  /\ mine = [w \in Workers |-> 0] /\ saw = [w \in Workers |-> "active"]
  /\ since = [w \in Workers |-> NULL] /\ charge = [w \in Workers |-> NULL]
  /\ stateLock = NULL /\ paidAtCheck = {}
  /\ access = {} /\ reconciled = {} /\ served = TRUE
  /\ spent = 0

Delete(w) ==
  \/ Decide(w) \/ AttemptKnown(w) \/ (\E t \in TopUps : AttemptBegin(w, t)) \/ AttemptEnds(w)
  \/ Reread(w) \/ Reprieve(w) \/ Announce(w) \/ CheckPending(w) \/ Final(w) \/ Teardown(w) \/ FinishDelete(w)

Next ==
  \/ TopUpStep
  \/ \E r \in Workers \cup {"sweep"} : RefreshRead(r) \/ RefreshRest(r)
  \/ Tick \/ Scan \/ Spend
  \/ \E w \in Workers : (\E g \in 1..MaxGen : StartDelete(w, g)) \/ Delete(w) \/ WorkerDies(w)
  \/ \E a \in (1..MaxGen) \X BOOLEAN : Reconcile(a)

Spec == Init /\ [][Next]_vars

\* Jobs are executed and retried, the refresh and the scan recur, time passes, begin() and the
\* webhook's handlers run and Stripe redelivers.  Customers, cards and usage owe nothing.
Fairness ==
  /\ WF_vars(RefreshRead("sweep")) /\ WF_vars(Tick) /\ WF_vars(Scan)
  /\ \A r \in Workers \cup {"sweep"} : WF_vars(RefreshRest(r))
  /\ \A w \in Workers :
       /\ \A g \in 1..MaxGen : WF_vars(StartDelete(w, g))
       /\ WF_vars(Delete(w)) /\ SF_vars(RefreshRead(w)) /\ SF_vars(CheckPending(w))
  /\ \A a \in (1..MaxGen) \X BOOLEAN : WF_vars(Reconcile(a))
  /\ \A t \in TopUps : WF_vars(BeginRest(t) /\ UNCHANGED retVars)
  /\ \A e \in Events : WF_vars((Deliver(e) \/ Handle(e)) /\ UNCHANGED retVars)

FairSpec == Spec /\ Fairness

-----------------------------------------------------------------------------
(* Properties *)

\* Type invariant.
TypeOK ==
  /\ TopUpTypeOK
  /\ status \in {"active", "suspended", "deleting", "data_deleted"}
  /\ gen \in 0..minted /\ minted \in 0..MaxGen
  /\ deadline \in {"none", "future", "past"}
  /\ {attempt, before} \subseteq AutoReloads \cup {NULL}
  /\ refresher \in Workers \cup {"sweep", NULL}
  /\ jobs \in [1..MaxGen -> {"none", "queued", "running", "done"}]
  /\ pc \in [Workers -> {"idle", "decide", "attempt", "begin", "reread", "reprieve", "announce",
                         "refresh", "claim", "final", "teardown", "finish"}]
  /\ mine \in [Workers -> 0..MaxGen]
  /\ saw \in [Workers -> {"active", "suspended", "deleting", "data_deleted"}]
  /\ charge \in [Workers -> AutoReloads \cup {NULL}] /\ since \in [Workers -> AutoReloads \cup {NULL}]
  /\ stateLock \in Workers \cup {NULL}
  /\ reconciled \subseteq access /\ access \subseteq (1..MaxGen) \X BOOLEAN
  /\ served \in BOOLEAN

\* Nobody who has paid loses data: when a deletion is claimed the balance is at or below the
\* reserve, and every payment Stripe had made when the claim began is in that balance already.
DeletionSparesPayers ==
  [][status # "deleting" /\ status' = "deleting" =>
       /\ balance <= Reserve
       /\ \A t \in paidAtCheck : credits[t] = 1]_vars

\* Whoever takes an organization back from its claimed cleanup had read it before the claim: a refresh
\* that was under way, or an execution that had not come to its own claim.  No retry of the claimed
\* cleanup, and no refresh begun after the claim, reprieves it.
OnlyStaleReadsRevive ==
  [][Claimed(status) /\ ~Claimed(status') =>
       \/ refresher # NULL /\ refresher' = NULL /\ ~Claimed(seen[2])
       \/ \E w \in Workers : pc[w] # pc'[w] /\ ~Claimed(saw[w])]_vars

-----------------------------------------------------------------------------
(* What comments and tests of the code say and the model refutes: the README gives the instances. *)

\* A cleanup that was claimed and cut short is taken up again by a retry, and not left for ever.
CleanupResumes == status = "deleting" ~> status # "deleting"

\* Once cleanup has been claimed, only the cleanup moves the lifecycle.
LifecycleOwned == [][Claimed(status) => Claimed(status')]_vars

\* A suspension window is its own deletion claim: data is deleted only when the deadline of the
\* current window has passed.
DeletionWaitsForDeadline ==
  [][status = "suspended" /\ status' = "deleting" => deadline = "past"]_vars

\* ... and every window that ends unpaid gets a deletion job of its own.
DueWindowsGetJobs ==
  status = "suspended" /\ deadline = "past" ~>
    status # "suspended" \/ deadline # "past" \/ jobs[gen] \in {"queued", "running"}

\* When the last auto-reload is declined the deletion proceeds.
DeclinedProceeds ==
  \A t \in AutoReloads : step[t] = "threw" /\ intent[t] = "declined" ~> status # "suspended"

\* A customer who has paid gets the static sites back.
PayersAreServed == status = "active" ~> served \/ status # "active"
=============================================================================
