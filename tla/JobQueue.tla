------------------------------ MODULE JobQueue ------------------------------
(***************************************************************************)
(* The background job queue: the table background_job, the operations of   *)
(* lib/typescript/jobs/src/queue.ts on it, and the worker processes of     *)
(* worker.ts that poll it.                                                 *)
(*                                                                         *)
(* A job id stands for one call of enqueue(): the call mints the id (v7)   *)
(* and carries the idempotency key, the priority, the first run_at and     *)
(* max_attempts as constants of that call.  A worker process runs a fixed  *)
(* set of slots, the `concurrency` calls of runOne that work() awaits      *)
(* together; the slots of one process share its workerId.                  *)
(*                                                                         *)
(* Times are relative to the database clock, the only clock the queue      *)
(* compares with: runIn is run_at - now(), leaseIn is lease_expires_at -   *)
(* now(), and Tick moves both towards the past.                            *)
(***************************************************************************)
EXTENDS Integers, FiniteSets

CONSTANTS
  Jobs,          \* the calls of enqueue(), each naming the row it would insert
  Workers,       \* worker processes, by workerId
  Slots,         \* the concurrent runOne calls of all the processes
  Owner,         \* [Slots -> Workers]: the process a slot belongs to
  Handles,       \* [Workers -> SUBSET Jobs]: jobs of a kind the process handles
  Key,           \* [Jobs -> keys]: the idempotency key given to enqueue()
  NoKey,         \* the key of a call that gives none (SQL null)
  Priority,      \* [Jobs -> Int]
  Delay,         \* [Jobs -> Nat]: run_at - now() when the row is inserted
  MaxAttempts,   \* [Jobs -> Nat \ {0}]
  Lease,         \* leaseSeconds, in ticks
  BackoffBase,   \* the 15 of the backoff, in ticks
  BackoffCap,    \* the 3600 of the backoff, in ticks
  ReclaimLimit,  \* the limit of reclaimExpired
  MaxAge,        \* bound: how far in the past a run_at is still told apart
  Faults,        \* the faults the environment may inject, see FaultKinds
  MaxFaults,     \* bound: how many of them
  NULL

\* "crash"   a worker process dies at any point and is started again;
\* "overrun" a handler outlives its lease without renewing it;
\* "lostAck" the UPDATE of succeed() commits and its answer is lost;
\* "window"  rows change between the sub-select and the update of
\*           reclaimExpired, which READ COMMITTED does not re-evaluate.
FaultKinds == {"crash", "overrun", "lostAck", "window"}

ASSUME QueueAssumption ==
  /\ Owner \in [Slots -> Workers]
  /\ Handles \in [Workers -> SUBSET Jobs]
  /\ Key \in [Jobs -> {Key[j] : j \in Jobs}]
  /\ Priority \in [Jobs -> Int]
  /\ Delay \in [Jobs -> Nat]
  /\ MaxAttempts \in [Jobs -> Nat \ {0}]
  /\ Lease \in Nat \ {0}
  /\ BackoffBase \in Nat
  /\ BackoffCap \in Nat
  /\ ReclaimLimit \in Nat \ {0}
  /\ MaxAge \in Nat
  /\ MaxFaults \in Nat
  /\ Faults \subseteq FaultKinds
  /\ NULL \notin Workers
  /\ NULL \notin Jobs

VARIABLES
  state,      \* background_job, one function per column:
  lockedBy,   \*   the workerId that holds the row, or NULL
  leaseIn,    \*   lease_expires_at - now(), Lapsed once past, NoLease when null
  runIn,      \*   run_at - now()
  attempt,
  call,       \* how far enqueue() call j is
  got,        \* the job id call j returned
  pc,         \* what each slot is doing
  job,        \* the job it claimed
  token,      \* the attempt number the claim returned, which fail() decides by
  loop,       \* where the while loop of work() is, per process
  stale,      \* the ids the sub-select of reclaimExpired returned, per process
  completed,  \* history: jobs whose handler has returned at least once
  faults      \* how many faults have happened

rowVars  == <<state, lockedBy, leaseIn, runIn, attempt>>
callVars == <<call, got>>
slotVars == <<pc, job, token>>
loopVars == <<loop, stale>>
vars     == <<rowVars, callVars, slotVars, loopVars, completed, faults>>

NoLease == -2    \* lease_expires_at is null
Lapsed  == -1    \* lease_expires_at < now()

RowStates == {"absent", "queued", "running", "succeeded", "dead_lettered", "swept"}
Present   == {"queued", "running", "succeeded", "dead_lettered"}
Terminal  == {"succeeded", "dead_lettered", "swept"}

\* The slots that hold a claimed job, and the slots of one process.
Live == {s \in Slots : pc[s] \in {"run", "succeed", "fail"}}
SlotsOf(w) == {s \in Slots : Owner[s] = w}

\* The execution in slot s is the one the row's lease was given to.
Holds(s) == state[job[s]] = "running" /\ attempt[job[s]] = token[s]

Fault(kind) ==
  /\ kind \in Faults
  /\ faults < MaxFaults
  /\ faults' = faults + 1

\* The row of job j leaves its holder for state st: locked_by and the lease become null.
Release(j, st) ==
  /\ state' = [state EXCEPT ![j] = st]
  /\ lockedBy' = [lockedBy EXCEPT ![j] = NULL]
  /\ leaseIn' = [leaseIn EXCEPT ![j] = NoLease]

-----------------------------------------------------------------------------
(* enqueue(): two statements. *)

\* Mutant of SameKey: a unique index over active rows only.
SameKeyActive(j) ==
  {k \in Jobs : Key[j] # NoKey /\ Key[k] = Key[j] /\ state[k] \in {"queued", "running"}}

\* Rows that carry the key of call j: the unique constraint ignores null keys.
SameKey(j) ==
  {k \in Jobs : Key[j] # NoKey /\ Key[k] = Key[j] /\ state[k] \in Present}

\* insert ... on conflict (idempotency_key) do nothing returning id
EnqueueInsert(j) ==
  /\ call[j] = "new"
  /\ IF SameKey(j) = {}
       THEN /\ state' = [state EXCEPT ![j] = "queued"]
            /\ runIn' = [runIn EXCEPT ![j] = Delay[j]]
            /\ call' = [call EXCEPT ![j] = "returned"]
            /\ got' = [got EXCEPT ![j] = j]
       ELSE /\ call' = [call EXCEPT ![j] = "lookup"]
            /\ UNCHANGED <<state, runIn, got>>
  /\ UNCHANGED <<lockedBy, leaseIn, attempt, slotVars, loopVars, completed, faults>>

\* The row the insert lost against is read back, or executeTakeFirstOrThrow throws.
EnqueueSelect(j) ==
  /\ call[j] = "lookup"
  /\ \/ \E k \in SameKey(j) :
          /\ call' = [call EXCEPT ![j] = "returned"]
          /\ got' = [got EXCEPT ![j] = k]
     \/ /\ SameKey(j) = {}
        /\ call' = [call EXCEPT ![j] = "threw"]
        /\ UNCHANGED got
  /\ UNCHANGED <<rowVars, slotVars, loopVars, completed, faults>>

-----------------------------------------------------------------------------
(* work(): reclaimExpired, then one runOne per slot, and again once every  *)
(* slot has come back.                                                     *)

\* Mutant of Expired: lease_expires_at <= now().
ExpiredEarly(j) == state[j] = "running" /\ leaseIn[j] \in {Lapsed, 0}

Expired(j) == state[j] = "running" /\ leaseIn[j] = Lapsed

\* The sub-select of reclaimExpired, at most ReclaimLimit rows.
ReclaimScan(w) ==
  /\ loop[w] = "top"
  /\ \A s \in SlotsOf(w) : pc[s] = "idle"
  /\ \E ids \in SUBSET {j \in Jobs : Expired(j)} :
       /\ \/ ids = {j \in Jobs : Expired(j)}
          \/ Cardinality(ids) = ReclaimLimit
       /\ Cardinality(ids) <= ReclaimLimit
       /\ stale' = [stale EXCEPT ![w] = ids]
  /\ loop' = [loop EXCEPT ![w] = "reclaiming"]
  /\ UNCHANGED <<rowVars, callVars, slotVars, completed, faults>>

\* The rows its update writes: the scanned ids that are still in the table.  Only
\* with the "window" fault may such a row have stopped being expired.
Reclaimed(w) ==
  {j \in stale[w] : state[j] \in Present /\ ("window" \in Faults \/ Expired(j))}

\* The update of reclaimExpired, which leaves run_at alone; Promise.all starts the slots.
Requeue(w) ==
  /\ loop[w] = "reclaiming"
  /\ state' = [j \in Jobs |-> IF j \in Reclaimed(w) THEN "queued" ELSE state[j]]
  /\ lockedBy' = [j \in Jobs |-> IF j \in Reclaimed(w) THEN NULL ELSE lockedBy[j]]
  /\ leaseIn' = [j \in Jobs |-> IF j \in Reclaimed(w) THEN NoLease ELSE leaseIn[j]]
  /\ stale' = [stale EXCEPT ![w] = {}]
  /\ loop' = [loop EXCEPT ![w] = "top"]
  /\ pc' = [s \in Slots |-> IF s \in SlotsOf(w) /\ pc[s] = "idle" THEN "poll" ELSE pc[s]]
  /\ UNCHANGED <<runIn, callVars, job, token, completed, faults>>

\* Mutant of ReclaimWrite: the attempt count is reset as well.
ReclaimWriteResets(w) ==
  /\ Requeue(w)
  /\ attempt' = [j \in Jobs |-> IF j \in Reclaimed(w) THEN 0 ELSE attempt[j]]

\* Attempts are not reset.
ReclaimWrite(w) == Requeue(w) /\ UNCHANGED attempt

-----------------------------------------------------------------------------
(* runOne(): claim, handler, then succeed or fail. *)

Claimable(w) == {j \in Handles[w] : state[j] = "queued" /\ runIn[j] <= 0}

\* order by priority desc, run_at asc
Before(j, k) ==
  \/ Priority[j] > Priority[k]
  \/ Priority[j] = Priority[k] /\ runIn[j] <= runIn[k]

Claim(s) ==
  /\ pc[s] = "poll"
  /\ \E j \in Claimable(Owner[s]) :
       /\ \A k \in Claimable(Owner[s]) : Before(j, k)
       /\ state' = [state EXCEPT ![j] = "running"]
       /\ lockedBy' = [lockedBy EXCEPT ![j] = Owner[s]]
       /\ leaseIn' = [leaseIn EXCEPT ![j] = Lease]
       /\ attempt' = [attempt EXCEPT ![j] = @ + 1]
       /\ job' = [job EXCEPT ![s] = j]
       /\ token' = [token EXCEPT ![s] = attempt[j] + 1]
  /\ pc' = [pc EXCEPT ![s] = "run"]
  /\ UNCHANGED <<runIn, callVars, loopVars, completed, faults>>

\* claim returned nothing: this runOne is "idle".
FindNothing(s) ==
  /\ pc[s] = "poll"
  /\ Claimable(Owner[s]) = {}
  /\ pc' = [pc EXCEPT ![s] = "idle"]
  /\ UNCHANGED <<rowVars, callVars, job, token, loopVars, completed, faults>>

\* keepAlive() from inside the handler.  The update is scoped to the worker and to a
\* running row, not to the attempt; when it matches nothing the handler is told false.
Heartbeat(s) ==
  /\ pc[s] = "run"
  /\ state[job[s]] = "running"
  /\ lockedBy[job[s]] = Owner[s]
  /\ leaseIn' = [leaseIn EXCEPT ![job[s]] = Lease]
  /\ UNCHANGED <<state, lockedBy, runIn, attempt, callVars, slotVars, loopVars, completed, faults>>

HandlerReturns(s) ==
  /\ pc[s] = "run"
  /\ pc' = [pc EXCEPT ![s] = "succeed"]
  /\ completed' = completed \cup {job[s]}
  /\ UNCHANGED <<rowVars, callVars, job, token, loopVars, faults>>

\* The handler throws, or the kind has no handler.
HandlerThrows(s) ==
  /\ pc[s] = "run"
  /\ pc' = [pc EXCEPT ![s] = "fail"]
  /\ UNCHANGED <<rowVars, callVars, job, token, loopVars, completed, faults>>

\* succeed() as a statement: where id = jobId, whatever the row's state or holder.
MarkSucceeded(j) ==
  IF state[j] \in Present THEN Release(j, "succeeded") ELSE UNCHANGED <<state, lockedBy, leaseIn>>

Succeed(s) ==
  /\ pc[s] = "succeed"
  /\ MarkSucceeded(job[s])
  /\ pc' = [pc EXCEPT ![s] = "idle"]
  /\ UNCHANGED <<runIn, attempt, callVars, job, token, loopVars, completed, faults>>

\* The statement of succeed() is rejected and nothing is written: the catch calls fail().
SucceedThrows(s) ==
  /\ pc[s] = "succeed"
  /\ pc' = [pc EXCEPT ![s] = "fail"]
  /\ UNCHANGED <<rowVars, callVars, job, token, loopVars, completed, faults>>

\* The statement commits, the connection fails before its answer: the catch calls fail().
SucceedLosesAck(s) ==
  /\ pc[s] = "succeed"
  /\ Fault("lostAck")
  /\ MarkSucceeded(job[s])
  /\ pc' = [pc EXCEPT ![s] = "fail"]
  /\ UNCHANGED <<runIn, attempt, callVars, job, token, loopVars, completed>>

Backoff(n) ==
  IF 2 ^ n * BackoffBase < BackoffCap THEN 2 ^ n * BackoffBase ELSE BackoffCap

\* Mutant of Retry: the lock is cleared and the state is not.
RetryStranded(j, n) ==
  /\ Release(j, state[j])
  /\ runIn' = [runIn EXCEPT ![j] = Backoff(n)]

Retry(j, n) ==
  /\ Release(j, "queued")
  /\ runIn' = [runIn EXCEPT ![j] = Backoff(n)]

\* Mutant of Exhausted: one attempt too many.
ExhaustedLate(s) == token[s] > MaxAttempts[job[s]]

\* Decided by the attempt number the slot claimed, not by the row's.
Exhausted(s) == token[s] >= MaxAttempts[job[s]]

\* fail(): written by id alone, whatever the row's state or holder.
Fail(s) ==
  /\ pc[s] = "fail"
  /\ \/ state[job[s]] \in Present /\ Exhausted(s)
          /\ Release(job[s], "dead_lettered") /\ UNCHANGED runIn
     \/ state[job[s]] \in Present /\ ~Exhausted(s) /\ Retry(job[s], token[s])
     \/ state[job[s]] \notin Present /\ UNCHANGED <<state, lockedBy, leaseIn, runIn>>
  /\ pc' = [pc EXCEPT ![s] = "idle"]
  /\ UNCHANGED <<attempt, callVars, job, token, loopVars, completed, faults>>

-----------------------------------------------------------------------------
(* The rest of the world: process death, retention, time. *)

\* The process dies (or is forced out 30 s after SIGTERM, or fail() rejects and work()
\* with it) and is restarted under the same workerId with its loop at the top.
Crash(w) ==
  /\ Fault("crash")
  /\ pc' = [s \in Slots |-> IF s \in SlotsOf(w) THEN "idle" ELSE pc[s]]
  /\ loop' = [loop EXCEPT ![w] = "top"]
  /\ stale' = [stale EXCEPT ![w] = {}]
  /\ UNCHANGED <<rowVars, callVars, job, token, completed>>

\* Mutant of Sweep: finished_at decides, and a dead letter has one too.
SweepFinished(j) ==
  /\ state[j] \in {"succeeded", "dead_lettered"}
  /\ state' = [state EXCEPT ![j] = "swept"]
  /\ UNCHANGED <<lockedBy, leaseIn, runIn, attempt, callVars, slotVars, loopVars, completed, faults>>

\* The retention sweep deletes a succeeded row.  Its 30 days are abstracted to any time.
Sweep(j) ==
  /\ state[j] = "succeeded"
  /\ state' = [state EXCEPT ![j] = "swept"]
  /\ UNCHANGED <<lockedBy, leaseIn, runIn, attempt, callVars, slotVars, loopVars, completed, faults>>

Down(x, floor) == IF x > floor THEN x - 1 ELSE x

\* Slots whose lease the next tick would let lapse under a handler still running.
Overrunning == {s \in Live : Holds(s) /\ leaseIn[job[s]] = 0}

Tick ==
  /\ \/ Overrunning = {} /\ UNCHANGED faults
     \/ Overrunning # {} /\ Fault("overrun")
  /\ leaseIn' = [j \in Jobs |-> Down(leaseIn[j], Lapsed)]
  /\ runIn' = [j \in Jobs |-> Down(runIn[j], -MaxAge)]
  /\ UNCHANGED <<state, lockedBy, attempt, callVars, slotVars, loopVars, completed>>

-----------------------------------------------------------------------------
Init ==
  /\ state = [j \in Jobs |-> "absent"]
  /\ lockedBy = [j \in Jobs |-> NULL]
  /\ leaseIn = [j \in Jobs |-> NoLease]
  /\ runIn = [j \in Jobs |-> 0]
  /\ attempt = [j \in Jobs |-> 0]
  /\ call = [j \in Jobs |-> "new"]
  /\ got = [j \in Jobs |-> NULL]
  /\ pc = [s \in Slots |-> "idle"]
  /\ job = [s \in Slots |-> NULL]
  /\ token = [s \in Slots |-> 0]
  /\ loop = [w \in Workers |-> "top"]
  /\ stale = [w \in Workers |-> {}]
  /\ completed = {}
  /\ faults = 0

Handler(s) == HandlerReturns(s) \/ HandlerThrows(s)
Settle(s)  == Succeed(s) \/ SucceedThrows(s) \/ SucceedLosesAck(s) \/ Fail(s)

Next ==
  \/ \E j \in Jobs : EnqueueInsert(j) \/ EnqueueSelect(j) \/ Sweep(j)
  \/ \E w \in Workers : ReclaimScan(w) \/ ReclaimWrite(w) \/ Crash(w)
  \/ \E s \in Slots : Claim(s) \/ FindNothing(s) \/ Heartbeat(s) \/ Handler(s) \/ Settle(s)
  \/ Tick

Spec == Init /\ [][Next]_vars

\* The loop of a live process keeps polling, every handler ends, the clock advances, and
\* enqueue() gets through its statements.  Nothing is assumed of faults, heartbeats or the
\* sweep.
Fairness ==
  /\ \A j \in Jobs : WF_vars(EnqueueInsert(j) \/ EnqueueSelect(j))
  /\ \A w \in Workers : WF_vars(ReclaimScan(w) \/ ReclaimWrite(w))
  /\ \A s \in Slots : WF_vars(Claim(s) \/ FindNothing(s)) /\ WF_vars(Handler(s))
                      /\ WF_vars(Settle(s))
  /\ WF_vars(Tick)

FairSpec == Spec /\ Fairness

-----------------------------------------------------------------------------
(* Properties *)

\* Type invariant.
TypeOK ==
  /\ state \in [Jobs -> RowStates]
  /\ lockedBy \in [Jobs -> Workers \cup {NULL}]
  /\ leaseIn \in [Jobs -> NoLease..Lease]
  /\ runIn \in [Jobs -> Int]
  /\ attempt \in [Jobs -> Nat]
  /\ call \in [Jobs -> {"new", "lookup", "returned", "threw"}]
  /\ got \in [Jobs -> Jobs \cup {NULL}]
  /\ pc \in [Slots -> {"idle", "poll", "run", "succeed", "fail"}]
  /\ job \in [Slots -> Jobs \cup {NULL}]
  /\ token \in [Slots -> Nat]
  /\ \A s \in Live : job[s] \in Jobs
  /\ loop \in [Workers -> {"top", "reclaiming"}]
  /\ stale \in [Workers -> SUBSET Jobs]
  /\ completed \subseteq Jobs
  /\ faults \in 0..MaxFaults

\* (job, attempt) is a fencing token, whatever faults happen: claim() never hands out an
\* attempt number twice, so no two executions of a job, however stale, carry the same one,
\* and none is ahead of its row.  It rests on reclaimExpired and fail() keeping `attempt`.
FencingToken ==
  /\ \A s \in Live : token[s] \in 1..attempt[job[s]]
  /\ \A s, t \in Live :
       s # t /\ job[s] = job[t] => token[s] # token[t]

\* At least once, whatever faults happen: a row is never marked succeeded, nor swept by
\* retention, unless some execution of the job's handler returned.
NothingLost ==
  \A j \in Jobs : state[j] \in {"succeeded", "swept"} => j \in completed

\* enqueue() is idempotent: two calls that return with the same key name the same job, as
\* long as retention has swept neither answer.
EnqueueAgreement ==
  \A j, k \in Jobs :
    /\ call[j] = "returned" /\ call[k] = "returned"
    /\ Key[j] = Key[k] /\ Key[j] # NoKey
    /\ state[got[j]] # "swept" /\ state[got[k]] # "swept"
    => got[j] = got[k]

\* No job is ever being executed twice at once.  It holds with any number of processes when
\* crashes are the only fault (the lease alone separates executions), and with a single
\* process under every fault (work() reclaims only once all its slots have come back).
AtMostOneExecution ==
  \A s, t \in Live : job[s] = job[t] => s = t

\* What claim() promised an execution stays true until it settles, when crashes are the only
\* fault: its row is still running, under its worker, at its attempt, with the lease unexpired.
LeaseProtects ==
  \A s \in Live :
    /\ Holds(s)
    /\ lockedBy[job[s]] = Owner[s]
    /\ leaseIn[job[s]] >= 0

\* When crashes are the only fault, every crash costs a job at most one attempt beyond
\* max_attempts: fail() stops the retries, reclaimExpired alone does not.
AttemptCeiling ==
  \A j \in Jobs : attempt[j] <= MaxAttempts[j] + faults

\* A settled job stays settled: succeeded rows are only swept, dead letters never move.
TerminalIsFinal ==
  [][\A j \in Jobs : state[j] \in Terminal =>
       /\ attempt'[j] = attempt[j]
       /\ \/ state'[j] = state[j]
          \/ state[j] = "succeeded" /\ state'[j] = "swept"]_vars

\* The executions of job j, and the job as its callers see it.
ExecutionsOf(j) == {s \in Live : job[s] = j}

Life == INSTANCE JobLife WITH
          phase <- state,
          execs <- [j \in Jobs |-> ExecutionsOf(j)],
          tries <- attempt

\* When crashes are the only fault the queue implements JobLife: a job is handed to one
\* execution at a time, only that execution settles it, within its attempts, and
\* reclaimExpired requeues a job only when its execution is gone.
ImplementsLife == Life!LifeSpec

\* reclaimExpired takes a job back only when its lease ran out: a row it returns to the queue
\* is not running under an unexpired lease.
ReclaimSparesLiveLeases ==
  [][\A w \in Workers : ReclaimWrite(w) =>
       \A j \in Jobs : state[j] = "running" /\ state'[j] = "queued"
                         => leaseIn[j] = Lapsed]_vars

\* A job that was enqueued is eventually done or dead-lettered, for good, even though
\* processes crash, handlers overrun, answers get lost and reclaims race (finitely often).
EveryJobSettles ==
  \A j \in Jobs : state[j] = "queued" ~> [](state[j] \in Terminal)

-----------------------------------------------------------------------------
(* What comments and tests of the code say and the model refutes: the README gives the instances. *)

\* A job that reliably kills its worker is dead-lettered: no attempt beyond max_attempts.
RetriesStop ==
  \A j \in Jobs : attempt[j] <= MaxAttempts[j]

\* Dead letters stop moving: nothing picks one up later.
DeadLettersStop ==
  [][\A j \in Jobs : state[j] = "dead_lettered" => state'[j] = "dead_lettered"]_vars
=============================================================================
