------------------------------- MODULE Sandbox -------------------------------
(***************************************************************************)
(* One development sandbox: the row the control plane keeps, the container *)
(* a provider rents out, and the jobs of lib/typescript/jobs/src/sandbox.ts*)
(* that move both.  No transaction spans the two.  Every job reads the row,*)
(* talks to the provider and then writes the row on the condition that its *)
(* state is still one the job may leave (updateIfState).                   *)
(*                                                                         *)
(* The row's life ends when it is removed: the next request inserts a row  *)
(* with another id, whose container has another name.  Metering, logging   *)
(* and what the workspace contains are left out, and so is the state idle, *)
(* which no code writes.                                                   *)
(***************************************************************************)
EXTENDS Naturals

CONSTANTS
  Slots,    \* jobs that can be pending or running at once
  Tries,    \* maxAttempts of a job
  MaxIds,   \* the provider's quota: containers it will create, after which a create fails
  Setups,   \* the situations considered, see SetupType
  NULL

Kinds == {"provision", "start", "stop", "destroy", "reconcile"}

Troubles == {"crash", "throw", "problem", "loss", "suspend"}

\* asks: how many requests the user makes; trouble, budget: which disturbances may happen, how many;
\* deleter: who may delete the sandbox.
SetupType ==
  [asks : Nat, trouble : SUBSET Troubles, budget : Nat, deleter : {"user", "project"}]

ASSUME SandboxAssumption ==
  /\ Tries \in Nat \ {0} /\ MaxIds \in Nat
  /\ Setups \subseteq SetupType
  /\ NULL \notin Nat \cup Kinds

VARIABLES
  setup,
  asks,      \* requests left
  budget,    \* disturbances left
  row,       \* sandbox.state; "none" before the row exists, "gone" once it is removed
  ext,       \* sandbox.externalId
  late,      \* lastActivityAt is more than idleTimeoutS ago
  suspended, \* the organization is suspended for insufficient credit
  deleted,   \* project.deletedAt is set
  asked,     \* the key sandbox.destroy:<id> has been used
  obj,       \* the provider's container of this row's name
  made,      \* ids the provider has handed out
  job,       \* [Slots -> the job in it]
  cut        \* a container the row does not name was lost, the attempt that held it was cut short, or
             \* the row was made to name one that no longer exists

vars == <<setup, asks, budget, row, ext, late, suspended, deleted, asked, obj, made, job, cut>>

Free  == [kind |-> NULL, pc |-> "free", left |-> 0, ext |-> NULL]
Ids   == 1 .. MaxIds

PCs == {"free", "ready",
        "p_retry", "p_up", "p_reread", "p_create", "p_record", "p_boot", "p_run", "p_discard",
        "p_caught", "p_fail",
        "t_noext", "t_start", "t_run", "t_reread", "t_discard", "t_fail",
        "s_read", "s_stop", "s_write", "d_destroy", "d_remove", "r_look", "r_stop",
        "c_mark", "c_clear", "p_mark", "p_clear"}

\* The row, the container and every job hold values the code and the schema know; a row that does not
\* exist names no container.
TypeOK ==
  /\ setup \in Setups /\ asks \in 0 .. setup.asks /\ budget \in 0 .. setup.budget
  /\ row \in {"none", "starting", "running", "stopped", "failed", "deleting", "gone"}
  /\ ext \in Ids \cup {NULL} /\ (row \in {"none", "gone"} => ext = NULL)
  /\ made \in 0 .. MaxIds
  /\ obj \in {NULL} \cup [id : 1 .. made, on : BOOLEAN, ready : BOOLEAN]
  /\ {late, suspended, deleted, asked, cut} \subseteq BOOLEAN
  /\ job \in [Slots -> [kind : Kinds \cup {NULL}, pc : PCs, left : 0 .. Tries, ext : Ids \cup {NULL}]]

Init ==
  /\ setup \in Setups /\ asks = setup.asks /\ budget = setup.budget
  /\ row = "none" /\ ext = NULL /\ late = FALSE /\ suspended = FALSE /\ deleted = FALSE
  /\ asked = FALSE /\ obj = NULL /\ made = 0 /\ cut = FALSE
  /\ job = [j \in Slots |-> Free]

-----------------------------------------------------------------------------
\* Jobs.  What the queue promises is JobQueue's subject; here a job is run again until an attempt
\* completes or Tries attempts have failed.

Pending(k) == \E j \in Slots : job[j].kind = k

Enqueue(k) ==
  \E j \in Slots :
    /\ job[j] = Free
    /\ job' = [job EXCEPT ![j] = [kind |-> k, pc |-> "ready", left |-> Tries, ext |-> NULL]]

Finish(j) == job' = [job EXCEPT ![j] = Free]
Goto(j, pc) == job' = [job EXCEPT ![j].pc = pc]
GotoWith(j, pc, x) == job' = [job EXCEPT ![j].pc = pc, ![j].ext = x]

\* The attempt throws: the queue runs the job again, or buries it.
Again(b) == [b EXCEPT !.pc = "ready", !.left = b.left - 1, !.ext = NULL]
Rethrow(j) == job' = [job EXCEPT ![j] = IF job[j].left > 1 THEN Again(job[j]) ELSE Free]

\* Mutant of updateIfState: the state is not part of the condition.
updateAlways(states, to) == row' = to

\* updateIfState: the row moves only out of one of the given states.
updateIfState(states, to) == row' = IF row \in states THEN to ELSE row

\* The states an attempt to start may leave.
Startable == {"starting", "failed"}
Live == {"starting", "running", "stopped", "failed"}

Missing(x) == obj = NULL \/ obj.id # x

PowerTo(x, on) == obj' = IF Missing(x) THEN obj ELSE [obj EXCEPT !.on = on]
DestroyAt(x) == obj' = IF Missing(x) THEN obj ELSE NULL

rowVars == <<row, ext, late>>
envVars == <<setup, asks, budget, suspended, deleted, asked, cut>>

-----------------------------------------------------------------------------
\* Requests, and the jobs a clock enqueues.

requestSandboxStart ==
  /\ asks > 0 /\ asks' = asks - 1
  /\ ~suspended /\ ~deleted /\ row \notin {"deleting", "gone"}
  /\ late' = FALSE
  /\ \/ row = "none" /\ row' = "starting" /\ Enqueue("provision")
     \/ /\ row \in {"stopped", "failed"} /\ row' = "starting"
        /\ Enqueue(IF row = "failed" \/ ext = NULL THEN "provision" ELSE "start")
     \/ row \in {"starting", "running"} /\ UNCHANGED <<row, job>>
  /\ UNCHANGED <<setup, budget, ext, suspended, deleted, asked, obj, made, cut>>

requestSandboxDestroy ==
  /\ asks > 0 /\ asks' = asks - 1
  /\ setup.deleter = "user" /\ row \notin {"none", "gone"}
  /\ row' = "deleting" /\ asked' = TRUE
  /\ IF asked THEN UNCHANGED job ELSE Enqueue("destroy")
  /\ UNCHANGED <<setup, budget, ext, late, suspended, deleted, obj, made, cut>>

\* The project is deleted: its teardown calls destroySandbox on every sandbox row it finds.
TearDownProject ==
  /\ setup.deleter = "project" /\ ~deleted /\ row \notin {"none", "gone"}
  /\ deleted' = TRUE /\ Enqueue("destroy")
  /\ UNCHANGED <<setup, asks, budget, rowVars, suspended, asked, obj, made, cut>>

Suspend ==
  /\ "suspend" \in setup.trouble /\ ~suspended /\ suspended' = TRUE
  /\ IF row \in {"starting", "running", "failed"} THEN Enqueue("stop") ELSE UNCHANGED job
  /\ UNCHANGED <<setup, asks, budget, rowVars, deleted, asked, obj, made, cut>>

\* Mutant of Idle: a failed sandbox is left alone.
IdleNotFailed == row \in {"starting", "running"} /\ late

\* Mutant of Idle: only a running sandbox is idle.
IdleRunning == (row = "running" /\ late) \/ (row = "failed" /\ ext # NULL)

\* fetchSandbox.idle
Idle == (row \in {"starting", "running"} /\ late) \/ (row = "failed" /\ ext # NULL)

reapSandboxes ==
  /\ Idle /\ ~Pending("stop") /\ Enqueue("stop")
  /\ UNCHANGED <<envVars, rowVars, obj, made>>

\* Mutant of repairDeletingSandboxes: it enqueues under the key of the request, which is used up.
repairUnderTheSameKey ==
  /\ row = "deleting" /\ ~asked /\ ~Pending("destroy") /\ Enqueue("destroy")
  /\ UNCHANGED <<envVars, rowVars, obj, made>>

repairDeletingSandboxes ==
  /\ row = "deleting" /\ ~Pending("destroy") /\ Enqueue("destroy")
  /\ UNCHANGED <<envVars, rowVars, obj, made>>

reconcileSandboxes ==
  /\ row \in Live \ {"failed"} /\ ext # NULL /\ ~Pending("reconcile")
  /\ \E j \in Slots :
       /\ job[j] = Free
       /\ job' = [job EXCEPT ![j] = [kind |-> "reconcile", pc |-> "r_look", left |-> 1, ext |-> ext]]
  /\ UNCHANGED <<envVars, rowVars, obj, made>>

-----------------------------------------------------------------------------
\* sandbox.provision

Suspended(j) == suspended /\ Goto(j, "s_read")

provisionRead(j) ==
  /\ job[j].kind = "provision" /\ job[j].pc = "ready"
  /\ \/ row = "gone" /\ Finish(j)
     \/ row # "gone" /\ Suspended(j)
     \/ ~suspended /\ row \notin Startable \cup {"gone"} /\ Finish(j)
     \/ /\ ~suspended /\ row \in Startable
        /\ GotoWith(j, IF row = "failed" THEN "p_retry" ELSE IF ext = NULL THEN "p_create" ELSE "p_up", ext)
  /\ UNCHANGED <<envVars, rowVars, obj, made>>

provisionRetry(j) ==
  /\ job[j].pc = "p_retry"
  /\ \/ row = "failed" /\ row' = "starting" /\ late' = FALSE
        /\ Goto(j, IF job[j].ext = NULL THEN "p_create" ELSE "p_up")
     \/ row # "failed" /\ Finish(j) /\ UNCHANGED <<row, late>>
  /\ UNCHANGED <<envVars, ext, obj, made>>

\* A recorded container: its state is read and, unless it runs, it is started.
provisionUp(j) ==
  /\ job[j].pc = "p_up"
  /\ PowerTo(job[j].ext, TRUE)
  /\ Goto(j, IF Missing(job[j].ext) THEN "p_mark" ELSE "p_reread")
  /\ UNCHANGED <<envVars, rowVars, made>>

provisionReread(j) ==
  /\ job[j].pc = "p_reread"
  /\ Goto(j, IF row \in {"deleting", "gone"} THEN "p_discard" ELSE "p_boot")
  /\ UNCHANGED <<envVars, rowVars, obj, made>>

\* Find the container by its label, or create it.  The name is unique at the provider, so a second
\* create is answered with a conflict and the container is found by the label after all.
create(j) ==
  /\ job[j].pc = "p_create"
  /\ \/ obj # NULL /\ GotoWith(j, "p_record", obj.id) /\ UNCHANGED <<obj, made>>
     \/ /\ obj = NULL /\ made < MaxIds /\ made' = made + 1
        /\ obj' = [id |-> made', on |-> TRUE, ready |-> FALSE]
        /\ GotoWith(j, "p_record", made')
     \/ obj = NULL /\ made = MaxIds /\ Goto(j, "p_caught") /\ UNCHANGED <<obj, made>>
  /\ UNCHANGED <<envVars, rowVars>>

\* Whatever id the row has meanwhile come to hold is overwritten, also by that of a container another
\* attempt has taken away.
provisionRecord(j) ==
  /\ job[j].pc = "p_record"
  /\ \/ /\ row \in Startable /\ ext' = job[j].ext /\ late' = FALSE /\ Goto(j, "p_boot")
        /\ cut' = (cut \/ Missing(job[j].ext))
     \/ row \notin Startable /\ Goto(j, "p_discard") /\ UNCHANGED <<ext, late, cut>>
  /\ UNCHANGED <<setup, asks, budget, suspended, deleted, asked, row, obj, made>>

\* The workspace is put into a container that runs; in any other the commands fail.
bootstrap(j) ==
  /\ job[j].pc = "p_boot"
  /\ LET ok == ~Missing(job[j].ext) /\ obj.on
     IN  /\ obj' = IF ok THEN [obj EXCEPT !.ready = TRUE] ELSE obj
         /\ Goto(j, IF ok THEN "p_run" ELSE "p_caught")
  /\ UNCHANGED <<envVars, rowVars, made>>

provisionRun(j) ==
  /\ job[j].pc = "p_run"
  /\ updateIfState(Startable, "running") /\ Finish(j)
  /\ UNCHANGED <<envVars, ext, late, obj, made>>

\* Mutant of Discard: the attempt ends without taking its container away.
DiscardNothing(j) ==
  /\ job[j].pc \in {"p_discard", "t_discard"} /\ Finish(j)
  /\ UNCHANGED <<envVars, rowVars, obj, made>>

Discard(j) ==
  /\ job[j].pc \in {"p_discard", "t_discard"}
  /\ DestroyAt(job[j].ext) /\ Finish(j)
  /\ UNCHANGED <<envVars, rowVars, made>>

\* The catch of the handler: the container is stopped, whatever comes of that, before `failed` is
\* published.
provisionCaught(j) ==
  /\ job[j].pc = "p_caught"
  /\ PowerTo(job[j].ext, FALSE) /\ Goto(j, "p_fail")
  /\ UNCHANGED <<envVars, rowVars, made>>

provisionFail(j) ==
  /\ job[j].pc = "p_fail"
  /\ updateIfState(Startable, "failed") /\ Rethrow(j)
  /\ UNCHANGED <<envVars, ext, late, obj, made>>

provisionSandbox(j) ==
  \/ provisionRead(j) \/ provisionRetry(j) \/ provisionUp(j) \/ provisionReread(j) \/ create(j)
  \/ provisionRecord(j) \/ bootstrap(j) \/ provisionRun(j) \/ Discard(j) \/ provisionCaught(j)
  \/ provisionFail(j)

-----------------------------------------------------------------------------
\* sandbox.start

startRead(j) ==
  /\ job[j].kind = "start" /\ job[j].pc = "ready"
  /\ \/ row \notin Startable /\ Finish(j)
     \/ row \in Startable /\ Suspended(j)
     \/ /\ row \in Startable /\ ~suspended
        /\ GotoWith(j, IF ext = NULL THEN "t_noext" ELSE "t_start", ext)
  /\ UNCHANGED <<envVars, rowVars, obj, made>>

startWithoutId(j) ==
  /\ job[j].pc = "t_noext"
  /\ updateIfState(Startable, "failed") /\ Rethrow(j)
  /\ UNCHANGED <<envVars, ext, late, obj, made>>

startUp(j) ==
  /\ job[j].pc = "t_start"
  /\ PowerTo(job[j].ext, TRUE)
  /\ Goto(j, IF Missing(job[j].ext) THEN "c_mark" ELSE "t_run")
  /\ UNCHANGED <<envVars, rowVars, made>>

startRun(j) ==
  /\ job[j].pc = "t_run"
  /\ \/ row \in Startable /\ row' = "running" /\ late' = FALSE /\ Finish(j)
     \/ row \notin Startable /\ Goto(j, "t_reread") /\ UNCHANGED <<row, late>>
  /\ UNCHANGED <<envVars, ext, obj, made>>

startReread(j) ==
  /\ job[j].pc = "t_reread"
  /\ IF row \in {"deleting", "gone"} THEN Goto(j, "t_discard") ELSE Finish(j)
  /\ UNCHANGED <<envVars, rowVars, obj, made>>

startFail(j) ==
  /\ job[j].pc = "t_fail"
  /\ updateIfState(Startable, "failed")
  /\ IF row = "running" THEN Finish(j) ELSE Rethrow(j)
  /\ UNCHANGED <<envVars, ext, late, obj, made>>

startSandbox(j) ==
  \/ startRead(j) \/ startWithoutId(j) \/ startUp(j) \/ startRun(j) \/ startReread(j) \/ startFail(j)

-----------------------------------------------------------------------------
\* sandbox.stop, also run inside a provision or a start that finds the organization suspended.

stopRead(j) ==
  /\ job[j].pc = "s_read" \/ (job[j].kind = "stop" /\ job[j].pc = "ready")
  /\ IF row \in {"gone", "stopped", "deleting"} THEN Finish(j) ELSE GotoWith(j, "s_stop", ext)
  /\ UNCHANGED <<envVars, rowVars, obj, made>>

stopDown(j) ==
  /\ job[j].pc = "s_stop"
  /\ PowerTo(job[j].ext, FALSE)
  /\ Goto(j, IF job[j].ext # NULL /\ Missing(job[j].ext) THEN "c_mark" ELSE "s_write")
  /\ UNCHANGED <<envVars, rowVars, made>>

stopWrite(j) ==
  /\ job[j].pc = "s_write"
  /\ updateIfState({"starting", "running", "failed"}, "stopped") /\ Finish(j)
  /\ UNCHANGED <<envVars, ext, late, obj, made>>

stopSandbox(j) == stopRead(j) \/ stopDown(j) \/ stopWrite(j)

-----------------------------------------------------------------------------
\* sandbox.destroy: the container, the database branches (which may only fail here), then the row.

destroyRead(j) ==
  /\ job[j].kind = "destroy" /\ job[j].pc = "ready"
  /\ IF row = "gone" THEN Finish(j) ELSE GotoWith(j, "d_destroy", ext)
  /\ UNCHANGED <<envVars, rowVars, obj, made>>

destroyAtProvider(j) ==
  /\ job[j].pc = "d_destroy"
  /\ DestroyAt(job[j].ext) /\ Goto(j, "d_remove")
  /\ UNCHANGED <<envVars, rowVars, made>>

destroyRow(j) ==
  /\ job[j].pc = "d_remove"
  /\ row' = "gone" /\ ext' = NULL /\ Finish(j)
  /\ UNCHANGED <<envVars, late, obj, made>>

destroySandbox(j) == destroyRead(j) \/ destroyAtProvider(j) \/ destroyRow(j)

-----------------------------------------------------------------------------
\* sandbox.reconcile: what the provider says of a recorded container, written to the row.

reconcileLook(j) ==
  /\ job[j].pc = "r_look"
  /\ CASE Missing(job[j].ext)              -> Goto(j, "c_mark")
       [] ~Missing(job[j].ext) /\ ~obj.on  -> Goto(j, "r_stop")
       [] OTHER                            -> Finish(j)
  /\ UNCHANGED <<envVars, rowVars, obj, made>>

\* Mutant of reconcileStop: it does not leave running.
reconcileStopStarting(j) ==
  /\ job[j].pc = "r_stop"
  /\ updateIfState({"starting", "stopped"}, "stopped") /\ Finish(j)
  /\ UNCHANGED <<envVars, ext, late, obj, made>>

reconcileStop(j) ==
  /\ job[j].pc = "r_stop"
  /\ updateIfState({"starting", "running", "stopped"}, "stopped") /\ Finish(j)
  /\ UNCHANGED <<envVars, ext, late, obj, made>>

\* cleanMissingProviderObject: `failed` first, the branches, and only then the join is severed.
Ours(j) == ext = job[j].ext /\ row \in Live

\* Called from the catch of provisionSandbox; every other caller, a stop inside a provision too, ends
\* with the cleanup whatever it says.
InCatch(j) == job[j].pc \in {"p_mark", "p_clear"}

NotCleaned(j) == IF InCatch(j) THEN Goto(j, "p_caught") ELSE Finish(j)

cleanMissingMark(j) ==
  /\ job[j].pc \in {"c_mark", "p_mark"}
  /\ \/ Ours(j) /\ row' = "failed" /\ Goto(j, IF InCatch(j) THEN "p_clear" ELSE "c_clear")
     \/ ~Ours(j) /\ UNCHANGED row /\ NotCleaned(j)
  /\ UNCHANGED <<envVars, ext, late, obj, made>>

cleanMissingClear(j) ==
  /\ job[j].pc \in {"c_clear", "p_clear"}
  /\ \/ Ours(j) /\ row' = "stopped" /\ ext' = NULL /\ late' = FALSE /\ Finish(j)
     \/ ~Ours(j) /\ UNCHANGED rowVars /\ NotCleaned(j)
  /\ UNCHANGED <<envVars, obj, made>>

Reconciliation(j) ==
  reconcileLook(j) \/ reconcileStop(j) \/ cleanMissingMark(j) \/ cleanMissingClear(j)

-----------------------------------------------------------------------------
\* Faults and the outside world.

Trouble(t) == t \in setup.trouble /\ budget > 0 /\ budget' = budget - 1

\* The row does not name the container the attempt holds.
Holds(j) == job[j].ext # NULL /\ job[j].ext # ext
Cut(j) == cut' = (cut \/ Holds(j))

\* The worker dies: the lease runs out and the job is claimed again.
Crash(j) ==
  /\ Trouble("crash") /\ job[j].pc \notin {"free", "ready"}
  /\ Rethrow(j) /\ Cut(j)
  /\ UNCHANGED <<setup, asks, rowVars, suspended, deleted, asked, obj, made>>

Tried == {"p_up", "p_create", "p_record", "p_boot", "p_run", "p_discard"}

\* A provider call, a statement or a branch cleanup fails.
Throw(j) ==
  /\ Trouble("throw")
  /\ \/ job[j].pc \in Tried /\ Goto(j, "p_caught")
     \/ job[j].pc \in {"t_start", "t_run", "t_discard"} /\ Goto(j, "t_fail")
     \/ job[j].pc = "p_caught" /\ Goto(j, "p_fail")
     \/ job[j].pc \in {"s_stop", "d_destroy", "d_remove", "c_clear", "p_clear"} /\ Rethrow(j)
  /\ Cut(j)
  /\ UNCHANGED <<setup, asks, rowVars, suspended, deleted, asked, obj, made>>

\* bootstrap reports a problem: no installation, a clone that failed, a file that did not write.
Problem(j) ==
  /\ Trouble("problem") /\ job[j].pc = "p_boot" /\ Goto(j, "p_caught") /\ Cut(j)
  /\ UNCHANGED <<setup, asks, rowVars, suspended, deleted, asked, obj, made>>

\* The provider loses the container.
Lose ==
  /\ Trouble("loss") /\ obj # NULL /\ obj' = NULL
  /\ cut' = (cut \/ obj.id # ext)
  /\ UNCHANGED <<setup, asks, rowVars, suspended, deleted, asked, made, job>>

\* autoStopInterval: the provider's own idle timer.
AutoStop ==
  /\ late /\ obj # NULL /\ obj.on /\ obj' = [obj EXCEPT !.on = FALSE]
  /\ UNCHANGED <<envVars, rowVars, made, job>>

\* idleTimeoutS passes without activity.
Tire ==
  /\ ~late /\ row \notin {"none", "gone"} /\ late' = TRUE
  /\ UNCHANGED <<envVars, row, ext, obj, made, job>>

-----------------------------------------------------------------------------
Step(j) ==
  provisionSandbox(j) \/ startSandbox(j) \/ stopSandbox(j) \/ destroySandbox(j) \/ Reconciliation(j)

Request == requestSandboxStart \/ requestSandboxDestroy \/ TearDownProject \/ Suspend
Clock   == reapSandboxes \/ repairDeletingSandboxes \/ reconcileSandboxes
World   == Lose \/ AutoStop \/ Tire \/ \E j \in Slots : Crash(j) \/ Throw(j) \/ Problem(j)

Next == (\E j \in Slots : Step(j)) \/ Request \/ Clock \/ World

\* The worker runs what is queued and the scheduler enqueues its recurring jobs every minute.  An
\* enqueue finds a free slot again and again, hence the strong fairness.
Fairness ==
  /\ \A j \in Slots : WF_vars(Step(j))
  /\ SF_vars(reapSandboxes) /\ SF_vars(repairDeletingSandboxes) /\ SF_vars(reconcileSandboxes)

Spec == Init /\ [][Next]_vars /\ Fairness

-----------------------------------------------------------------------------
\* Properties.

Settled == \A j \in Slots : job[j] = Free

\* A row the user had removed leaves no container behind, in whatever order a provision still under
\* way, a start and the destroy interleave; a provision that was creating meanwhile takes its own
\* container away.  Excepted are an attempt cut short while only it knew the container, one that
\* records a container already taken away over the id of a later one, and the teardown of a project
\* (see NothingUnreferenced).
NoOrphan == row = "gone" /\ Settled => obj = NULL \/ cut \/ setup.deleter = "project"

\* Nothing brings back a sandbox whose deletion was requested: no late job of another kind overwrites
\* `deleting`, or changes the id by which the destroy will find the container.
DeletingIsFinal ==
  [][row = "deleting" => row' \in {"deleting", "gone"} /\ (row' = "deleting" => ext' = ext)]_vars

\* A requested deletion completes, although its job may be buried: the repair enqueues another.
DestroyCompletes == (row = "deleting") ~> (row = "gone")

\* A row shown as running over a container that is stopped or lost is corrected, although nobody is
\* idle enough to be reaped (reconcileSandboxes).
RunningIsCorrected ==
  (row = "running" /\ ext # NULL /\ (Missing(ext) \/ ~obj.on))
    ~> (row # "running" \/ ext = NULL \/ (~Missing(ext) /\ obj.on))

\* A row that names a container the provider no longer has stops naming it, whatever state it is in.
StaleJoinIsCleared == (ext # NULL /\ Missing(ext)) ~> (ext = NULL \/ ~Missing(ext))

\* A start nobody completes does not last: once idle it is stopped, so that it can be asked for again.
StartingEnds == (row = "starting" /\ late) ~> (row # "starting" \/ ~late)

\* What the comments of provisionSandbox say: a sandbox is `running` only over a bootstrapped
\* workspace.
RunningIsBootstrapped == row = "running" /\ ~Missing(ext) => obj.ready

\* What the comments of the teardown and of destroySandbox say: the row goes after the container, so
\* that without a fault no container is left that nothing references.
NothingUnreferenced == row = "gone" /\ Settled => obj = NULL
=============================================================================
