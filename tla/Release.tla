------------------------------- MODULE Release -------------------------------
(***************************************************************************)
(* What a project serves, and everyone who changes it: the release job and *)
(* the preview teardown of lib/typescript/jobs/src/publish.ts, the rollback*)
(* request of apps/internal-api/src/v1/deployments.ts (all three under the *)
(* advisory lock of project-lock.ts), the route refresher and the router's *)
(* read-through, which take no lock.                                       *)
(*                                                                         *)
(* What is served is five things no transaction covers: where the alias (or*)
(* the static host) points, the route of each hostname, the live key, the  *)
(* queue target and the live pointer of the project row.  A release writes *)
(* them one after the other; any write may fail, any process may die.      *)
(*                                                                         *)
(* A release names its deployment, so its Lambda version is identified with*)
(* the deployment; a route or alias ARN never changes and is left out.     *)
(***************************************************************************)
EXTENDS Naturals, Sequences

CONSTANTS
  Deployments, \* a set of numbers, in the order of createdAt
  Execs,       \* jobs and requests, at most one execution of each at a time
  Setups,      \* the initial situations considered, see SetupType
  Tries,       \* maxAttempts of a job
  NULL

Presets == {"static", "serverless"}
Slots   == {"live", "preview"}            \* the alias names: live and preview-<pr>
Hosts   == Slots \cup {"domain"}          \* the generated hostnames and a custom domain
Ops     == {"release", "rollback", "retire"}
Troubles == {"crash", "throw", "lease", "suspend", "die"}

\* does: what each exec is for; row: kind, preset and migration of each deployment; live: the
\* deployment live at the start, or NULL; trouble, budget: which disturbances may happen, how many;
\* around: who else is active; ends: the reasons for which the project may be deleted.
SetupType ==
  [does    : [Execs -> [op : Ops, d : Deployments]],
   row     : [Deployments -> [slot : Slots, preset : Presets, mig : {"absent", "pending"}]],
   live    : Deployments \cup {NULL},
   trouble : SUBSET Troubles,
   budget  : Nat,
   around  : SUBSET {"refresh", "router", "expiry"},
   ends    : SUBSET {"user_requested", "nonpayment"}]

ASSUME ReleaseAssumption ==
  /\ Deployments \subseteq Nat
  /\ Tries \in Nat \ {0}
  /\ NULL \notin Deployments /\ NULL \notin Execs /\ NULL \notin Presets
  /\ \A s \in Setups :
       /\ s \in SetupType
       /\ s.live # NULL => s.row[s.live].slot = "live" /\ s.row[s.live].mig = "absent"

VARIABLES
  setup,     \* the chosen element of Setups
  budget,    \* disturbances left
  status,    \* [Deployments -> deployment.status]
  recorded,  \* deployments whose hostname (and lambdaVersion) are on the row
  mig,       \* [Deployments -> migrationStatus]
  migrated,  \* [Deployments -> how often its migrator ran]
  live,      \* project.liveDeploymentId
  mode,      \* project.servingMode
  state,     \* project.state
  deleted,   \* project.deletedAt is set
  suspended, \* the organization is suspended for insufficient credit
  domain,    \* status of the project's custom domain
  points,    \* [Presets -> [Slots -> deployment the alias / the static host points at]]
  route,     \* [Hosts -> deployment named by route:<host>]
  liveKey,   \* live:<project>
  queue,     \* the target of the project's queue binding
  lock,      \* holder of the project's advisory lock
  pc, todo,  \* [Execs -> where it is], [Execs -> writes left]
  prev,      \* [Execs -> previousServing, as read under the lock]
  claimed,   \* execs whose servingModeClaimed is set
  tries,     \* [Execs -> attempts left]
  refresh,   \* the refresher: the row it read and the writes left
  backfill   \* the router: the route it read from Postgres, with its host

rowVars     == <<status, recorded, mig, migrated>>
projectVars == <<live, mode, state>>
worldVars   == <<deleted, suspended, domain>>
trafficVars == <<points, route, liveKey, queue>>
execVars    == <<pc, todo, prev, claimed, tries, lock>>
readVars    == <<refresh, backfill>>
releaseVars == <<setup, budget, rowVars, projectVars, worldVars, trafficVars, execVars, readVars>>

Op(e)     == setup.does[e].op
D(e)      == setup.does[e].d
Slot(d)   == setup.row[d].slot
Preset(d) == setup.row[d].preset
Idle      == [row |-> NULL, todo |-> <<>>]

Init ==
  /\ setup \in Setups
  /\ budget = setup.budget
  /\ status = [d \in Deployments |-> IF d = setup.live THEN "ready" ELSE "queued"]
  /\ recorded = {setup.live} \ {NULL}
  /\ mig = [d \in Deployments |-> setup.row[d].mig]
  /\ migrated = [d \in Deployments |-> 0]
  /\ live = setup.live
  /\ mode = IF live = NULL THEN NULL ELSE Preset(live)
  /\ state = IF live = NULL THEN "provisioning" ELSE "ready"
  /\ deleted = FALSE /\ suspended = FALSE /\ domain = "active"
  /\ points = [p \in Presets |-> [s \in Slots |-> IF s = "live" /\ p = mode THEN live ELSE NULL]]
  /\ route = [h \in Hosts |-> IF h # "preview" /\ mode = "serverless" THEN live ELSE NULL]
  /\ liveKey = live
  /\ queue = IF mode = "serverless" THEN "live" ELSE "none"
  /\ lock = NULL
  /\ pc = [e \in Execs |-> "start"] /\ todo = [e \in Execs |-> <<>>]
  /\ prev = [e \in Execs |-> NULL] /\ claimed = {}
  /\ tries = [e \in Execs |-> Tries]
  /\ refresh = Idle /\ backfill = Idle

-----------------------------------------------------------------------------
(* Leaving, being disturbed. *)

Trouble(t) ==
  /\ t \in setup.trouble /\ budget > 0
  /\ budget' = budget - 1

\* Mutant of Unlocked: the lock is kept.
UnlockedNever(e) == lock

\* The finally block of withProjectLock().
Unlocked(e) == IF lock = e THEN NULL ELSE lock

\* withProjectLock() lets go of the lock however its work ends.
Leave(e, p) ==
  /\ pc' = [pc EXCEPT ![e] = p]
  /\ todo' = [todo EXCEPT ![e] = <<>>]
  /\ prev' = [prev EXCEPT ![e] = NULL]
  /\ claimed' = claimed \ {e}
  /\ lock' = Unlocked(e)

Finish(e) == Leave(e, "done") /\ UNCHANGED tries

\* The attempt fails: a job is retried while it has attempts, a request is answered with an error.
Fail(e) ==
  IF Op(e) = "rollback"
  THEN Finish(e)
  ELSE /\ Leave(e, IF tries[e] > 1 THEN "start" ELSE "dead")
       /\ tries' = [tries EXCEPT ![e] = tries[e] - 1]

Goto(e, p) ==
  /\ pc' = [pc EXCEPT ![e] = p]
  /\ UNCHANGED <<todo, prev, claimed, tries, lock>>

SetStatus(d, s) == status' = [status EXCEPT ![d] = s]

\* The worker dies: its connection, and with it the lock, goes; the job's lease expires.
Crash(e) ==
  /\ pc[e] \notin {"start", "done", "dead"}
  /\ Op(e) # "rollback" /\ Trouble("crash")
  /\ Leave(e, "start")
  /\ UNCHANGED <<setup, rowVars, projectVars, worldVars, trafficVars, tries, readVars>>

\* The API process dies.  Nobody repeats a request.
Die(e) ==
  /\ pc[e] \notin {"start", "done", "dead"}
  /\ Op(e) = "rollback" /\ Trouble("die")
  /\ Leave(e, "dead") /\ UNCHANGED tries
  /\ UNCHANGED <<setup, rowVars, projectVars, worldVars, trafficVars, readVars>>

Suspend ==
  /\ ~suspended /\ Trouble("suspend")
  /\ suspended' = TRUE
  /\ UNCHANGED <<setup, rowVars, projectVars, deleted, domain, trafficVars, execVars, readVars>>

-----------------------------------------------------------------------------
(* Before the lock. *)

\* What the unlocked reads already rule out.
Moot(e) ==
  \/ deleted
  \/ Op(e) # "rollback" /\ status[D(e)] = "torn_down"
  \/ Op(e) = "rollback" /\ (suspended \/ status[D(e)] # "ready" \/ D(e) \notin recorded)
  \/ Op(e) = "rollback" /\ Slot(D(e)) = "preview"
  \/ Op(e) = "retire" /\ Slot(D(e)) = "live"

Begin(e) ==
  /\ pc[e] = "start"
  /\ IF Moot(e) THEN Finish(e) /\ UNCHANGED status
     ELSE IF Op(e) = "release" /\ suspended
     THEN Finish(e) /\ SetStatus(D(e), "error")
     ELSE Goto(e, "wait") /\ UNCHANGED status
  /\ UNCHANGED <<setup, budget, recorded, mig, migrated, projectVars, worldVars, trafficVars, readVars>>

\* pg_try_advisory_lock(), polled.
Acquire(e) ==
  /\ pc[e] = "wait"
  /\ lock = NULL
  /\ lock' = e
  /\ pc' = [pc EXCEPT ![e] = "check"]
  /\ UNCHANGED <<setup, budget, rowVars, projectVars, worldVars, trafficVars, todo, prev, claimed, tries,
                 readVars>>

-----------------------------------------------------------------------------
(* The checks under the lock, and what a release or a rollback will write. *)

\* The newest other preview that is ready, or the live deployment.
PreviousServing(d) ==
  IF Slot(d) = "live" THEN live
  ELSE LET ready == {p \in Deployments \ {d} : Slot(p) = "preview" /\ status[p] = "ready"}
           newest == {p \in ready : \A q \in ready : q <= p}
       IN  IF newest = {} THEN NULL ELSE CHOOSE p \in newest : TRUE

EstablishedMode == IF mode # NULL THEN mode ELSE IF live # NULL THEN Preset(live) ELSE NULL

ReleaseWrites(d) ==
  CASE Slot(d) = "live"    /\ Preset(d) = "serverless" ->
         <<"point", "route", "domains", "key", "claim", "ready", "mark", "sync">>
    [] Slot(d) = "preview" /\ Preset(d) = "serverless" -> <<"point", "route", "claim", "ready", "retire">>
    [] Slot(d) = "live"    /\ Preset(d) = "static"     -> <<"point", "claim", "key", "ready", "mark">>
    [] Slot(d) = "preview" /\ Preset(d) = "static"     -> <<"point", "claim", "ready", "retire">>

RollbackWrites(d) ==
  IF Preset(d) = "static" THEN <<"point", "key", "move">>
  ELSE <<"point", "route", "domains", "key", "move">>

\* tearDownPreview() of a deployment that never recorded a hostname has only the row to mark.
RetireWrites(d) ==
  IF d \notin recorded THEN <<"down">>
  ELSE IF Preset(d) = "static" THEN <<"unpoint", "down">> ELSE <<"unpoint", "unroute", "down">>

\* Mutant of Refused: the suspension is not looked at again under the lock.
RefusedUnlocked(e) == EstablishedMode \notin {NULL, Preset(D(e))}

Refused(e) ==
  \/ suspended
  \/ EstablishedMode \notin {NULL, Preset(D(e))}

CheckRelease(e) ==
  /\ pc[e] = "check" /\ Op(e) = "release"
  /\ IF deleted THEN Finish(e) /\ UNCHANGED status
     ELSE IF Refused(e) THEN Finish(e) /\ SetStatus(D(e), "error")
     ELSE /\ SetStatus(D(e), "deploying")
          /\ prev' = [prev EXCEPT ![e] = PreviousServing(D(e))]
          /\ todo' = [todo EXCEPT ![e] = ReleaseWrites(D(e))]
          /\ pc' = [pc EXCEPT ![e] = IF mig[D(e)] = "absent" THEN "write" ELSE "migrate"]
          /\ UNCHANGED <<claimed, tries, lock>>
  /\ UNCHANGED <<setup, budget, recorded, mig, migrated, projectVars, worldVars, trafficVars, readVars>>

\* The status is not looked at again under the lock.
CheckRollback(e) ==
  /\ pc[e] = "check" /\ Op(e) = "rollback"
  /\ IF suspended \/ deleted \/ live = NULL \/ (live # NULL /\ Preset(live) # Preset(D(e)))
     THEN Finish(e)
     ELSE /\ prev' = [prev EXCEPT ![e] = live]
          /\ todo' = [todo EXCEPT ![e] = RollbackWrites(D(e))]
          /\ pc' = [pc EXCEPT ![e] = "write"]
          /\ UNCHANGED <<claimed, tries, lock>>
  /\ UNCHANGED <<setup, budget, rowVars, projectVars, worldVars, trafficVars, readVars>>

CheckRetire(e) ==
  /\ pc[e] = "check" /\ Op(e) = "retire"
  /\ IF deleted \/ status[D(e)] = "torn_down" THEN Finish(e)
     ELSE /\ todo' = [todo EXCEPT ![e] = RetireWrites(D(e))]
          /\ pc' = [pc EXCEPT ![e] = "write"]
          /\ UNCHANGED <<prev, claimed, tries, lock>>
  /\ UNCHANGED <<setup, budget, rowVars, projectVars, worldVars, trafficVars, readVars>>

-----------------------------------------------------------------------------
(* The migration, before anything serves. *)

\* Mutant of migrationResumeAction: a migration that failed does not stop the release.
migrationResumeActionGoOn(s) ==
  CASE s \in {"succeeded", "failed"} -> "publish" [] s = "running" -> "ambiguous" [] OTHER -> "run"

\* Mutant of migrationResumeAction: a migration that may be under way is started.
migrationResumeActionRerun(s) ==
  CASE s = "succeeded" -> "publish" [] s = "failed" -> "stop" [] OTHER -> "run"

migrationResumeAction(s) ==
  CASE s = "succeeded" -> "publish" [] s = "failed" -> "stop" [] s = "running" -> "ambiguous"
    [] OTHER -> "run"

SetMigration(d, s) == mig' = [mig EXCEPT ![d] = s]

Migrate(e) ==
  /\ pc[e] = "migrate"
  /\ LET act == migrationResumeAction(mig[D(e)]) IN
       \/ act = "publish" /\ Goto(e, "write") /\ UNCHANGED <<mig, status>>
       \/ act = "stop" /\ Finish(e) /\ UNCHANGED <<mig, status>>
       \/ act = "ambiguous" /\ Finish(e) /\ SetMigration(D(e), "failed") /\ SetStatus(D(e), "error")
       \/ act = "run" /\ Goto(e, "invoke") /\ SetMigration(D(e), "running") /\ UNCHANGED status
  /\ UNCHANGED <<setup, budget, recorded, migrated, projectVars, worldVars, trafficVars, readVars>>

\* runMigration(): the migrator is invoked once.
Invoke(e) ==
  /\ pc[e] = "invoke"
  /\ migrated' = [migrated EXCEPT ![D(e)] = @ + 1]
  /\ Goto(e, "invoked")
  /\ UNCHANGED <<setup, budget, status, recorded, mig, projectVars, worldVars, trafficVars, readVars>>

\* The migrator reported success or failure, each recorded before anything else is done.
Migrated(e) ==
  /\ pc[e] = "invoked"
  /\ \/ SetMigration(D(e), "succeeded") /\ Goto(e, "write")
     \/ SetMigration(D(e), "failed") /\ Goto(e, "failed")
  /\ UNCHANGED <<setup, budget, status, recorded, migrated, projectVars, worldVars, trafficVars, readVars>>

MigrationFailed(e) ==
  /\ pc[e] = "failed"
  /\ SetStatus(D(e), "error")
  /\ Finish(e)
  /\ UNCHANGED <<setup, budget, recorded, mig, migrated, projectVars, worldVars, trafficVars, readVars>>

\* The invocation threw, or the lease was lost during it: the outcome is unknown.
MigrationUnknown(e) ==
  /\ pc[e] \in {"invoke", "invoked"}
  /\ Trouble("throw")
  /\ SetMigration(D(e), "failed") /\ SetStatus(D(e), "error")
  /\ Finish(e)
  /\ UNCHANGED <<setup, recorded, migrated, projectVars, worldVars, trafficVars, readVars>>

-----------------------------------------------------------------------------
(* The writes, one at a time. *)

Host(e) == Slot(D(e))

DomainHosts == IF domain = "active" THEN {"domain"} ELSE {}

RouteTo(hs, d) == [h \in Hosts |-> IF h \in hs THEN d ELSE route[h]]

\* Mutant of Published: the custom domains keep the route they had.
PublishedNoDomains(e, w) ==
  CASE w = "route"   -> RouteTo({Host(e)}, D(e))
    [] w = "unroute" -> RouteTo({Host(e)}, NULL)
    [] OTHER         -> route

\* publishRoute() for the generated hostname or the active custom domains, withdrawRoute().
Published(e, w) ==
  CASE w = "route"   -> RouteTo({Host(e)}, D(e))
    [] w = "domains" -> RouteTo(DomainHosts, D(e))
    [] w = "unroute" -> RouteTo({Host(e)}, NULL)
    [] OTHER         -> route

\* publishFunction() or pointStaticSite(), the routes, the live key and the queue target.  The
\* alias carries the traffic: it moves before the route does, and the route's ARN never changes.
WriteTraffic(e, w) ==
  /\ points' = CASE w = "point"   -> [points EXCEPT ![Preset(D(e))][Host(e)] = D(e)]
                 [] w = "unpoint" -> [points EXCEPT ![Preset(D(e))][Host(e)] = NULL]
                 [] OTHER         -> points
  /\ route' = Published(e, w)
  /\ liveKey' = IF w = "key" THEN D(e) ELSE liveKey
  /\ queue' = IF w = "sync" /\ queue # "withdrawn" THEN "live" ELSE queue

\* Mutant of Retired: the preview it replaces stays ready.
RetiredNever(e) == status

\* retirePreviousPreview().
Retired(e) == IF prev[e] = NULL THEN status ELSE [status EXCEPT ![prev[e]] = "torn_down"]

\* The rows: the serving mode is claimed once, the deployment becomes ready, the project points at it.
WriteRows(e, w) ==
  LET claims == w = "claim" /\ mode = NULL IN
  /\ mode' = IF claims THEN Preset(D(e)) ELSE mode
  /\ claimed' = IF claims THEN claimed \cup {e} ELSE claimed
  /\ recorded' = IF w = "ready" THEN recorded \cup {D(e)} ELSE recorded
  /\ live' = IF w \in {"mark", "move"} THEN D(e) ELSE live
  /\ state' = IF w = "mark" THEN "ready" ELSE state
  /\ status' = CASE w = "ready"  -> [status EXCEPT ![D(e)] = "ready"]
                 [] w = "down"   -> [status EXCEPT ![D(e)] = "torn_down"]
                 [] w = "retire" -> Retired(e)
                 [] OTHER        -> status

Write(e) ==
  /\ pc[e] = "write" /\ todo[e] # <<>>
  /\ WriteTraffic(e, Head(todo[e]))
  /\ WriteRows(e, Head(todo[e]))
  /\ todo' = [todo EXCEPT ![e] = Tail(@)]
  /\ UNCHANGED <<setup, budget, mig, migrated, worldVars, pc, prev, tries, lock, readVars>>

\* The work is done and the lock is let go.
Complete(e) ==
  /\ pc[e] \in {"write", "undo"} /\ todo[e] = <<>>
  /\ IF pc[e] = "write" THEN Finish(e) ELSE Fail(e)
  /\ UNCHANGED <<setup, budget, rowVars, projectVars, worldVars, trafficVars, readVars>>

\* The lease was lost meanwhile: reported once the work is done, which fails the attempt.
LoseLease(e) ==
  /\ pc[e] = "write" /\ todo[e] = <<>> /\ Op(e) # "rollback"
  /\ Trouble("lease")
  /\ Fail(e)
  /\ UNCHANGED <<setup, rowVars, projectVars, worldVars, trafficVars, readVars>>

-----------------------------------------------------------------------------
(* A failed write: put traffic back before the attempt fails. *)

\* Something to go back to: a deployment of the same preset, with its hostname on the row.
Restorable(e) == prev[e] # NULL /\ prev[e] \in recorded /\ Preset(prev[e]) = Preset(D(e))

\* Mutant of RestoreWrites: the alias is left where it is.
RestoreWritesNoAlias(e) ==
  IF Slot(D(e)) = "live" THEN <<"route", "domains", "key", "live", "sync">> ELSE <<"route", "revive">>

\* restoreServerlessTraffic(), restorePreviousLive() and the static catch block.
RestoreWrites(e) ==
  IF Preset(D(e)) = "static"
  THEN IF Op(e) = "rollback" THEN <<"point", "key", "live">>
       ELSE IF Slot(D(e)) = "preview" THEN <<"point", "revive", "error">> ELSE <<"point", "error", "failed">>
  ELSE IF Slot(D(e)) = "preview" THEN <<"point", "route", "revive">>
       ELSE IF Op(e) = "rollback" THEN <<"point", "route", "domains", "key", "live">>
       ELSE <<"point", "route", "domains", "key", "live", "sync">>

\* The outer catch block: a release that failed says so on its rows.
FailureWrites(e) == IF Slot(D(e)) = "live" THEN <<"mode", "error", "failed">> ELSE <<"mode", "error">>

\* What a throw leaves to be written: traffic is put back if it may have moved.  A preview's
\* teardown undoes nothing.
UndoWrites(e) ==
  CASE Op(e) = "release"  -> (IF pc[e] = "write" THEN RestoreWrites(e) ELSE <<>>) \o FailureWrites(e)
    [] Op(e) = "rollback" -> IF pc[e] = "write" /\ Restorable(e) THEN RestoreWrites(e) ELSE <<>>
    [] Op(e) = "retire"   -> <<>>

\* A read or a write under the lock throws.
Throw(e) ==
  /\ pc[e] \in {"check", "migrate", "failed"} \/ (pc[e] = "write" /\ todo[e] # <<>>)
  /\ Trouble("throw")
  /\ pc' = [pc EXCEPT ![e] = "undo"]
  /\ todo' = [todo EXCEPT ![e] = UndoWrites(e)]
  /\ UNCHANGED <<setup, rowVars, projectVars, worldVars, trafficVars, prev, claimed, tries, lock, readVars>>

\* ProjectBusyError, or the lease went while waiting for the lock.
GiveUpWaiting(e) ==
  /\ pc[e] = "wait"
  /\ Trouble("throw")
  /\ Fail(e)
  /\ UNCHANGED <<setup, rowVars, projectVars, worldVars, trafficVars, readVars>>

Undo(e) ==
  /\ pc[e] = "undo" /\ todo[e] # <<>>
  /\ LET w == Head(todo[e])
         back == IF Restorable(e) THEN prev[e] ELSE NULL
     IN  /\ points' = IF w = "point" THEN [points EXCEPT ![Preset(D(e))][Host(e)] = back] ELSE points
         /\ route' = CASE w = "route"   -> [route EXCEPT ![Host(e)] = back]
                       [] w = "domains" -> RouteTo(DomainHosts, back)
                       [] OTHER         -> route
         /\ liveKey' = IF w = "key" THEN back ELSE liveKey
         /\ queue' = IF w = "sync" /\ queue # "withdrawn"
                     THEN (IF back = NULL THEN "none" ELSE "live") ELSE queue
         /\ live' = IF w = "live" THEN back ELSE live
         /\ mode' = IF w = "mode" /\ e \in claimed THEN NULL ELSE mode
         /\ state' = IF w = "failed" THEN "failed" ELSE state
         /\ status' = CASE w = "error" -> [status EXCEPT ![D(e)] = "error"]
                        [] w = "revive" /\ back # NULL -> [status EXCEPT ![back] = "ready"]
                        [] OTHER -> status
  /\ todo' = [todo EXCEPT ![e] = Tail(@)]
  /\ UNCHANGED <<setup, budget, recorded, mig, migrated, worldVars, pc, prev, claimed, tries, lock, readVars>>

\* Putting it back throws too: the attempt fails where it stands, unless it is the static catch
\* block that threw, which the outer one follows.
UndoThrows(e) ==
  /\ pc[e] = "undo" /\ todo[e] # <<>>
  /\ Trouble("throw")
  /\ IF Op(e) = "release" /\ Preset(D(e)) = "static" /\ Len(todo[e]) > Len(FailureWrites(e))
     THEN /\ todo' = [todo EXCEPT ![e] = FailureWrites(e)]
          /\ UNCHANGED <<pc, prev, claimed, tries, lock>>
     ELSE Fail(e)
  /\ UNCHANGED <<setup, rowVars, projectVars, worldVars, trafficVars, readVars>>

-----------------------------------------------------------------------------
(* Two writers without the lock, and the expiry of what they write. *)

\* refreshRoutes(): reads the live rows, then publishes the route and the key of each, lists its
\* active domains and publishes theirs.
RefreshRead ==
  /\ refresh = Idle /\ "refresh" \in setup.around
  /\ live # NULL /\ ~deleted /\ live \in recorded
  /\ refresh' = [row |-> live, todo |-> <<"route", "key", "list", "domain">>]
  /\ UNCHANGED <<setup, budget, rowVars, projectVars, worldVars, trafficVars, execVars, backfill>>

RefreshWrite ==
  /\ refresh # Idle
  /\ LET w == Head(refresh.todo) IN
       /\ route' = CASE w = "route"  -> [route EXCEPT !["live"] = refresh.row]
                     [] w = "domain" -> [route EXCEPT !["domain"] = refresh.row]
                     [] OTHER        -> route
       /\ liveKey' = IF w = "key" THEN refresh.row ELSE liveKey
       /\ refresh' = IF w = "domain" \/ (w = "list" /\ DomainHosts = {}) THEN Idle
                     ELSE [refresh EXCEPT !.todo = Tail(@)]
  /\ UNCHANGED <<setup, budget, rowVars, projectVars, worldVars, points, queue, execVars, backfill>>

\* Mutant of Durable: a deleted project is still found.
DurableDeleted(h) ==
  IF /\ live # NULL /\ live \in recorded /\ Preset(live) = "serverless"
     /\ h = "live" \/ h \in DomainHosts
  THEN live ELSE NULL

\* What the router's LOOKUP_SQL finds for a hostname.
Durable(h) ==
  IF /\ live # NULL /\ ~deleted /\ status[live] = "ready" /\ live \in recorded
     /\ Preset(live) = "serverless"
     /\ h = "live" \/ h \in DomainHosts
  THEN live ELSE NULL

\* A clean cache miss reads through to Postgres ...
RouterLookup(h) ==
  /\ backfill = Idle /\ "router" \in setup.around
  /\ route[h] = NULL /\ Durable(h) # NULL
  /\ backfill' = [row |-> Durable(h), todo |-> <<h>>]
  /\ UNCHANGED <<setup, budget, rowVars, projectVars, worldVars, trafficVars, execVars, refresh>>

\* ... and puts what it found into the cache, whatever has happened since.
RouterBackfill ==
  /\ backfill # Idle
  /\ route' = [route EXCEPT ![Head(backfill.todo)] = backfill.row]
  /\ backfill' = Idle
  /\ UNCHANGED <<setup, budget, rowVars, projectVars, worldVars, points, liveKey, queue, execVars, refresh>>

\* 24 hours after the last write of the key.
Expire(h) ==
  /\ route[h] # NULL /\ "expiry" \in setup.around
  /\ route' = [route EXCEPT ![h] = NULL]
  /\ UNCHANGED <<setup, budget, rowVars, projectVars, worldVars, points, liveKey, queue, execVars, readVars>>

ExpireKey ==
  /\ liveKey # NULL /\ "expiry" \in setup.around
  /\ liveKey' = NULL
  /\ UNCHANGED <<setup, budget, rowVars, projectVars, worldVars, points, route, queue, execVars, readVars>>

-----------------------------------------------------------------------------
Step(e) ==
  \/ Begin(e) \/ Acquire(e)
  \/ CheckRelease(e) \/ CheckRollback(e) \/ CheckRetire(e)
  \/ Migrate(e) \/ Invoke(e) \/ Migrated(e) \/ MigrationFailed(e)
  \/ Write(e) \/ Undo(e) \/ Complete(e)

Disturb(e) == Crash(e) \/ Die(e) \/ MigrationUnknown(e) \/ LoseLease(e) \/ Throw(e) \/ GiveUpWaiting(e)
              \/ UndoThrows(e)

Refresher == RefreshRead \/ RefreshWrite

Router == \/ \E h \in Hosts : RouterLookup(h)
          \/ RouterBackfill

Expiry == ExpireKey \/ \E h \in Hosts : Expire(h)

-----------------------------------------------------------------------------
(* Properties. *)

Statuses == {"queued", "deploying", "ready", "error", "torn_down"}
Migrations == {"absent", "pending", "running", "succeeded", "failed"}
Places == {"start", "wait", "check", "migrate", "invoke", "invoked", "failed", "write", "undo", "done", "dead"}
Maybe(S) == S \cup {NULL}

\* The types of what the release, rollback, preview and refresh code reads and writes.
ReleaseTypeOK ==
  /\ setup \in Setups /\ budget \in Nat
  /\ status \in [Deployments -> Statuses] /\ recorded \subseteq Deployments
  /\ mig \in [Deployments -> Migrations] /\ migrated \in [Deployments -> Nat]
  /\ live \in Maybe(Deployments) /\ mode \in Maybe(Presets)
  /\ state \in {"provisioning", "ready", "failed", "deleting", "deleted"}
  /\ deleted \in BOOLEAN /\ suspended \in BOOLEAN /\ domain \in {"active", "deleting", "gone"}
  /\ points \in [Presets -> [Slots -> Maybe(Deployments)]]
  /\ route \in [Hosts -> Maybe(Deployments)] /\ liveKey \in Maybe(Deployments)
  /\ queue \in {"none", "live", "withdrawn"}
  /\ pc \in [Execs -> Places] /\ prev \in [Execs -> Maybe(Deployments)]
  /\ claimed \subseteq Execs /\ tries \in [Execs -> Nat]

\* A migrator is invoked at most once for a deployment, whatever crashes, retries and second
\* executions of its job do: the status is read under the lock and "running" is never resumed.
MigratesOnce == \A d \in Deployments : migrated[d] <= 1

\* No alias and no static host ever points at a deployment whose migration has not succeeded:
\* code never serves ahead of its schema.
SchemaBeforeCode ==
  \A p \in Presets, s \in Slots :
    points[p][s] # NULL => mig[points[p][s]] \in {"absent", "succeeded"}

\* Everything that was started has ended, one way or the other.
Quiet == \A e \in Execs : pc[e] \in {"done", "dead"}

\* What the router answers for a hostname: the cached route, or else the durable one.
Resolves(h) == IF route[h] # NULL THEN route[h] ELSE Durable(h)

\* A closed pull request's preview is not brought back: once its teardown has finished the
\* deployment is never ready again.
ClosedStaysDown ==
  \A e \in Execs : Op(e) = "retire" /\ pc[e] = "done" => status[D(e)] # "ready"

\* A release whose migration failed and which nobody works on any more is marked as failed.
FailedMigrationIsMarked ==
  \A d \in Deployments :
    mig[d] = "failed" /\ (\A e \in Execs : D(e) = d => pc[e] \in {"done", "dead"})
      => status[d] \in {"error", "torn_down"}
=============================================================================
