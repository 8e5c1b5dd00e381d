------------------------------ MODULE Teardown ------------------------------
(***************************************************************************)
(* Deleting a project, composed with everything that can be serving it.    *)
(* The delete request marks the row and enqueues the teardown in one       *)
(* transaction; lib/typescript/jobs/src/teardown.ts then withdraws queue   *)
(* bindings, custom domains, static sites, routes, the function, the       *)
(* backend services, sandboxes and variables, one provider call at a time, *)
(* from the start again after any failure.  A teardown for nonpayment does *)
(* the same to a project whose row stays.                                  *)
(***************************************************************************)
EXTENDS Release

CONSTANTS
  Services,  \* backend services of the project
  KindOf,    \* [Services -> ServiceKinds]
  TD         \* the teardown job, a holder of the project lock

\* "bucket" is object storage with a bucket of its own, "prefix" with a shared one.
ServiceKinds == {"postgres", "bucket", "prefix", "valkey", "elasticsearch"}

ASSUME TeardownAssumption ==
  /\ KindOf \in [Services -> ServiceKinds]
  /\ TD \notin Execs /\ TD # NULL

VARIABLES
  reason,    \* deletionReason, NULL until the project is deleted
  tpc,       \* where the job is
  at,        \* the deployment or service it is at
  attempts,  \* attempts left
  job,       \* project_job.state
  there,     \* services whose provider resource exists
  instances, \* Postgres services with a live database_instance row
  rows,      \* services whose backend_service row is not deleted
  secrets,   \* the project's environment variables are kept
  sandboxes  \* the project's sandboxes exist

teardownVars == <<reason, tpc, at, attempts, job, there, instances, rows, secrets, sandboxes>>
vars == <<releaseVars, teardownVars>>

TeardownInit ==
  /\ Init
  /\ reason = NULL /\ tpc = "none" /\ at = NULL /\ attempts = Tries /\ job = "none"
  /\ there = Services /\ rows = Services
  /\ instances = {s \in Services : KindOf[s] = "postgres"}
  /\ secrets = TRUE /\ sandboxes = TRUE

Serviced == <<there, instances, rows>>

-----------------------------------------------------------------------------
\* provisionProject.removeInTransaction() and the enqueue of the job; or the cleanup of a claimed retention.
Delete(r) ==
  /\ tpc = "none"
  /\ reason' = r
  /\ IF r = "user_requested" THEN deleted' = TRUE /\ state' = "deleting" /\ UNCHANGED suspended
     ELSE suspended' = TRUE /\ UNCHANGED <<deleted, state>>
  /\ tpc' = "queued" /\ job' = "queued"
  /\ UNCHANGED <<setup, budget, rowVars, live, mode, domain, trafficVars, execVars, readVars,
                 at, attempts, Serviced, secrets, sandboxes>>

StayOthers == UNCHANGED <<setup, budget, recorded, mig, migrated, live, mode, deleted, suspended,
                          pc, todo, prev, claimed, tries, readVars, reason>>

TGoto(p) == tpc' = p /\ UNCHANGED <<attempts, lock, job>>

\* The job takes the lock and starts from the top.
TBegin ==
  /\ tpc = "queued" /\ lock = NULL
  /\ lock' = TD /\ tpc' = "queues" /\ job' = "running"
  /\ StayOthers
  /\ UNCHANGED <<status, state, domain, trafficVars, at, attempts, Serviced, secrets, sandboxes>>

\* withdrawQueue() leaves a tombstone.
TQueues ==
  /\ tpc = "queues"
  /\ queue' = IF \E s \in Services : KindOf[s] = "valkey" THEN "withdrawn" ELSE queue
  /\ TGoto("domain")
  /\ StayOthers
  /\ UNCHANGED <<status, state, domain, points, route, liveKey, at, Serviced, secrets, sandboxes>>

\* tearDownCustomDomain(): the row is marked, then the route is withdrawn, then the row is finished.
TDomain ==
  /\ tpc = "domain"
  /\ IF domain = "gone" THEN TGoto("static") /\ UNCHANGED domain
     ELSE TGoto("undomain") /\ domain' = "deleting"
  /\ StayOthers
  /\ UNCHANGED <<status, state, trafficVars, at, Serviced, secrets, sandboxes>>

TUndomain ==
  /\ tpc = "undomain"
  /\ route' = [route EXCEPT !["domain"] = NULL]
  /\ TGoto("undomained")
  /\ StayOthers
  /\ UNCHANGED <<status, state, domain, points, liveKey, queue, at, Serviced, secrets, sandboxes>>

TUndomained ==
  /\ tpc = "undomained"
  /\ domain' = "gone"
  /\ TGoto("static")
  /\ StayOthers
  /\ UNCHANGED <<status, state, trafficVars, at, Serviced, secrets, sandboxes>>

Remaining == {d \in Deployments : status[d] # "torn_down"}

\* removeStaticSite(), for the hostnames on the rows.
TStatic ==
  /\ tpc = "static"
  /\ LET slots == {Slot(d) : d \in {x \in Remaining \cap recorded : Preset(x) = "static"}} IN
       points' = [points EXCEPT !["static"] = [s \in Slots |-> IF s \in slots THEN NULL ELSE @[s]]]
  /\ TGoto("deployments")
  /\ StayOthers
  /\ UNCHANGED <<status, state, domain, route, liveKey, queue, at, Serviced, secrets, sandboxes>>

\* tearDownDeployment(): the route by the hostname on the row, ...
TWithdraw ==
  /\ tpc = "deployments"
  /\ \/ \E d \in Remaining :
            /\ at' = d
            /\ route' = IF d \in recorded THEN [route EXCEPT ![Slot(d)] = NULL] ELSE route
            /\ TGoto("function")
     \/ Remaining = {} /\ TGoto("services") /\ UNCHANGED <<at, route>>
  /\ StayOthers
  /\ UNCHANGED <<status, state, domain, points, liveKey, queue, Serviced, secrets, sandboxes>>

\* ... then the project's function with all its aliases, ...
TFunction ==
  /\ tpc = "function"
  /\ points' = [points EXCEPT !["serverless"] = [s \in Slots |-> NULL]]
  /\ TGoto("down")
  /\ StayOthers
  /\ UNCHANGED <<status, state, domain, route, liveKey, queue, at, Serviced, secrets, sandboxes>>

TornDown(d) == [status EXCEPT ![d] = "torn_down"]

\* ... then the row.
TDown ==
  /\ tpc = "down"
  /\ status' = TornDown(at)
  /\ TGoto("deployments")
  /\ StayOthers
  /\ UNCHANGED <<state, domain, trafficVars, at, Serviced, secrets, sandboxes>>

\* driverFor() wants a live database instance; a bucket can be emptied only while it is there.
Destroyable(s) ==
  /\ KindOf[s] = "postgres" => s \in instances
  /\ KindOf[s] = "bucket" => s \in there

TDestroy ==
  /\ tpc = "services"
  /\ \/ \E s \in rows :
            /\ Destroyable(s)
            /\ at' = s
            /\ there' = there \ {s}
            /\ TGoto("instance")
     \/ rows = {} /\ TGoto("sandboxes") /\ UNCHANGED <<at, there>>
  /\ StayOthers
  /\ UNCHANGED <<status, state, domain, trafficVars, instances, rows, secrets, sandboxes>>

\* The driver's own rows.
TInstance ==
  /\ tpc = "instance"
  /\ instances' = instances \ {at}
  /\ TGoto("row")
  /\ StayOthers
  /\ UNCHANGED <<status, state, domain, trafficVars, at, there, rows, secrets, sandboxes>>

TRow ==
  /\ tpc = "row"
  /\ rows' = rows \ {at}
  /\ TGoto("services")
  /\ StayOthers
  /\ UNCHANGED <<status, state, domain, trafficVars, at, there, instances, secrets, sandboxes>>

TSandboxes ==
  /\ tpc = "sandboxes"
  /\ sandboxes' = FALSE
  /\ TGoto(IF reason = "nonpayment" THEN "report" ELSE "secrets")
  /\ StayOthers
  /\ UNCHANGED <<status, state, domain, trafficVars, at, Serviced, secrets>>

TSecrets ==
  /\ tpc = "secrets"
  /\ secrets' = FALSE
  /\ TGoto("gone")
  /\ StayOthers
  /\ UNCHANGED <<status, state, domain, trafficVars, at, Serviced, sandboxes>>

TGone ==
  /\ tpc = "gone"
  /\ state' = "deleted"
  /\ TGoto("report")
  /\ StayOthers
  /\ UNCHANGED <<status, domain, trafficVars, at, Serviced, secrets, sandboxes>>

TReport ==
  /\ tpc = "report"
  /\ tpc' = "done" /\ job' = "succeeded" /\ lock' = NULL
  /\ StayOthers
  /\ UNCHANGED <<status, state, domain, trafficVars, at, attempts, Serviced, secrets, sandboxes>>

-----------------------------------------------------------------------------
Working == tpc \notin {"none", "queued", "done", "dead"}

AfterFailure(n) == IF n > 1 THEN "queued" ELSE "dead"

\* The attempt fails: every later attempt starts from the top.
TFail ==
  /\ attempts' = attempts - 1
  /\ tpc' = AfterFailure(attempts)
  /\ lock' = NULL /\ at' = NULL

TLeaveAlone == UNCHANGED <<setup, rowVars, projectVars, worldVars, trafficVars, pc, todo, prev, claimed,
                           tries, readVars, reason, job, Serviced, secrets, sandboxes>>

\* A service that cannot be destroyed fails the attempt.
TStuck ==
  /\ tpc = "services" /\ \E s \in rows : ~Destroyable(s)
  /\ TFail /\ UNCHANGED budget /\ TLeaveAlone

TThrow == Working /\ Trouble("throw") /\ TFail /\ TLeaveAlone

TCrash ==
  /\ Working /\ Trouble("crash")
  /\ tpc' = "queued" /\ lock' = NULL /\ at' = NULL
  /\ UNCHANGED attempts /\ TLeaveAlone

TStep ==
  \/ TBegin \/ TQueues \/ TDomain \/ TUndomain \/ TUndomained \/ TStatic
  \/ TWithdraw \/ TFunction \/ TDown \/ TDestroy \/ TInstance \/ TRow
  \/ TSandboxes \/ TSecrets \/ TGone \/ TReport \/ TStuck

ReleaseSide ==
  /\ \/ \E e \in Execs : Step(e) \/ Disturb(e)
     \/ Suspend \/ Refresher \/ Router \/ Expiry
  /\ UNCHANGED teardownVars

Next == \/ ReleaseSide
        \/ \E r \in setup.ends : Delete(r)
        \/ TStep \/ TThrow \/ TCrash

\* Workers, the refresher and the router keep going; what nobody writes again expires.
Fairness ==
  /\ \A e \in Execs : WF_vars(Step(e) /\ UNCHANGED teardownVars)
  /\ WF_vars(TStep)
  /\ WF_vars(RefreshRead /\ UNCHANGED teardownVars) /\ WF_vars(RefreshWrite /\ UNCHANGED teardownVars)
  /\ WF_vars(RouterBackfill /\ UNCHANGED teardownVars)
  /\ \A h \in Hosts : WF_vars(Expire(h) /\ UNCHANGED teardownVars)

Spec == TeardownInit /\ [][Next]_vars /\ Fairness

-----------------------------------------------------------------------------
(* Properties. *)

\* The types of the release state and of the teardown's own.
TypeOK ==
  /\ ReleaseTypeOK
  /\ lock \in Execs \cup {NULL, TD}
  /\ reason \in Maybe({"user_requested", "nonpayment"}) /\ attempts \in Nat
  /\ there \subseteq Services /\ instances \subseteq Services /\ rows \subseteq Services

\* Nothing is under way, nothing is being deleted and no rollback was cut short.
Ended ==
  /\ Quiet /\ tpc = "none"
  /\ \A e \in Execs : Op(e) = "rollback" => pc[e] # "dead"

\* The disturbances a project recovers from by itself: a job has more attempts than there are
\* disturbances, no suspension comes between a failed attempt and its retry, nothing fails while a
\* rollback is put back, and no first preview is of another serving mode than the first releases.
Mendable ==
  \A s \in Setups :
    /\ s.budget < Tries
    /\ "suspend" \in s.trouble => s.budget <= 1 \/ s.trouble \cap {"crash", "throw", "lease"} = {}
    /\ "throw" \in s.trouble /\ (\E e \in Execs : s.does[e].op = "rollback") => s.budget <= 1
    /\ s.live = NULL =>
         \A e, f \in Execs :
           /\ s.does[e].op = "release" /\ s.row[s.does[e].d].slot = "preview"
           /\ s.does[f].op = "release" /\ s.row[s.does[f].d].slot = "live"
           => s.row[s.does[e].d].preset = s.row[s.does[f].d].preset

\* Once everything has ended (Ended), what carries the traffic is what the project row says is live, its
\* serving mode is the project's, and the queue target is there exactly when a function is live.
TrafficFollowsPointer ==
  Ended =>
    /\ live # NULL => mode = Preset(live) /\ points[mode]["live"] = live /\ live \in recorded
    /\ live = NULL => \A p \in Presets : points[p]["live"] = NULL
    /\ (queue = "live") = (live # NULL /\ mode = "serverless")

\* A worker may fail, or the project may be suspended; the previews that are released, or retired.
Troubled(s) == s.budget > 0 /\ s.trouble \cap {"crash", "throw", "lease"} # {}
Suspendable(s) == s.budget > 0 /\ "suspend" \in s.trouble
PreviewsTo(s, op) ==
  {d \in Deployments : s.row[d].slot = "preview" /\ \E e \in Execs : s.does[e].op = op /\ s.does[e].d = d}

\* The previews that are not in each other's way after a failure: any number of them where no worker
\* fails, two where one does, and a suspension or a failure never together with the teardown of one of
\* several.
Tidy ==
  \A s \in Setups :
    LET apart == PreviewsTo(s, "release") \cap PreviewsTo(s, "retire") = {} IN
      \/ ~Troubled(s) /\ (Suspendable(s) => apart)
      \/ \E d \in Deployments : PreviewsTo(s, "release") \subseteq {d}
      \/ apart /\ \E c, d \in Deployments : PreviewsTo(s, "release") \subseteq {c, d}

\* Once everything has ended (Ended), at most one preview is ready: it is of the project's serving mode,
\* and the one the preview alias (or static host) of that mode points at.
OnePreview ==
  Ended =>
    \A d \in Deployments :
      Slot(d) = "preview" /\ status[d] = "ready" => mode = Preset(d) /\ points[mode]["preview"] = d

\* Every release, rollback and preview teardown comes to an end: no one waits for the lock for ever.
EveryoneFinishes == <>Quiet

\* A project that is not deleted ends with every hostname, and the live key, at the live release.
RoutesConverge ==
  <>[](deleted \/ suspended \/ live = NULL \/
       /\ Preset(live) = "serverless" => \A h \in {"live"} \cup DomainHosts : Resolves(h) = live
       /\ liveKey \in {live, NULL})

\* A deleted project goes dark for good, although the refresher and the router may write a route
\* they read before the deletion: the function goes with the teardown, the late routes expire.
DeletedGoesDark ==
  deleted ~> [](\A h \in Hosts : Resolves(h) = NULL /\ \A s \in Slots : points["serverless"][s] = NULL)

\* There is a deployment of the live slot: the function goes with a deployment that is torn down, and
\* previews alone may all have been torn down before.
LiveSlotTaken == \A s \in Setups : \E d \in Deployments : s.row[d].slot = "live"

\* What the project rented: its services and their rows, its sandboxes, the variables of a deleted one.
NothingRented == there = {} /\ rows = {} /\ ~sandboxes /\ (deleted => ~secrets)

\* A teardown that reports success has left nothing, whatever attempts of it died before, and nothing
\* comes back: a release, a rollback or a preview that waited for the lock behind it does not create the
\* function again, and no static host of a release whose hostname was recorded points anywhere.
DoneMeansGone ==
  tpc = "done" =>
    /\ NothingRented
    /\ \A s \in Slots : points["serverless"][s] = NULL /\ points["static"][s] \notin recorded

-----------------------------------------------------------------------------
(* What a comment of the code says and the model refutes. *)

\* A teardown that failed halfway is safe to run again: once asked for, it ends with nothing left.
TeardownCompletes == tpc = "queued" ~> tpc = "done" /\ NothingRented
=============================================================================
