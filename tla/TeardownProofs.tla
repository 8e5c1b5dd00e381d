--------------------------- MODULE TeardownProofs ---------------------------
(* Theorems about Release and Teardown together, for every set of deployments, jobs and requests. *)
EXTENDS Teardown, TLAPS

Outside  == {"start", "wait", "done", "dead"}

\* Who is past withProjectLock()'s acquisition holds the lock.
Held ==
  /\ \A e \in Execs : pc[e] \notin Outside => lock = e
  /\ Working => lock = TD

Types ==
  /\ setup \in Setups
  /\ pc \in [Execs -> Places] /\ todo = [e \in Execs |-> todo[e]]
  /\ mig \in [Deployments -> Migrations] /\ migrated \in [Deployments -> Nat]
  /\ recorded \subseteq Deployments
  /\ points \in [Presets -> [Slots -> Maybe(Deployments)]]

\* A migration is started from `pending` only, under the lock, after the row says `running`.
Migrating ==
  /\ \A d \in Deployments : migrated[d] <= 1 /\ (migrated[d] > 0 => mig[d] \in {"running", "succeeded", "failed"})
  /\ \A e \in Execs : /\ pc[e] = "migrate" => mig[D(e)] # "absent"
                      /\ pc[e] = "invoke" => mig[D(e)] = "running" /\ migrated[D(e)] = 0
                      /\ pc[e] = "invoked" => mig[D(e)] = "running"

Served(d) == mig[d] \in {"absent", "succeeded"}

\* Whoever is about to move traffic moves it to a deployment whose schema is there: a release after
\* its migration, a rollback to a deployment that has been ready, a compensation likewise.
Serving ==
  /\ \A d \in recorded : Served(d)
  /\ \A e \in Execs : /\ Op(e) = "rollback" /\ pc[e] \in {"wait", "check"} => D(e) \in recorded
                      /\ Op(e) = "retire" => todo[e] \in Seq({"unpoint", "unroute", "down"})
                      /\ Op(e) # "retire" /\ pc[e] = "write" => Served(D(e))

ProjectInv == Types /\ Held /\ Migrating /\ Serving /\ SchemaBeforeCode

\* What the setups promise.
LEMMA Situation ==
  ASSUME setup \in Setups
  PROVE  /\ \A e \in Execs : D(e) \in Deployments /\ Op(e) \in Ops
         /\ \A d \in Deployments : Slot(d) \in Slots /\ Preset(d) \in Presets
         /\ setup.live # NULL => setup.live \in Deployments /\ setup.row[setup.live].mig = "absent"
  BY ReleaseAssumption DEF SetupType, D, Op, Slot, Preset

\* An attempt that ends is outside the lock again.
LEMMA Exits ==
  ASSUME NEW e \in Execs
  PROVE  Finish(e) \/ Fail(e) => \E p \in {"start", "done", "dead"} : Leave(e, p)
  BY DEF Finish, Fail

\* The steps that leave the migrations, the hostnames on the rows, the traffic and the jobs alone.
Aside ==
  \/ Suspend \/ Refresher \/ Router \/ Expiry \/ UNCHANGED vars
  \/ \E r \in setup.ends : Delete(r)
  \/ TBegin \/ TQueues \/ TDomain \/ TUndomain \/ TUndomained \/ TWithdraw \/ TDown \/ TDestroy \/ TInstance
  \/ TRow \/ TSandboxes \/ TSecrets \/ TGone \/ TReport \/ TStuck \/ TThrow \/ TCrash

LEMMA AsideFrame == Aside => UNCHANGED <<setup, mig, migrated, recorded, points, pc, todo>>
  BY DEF Aside, Suspend, Refresher, RefreshRead, RefreshWrite, Router, RouterLookup, RouterBackfill, Expiry,
     Expire, ExpireKey, vars, releaseVars, Delete, StayOthers, TLeaveAlone, rowVars, trafficVars, execVars,
     TBegin, TQueues, TDomain, TUndomain, TUndomained, TWithdraw, TDown, TDestroy, TInstance, TRow, TSandboxes,
     TSecrets, TGone, TReport, TStuck, TThrow, TCrash

LEMMA NextCases ==
  ASSUME [Next]_vars
  PROVE  Aside \/ TStatic \/ TFunction \/ \E e \in Execs : Step(e) \/ Disturb(e)
  BY DEF Next, ReleaseSide, TStep, Aside

\* The lock: one holder at a time, who keeps it until its work ends.
LEMMA HeldStep ==
  ASSUME pc \in [Execs -> Places], Held, [Next]_vars
  PROVE  Held'
<1> USE DEF Held, Working
<1>1. NULL \notin Execs /\ TD \notin Execs /\ TD # NULL
  BY ReleaseAssumption, TeardownAssumption
<1>2. ASSUME NEW e \in Execs, NEW p \in {"start", "done", "dead"}, Leave(e, p), UNCHANGED tpc PROVE Held'
  BY <1>1, <1>2 DEF Leave, Unlocked, Outside
<1>3. ASSUME NEW e \in Execs, NEW p \in Places, pc' = [pc EXCEPT ![e] = p], UNCHANGED <<lock, tpc>>,
             pc[e] \notin Outside \/ p \in Outside
      PROVE  Held'
  BY <1>3 DEF Outside
<1>4. ASSUME NEW e \in Execs, Step(e), UNCHANGED teardownVars PROVE Held'
  <2>1. UNCHANGED tpc
    BY <1>4 DEF teardownVars
  <2>2. CASE Begin(e)
    BY <1>2, <1>3, <2>1, <2>2, Exits DEF Begin, Goto, Places, Outside
  <2>3. CASE Acquire(e)
    BY <1>1, <2>1, <2>3 DEF Acquire, Outside
  <2>4. CASE CheckRelease(e) \/ CheckRollback(e) \/ CheckRetire(e)
    BY <1>2, <1>3, <2>1, <2>4, Exits DEF CheckRelease, CheckRollback, CheckRetire, Places, Outside
  <2>5. CASE Migrate(e) \/ Invoke(e) \/ Migrated(e) \/ MigrationFailed(e)
    BY <1>2, <1>3, <2>1, <2>5, Exits DEF Migrate, Invoke, Migrated, MigrationFailed, Goto, Places, Outside
  <2>6. CASE Write(e) \/ Undo(e)
    BY <2>1, <2>6 DEF Write, Undo
  <2>7. CASE Complete(e)
    BY <1>2, <2>1, <2>7, Exits DEF Complete
  <2> QED
    BY <1>4, <2>2, <2>3, <2>4, <2>5, <2>6, <2>7 DEF Step
<1>5. ASSUME NEW e \in Execs, Disturb(e), UNCHANGED teardownVars PROVE Held'
  <2>1. UNCHANGED tpc
    BY <1>5 DEF teardownVars
  <2>2. CASE Throw(e)
    BY <1>3, <2>1, <2>2 DEF Throw, Places, Outside
  <2>3. CASE UndoThrows(e)
    BY <1>2, <2>1, <2>3, Exits DEF UndoThrows
  <2> QED
    BY <1>2, <1>5, <2>1, <2>2, <2>3, Exits DEF Disturb, Crash, Die, MigrationUnknown, LoseLease, GiveUpWaiting
<1>6. CASE UNCHANGED <<pc, lock, tpc>>
  BY <1>6
<1>7. CASE (Suspend \/ Refresher \/ Router \/ Expiry) /\ UNCHANGED teardownVars
  BY <1>6, <1>7 DEF Suspend, Refresher, RefreshRead, RefreshWrite, Router, RouterLookup, RouterBackfill, Expiry,
     Expire, ExpireKey, execVars, teardownVars
<1>8. ASSUME NEW r \in setup.ends, Delete(r) PROVE Held'
  BY <1>8 DEF Delete, execVars
<1>9. CASE TBegin
  BY <1>1, <1>9 DEF TBegin, StayOthers, Outside
<1>10. CASE TReport \/ TStuck \/ TThrow \/ TCrash
  BY <1>1, <1>10 DEF TReport, TStuck, TThrow, TCrash, TFail, AfterFailure, StayOthers, TLeaveAlone
<1>11. CASE TStep /\ ~TBegin /\ ~TReport /\ ~TStuck
  <2>1. UNCHANGED <<pc, lock>> /\ Working
    BY <1>11 DEF TStep, TQueues, TDomain, TUndomain, TUndomained, TStatic, TWithdraw, TFunction, TDown, TDestroy,
       TInstance, TRow, TSandboxes, TSecrets, TGone, StayOthers, TGoto
  <2> QED
    BY <2>1
<1>12. CASE UNCHANGED vars
  BY <1>6, <1>12 DEF vars, releaseVars, execVars, teardownVars
<1> QED
  BY <1>4, <1>5, <1>7, <1>8, <1>9, <1>10, <1>11, <1>12 DEF Next, ReleaseSide, TStep

\* Who is under the lock is alone there.
LEMMA Alone ==
  ASSUME Held, NEW e \in Execs, pc[e] \notin Outside
  PROVE  \A f \in Execs : f # e => pc[f] \in Outside
  BY DEF Held

\* Only the job or request itself moves.
Mine(e, p) ==
  /\ pc' = [pc EXCEPT ![e] = p] /\ p \in Places
  /\ todo' = [f \in Execs |-> todo'[f]]
  /\ \A f \in Execs : f # e => todo'[f] = todo[f]

LEMMA LeaveMine ==
  ASSUME Types, NEW e \in Execs, Finish(e) \/ Fail(e)
  PROVE  \E p \in {"start", "done", "dead"} : Mine(e, p) /\ todo'[e] = <<>>
<1>1. PICK p \in {"start", "done", "dead"} : Leave(e, p)
  BY Exits
<1>2. todo' = [todo EXCEPT ![e] = <<>>] /\ todo = [f \in Execs |-> todo[f]] /\ pc' = [pc EXCEPT ![e] = p]
  BY <1>1 DEF Leave, Types
<1> QED
  BY <1>2 DEF Mine, Places

\* The migration of a deployment is started once, by who holds the lock.
LEMMA MigratingStep ==
  ASSUME Types, Held, Migrating, [Next]_vars
  PROVE  Migrating' /\ (\A d \in Deployments : Served(d) => Served(d)')
<1> DEFINE Goal == Migrating' /\ (\A d \in Deployments : Served(d) => Served(d)')
<1> SUFFICES Goal
  OBVIOUS
<1>1. UNCHANGED setup
  BY NextCases, AsideFrame DEF TStatic, TFunction, StayOthers, Step, Disturb, Begin, Acquire, CheckRelease, CheckRollback, CheckRetire,
     Migrate, Invoke, Migrated, MigrationFailed, Write, Undo, Complete, Crash, Die, MigrationUnknown, LoseLease,
     Throw, GiveUpWaiting, UndoThrows
<1>2. \A e \in Execs : D(e) \in Deployments /\ D(e)' = D(e)
  BY <1>1, Situation DEF Types, D
<1>3. ASSUME UNCHANGED <<mig, migrated, pc>> PROVE Goal
  BY <1>2, <1>3 DEF Migrating, Served
<1>4. ASSUME NEW e \in Execs, NEW p, UNCHANGED <<mig, migrated>>, pc' = [pc EXCEPT ![e] = p],
             p \notin {"migrate", "invoke", "invoked"} \/ (p = "migrate" /\ mig[D(e)] # "absent")
      PROVE  Goal
  BY <1>2, <1>4 DEF Migrating, Served, Types
<1>5. ASSUME NEW e \in Execs, UNCHANGED <<mig, migrated>>, Finish(e) \/ Fail(e) PROVE Goal
  BY <1>4, <1>5, LeaveMine DEF Mine
<1>6. ASSUME NEW e \in Execs, Begin(e) \/ Acquire(e) \/ Complete(e) \/ Write(e) \/ Undo(e) PROVE Goal
  <2>1. UNCHANGED <<mig, migrated>>
    BY <1>6 DEF Begin, Acquire, Complete, Write, Undo, rowVars
  <2>2. UNCHANGED pc \/ Finish(e) \/ Fail(e) \/ \E p \in {"wait", "check"} : pc' = [pc EXCEPT ![e] = p]
    BY <1>6 DEF Begin, Acquire, Complete, Write, Undo, Goto
  <2> QED
    BY <1>3, <1>4, <1>5, <2>1, <2>2
<1>7. ASSUME NEW e \in Execs, CheckRelease(e) \/ CheckRollback(e) \/ CheckRetire(e) PROVE Goal
  <2>1. UNCHANGED <<mig, migrated>>
    BY <1>7 DEF CheckRelease, CheckRollback, CheckRetire, rowVars
  <2>2. \/ Finish(e) \/ pc' = [pc EXCEPT ![e] = "write"]
        \/ mig[D(e)] # "absent" /\ pc' = [pc EXCEPT ![e] = "migrate"]
    BY <1>7 DEF CheckRelease, CheckRollback, CheckRetire
  <2> QED
    BY <1>4, <1>5, <2>1, <2>2
<1>8. ASSUME NEW e \in Execs, Migrate(e) PROVE Goal
  <2>1. pc[e] = "migrate" /\ UNCHANGED migrated /\ mig[D(e)] # "absent" /\ \A f \in Execs : f # e => pc[f] \in Outside
    BY <1>8, Alone DEF Migrate, Migrating, Outside
  <2>2. CASE UNCHANGED mig /\ (Finish(e) \/ pc' = [pc EXCEPT ![e] = "write"])
    BY <1>4, <1>5, <2>1, <2>2
  <2>3. CASE mig[D(e)] = "running" /\ mig' = [mig EXCEPT ![D(e)] = "failed"] /\ Finish(e)
    <3>1. PICK p \in {"start", "done", "dead"} : pc' = [pc EXCEPT ![e] = p]
      BY <2>3, LeaveMine DEF Mine
    <3> QED
      BY <1>2, <2>1, <2>3, <3>1 DEF Migrating, Served, Types, Outside
  <2>4. CASE mig[D(e)] = "pending" /\ mig' = [mig EXCEPT ![D(e)] = "running"] /\ pc' = [pc EXCEPT ![e] = "invoke"]
    BY <1>2, <2>1, <2>4 DEF Migrating, Served, Types, Outside
  <2> QED
    BY <1>2, <1>8, <2>1, <2>2, <2>3, <2>4 DEF Migrate, Goto, migrationResumeAction, SetMigration, Types, Migrations
<1>9. ASSUME NEW e \in Execs, Invoke(e) PROVE Goal
  <2>1. /\ pc[e] = "invoke" /\ UNCHANGED mig /\ mig[D(e)] = "running" /\ migrated[D(e)] = 0
        /\ migrated' = [migrated EXCEPT ![D(e)] = @ + 1] /\ pc' = [pc EXCEPT ![e] = "invoked"]
        /\ \A f \in Execs : f # e => pc[f] \in Outside
    BY <1>9, Alone DEF Invoke, Goto, Migrating, Outside
  <2> QED
    BY <1>2, <2>1 DEF Migrating, Served, Types, Outside
<1>10. ASSUME NEW e \in Execs, Migrated(e) \/ MigrationUnknown(e) PROVE Goal
  <2>1. /\ mig[D(e)] = "running" /\ UNCHANGED migrated
        /\ \A f \in Execs : f # e => pc[f] \in Outside
    BY <1>10, Alone DEF Migrated, MigrationUnknown, Migrating, Outside
  <2>2. \E m \in {"succeeded", "failed"} : mig' = [mig EXCEPT ![D(e)] = m]
    BY <1>10 DEF Migrated, MigrationUnknown, SetMigration
  <2>3. \E p \in {"write", "failed", "start", "done", "dead"} : pc' = [pc EXCEPT ![e] = p]
    BY <1>10, LeaveMine DEF Migrated, MigrationUnknown, Goto, Mine
  <2> QED
    BY <1>2, <2>1, <2>2, <2>3 DEF Migrating, Served, Types, Outside
<1>11. ASSUME NEW e \in Execs, MigrationFailed(e) \/ LoseLease(e) \/ GiveUpWaiting(e) \/ UndoThrows(e) PROVE Goal
  <2>1. UNCHANGED <<mig, migrated>>
    BY <1>11 DEF MigrationFailed, LoseLease, GiveUpWaiting, UndoThrows, rowVars
  <2> QED
    BY <1>3, <1>5, <1>11, <2>1 DEF MigrationFailed, LoseLease, GiveUpWaiting, UndoThrows
<1>12. ASSUME NEW e \in Execs, Crash(e) \/ Die(e) \/ Throw(e) PROVE Goal
  <2>1. UNCHANGED <<mig, migrated>>
    BY <1>12 DEF Crash, Die, Throw, rowVars
  <2>2. \E p \in {"start", "dead", "undo"} : pc' = [pc EXCEPT ![e] = p]
    BY <1>12 DEF Crash, Die, Throw, Leave
  <2> QED
    BY <1>4, <2>1, <2>2
<1>13. CASE Aside \/ TStatic \/ TFunction
  BY <1>3, <1>13, AsideFrame DEF TStatic, TFunction, StayOthers
<1> QED
  BY <1>6, <1>7, <1>8, <1>9, <1>10, <1>11, <1>12, <1>13, NextCases DEF Step, Disturb

Traffic == [Presets -> [Slots -> Maybe(Deployments)]]

\* Where traffic stays, goes away or moves to a deployment whose schema is there, it never is ahead of
\* a schema.
LEMMA Pointed ==
  ASSUME ProjectInv, [Next]_vars
  PROVE  /\ UNCHANGED points => points' \in Traffic /\ SchemaBeforeCode'
         /\ \A p \in Presets, s \in Slots, x \in Maybe(Deployments) :
              (x # NULL => Served(x)) /\ points' = [points EXCEPT ![p][s] = x]
                => points' \in Traffic /\ SchemaBeforeCode'
         /\ (\A p \in Presets, s \in Slots : points'[p][s] \in {points[p][s], NULL})
              /\ points' \in Traffic => SchemaBeforeCode'
<1>1. points \in Traffic /\ \A d \in Deployments : Served(d) => Served(d)'
  BY MigratingStep DEF ProjectInv, Types, Traffic
<1>2. ASSUME points' \in Traffic,
             \A p \in Presets, s \in Slots : points'[p][s] # NULL => Served(points'[p][s])
      PROVE  SchemaBeforeCode'
  <2> SUFFICES ASSUME NEW p \in Presets, NEW s \in Slots, points'[p][s] # NULL
               PROVE  mig'[points'[p][s]] \in {"absent", "succeeded"}
    BY DEF SchemaBeforeCode
  <2>1. PICK d \in Deployments : d = points'[p][s]
    BY <1>2 DEF Traffic, Maybe
  <2>2. Served(d)'
    BY <1>1, <1>2, <2>1
  <2> QED
    BY <2>1, <2>2 DEF Served
<1>3. \A p \in Presets, s \in Slots : points[p][s] # NULL => Served(points[p][s])
  BY DEF ProjectInv, SchemaBeforeCode, Served
<1>4. ASSUME NEW p \in Presets, NEW s \in Slots, NEW x \in Maybe(Deployments), x # NULL => Served(x),
             points' = [points EXCEPT ![p][s] = x]
      PROVE  points' \in Traffic /\ SchemaBeforeCode'
  <2>1. points' \in Traffic
    BY <1>1, <1>4 DEF Traffic
  <2>2. \A q \in Presets, t \in Slots : points'[q][t] = IF q = p /\ t = s THEN x ELSE points[q][t]
    BY <1>1, <1>4 DEF Traffic
  <2> QED
    BY <1>2, <1>3, <1>4, <2>1, <2>2
<1>5. UNCHANGED points => points' \in Traffic /\ SchemaBeforeCode'
  BY <1>1, <1>2, <1>3
<1>6. ASSUME points' \in Traffic, \A p \in Presets, s \in Slots : points'[p][s] \in {points[p][s], NULL}
      PROVE  SchemaBeforeCode'
  BY <1>2, <1>3, <1>6
<1> QED
  BY <1>4, <1>5, <1>6

\* The types, and what is known of the hostnames, the writes left and the traffic, after a step.
After == Types' /\ Serving' /\ SchemaBeforeCode'

\* A step that records no hostname and leaves traffic where it is.
LEMMA StayingAfter ==
  ASSUME ProjectInv, [Next]_vars, UNCHANGED <<setup, recorded, points>>,
         mig' \in [Deployments -> Migrations], migrated' \in [Deployments -> Nat],
         NEW e \in Execs, NEW p, Mine(e, p),
         p \in {"wait", "check"} => pc[e] = "wait" \/ (Op(e) = "rollback" => D(e) \in recorded),
         Op(e) = "retire" => todo'[e] \in Seq({"unpoint", "unroute", "down"}),
         p = "write" => Op(e) = "retire" \/ Served(D(e))'
  PROVE  After
<1>1. \A f \in Execs : D(f) \in Deployments /\ D(f)' = D(f) /\ Op(f)' = Op(f)
  BY Situation DEF ProjectInv, Types, D, Op
<1>2. \A d \in Deployments : Served(d) => Served(d)'
  BY MigratingStep DEF ProjectInv
<1>3. \A f \in Execs : f # e => pc'[f] = pc[f] /\ todo'[f] = todo[f]
  BY DEF Mine, ProjectInv, Types
<1>4. pc'[e] = p
  BY DEF Mine, ProjectInv, Types
<1>5. Types'
  BY Pointed DEF Mine, ProjectInv, Types, Traffic
<1>6. ASSUME NEW f \in Execs
      PROVE  /\ Op(f) = "rollback" /\ pc'[f] \in {"wait", "check"} => D(f) \in recorded'
             /\ Op(f) = "retire" => todo'[f] \in Seq({"unpoint", "unroute", "down"})
             /\ Op(f) # "retire" /\ pc'[f] = "write" => Served(D(f))'
  <2>1. CASE f = e
    BY <1>4, <2>1 DEF ProjectInv, Serving
  <2>2. CASE f # e
    <3>1. Served(D(f)) => Served(D(f))'
      BY <1>1, <1>2 DEF Served
    <3> QED
      BY <1>3, <2>2, <3>1 DEF ProjectInv, Serving
  <2> QED
    BY <2>1, <2>2
<1>7. \A d \in recorded' : Served(d)'
  BY <1>2 DEF ProjectInv, Serving, Types
<1> QED
  BY <1>1, <1>5, <1>6, <1>7, Pointed DEF After, Serving

\* What jobs and requests do before and after their writes.
LEMMA WaitingAfter ==
  ASSUME ProjectInv, [Next]_vars, NEW e \in Execs,
         \/ Begin(e) \/ Acquire(e) \/ Complete(e) \/ MigrationFailed(e) \/ Crash(e) \/ Die(e) \/ LoseLease(e)
         \/ GiveUpWaiting(e)
  PROVE  After
<1>1. UNCHANGED <<setup, recorded, points, mig, migrated>> /\ Types
  BY DEF Begin, Acquire, Complete, MigrationFailed, Crash, Die, LoseLease, GiveUpWaiting, rowVars, trafficVars, ProjectInv
<1>2. mig' \in [Deployments -> Migrations] /\ migrated' \in [Deployments -> Nat]
  BY <1>1 DEF Types
<1>3. <<>> \in Seq({"unpoint", "unroute", "down"})
  OBVIOUS
<1>4. CASE Finish(e) \/ Fail(e)
  <2>1. PICK p \in {"start", "done", "dead"} : Mine(e, p) /\ todo'[e] = <<>>
    BY <1>1, <1>4, LeaveMine
  <2> QED
    BY <1>1, <1>2, <1>3, <2>1, StayingAfter
<1>5. CASE Crash(e) \/ Die(e)
  <2>1. PICK p \in {"start", "dead"} : Leave(e, p)
    BY <1>5 DEF Crash, Die
  <2>2. todo' = [todo EXCEPT ![e] = <<>>] /\ todo = [f \in Execs |-> todo[f]] /\ pc' = [pc EXCEPT ![e] = p]
    BY <1>1, <2>1 DEF Leave, Types
  <2>3. Mine(e, p) /\ todo'[e] = <<>>
    BY <2>2 DEF Mine, Places
  <2> QED
    BY <1>1, <1>2, <1>3, <2>3, StayingAfter
<1>6. CASE Begin(e) /\ Goto(e, "wait") /\ ~Moot(e)
  <2>1. Mine(e, "wait") /\ todo'[e] = todo[e]
    BY <1>1, <1>6 DEF Goto, Mine, Types, Places
  <2>2. (Op(e) = "rollback" => D(e) \in recorded) /\ (Op(e) = "retire" => todo[e] \in Seq({"unpoint", "unroute", "down"}))
    BY <1>6 DEF Moot, ProjectInv, Serving
  <2> QED
    BY <1>1, <1>2, <2>1, <2>2, StayingAfter
<1>7. CASE Acquire(e)
  <2>1. Mine(e, "check") /\ todo'[e] = todo[e] /\ pc[e] = "wait"
    BY <1>1, <1>7 DEF Acquire, Mine, Types, Places
  <2>2. Op(e) = "retire" => todo[e] \in Seq({"unpoint", "unroute", "down"})
    BY DEF ProjectInv, Serving
  <2> QED
    BY <1>1, <1>2, <2>1, <2>2, StayingAfter
<1> QED
  BY <1>4, <1>5, <1>6, <1>7 DEF Begin, Complete, MigrationFailed, LoseLease, GiveUpWaiting

\* The checks under the lock and the migration.
LEMMA CheckingAfter ==
  ASSUME ProjectInv, [Next]_vars, NEW e \in Execs,
         \/ CheckRelease(e) \/ CheckRollback(e) \/ CheckRetire(e)
         \/ Migrate(e) \/ Invoke(e) \/ Migrated(e) \/ MigrationUnknown(e)
  PROVE  After
<1>1. UNCHANGED <<setup, recorded, points>> /\ Types /\ D(e) \in Deployments /\ UNCHANGED D(e)
  BY Situation DEF CheckRelease, CheckRollback, CheckRetire, Migrate, Invoke, Migrated, MigrationUnknown,
     rowVars, trafficVars, ProjectInv, Types, D
<1>2. mig' \in [Deployments -> Migrations]
  BY <1>1 DEF CheckRelease, CheckRollback, CheckRetire, Migrate, Invoke, Migrated, MigrationUnknown, rowVars,
     SetMigration, Types, Migrations
<1>3. migrated' \in [Deployments -> Nat]
  BY <1>1 DEF CheckRelease, CheckRollback, CheckRetire, Migrate, Invoke, Migrated, MigrationUnknown, rowVars, Types
<1>4. Op(e) = "retire" => todo[e] \in Seq({"unpoint", "unroute", "down"})
  BY DEF ProjectInv, Serving
<1>5. CASE Finish(e)
  <2>1. PICK p \in {"start", "done", "dead"} : Mine(e, p) /\ todo'[e] = <<>>
    BY <1>1, <1>5, LeaveMine
  <2>2. <<>> \in Seq({"unpoint", "unroute", "down"})
    OBVIOUS
  <2> QED
    BY <1>1, <1>2, <1>3, <2>1, <2>2, StayingAfter
<1>6. ASSUME NEW p \in Places, NEW ws, pc' = [pc EXCEPT ![e] = p], todo' = [todo EXCEPT ![e] = ws],
             p \notin {"wait", "check"}, Op(e) = "retire" => ws \in Seq({"unpoint", "unroute", "down"}),
             p = "write" => Op(e) = "retire" \/ Served(D(e))'
      PROVE  After
  <2>1. Mine(e, p) /\ todo'[e] = ws
    BY <1>1, <1>6 DEF Mine, Types
  <2> QED
    BY <1>1, <1>2, <1>3, <1>6, <2>1, StayingAfter
<1>7. CASE CheckRelease(e) /\ ~Finish(e)
  <2>1. /\ UNCHANGED mig /\ Op(e) = "release"
        /\ todo' = [todo EXCEPT ![e] = ReleaseWrites(D(e))]
        /\ pc' = [pc EXCEPT ![e] = IF mig[D(e)] = "absent" THEN "write" ELSE "migrate"]
    BY <1>7 DEF CheckRelease
  <2>2. mig[D(e)] = "absent" => Served(D(e))'
    BY <1>1, <2>1 DEF Served
  <2> QED
    BY <1>6, <2>1, <2>2 DEF Places
<1>8. CASE CheckRollback(e) /\ ~Finish(e)
  <2>1. /\ UNCHANGED mig /\ Op(e) = "rollback" /\ pc[e] = "check"
        /\ todo' = [todo EXCEPT ![e] = RollbackWrites(D(e))]
        /\ pc' = [pc EXCEPT ![e] = "write"]
    BY <1>8 DEF CheckRollback, rowVars
  <2>2. Served(D(e))
    BY <2>1 DEF ProjectInv, Serving
  <2>3. Served(D(e))'
    BY <1>1, <2>1, <2>2 DEF Served
  <2> QED
    BY <1>6, <2>1, <2>3 DEF Places
<1>9. CASE CheckRetire(e) /\ ~Finish(e)
  <2>1. /\ Op(e) = "retire"
        /\ todo' = [todo EXCEPT ![e] = RetireWrites(D(e))] /\ pc' = [pc EXCEPT ![e] = "write"]
    BY <1>9 DEF CheckRetire
  <2>2. RetireWrites(D(e)) \in Seq({"unpoint", "unroute", "down"})
    <3> DEFINE S == {"unpoint", "unroute", "down"}
    <3>1. "unpoint" \in S /\ "unroute" \in S /\ "down" \in S
      OBVIOUS
    <3> HIDE DEF S
    <3>2. <<"down">> \in Seq(S) /\ <<"unpoint", "down">> \in Seq(S) /\ <<"unpoint", "unroute", "down">> \in Seq(S)
      BY <3>1
    <3>3. RetireWrites(D(e)) \in {<<"down">>, <<"unpoint", "down">>, <<"unpoint", "unroute", "down">>}
      BY DEF RetireWrites
    <3>4. RetireWrites(D(e)) \in Seq(S)
      BY <3>2, <3>3
    <3> QED
      BY <3>4 DEF S
  <2> QED
    BY <1>6, <2>1, <2>2 DEF Places
<1>10. CASE (Migrate(e) \/ Invoke(e) \/ Migrated(e)) /\ ~Finish(e)
  <2>1. PICK p \in {"write", "invoke", "invoked", "failed"} :
          /\ pc' = [pc EXCEPT ![e] = p] /\ UNCHANGED todo
          /\ p = "write" => mig'[D(e)] = "succeeded"
    BY <1>1, <1>10 DEF Migrate, Invoke, Migrated, Goto, SetMigration, migrationResumeAction, Types, Migrations
  <2>2. todo' = [todo EXCEPT ![e] = todo[e]]
    BY <1>1, <2>1 DEF Types
  <2>3. p = "write" => Served(D(e))'
    BY <1>1, <2>1 DEF Served
  <2> QED
    BY <1>4, <1>6, <2>1, <2>2, <2>3 DEF Places
<1> QED
  BY <1>5, <1>7, <1>8, <1>9, <1>10 DEF MigrationUnknown

\* The writes and the compensation.
LEMMA WritingAfter ==
  ASSUME ProjectInv, [Next]_vars, NEW e \in Execs, Write(e) \/ Undo(e) \/ Throw(e) \/ UndoThrows(e)
  PROVE  After
<1>1. Types /\ UNCHANGED <<setup, mig, migrated>> /\ D(e) \in Deployments
  BY Situation DEF Write, Undo, Throw, UndoThrows, rowVars, ProjectInv, Types
<1>2. mig' \in [Deployments -> Migrations] /\ migrated' \in [Deployments -> Nat]
  BY <1>1 DEF Types
<1>3. Op(e) = "retire" => todo[e] \in Seq({"unpoint", "unroute", "down"})
  BY DEF ProjectInv, Serving
<1>4. <<>> \in Seq({"unpoint", "unroute", "down"})
  OBVIOUS
<1>5. CASE Throw(e)
  <2>1. UNCHANGED <<recorded, points>> /\ pc' = [pc EXCEPT ![e] = "undo"] /\ todo' = [todo EXCEPT ![e] = UndoWrites(e)]
    BY <1>5 DEF Throw, rowVars, trafficVars
  <2>2. Mine(e, "undo") /\ todo'[e] = UndoWrites(e)
    BY <1>1, <2>1 DEF Mine, Types, Places
  <2>3. Op(e) = "retire" => UndoWrites(e) = <<>>
    BY DEF UndoWrites
  <2> QED
    BY <1>1, <1>2, <1>4, <2>1, <2>2, <2>3, StayingAfter
<1>6. CASE UndoThrows(e)
  <2>1. UNCHANGED <<recorded, points>> /\ pc[e] = "undo"
    BY <1>6 DEF UndoThrows, rowVars, trafficVars
  <2>2. CASE Fail(e)
    <3>1. PICK p \in {"start", "done", "dead"} : Mine(e, p) /\ todo'[e] = <<>>
      BY <1>1, <2>2, LeaveMine
    <3> QED
      BY <1>1, <1>2, <1>4, <2>1, <3>1, StayingAfter
  <2>3. CASE ~Fail(e)
    <3>1. Op(e) = "release" /\ todo' = [todo EXCEPT ![e] = FailureWrites(e)] /\ UNCHANGED pc
      BY <1>6, <2>3 DEF UndoThrows
    <3>2. Mine(e, "undo")
      BY <1>1, <2>1, <3>1 DEF Mine, Types, Places
    <3> QED
      BY <1>1, <1>2, <2>1, <3>1, <3>2, StayingAfter
  <2> QED
    BY <2>2, <2>3
<1>7. CASE Write(e) \/ Undo(e)
  <2> DEFINE w == Head(todo[e])
  <2>1. UNCHANGED pc /\ todo[e] # <<>> /\ todo' = [todo EXCEPT ![e] = Tail(@)] /\ pc[e] \in {"write", "undo"}
        /\ (pc[e] = "write" <=> Write(e))
    BY <1>7 DEF Write, Undo
  <2>2. Op(e) = "retire" => w \in {"unpoint", "unroute", "down"} /\ Tail(todo[e]) \in Seq({"unpoint", "unroute", "down"})
    BY <1>3, <2>1
  <2>3. todo' = [f \in Execs |-> todo'[f]] /\ todo'[e] = Tail(todo[e]) /\ \A f \in Execs : f # e => todo'[f] = todo[f]
    BY <1>1, <2>1 DEF Types
  <2>4. Preset(D(e)) \in Presets /\ Host(e) \in Slots
    BY <1>1, Situation DEF Types, Host
  <2>5. /\ recorded \subseteq recorded' /\ recorded' \subseteq Deployments
        /\ \A d \in recorded' : Served(d)
    <3>1. CASE Undo(e)
      BY <3>1 DEF Undo, ProjectInv, Types, Serving
    <3>2. CASE Write(e)
      <4>1. recorded' = IF w = "ready" THEN recorded \cup {D(e)} ELSE recorded
        BY <3>2 DEF Write, WriteRows
      <4>2. w = "ready" => Served(D(e))
        BY <2>1, <2>2, <3>2 DEF ProjectInv, Serving
      <4> QED
        BY <1>1, <4>1, <4>2 DEF ProjectInv, Types, Serving
    <3> QED
      BY <1>7, <3>1, <3>2
  <2>6. points' \in Traffic /\ SchemaBeforeCode'
    <3>1. CASE Write(e)
      <4>1. points' = CASE w = "point"   -> [points EXCEPT ![Preset(D(e))][Host(e)] = D(e)]
                        [] w = "unpoint" -> [points EXCEPT ![Preset(D(e))][Host(e)] = NULL]
                        [] OTHER         -> points
        BY <3>1 DEF Write, WriteTraffic
      <4>2. w = "point" => Served(D(e))
        BY <2>1, <2>2, <3>1 DEF ProjectInv, Serving
      <4>3. D(e) \in Maybe(Deployments) /\ NULL \in Maybe(Deployments)
        BY <1>1 DEF Maybe
      <4> QED
        BY <2>4, <4>1, <4>2, <4>3, Pointed
    <3>2. CASE Undo(e)
      <4> DEFINE back == IF Restorable(e) THEN prev[e] ELSE NULL
      <4>1. points' = IF w = "point" THEN [points EXCEPT ![Preset(D(e))][Host(e)] = back] ELSE points
        BY <3>2 DEF Undo
      <4>2. back \in Maybe(Deployments) /\ (back # NULL => Served(back))
        BY <1>1 DEF Restorable, Maybe, ProjectInv, Types, Serving
      <4> HIDE DEF back
      <4> QED
        BY <2>4, <4>1, <4>2, Pointed
    <3> QED
      BY <1>7, <3>1, <3>2
  <2>7. Types'
    BY <1>1, <1>2, <2>1, <2>3, <2>5, <2>6 DEF Types, Traffic
  <2>8. \A f \in Execs : D(f)' = D(f) /\ Op(f)' = Op(f)
    BY <1>1 DEF D, Op
  <2>9. ASSUME NEW f \in Execs
        PROVE  /\ Op(f) = "rollback" /\ pc'[f] \in {"wait", "check"} => D(f) \in recorded'
               /\ Op(f) = "retire" => todo'[f] \in Seq({"unpoint", "unroute", "down"})
               /\ Op(f) # "retire" /\ pc'[f] = "write" => mig'[D(f)] \in {"absent", "succeeded"}
    <3>1. CASE f = e
      BY <1>1, <2>1, <2>2, <2>3, <2>5, <3>1 DEF ProjectInv, Serving, Served
    <3>2. CASE f # e
      BY <1>1, <2>1, <2>3, <2>5, <3>2 DEF ProjectInv, Serving, Served
    <3> QED
      BY <3>1, <3>2
  <2> QED
    BY <1>1, <2>5, <2>6, <2>7, <2>8, <2>9 DEF After, Serving, Served
<1> QED
  BY <1>5, <1>6, <1>7

\* Everyone else: traffic goes away at most.
LEMMA OthersAfter ==
  ASSUME ProjectInv, [Next]_vars, Aside \/ TStatic \/ TFunction
  PROVE  After
<1>1. UNCHANGED <<setup, mig, migrated, recorded, pc, todo>> /\ Types
  BY AsideFrame DEF TStatic, TFunction, StayOthers, ProjectInv
<1>2. points' \in Traffic /\ SchemaBeforeCode'
  <2>1. CASE Aside
    BY <2>1, AsideFrame, Pointed
  <2>2. CASE TStatic
    <3>1. PICK T : points' = [points EXCEPT !["static"] = [s \in Slots |-> IF s \in T THEN NULL ELSE points["static"][s]]]
      BY <2>2 DEF TStatic
    <3>2. points \in Traffic /\ "static" \in Presets /\ NULL \in Maybe(Deployments)
      BY <1>1 DEF Types, Traffic, Presets, Maybe
    <3>3. points' \in Traffic /\ \A p \in Presets, s \in Slots : points'[p][s] \in {points[p][s], NULL}
      BY <3>1, <3>2 DEF Traffic
    <3> QED
      BY <3>3, Pointed
  <2>3. CASE TFunction
    <3>1. points' = [points EXCEPT !["serverless"] = [s \in Slots |-> NULL]]
      BY <2>3 DEF TFunction
    <3>2. points \in Traffic /\ "serverless" \in Presets /\ NULL \in Maybe(Deployments)
      BY <1>1 DEF Types, Traffic, Presets, Maybe
    <3>3. points' \in Traffic /\ \A p \in Presets, s \in Slots : points'[p][s] \in {points[p][s], NULL}
      BY <3>1, <3>2 DEF Traffic
    <3> QED
      BY <3>3, Pointed
  <2> QED
    BY <2>1, <2>2, <2>3
<1>3. Types'
  BY <1>1, <1>2 DEF Types, Traffic
<1>4. Serving'
  BY <1>1 DEF ProjectInv, Serving, Served, Op, D
<1> QED
  BY <1>2, <1>3, <1>4 DEF After

LEMMA ProjectInit == TeardownInit => ProjectInv
<1> SUFFICES ASSUME TeardownInit PROVE ProjectInv
  OBVIOUS
<1> USE DEF TeardownInit, Init
<1>1. setup \in SetupType
  BY ReleaseAssumption
<1>2. live # NULL => live \in Deployments /\ mig[live] = "absent"
  BY <1>1, Situation
<1>3. mig \in [Deployments -> Migrations] /\ migrated \in [Deployments -> Nat] /\ recorded \subseteq Deployments
  BY <1>1, <1>2 DEF SetupType, Migrations
<1>4. points \in Traffic /\ SchemaBeforeCode
  BY <1>2 DEF Traffic, Maybe, SchemaBeforeCode
<1>5. pc \in [Execs -> Places] /\ \A e \in Execs : pc[e] = "start" /\ todo[e] = <<>>
  BY DEF Places
<1>6. Types
  BY <1>3, <1>4, <1>5 DEF Types, Traffic
<1>7. Held
  BY <1>5 DEF Held, Outside, Working
<1>8. Migrating
  BY <1>5 DEF Migrating
<1>9. Serving
  <2>1. \A d \in recorded : Served(d)
    <3>1. recorded = {live} \ {NULL}
      OBVIOUS
    <3> QED
      BY <1>2, <3>1 DEF Served
  <2>2. <<>> \in Seq({"unpoint", "unroute", "down"})
    OBVIOUS
  <2> QED
    BY <1>5, <2>1, <2>2 DEF Serving
<1> QED
  BY <1>4, <1>6, <1>7, <1>8, <1>9 DEF ProjectInv

THEOREM ProjectInvariant == Spec => []ProjectInv
<1>1. ProjectInv /\ [Next]_vars => ProjectInv'
  <2> SUFFICES ASSUME ProjectInv, [Next]_vars PROVE ProjectInv'
    OBVIOUS
  <2>1. After
    BY NextCases, OthersAfter, WaitingAfter, CheckingAfter, WritingAfter DEF Step, Disturb
  <2>2. Held' /\ Migrating'
    BY HeldStep, MigratingStep DEF ProjectInv, Types
  <2> QED
    BY <2>1, <2>2 DEF After, ProjectInv
<1> QED
  BY <1>1, ProjectInit, PTL DEF Spec

\* A migrator is invoked at most once for a deployment, whatever crashes, retries, second executions
\* and the project's deletion do.
THEOREM MigratesAtMostOnce == Spec => []MigratesOnce
<1>1. ProjectInv => MigratesOnce
  BY DEF ProjectInv, Migrating, MigratesOnce
<1> QED
  BY <1>1, ProjectInvariant, PTL

\* No alias and no static host ever points at a deployment whose migration has not succeeded, neither
\* through a release nor through a rollback or the compensation of either.
THEOREM SchemaComesFirst == Spec => []SchemaBeforeCode
<1>1. ProjectInv => SchemaBeforeCode
  BY DEF ProjectInv
<1> QED
  BY <1>1, ProjectInvariant, PTL

-----------------------------------------------------------------------------
(* Traffic follows the pointer: lists of writes. *)

\* The names of the writes in a list, and of those an operation has left.
Names(q) == {q[i] : i \in DOMAIN q}
Left(e)  == Names(todo[e])

\* The live pointer is written after everything but the queue target, the preview that is replaced is
\* retired last, and the serving mode is given back after everything but the marks of a failure.
InOrder(q) ==
  \A i, j \in DOMAIN q : i < j =>
    /\ q[i] = "mark" => q[j] = "sync"
    /\ q[i] = "sync" => q[j] \in {"mode", "error", "failed"}
    /\ q[i] = "mode" => q[j] \in {"error", "failed"}
    /\ q[i] # "retire"

\* Everything that is written, or put back, under the lock.
Writes == {"point", "route", "domains", "key", "claim", "ready", "mark", "sync", "retire", "move", "unpoint",
           "unroute", "down", "live", "revive", "mode", "error", "failed"}

\* Nothing is left of an empty list.
LEMMA NoNames == Names(<<>>) = {} /\ InOrder(<<>>) /\ <<>> \in Seq(Writes)
BY DEF Names, InOrder

\* Writing the head of a list: what is left, and in which order.
LEMMA Turn ==
  ASSUME NEW q \in Seq(Writes), q # <<>>, InOrder(q)
  PROVE  /\ Tail(q) \in Seq(Writes) /\ InOrder(Tail(q))
         /\ Head(q) \in Names(q)
         /\ Names(Tail(q)) \subseteq Names(q) /\ Names(q) \subseteq Names(Tail(q)) \cup {Head(q)}
         /\ Head(q) = "mark" => Names(Tail(q)) \subseteq {"sync"}
         /\ Head(q) = "sync" => Names(Tail(q)) \subseteq {"mode", "error", "failed"}
         /\ Head(q) = "mode" => Names(Tail(q)) \subseteq {"error", "failed"}
         /\ Head(q) = "retire" => Names(Tail(q)) = {}
<1> DEFINE r == Tail(q)
<1>1. Len(q) \in Nat \ {0} /\ DOMAIN q = 1 .. Len(q) /\ Head(q) = q[1]
  OBVIOUS
<1>2. r \in Seq(Writes) /\ DOMAIN r = 1 .. (Len(q) - 1) /\ \A i \in DOMAIN r : r[i] = q[i + 1]
  OBVIOUS
<1> HIDE DEF r
<1>3. \A i \in DOMAIN r : i + 1 \in DOMAIN q /\ 1 < i + 1 /\ 1 \in DOMAIN q
  BY <1>1, <1>2
<1>4. Names(r) \subseteq Names(q)
  BY <1>2, <1>3 DEF Names
<1>5. Names(q) \subseteq Names(r) \cup {Head(q)}
  <2> SUFFICES ASSUME NEW i \in DOMAIN q, i # 1 PROVE q[i] \in Names(r)
    BY <1>1 DEF Names
  <2>1. i - 1 \in DOMAIN r /\ r[i - 1] = q[i]
    BY <1>1, <1>2
  <2> QED
    BY <2>1 DEF Names
<1>6. InOrder(r)
  <2> SUFFICES ASSUME NEW i \in DOMAIN r, NEW j \in DOMAIN r, i < j
               PROVE  /\ r[i] = "mark" => r[j] = "sync"
                      /\ r[i] = "sync" => r[j] \in {"mode", "error", "failed"}
                      /\ r[i] = "mode" => r[j] \in {"error", "failed"}
                      /\ r[i] # "retire"
    BY DEF InOrder
  <2>1. i + 1 < j + 1 /\ i + 1 \in DOMAIN q /\ j + 1 \in DOMAIN q
    BY <1>2, <1>3
  <2> QED
    BY <1>2, <2>1 DEF InOrder
<1>7. \A i \in DOMAIN r : /\ q[1] = "mark" => r[i] = "sync"
                          /\ q[1] = "sync" => r[i] \in {"mode", "error", "failed"}
                          /\ q[1] = "mode" => r[i] \in {"error", "failed"}
                          /\ q[1] # "retire"
  BY <1>2, <1>3 DEF InOrder
<1>8. Head(q) \in Names(q)
  BY <1>1 DEF Names
<1>9. /\ Head(q) = "mark" => Names(r) \subseteq {"sync"}
      /\ Head(q) = "sync" => Names(r) \subseteq {"mode", "error", "failed"}
      /\ Head(q) = "mode" => Names(r) \subseteq {"error", "failed"}
      /\ Head(q) = "retire" => Names(r) = {}
  <2> SUFFICES ASSUME NEW n \in Names(r)
               PROVE  /\ Head(q) = "mark" => n = "sync"
                      /\ Head(q) = "sync" => n \in {"mode", "error", "failed"}
                      /\ Head(q) = "mode" => n \in {"error", "failed"}
                      /\ Head(q) # "retire"
    OBVIOUS
  <2>1. PICK i \in DOMAIN r : n = r[i]
    BY DEF Names
  <2>2. /\ q[1] = "mark" => r[i] = "sync"
        /\ q[1] = "sync" => r[i] \in {"mode", "error", "failed"}
        /\ q[1] = "mode" => r[i] \in {"error", "failed"}
        /\ q[1] # "retire"
    BY <1>7
  <2>3. Head(q) = q[1]
    BY <1>1
  <2> QED
    BY <2>1, <2>2, <2>3
<1> QED
  BY <1>2, <1>4, <1>5, <1>6, <1>8, <1>9 DEF r

\* Two lists written one after the other.
LEMMA Joined ==
  ASSUME NEW q \in Seq(Writes), NEW r \in Seq(Writes), InOrder(q), InOrder(r), {"mark", "mode", "retire"} \cap Names(q) = {},
         Names(r) \subseteq {"mode", "error", "failed"}
  PROVE  /\ q \o r \in Seq(Writes) /\ InOrder(q \o r) /\ Names(q \o r) = Names(q) \cup Names(r)
         /\ r # <<>> => q \o r # <<>>
<1> DEFINE c == q \o r
<1>1. /\ Len(q) \in Nat /\ Len(r) \in Nat /\ DOMAIN q = 1 .. Len(q) /\ DOMAIN r = 1 .. Len(r)
      /\ c \in Seq(Writes) /\ DOMAIN c = 1 .. (Len(q) + Len(r))
      /\ \A i \in DOMAIN c : c[i] = IF i <= Len(q) THEN q[i] ELSE r[i - Len(q)]
  OBVIOUS
<1>2. r # <<>> => c # <<>>
  OBVIOUS
<1> HIDE DEF c
<1>3. /\ \A i \in DOMAIN c : IF i <= Len(q) THEN i \in DOMAIN q ELSE i - Len(q) \in DOMAIN r
      /\ \A i \in DOMAIN q : i \in DOMAIN c /\ c[i] = q[i]
  BY <1>1
<1>9. ASSUME NEW i \in DOMAIN r PROVE i + Len(q) \in DOMAIN c /\ c[i + Len(q)] = r[i]
  <2>1. i \in Nat \ {0} /\ i + Len(q) \in DOMAIN c /\ ~(i + Len(q) <= Len(q)) /\ (i + Len(q)) - Len(q) = i
    BY <1>1
  <2> QED
    BY <1>1, <2>1
<1>4. Names(c) = Names(q) \cup Names(r)
  BY <1>1, <1>3, <1>9 DEF Names
<1>5. InOrder(c)
  <2> SUFFICES ASSUME NEW i \in DOMAIN c, NEW j \in DOMAIN c, i < j
               PROVE  /\ c[i] = "mark" => c[j] = "sync"
                      /\ c[i] = "sync" => c[j] \in {"mode", "error", "failed"}
                      /\ c[i] = "mode" => c[j] \in {"error", "failed"}
                      /\ c[i] # "retire"
    BY DEF InOrder
  <2>1. CASE i <= Len(q)
    <3>1. c[i] = q[i] /\ c[i] \in Names(q)
      BY <1>1, <1>3, <2>1 DEF Names
    <3>2. CASE j <= Len(q)
      <4>1. c[j] = q[j] /\ i \in DOMAIN q /\ j \in DOMAIN q
        BY <1>1, <1>3, <2>1, <3>2
      <4> QED
        BY <3>1, <4>1 DEF InOrder
    <3>3. CASE ~(j <= Len(q))
      <4>1. c[j] \in Names(r)
        BY <1>1, <1>3, <3>3 DEF Names
      <4> QED
        BY <3>1, <4>1
    <3> QED
      BY <3>2, <3>3
  <2>2. CASE ~(i <= Len(q))
    <3>1. i - Len(q) \in DOMAIN r /\ j - Len(q) \in DOMAIN r /\ i - Len(q) < j - Len(q)
      BY <1>1, <1>3, <2>2
    <3>2. c[i] = r[i - Len(q)] /\ c[j] = r[j - Len(q)]
      BY <1>1, <2>2
    <3> QED
      BY <3>1, <3>2 DEF InOrder
  <2> QED
    BY <2>1, <2>2
<1> QED
  BY <1>1, <1>2, <1>4, <1>5 DEF c

\* The names a release, a rollback or the teardown of a preview writes, and puts back.
LiveRelease(e) == Op(e) = "release" /\ Slot(D(e)) = "live"

WriteNames(e) ==
  CASE Op(e) = "retire"   -> {"unpoint", "unroute", "down"}
    [] Op(e) = "rollback" -> {"point", "route", "domains", "key", "move"}
    [] Op(e) = "release" /\ Slot(D(e)) = "preview" -> {"point", "route", "claim", "ready", "retire"}
    [] LiveRelease(e) /\ Preset(D(e)) = "static" -> {"point", "key", "claim", "ready", "mark"}
    [] OTHER -> {"point", "route", "domains", "key", "claim", "ready", "mark", "sync"}

UndoNames(e) ==
  CASE Op(e) = "retire"   -> {}
    [] Op(e) = "rollback" -> {"point", "route", "domains", "key", "live"}
    [] Op(e) = "release" /\ Slot(D(e)) = "preview" -> {"point", "route", "revive", "mode", "error"}
    [] LiveRelease(e) /\ Preset(D(e)) = "static" -> {"point", "mode", "error", "failed"}
    [] OTHER -> {"point", "route", "domains", "key", "live", "sync", "mode", "error", "failed"}

\* What the lists of writes contain.
LEMMA ReleaseList ==
  ASSUME setup \in Setups, NEW e \in Execs, Op(e) = "release"
  PROVE  LET q == ReleaseWrites(D(e)) IN
         /\ q \in Seq(Writes) /\ q # <<>> /\ InOrder(q) /\ Names(q) \subseteq WriteNames(e)
         /\ {"point", "claim", "ready"} \subseteq Names(q)
         /\ Slot(D(e)) = "preview" => "retire" \in Names(q)
         /\ Slot(D(e)) = "live" => "mark" \in Names(q)
         /\ Slot(D(e)) = "live" /\ Preset(D(e)) = "serverless" => "sync" \in Names(q)
<1>1. Slot(D(e)) \in Slots /\ Preset(D(e)) \in Presets
  BY Situation
<1>2. CASE Slot(D(e)) = "live" /\ Preset(D(e)) = "serverless"
  <2> DEFINE q == <<"point", "route", "domains", "key", "claim", "ready", "mark", "sync">>
  <2>1. ReleaseWrites(D(e)) = q
    BY <1>2 DEF ReleaseWrites
  <2>2. "point" \in Writes /\ "route" \in Writes /\ "domains" \in Writes /\ "key" \in Writes /\ "claim" \in Writes /\ "ready" \in Writes /\ "mark" \in Writes /\ "sync" \in Writes
    BY DEF Writes
  <2>3. q \in Seq(Writes) /\ q # <<>> /\ DOMAIN q = 1 .. 8
    BY <2>2
  <2>4. q[1] = "point" /\ q[2] = "route" /\ q[3] = "domains" /\ q[4] = "key" /\ q[5] = "claim" /\ q[6] = "ready" /\ q[7] = "mark" /\ q[8] = "sync"
    OBVIOUS
  <2> HIDE DEF q
  <2>5. InOrder(q)
    BY <2>3, <2>4 DEF InOrder
  <2>6. Names(q) = {"point", "route", "domains", "key", "claim", "ready", "mark", "sync"}
    BY <2>3, <2>4 DEF Names
  <2> QED
    BY <1>2, <2>1, <2>3, <2>5, <2>6 DEF WriteNames, UndoNames, LiveRelease
<1>3. CASE Slot(D(e)) = "preview" /\ Preset(D(e)) = "serverless"
  <2> DEFINE q == <<"point", "route", "claim", "ready", "retire">>
  <2>1. ReleaseWrites(D(e)) = q
    BY <1>3 DEF ReleaseWrites
  <2>2. "point" \in Writes /\ "route" \in Writes /\ "claim" \in Writes /\ "ready" \in Writes /\ "retire" \in Writes
    BY DEF Writes
  <2>3. q \in Seq(Writes) /\ q # <<>> /\ DOMAIN q = 1 .. 5
    BY <2>2
  <2>4. q[1] = "point" /\ q[2] = "route" /\ q[3] = "claim" /\ q[4] = "ready" /\ q[5] = "retire"
    OBVIOUS
  <2> HIDE DEF q
  <2>5. InOrder(q)
    BY <2>3, <2>4 DEF InOrder
  <2>6. Names(q) = {"point", "route", "claim", "ready", "retire"}
    BY <2>3, <2>4 DEF Names
  <2> QED
    BY <1>3, <2>1, <2>3, <2>5, <2>6 DEF WriteNames, UndoNames, LiveRelease
<1>4. CASE Slot(D(e)) = "live" /\ Preset(D(e)) = "static"
  <2> DEFINE q == <<"point", "claim", "key", "ready", "mark">>
  <2>1. ReleaseWrites(D(e)) = q
    BY <1>4 DEF ReleaseWrites
  <2>2. "point" \in Writes /\ "claim" \in Writes /\ "key" \in Writes /\ "ready" \in Writes /\ "mark" \in Writes
    BY DEF Writes
  <2>3. q \in Seq(Writes) /\ q # <<>> /\ DOMAIN q = 1 .. 5
    BY <2>2
  <2>4. q[1] = "point" /\ q[2] = "claim" /\ q[3] = "key" /\ q[4] = "ready" /\ q[5] = "mark"
    OBVIOUS
  <2> HIDE DEF q
  <2>5. InOrder(q)
    BY <2>3, <2>4 DEF InOrder
  <2>6. Names(q) = {"point", "claim", "key", "ready", "mark"}
    BY <2>3, <2>4 DEF Names
  <2> QED
    BY <1>4, <2>1, <2>3, <2>5, <2>6 DEF WriteNames, UndoNames, LiveRelease
<1>5. CASE Slot(D(e)) = "preview" /\ Preset(D(e)) = "static"
  <2> DEFINE q == <<"point", "claim", "ready", "retire">>
  <2>1. ReleaseWrites(D(e)) = q
    BY <1>5 DEF ReleaseWrites
  <2>2. "point" \in Writes /\ "claim" \in Writes /\ "ready" \in Writes /\ "retire" \in Writes
    BY DEF Writes
  <2>3. q \in Seq(Writes) /\ q # <<>> /\ DOMAIN q = 1 .. 4
    BY <2>2
  <2>4. q[1] = "point" /\ q[2] = "claim" /\ q[3] = "ready" /\ q[4] = "retire"
    OBVIOUS
  <2> HIDE DEF q
  <2>5. InOrder(q)
    BY <2>3, <2>4 DEF InOrder
  <2>6. Names(q) = {"point", "claim", "ready", "retire"}
    BY <2>3, <2>4 DEF Names
  <2> QED
    BY <1>5, <2>1, <2>3, <2>5, <2>6 DEF WriteNames, UndoNames, LiveRelease
<1> QED
  BY <1>1, <1>2, <1>3, <1>4, <1>5 DEF Slots, Presets

\* What a rollback writes.
LEMMA RollbackList ==
  ASSUME NEW e \in Execs, Op(e) = "rollback"
  PROVE  LET q == RollbackWrites(D(e)) IN
         /\ q \in Seq(Writes) /\ InOrder(q) /\ Names(q) \subseteq WriteNames(e)
         /\ {"point", "move"} \subseteq Names(q)
<1>1. CASE Preset(D(e)) = "static"
  <2> DEFINE q == <<"point", "key", "move">>
  <2>1. RollbackWrites(D(e)) = q
    BY <1>1 DEF RollbackWrites
  <2>2. "point" \in Writes /\ "key" \in Writes /\ "move" \in Writes
    BY DEF Writes
  <2>3. q \in Seq(Writes) /\ q # <<>> /\ DOMAIN q = 1 .. 3
    BY <2>2
  <2>4. q[1] = "point" /\ q[2] = "key" /\ q[3] = "move"
    OBVIOUS
  <2> HIDE DEF q
  <2>5. InOrder(q)
    BY <2>3, <2>4 DEF InOrder
  <2>6. Names(q) = {"point", "key", "move"}
    BY <2>3, <2>4 DEF Names
  <2> QED
    BY <2>1, <2>3, <2>5, <2>6 DEF WriteNames, UndoNames, LiveRelease
<1>2. CASE Preset(D(e)) # "static"
  <2> DEFINE q == <<"point", "route", "domains", "key", "move">>
  <2>1. RollbackWrites(D(e)) = q
    BY <1>2 DEF RollbackWrites
  <2>2. "point" \in Writes /\ "route" \in Writes /\ "domains" \in Writes /\ "key" \in Writes /\ "move" \in Writes
    BY DEF Writes
  <2>3. q \in Seq(Writes) /\ q # <<>> /\ DOMAIN q = 1 .. 5
    BY <2>2
  <2>4. q[1] = "point" /\ q[2] = "route" /\ q[3] = "domains" /\ q[4] = "key" /\ q[5] = "move"
    OBVIOUS
  <2> HIDE DEF q
  <2>5. InOrder(q)
    BY <2>3, <2>4 DEF InOrder
  <2>6. Names(q) = {"point", "route", "domains", "key", "move"}
    BY <2>3, <2>4 DEF Names
  <2> QED
    BY <2>1, <2>3, <2>5, <2>6 DEF WriteNames, UndoNames, LiveRelease
<1> QED
  BY <1>1, <1>2

\* What the teardown of a preview writes.
LEMMA RetireList ==
  ASSUME NEW e \in Execs, Op(e) = "retire"
  PROVE  LET q == RetireWrites(D(e)) IN
         /\ q \in Seq(Writes) /\ InOrder(q) /\ Names(q) \subseteq WriteNames(e)
         /\ "down" \in Names(q) /\ ("unpoint" \in Names(q) => D(e) \in recorded)
<1>1. CASE RetireWrites(D(e)) = <<"down">>
  <2> DEFINE q == <<"down">>
  <2>1. RetireWrites(D(e)) = q
    BY <1>1
  <2>2. "down" \in Writes
    BY DEF Writes
  <2>3. q \in Seq(Writes) /\ q # <<>> /\ DOMAIN q = 1 .. 1
    BY <2>2
  <2>4. q[1] = "down"
    OBVIOUS
  <2> HIDE DEF q
  <2>5. InOrder(q)
    BY <2>3, <2>4 DEF InOrder
  <2>6. Names(q) = {"down"}
    BY <2>3, <2>4 DEF Names
  <2> QED
    BY <1>1, <2>1, <2>3, <2>5, <2>6 DEF WriteNames, UndoNames, LiveRelease
<1>2. CASE D(e) \in recorded /\ RetireWrites(D(e)) = <<"unpoint", "down">>
  <2> DEFINE q == <<"unpoint", "down">>
  <2>1. RetireWrites(D(e)) = q
    BY <1>2
  <2>2. "unpoint" \in Writes /\ "down" \in Writes
    BY DEF Writes
  <2>3. q \in Seq(Writes) /\ q # <<>> /\ DOMAIN q = 1 .. 2
    BY <2>2
  <2>4. q[1] = "unpoint" /\ q[2] = "down"
    OBVIOUS
  <2> HIDE DEF q
  <2>5. InOrder(q)
    BY <2>3, <2>4 DEF InOrder
  <2>6. Names(q) = {"unpoint", "down"}
    BY <2>3, <2>4 DEF Names
  <2> QED
    BY <1>2, <2>1, <2>3, <2>5, <2>6 DEF WriteNames, UndoNames, LiveRelease
<1>3. CASE D(e) \in recorded /\ RetireWrites(D(e)) = <<"unpoint", "unroute", "down">>
  <2> DEFINE q == <<"unpoint", "unroute", "down">>
  <2>1. RetireWrites(D(e)) = q
    BY <1>3
  <2>2. "unpoint" \in Writes /\ "unroute" \in Writes /\ "down" \in Writes
    BY DEF Writes
  <2>3. q \in Seq(Writes) /\ q # <<>> /\ DOMAIN q = 1 .. 3
    BY <2>2
  <2>4. q[1] = "unpoint" /\ q[2] = "unroute" /\ q[3] = "down"
    OBVIOUS
  <2> HIDE DEF q
  <2>5. InOrder(q)
    BY <2>3, <2>4 DEF InOrder
  <2>6. Names(q) = {"unpoint", "unroute", "down"}
    BY <2>3, <2>4 DEF Names
  <2> QED
    BY <1>3, <2>1, <2>3, <2>5, <2>6 DEF WriteNames, UndoNames, LiveRelease
<1> QED
  BY <1>1, <1>2, <1>3 DEF RetireWrites

\* The outer catch block of a release.
LEMMA FailureList ==
  ASSUME setup \in Setups, NEW e \in Execs, Op(e) = "release"
  PROVE  LET q == FailureWrites(e) IN
         /\ q \in Seq(Writes) /\ q # <<>> /\ InOrder(q) /\ Names(q) \subseteq UndoNames(e)
         /\ Names(q) \subseteq {"mode", "error", "failed"}
<1>0. Slot(D(e)) \in Slots /\ Preset(D(e)) \in Presets
  BY Situation
<1>1. CASE Slot(D(e)) = "live"
  <2> DEFINE q == <<"mode", "error", "failed">>
  <2>1. FailureWrites(e) = q
    BY <1>1 DEF FailureWrites
  <2>2. "mode" \in Writes /\ "error" \in Writes /\ "failed" \in Writes
    BY DEF Writes
  <2>3. q \in Seq(Writes) /\ q # <<>> /\ DOMAIN q = 1 .. 3
    BY <2>2
  <2>4. q[1] = "mode" /\ q[2] = "error" /\ q[3] = "failed"
    OBVIOUS
  <2> HIDE DEF q
  <2>5. InOrder(q)
    BY <2>3, <2>4 DEF InOrder
  <2>6. Names(q) = {"mode", "error", "failed"}
    BY <2>3, <2>4 DEF Names
  <2> QED
    BY <1>0, <1>1, <2>1, <2>3, <2>5, <2>6 DEF UndoNames, LiveRelease, Slots, Presets
<1>2. CASE Slot(D(e)) # "live"
  <2> DEFINE q == <<"mode", "error">>
  <2>1. FailureWrites(e) = q
    BY <1>2 DEF FailureWrites
  <2>2. "mode" \in Writes /\ "error" \in Writes
    BY DEF Writes
  <2>3. q \in Seq(Writes) /\ q # <<>> /\ DOMAIN q = 1 .. 2
    BY <2>2
  <2>4. q[1] = "mode" /\ q[2] = "error"
    OBVIOUS
  <2> HIDE DEF q
  <2>5. InOrder(q)
    BY <2>3, <2>4 DEF InOrder
  <2>6. Names(q) = {"mode", "error"}
    BY <2>3, <2>4 DEF Names
  <2> QED
    BY <1>0, <1>2, <2>1, <2>3, <2>5, <2>6 DEF UndoNames, LiveRelease, Slots, Presets
<1> QED
  BY <1>1, <1>2

\* Putting traffic back, by a release or a rollback.
LEMMA RestoreList ==
  ASSUME setup \in Setups, NEW e \in Execs, Op(e) # "retire", Op(e) = "rollback" => Slot(D(e)) = "live"
  PROVE  LET q == RestoreWrites(e) IN
         /\ q \in Seq(Writes) /\ q # <<>> /\ InOrder(q) /\ Names(q) \subseteq UndoNames(e)
         /\ {"mark", "mode", "retire"} \cap Names(q) = {}
         /\ LiveRelease(e) /\ Preset(D(e)) = "serverless" => {"live", "sync"} \subseteq Names(q)
         /\ Op(e) = "rollback" => {"point", "live"} \subseteq Names(q)
<1>1. Slot(D(e)) \in Slots /\ Preset(D(e)) \in Presets /\ Op(e) \in Ops
  BY Situation
<1>2. CASE Op(e) = "release" /\ Slot(D(e)) = "live" /\ Preset(D(e)) = "serverless"
  <2> DEFINE q == <<"point", "route", "domains", "key", "live", "sync">>
  <2>1. RestoreWrites(e) = q
    BY <1>2 DEF RestoreWrites
  <2>2. "point" \in Writes /\ "route" \in Writes /\ "domains" \in Writes /\ "key" \in Writes /\ "live" \in Writes /\ "sync" \in Writes
    BY DEF Writes
  <2>3. q \in Seq(Writes) /\ q # <<>> /\ DOMAIN q = 1 .. 6
    BY <2>2
  <2>4. q[1] = "point" /\ q[2] = "route" /\ q[3] = "domains" /\ q[4] = "key" /\ q[5] = "live" /\ q[6] = "sync"
    OBVIOUS
  <2> HIDE DEF q
  <2>5. InOrder(q)
    BY <2>3, <2>4 DEF InOrder
  <2>6. Names(q) = {"point", "route", "domains", "key", "live", "sync"}
    BY <2>3, <2>4 DEF Names
  <2> QED
    BY <1>2, <2>1, <2>3, <2>5, <2>6 DEF WriteNames, UndoNames, LiveRelease
<1>3. CASE Op(e) = "release" /\ Slot(D(e)) = "preview" /\ Preset(D(e)) = "serverless"
  <2> DEFINE q == <<"point", "route", "revive">>
  <2>1. RestoreWrites(e) = q
    BY <1>3 DEF RestoreWrites
  <2>2. "point" \in Writes /\ "route" \in Writes /\ "revive" \in Writes
    BY DEF Writes
  <2>3. q \in Seq(Writes) /\ q # <<>> /\ DOMAIN q = 1 .. 3
    BY <2>2
  <2>4. q[1] = "point" /\ q[2] = "route" /\ q[3] = "revive"
    OBVIOUS
  <2> HIDE DEF q
  <2>5. InOrder(q)
    BY <2>3, <2>4 DEF InOrder
  <2>6. Names(q) = {"point", "route", "revive"}
    BY <2>3, <2>4 DEF Names
  <2> QED
    BY <1>3, <2>1, <2>3, <2>5, <2>6 DEF WriteNames, UndoNames, LiveRelease
<1>4. CASE Op(e) = "release" /\ Slot(D(e)) = "live" /\ Preset(D(e)) = "static"
  <2> DEFINE q == <<"point", "error", "failed">>
  <2>1. RestoreWrites(e) = q
    BY <1>4 DEF RestoreWrites
  <2>2. "point" \in Writes /\ "error" \in Writes /\ "failed" \in Writes
    BY DEF Writes
  <2>3. q \in Seq(Writes) /\ q # <<>> /\ DOMAIN q = 1 .. 3
    BY <2>2
  <2>4. q[1] = "point" /\ q[2] = "error" /\ q[3] = "failed"
    OBVIOUS
  <2> HIDE DEF q
  <2>5. InOrder(q)
    BY <2>3, <2>4 DEF InOrder
  <2>6. Names(q) = {"point", "error", "failed"}
    BY <2>3, <2>4 DEF Names
  <2> QED
    BY <1>4, <2>1, <2>3, <2>5, <2>6 DEF WriteNames, UndoNames, LiveRelease
<1>5. CASE Op(e) = "release" /\ Slot(D(e)) = "preview" /\ Preset(D(e)) = "static"
  <2> DEFINE q == <<"point", "revive", "error">>
  <2>1. RestoreWrites(e) = q
    BY <1>5 DEF RestoreWrites
  <2>2. "point" \in Writes /\ "revive" \in Writes /\ "error" \in Writes
    BY DEF Writes
  <2>3. q \in Seq(Writes) /\ q # <<>> /\ DOMAIN q = 1 .. 3
    BY <2>2
  <2>4. q[1] = "point" /\ q[2] = "revive" /\ q[3] = "error"
    OBVIOUS
  <2> HIDE DEF q
  <2>5. InOrder(q)
    BY <2>3, <2>4 DEF InOrder
  <2>6. Names(q) = {"point", "revive", "error"}
    BY <2>3, <2>4 DEF Names
  <2> QED
    BY <1>5, <2>1, <2>3, <2>5, <2>6 DEF WriteNames, UndoNames, LiveRelease
<1>6. CASE Op(e) = "rollback" /\ Slot(D(e)) = "live" /\ Preset(D(e)) = "static"
  <2> DEFINE q == <<"point", "key", "live">>
  <2>1. RestoreWrites(e) = q
    BY <1>6 DEF RestoreWrites
  <2>2. "point" \in Writes /\ "key" \in Writes /\ "live" \in Writes
    BY DEF Writes
  <2>3. q \in Seq(Writes) /\ q # <<>> /\ DOMAIN q = 1 .. 3
    BY <2>2
  <2>4. q[1] = "point" /\ q[2] = "key" /\ q[3] = "live"
    OBVIOUS
  <2> HIDE DEF q
  <2>5. InOrder(q)
    BY <2>3, <2>4 DEF InOrder
  <2>6. Names(q) = {"point", "key", "live"}
    BY <2>3, <2>4 DEF Names
  <2> QED
    BY <1>6, <2>1, <2>3, <2>5, <2>6 DEF WriteNames, UndoNames, LiveRelease
<1>7. CASE Op(e) = "rollback" /\ Slot(D(e)) = "live" /\ Preset(D(e)) = "serverless"
  <2> DEFINE q == <<"point", "route", "domains", "key", "live">>
  <2>1. RestoreWrites(e) = q
    BY <1>7 DEF RestoreWrites
  <2>2. "point" \in Writes /\ "route" \in Writes /\ "domains" \in Writes /\ "key" \in Writes /\ "live" \in Writes
    BY DEF Writes
  <2>3. q \in Seq(Writes) /\ q # <<>> /\ DOMAIN q = 1 .. 5
    BY <2>2
  <2>4. q[1] = "point" /\ q[2] = "route" /\ q[3] = "domains" /\ q[4] = "key" /\ q[5] = "live"
    OBVIOUS
  <2> HIDE DEF q
  <2>5. InOrder(q)
    BY <2>3, <2>4 DEF InOrder
  <2>6. Names(q) = {"point", "route", "domains", "key", "live"}
    BY <2>3, <2>4 DEF Names
  <2> QED
    BY <1>7, <2>1, <2>3, <2>5, <2>6 DEF WriteNames, UndoNames, LiveRelease
<1> QED
  BY <1>1, <1>2, <1>3, <1>4, <1>5, <1>6, <1>7 DEF Slots, Presets, Ops

-----------------------------------------------------------------------------
(* Traffic follows the pointer. *)

Preparing == {"migrate", "invoke", "invoked", "failed"}

FollowTypes ==
  /\ status \in [Deployments -> Statuses]
  /\ live \in Maybe(Deployments) /\ mode \in Maybe(Presets) /\ queue \in {"none", "live", "withdrawn"}
  /\ suspended \in BOOLEAN /\ budget \in Nat
  /\ todo \in [Execs -> Seq(Writes)] /\ prev \in [Execs -> Maybe(Deployments)]
  /\ claimed \subseteq Execs /\ tries \in [Execs -> Nat]

\* The serving mode is that of the live release, and the queue target is there for functions only.
Modes ==
  /\ live # NULL => mode = Preset(live) /\ live \in recorded
  /\ queue # "withdrawn" /\ (queue = "live" => mode = "serverless")
  /\ setup.live # NULL => mode # NULL

\* Every disturbance was paid for, and no job can run out of attempts.
Budgeted ==
  /\ budget <= setup.budget
  /\ suspended => "suspend" \in setup.trouble /\ budget < setup.budget
  /\ \A e \in Execs : pc[e] = "undo" => "throw" \in setup.trouble /\ budget < setup.budget
  /\ \A e \in Execs : tries[e] > budget + (IF pc[e] = "undo" THEN 1 ELSE 0)

\* No live release is marked as torn down while nobody deletes the project.
Standing == ~deleted /\ \A d \in Deployments : Slot(d) = "live" => status[d] # "torn_down"

\* What is left to write is what the operation writes, in its order.
Shaped(e) ==
  /\ pc[e] \in Preparing => Op(e) = "release"
  /\ pc[e] \in Preparing \cup {"write"} => InOrder(todo[e]) /\ Left(e) \subseteq WriteNames(e)
  /\ pc[e] = "undo" => InOrder(todo[e]) /\ Left(e) \subseteq UndoNames(e)
  /\ pc[e] \notin {"start", "done", "dead"} =>
       /\ Op(e) = "retire" => Slot(D(e)) = "preview"
       /\ Op(e) = "rollback" => Slot(D(e)) = "live"

\* What a release has not left to write it has written.
Progress(e) ==
  pc[e] \in Preparing \cup {"write"} /\ Op(e) = "release" =>
    /\ mode \in {NULL, Preset(D(e))}
    /\ Slot(D(e)) = "preview" /\ prev[e] # NULL => Slot(prev[e]) = "preview"
    /\ "claim" \notin Left(e) => mode = Preset(D(e))
    /\ Slot(D(e)) = "live" =>
         /\ "point" \notin Left(e) => points[Preset(D(e))]["live"] = D(e)
         /\ "ready" \notin Left(e) => D(e) \in recorded
         /\ "mark" \notin Left(e) => live = D(e)
         /\ "sync" \notin Left(e) /\ Preset(D(e)) = "serverless" => queue = "live"
         /\ "claim" \in Left(e) => live = prev[e]
         /\ Preset(D(e)) = "static" /\ todo[e] # <<>> => live = prev[e]

\* A release that goes back to another finds the project in the mode of that one.
Kept(e) ==
  /\ LiveRelease(e) /\ prev[e] # NULL
  /\ pc[e] \in Preparing \cup {"write"} \/ (pc[e] = "undo" /\ {"live", "sync"} \cap Left(e) # {})
  => mode # NULL

\* The serving mode is claimed by the first release of a project.  Until that release is undone up to
\* the point where it gives the mode back, the pointer and the queue are its own.
Claims(e) ==
  e \in claimed =>
    /\ setup.live = NULL /\ pc[e] \in {"write", "undo"} /\ Op(e) = "release"
    /\ Slot(D(e)) = "preview" => live = NULL
    /\ Slot(D(e)) = "live" =>
         /\ prev[e] = NULL
         /\ live # NULL => \/ pc[e] = "write" /\ (todo[e] = <<>> \/ Preset(D(e)) = "serverless")
                           \/ pc[e] = "undo" /\ "live" \in Left(e)
    /\ queue = "live" => LiveRelease(e) /\ Preset(D(e)) = "serverless" /\ (pc[e] = "write" \/ "sync" \in Left(e))

\* Nothing will keep a retried release from going through.
Safe == ~suspended /\ ("suspend" \in setup.trouble => budget = 0)

\* A release of the live slot that will move traffic and the pointer to where they belong.
Owed(e) ==
  /\ LiveRelease(e) /\ pc[e] \in {"start", "wait", "check", "migrate", "write", "undo"}
  /\ Served(D(e)) /\ mode \in {NULL, Preset(D(e))} /\ Safe

Pending == \E e \in Execs : Owed(e)

\* Who is moving the traffic of the live slot right now.
Moving(e) ==
  /\ Slot(D(e)) = "live" /\ Op(e) # "retire"
  /\ pc[e] = "write" \/ (pc[e] = "undo" /\ Op(e) = "rollback" /\ todo[e] # <<>>)

\* A rollback goes from one recorded release to another of the same mode.
RollBasis(e) ==
  Op(e) = "rollback" /\ (pc[e] = "write" \/ (pc[e] = "undo" /\ todo[e] # <<>>)) =>
    /\ D(e) \in recorded /\ mode = Preset(D(e)) /\ live # NULL
    /\ prev[e] # NULL /\ prev[e] \in recorded /\ Preset(prev[e]) = mode

\* What a rollback has not left to write it has written; likewise when it is put back.
Rolling(e) ==
  Op(e) = "rollback" =>
    /\ pc[e] = "write" => \/ Pending
                          \/ /\ (queue = "live") <=> (mode = "serverless")
                             /\ "point" \notin Left(e) => points[mode]["live"] = D(e)
                             /\ "move" \notin Left(e) => live = D(e)
    /\ pc[e] = "undo" /\ todo[e] # <<>> =>
                          \/ Pending
                          \/ /\ (queue = "live") <=> (mode = "serverless")
                             /\ "point" \notin Left(e) => points[mode]["live"] = prev[e]
                             /\ "live" \notin Left(e) => live = prev[e]

\* A release that is being undone is retried, or never touched anything.
Undone(e) ==
  LiveRelease(e) /\ pc[e] = "undo" => Owed(e) \/ (e \notin claimed /\ Left(e) \subseteq {"mode", "error", "failed"})

Clean ==
  /\ live # NULL => points[mode]["live"] = live
  /\ live = NULL => \A p \in Presets : points[p]["live"] = NULL
  /\ (queue = "live") <=> (live # NULL /\ mode = "serverless")

\* Traffic and pointer agree, or someone is at it, or a release to come will see to it.
Settled == Clean \/ Pending \/ \E e \in Execs : Moving(e)

NoneDied == \A e \in Execs : Op(e) = "rollback" => pc[e] # "dead"

Local(e) == Shaped(e) /\ Progress(e) /\ Kept(e) /\ Claims(e) /\ RollBasis(e) /\ Undone(e)

FollowInv ==
  /\ FollowTypes /\ Modes /\ Budgeted /\ Standing
  /\ \A e \in Execs : Local(e) /\ (NoneDied => Rolling(e))
  /\ NoneDied => Settled

\* Initially nobody has written anything.
LEMMA FollowInit == ASSUME Mendable, TeardownInit PROVE FollowInv
<1> USE DEF TeardownInit, Init
<1>1. setup \in SetupType /\ ProjectInv
  BY ReleaseAssumption, ProjectInit
<1>2. setup.live \in Maybe(Deployments) /\ setup.budget \in Nat /\ setup.budget < Tries /\ Tries \in Nat
  BY <1>1, ReleaseAssumption DEF SetupType, Maybe, Mendable
<1>3. live # NULL => live \in Deployments /\ mode = Preset(live) /\ mode \in Presets /\ mode # NULL /\ Slot(live) = "live"
  BY <1>1, <1>2, Situation, ReleaseAssumption DEF Maybe, Slot
<1>4. \A e \in Execs : pc[e] = "start" /\ todo[e] = <<>> /\ prev[e] = NULL /\ tries[e] = Tries
  OBVIOUS
<1>5. FollowTypes
  <2>1. todo \in [Execs -> Seq(Writes)]
    BY NoNames
  <2> QED
    BY <1>2, <1>3, <2>1 DEF FollowTypes, Maybe, Statuses
<1>6. Modes
  BY <1>3 DEF Modes
<1>7. Budgeted
  BY <1>2, <1>4 DEF Budgeted
<1>8. Standing
  BY DEF Standing
<1>9. \A e \in Execs : Local(e) /\ Rolling(e)
  BY <1>4 DEF Local, Shaped, Preparing, Progress, Kept, Claims, RollBasis, Undone, Rolling
<1>10. Clean
  <2>1. live = NULL => mode = NULL /\ mode # "serverless"
    BY ReleaseAssumption DEF Presets
  <2>2. \A p \in Presets : points[p]["live"] = IF p = mode THEN live ELSE NULL
    BY DEF Slots
  <2>3. (queue = "live") <=> (mode = "serverless")
    OBVIOUS
  <2>4. live # NULL => points[mode]["live"] = live
    BY <1>3, <2>2
  <2>5. live = NULL => \A p \in Presets : points[p]["live"] = NULL
    BY <2>2
  <2> QED
    BY <2>1, <2>3, <2>4, <2>5 DEF Clean
<1> QED
  BY <1>5, <1>6, <1>7, <1>8, <1>9, <1>10 DEF FollowInv, Settled

\* The setup does not change: neither do the operations, the slots and the presets.
Core == <<live, mode, queue, points, recorded>>

Same(f) ==
  /\ pc'[f] = pc[f] /\ todo'[f] = todo[f] /\ prev'[f] = prev[f] /\ tries'[f] = tries[f]
  /\ f \in claimed' <=> f \in claimed

\* A release that is owed stays so while nobody suspends the project or takes its serving mode.
LEMMA OwedStays ==
  ASSUME ProjectInv, FollowInv, [Next]_vars, UNCHANGED <<setup, suspended>>, budget' \in Nat, budget' <= budget,
         NEW f \in Execs, Owed(f), pc'[f] \in {"start", "wait", "check", "migrate", "write", "undo"},
         mode' \in {NULL, Preset(D(f))}
  PROVE  Owed(f)'
<1>1. D(f) \in Deployments /\ D(f)' = D(f)
  BY Situation DEF ProjectInv, Types, D
<1>2. Served(D(f))'
  <2>1. \A d \in Deployments : Served(d) => Served(d)'
    BY MigratingStep DEF ProjectInv
  <2>2. Served(D(f))
    BY DEF Owed
  <2> QED
    BY <1>1, <2>1, <2>2 DEF Served
<1>3. LiveRelease(f)' /\ mode' \in {NULL, Preset(D(f)')}
  BY <1>1 DEF Owed, LiveRelease, Op, Slot, D
<1>4. Safe'
  <2>1. budget \in Nat
    BY DEF FollowInv, FollowTypes
  <2> QED
    BY <2>1 DEF Owed, Safe
<1> QED
  BY <1>2, <1>3, <1>4 DEF Owed, Preset, D

\* Steps outside the lock: of someone who waits, who gets it or gives up, and of those without it.
LEMMA OutsideStep ==
  ASSUME ProjectInv, FollowInv, [Next]_vars, UNCHANGED <<setup, Core>>,
         FollowTypes', Budgeted', Standing',
         \A f \in Execs : \/ Same(f)
                          \/ /\ pc[f] \in {"start", "wait"} /\ pc'[f] \in Outside \cup {"check"}
                             /\ f \notin claimed' /\ Shaped(f)',
         \A f \in Execs : Owed(f) => Owed(f)'
  PROVE  FollowInv'
<1> DEFINE Moves(f) == /\ pc[f] \in {"start", "wait"} /\ pc'[f] \in Outside \cup {"check"}
                       /\ f \notin claimed' /\ Shaped(f)'
<1>1. NoneDied' => NoneDied
  BY DEF NoneDied, Op, Same
<1>2. Modes'
  BY DEF FollowInv, Modes, Core, Preset
<1>3. Pending => Pending'
  BY DEF Pending
<1>4. Clean => Clean'
  BY DEF Clean, Core
<1>5. ASSUME NEW f \in Execs PROVE Local(f)' /\ (NoneDied' => Rolling(f)')
  <2>1. CASE Same(f)
    <3>1. Local(f) /\ (NoneDied => Rolling(f))
      BY DEF FollowInv
    <3>2. Progress(f)'
      BY <2>1, <3>1 DEF Same, Core, Local, Progress, Left, Op, D, Slot, Preset
    <3>6. Shaped(f)'
      <4>1. WriteNames(f)' = WriteNames(f) /\ UndoNames(f)' = UndoNames(f)
        BY DEF WriteNames, UndoNames, LiveRelease, Op, D, Slot, Preset
      <4> QED
        BY <2>1, <3>1, <4>1 DEF Same, Local, Shaped, Left, Op, D, Slot
    <3>3. Kept(f)' /\ Claims(f)' /\ RollBasis(f)'
      BY <2>1, <3>1 DEF Same, Core, Local, Kept, Claims, RollBasis, Left, LiveRelease, Op, D, Slot, Preset
    <3>4. Undone(f)'
      BY <2>1, <3>1 DEF Same, Local, Undone, Left, LiveRelease, Op, D, Slot
    <3>5. NoneDied' => Rolling(f)'
      BY <1>1, <1>3, <2>1, <3>1 DEF Same, Core, Rolling, Left, Op, D
    <3> QED
      BY <3>2, <3>3, <3>4, <3>5, <3>6 DEF Local
  <2>2. CASE Moves(f)
    BY <2>2 DEF Local, Outside, Preparing, Progress, Kept, Claims, RollBasis, Undone, Rolling
  <2> QED
    BY <2>1, <2>2
<1>6. NoneDied' => Settled'
  <2>1. ASSUME NEW f \in Execs, Moving(f) PROVE Moving(f)'
    <3>1. Same(f)
      BY <2>1 DEF Moving
    <3> QED
      BY <2>1, <3>1 DEF Moving, Same, Op, D, Slot
  <2> QED
    BY <1>1, <1>3, <1>4, <2>1 DEF FollowInv, Settled
<1> QED
  BY <1>2, <1>5, <1>6 DEF FollowInv

\* A disturbance is one of the setup's and costs one of the budget.
LEMMA Spent ==
  ASSUME FollowInv, NEW t, Trouble(t)
  PROVE  t \in setup.trouble /\ budget \in Nat /\ budget > 0 /\ budget' \in Nat /\ budget' = budget - 1 /\ budget' < budget
  BY DEF Trouble, FollowInv, FollowTypes

\* A job or request that leaves forgets what it was about, and nobody else notices.
LEMMA LeaveFrame ==
  ASSUME ProjectInv, FollowInv, NEW e \in Execs, NEW p \in {"start", "done", "dead"}, Leave(e, p)
  PROVE  /\ pc'[e] = p /\ todo'[e] = <<>> /\ prev'[e] = NULL /\ e \notin claimed'
         /\ \A f \in Execs : f # e =>
              pc'[f] = pc[f] /\ todo'[f] = todo[f] /\ prev'[f] = prev[f] /\ (f \in claimed' <=> f \in claimed)
         /\ todo' \in [Execs -> Seq(Writes)] /\ prev' \in [Execs -> Maybe(Deployments)] /\ claimed' \subseteq Execs
<1>1. pc \in [Execs -> Places] /\ todo \in [Execs -> Seq(Writes)] /\ prev \in [Execs -> Maybe(Deployments)] /\ claimed \subseteq Execs
  BY DEF ProjectInv, Types, FollowInv, FollowTypes
<1>2. /\ pc' = [pc EXCEPT ![e] = p] /\ todo' = [todo EXCEPT ![e] = <<>>]
      /\ prev' = [prev EXCEPT ![e] = NULL] /\ claimed' = claimed \ {e}
  BY DEF Leave
<1> QED
  BY <1>1, <1>2, NoNames DEF Maybe

\* A failed attempt: a request is over, a job has attempts left.
LEMMA FailFrame ==
  ASSUME ProjectInv, FollowInv, NEW e \in Execs, Fail(e), tries[e] > 1
  PROVE  /\ Op(e) = "rollback" => Leave(e, "done") /\ UNCHANGED tries
         /\ Op(e) # "rollback" => Leave(e, "start") /\ tries'[e] = tries[e] - 1
         /\ tries' \in [Execs -> Nat] /\ \A f \in Execs : f # e => tries'[f] = tries[f]
<1>1. tries \in [Execs -> Nat]
  BY DEF FollowInv, FollowTypes
<1>2. CASE Op(e) = "rollback"
  BY <1>1, <1>2 DEF Fail, Finish
<1>3. CASE Op(e) # "rollback"
  <2>1. Leave(e, "start") /\ tries' = [tries EXCEPT ![e] = tries[e] - 1]
    BY <1>3 DEF Fail
  <2>2. tries[e] - 1 \in Nat
    BY <1>1
  <2> QED
    BY <1>1, <1>3, <2>1, <2>2
<1> QED
  BY <1>2, <1>3

\* No step of a release, a rollback or a preview's teardown marks a live release as torn down.
LEMMA StandingStays ==
  ASSUME ProjectInv, FollowInv, UNCHANGED <<setup, deleted>>,
         \/ UNCHANGED status
         \/ \E d \in Deployments, s \in Statuses :
              status' = [status EXCEPT ![d] = s] /\ (s = "torn_down" => Slot(d) = "preview")
  PROVE  status' \in [Deployments -> Statuses] /\ Standing'
<1>1. status \in [Deployments -> Statuses] /\ Standing
  BY DEF FollowInv, FollowTypes
<1>2. CASE UNCHANGED status
  BY <1>1, <1>2 DEF Standing, Slot
<1>3. ASSUME NEW d \in Deployments, NEW s \in Statuses, status' = [status EXCEPT ![d] = s],
             s = "torn_down" => Slot(d) = "preview"
      PROVE  status' \in [Deployments -> Statuses] /\ Standing'
  BY <1>1, <1>3 DEF Standing, Slot
<1> QED
  BY <1>2, <1>3

\* A step takes an attempt from a job only for a disturbance.
LEMMA BudgetedStays ==
  ASSUME ProjectInv, FollowInv, UNCHANGED setup, budget' \in Nat, budget' <= budget,
         suspended' => suspended \/ ("suspend" \in setup.trouble /\ budget' < budget),
         \A f \in Execs :
           \/ Same(f)
           \/ /\ pc'[f] = "undo" => pc[f] = "undo" \/ ("throw" \in setup.trouble /\ budget' < budget)
              /\ tries'[f] > budget' + (IF pc'[f] = "undo" THEN 1 ELSE 0)
  PROVE  Budgeted'
<1>1. budget \in Nat /\ setup.budget \in Nat /\ tries \in [Execs -> Nat]
  BY ReleaseAssumption DEF ProjectInv, Types, SetupType, FollowInv, FollowTypes
<1>2. Budgeted
  BY DEF FollowInv
<1>3. budget' <= setup'.budget /\ (suspended' => "suspend" \in setup'.trouble /\ budget' < setup'.budget)
  BY <1>1, <1>2 DEF Budgeted
<1>4. ASSUME NEW f \in Execs
      PROVE  /\ pc'[f] = "undo" => "throw" \in setup'.trouble /\ budget' < setup'.budget
             /\ tries'[f] > budget' + (IF pc'[f] = "undo" THEN 1 ELSE 0)
  <2>1. CASE Same(f)
    <3>1. tries[f] \in Nat /\ tries[f] > budget + (IF pc[f] = "undo" THEN 1 ELSE 0)
      BY <1>1, <1>2 DEF Budgeted
    <3>2. tries'[f] = tries[f] /\ pc'[f] = pc[f]
      BY <2>1 DEF Same
    <3>3. tries[f] > budget' + (IF pc[f] = "undo" THEN 1 ELSE 0)
      BY <1>1, <3>1
    <3> QED
      BY <1>1, <1>2, <3>2, <3>3 DEF Budgeted
  <2>2. CASE ~Same(f)
    BY <1>1, <1>2, <2>2 DEF Budgeted
  <2> QED
    BY <2>1, <2>2
<1> QED
  BY <1>3, <1>4 DEF Budgeted

\* The suspension, the refresher, the router and the expiry touch neither pointer nor traffic.
LEMMA BystandersFollow ==
  ASSUME ProjectInv, FollowInv, [Next]_vars, Suspend \/ Refresher \/ Router \/ Expiry \/ UNCHANGED vars
  PROVE  FollowInv'
<1>1. UNCHANGED <<setup, Core, status, deleted, pc, todo, prev, claimed, tries>>
  BY DEF Suspend, Refresher, RefreshRead, RefreshWrite, Router, RouterLookup, RouterBackfill, Expiry, Expire, ExpireKey,
     vars, releaseVars, rowVars, projectVars, worldVars, trafficVars, execVars, Core
<1>2. \A f \in Execs : Same(f)
  BY <1>1 DEF Same
<1>3. Standing'
  BY <1>1, StandingStays
<1>4. CASE Suspend
  <2>1. Trouble("suspend") /\ suspended' = TRUE
    BY <1>4 DEF Suspend
  <2>2. \A f \in Execs : ~Owed(f)
    BY <2>1, Spent DEF Owed, Safe
  <2>3. FollowTypes'
    BY <1>1, <2>1, Spent DEF FollowInv, FollowTypes, Core
  <2>4. Budgeted'
    <3>1. budget' \in Nat /\ budget' <= budget /\ budget' < budget /\ "suspend" \in setup.trouble
      BY <2>1, Spent
    <3> QED
      BY <1>1, <1>2, <3>1, BudgetedStays
  <2> QED
    BY <1>1, <1>2, <1>3, <2>2, <2>3, <2>4, OutsideStep
<1>5. CASE Refresher \/ Router \/ Expiry \/ UNCHANGED vars
  <2>1. UNCHANGED <<suspended, budget>>
    BY <1>5 DEF Refresher, RefreshRead, RefreshWrite, Router, RouterLookup, RouterBackfill, Expiry, Expire, ExpireKey,
       vars, releaseVars, worldVars
  <2>2. FollowTypes' /\ Budgeted'
    BY <1>1, <2>1 DEF FollowInv, FollowTypes, Core, Budgeted
  <2>3. ASSUME NEW f \in Execs, Owed(f) PROVE Owed(f)'
    <3>1. pc'[f] \in {"start", "wait", "check", "migrate", "write", "undo"} /\ mode' \in {NULL, Preset(D(f))}
      BY <1>1, <2>3 DEF Owed, Core
    <3>2. budget' \in Nat /\ budget' <= budget
      BY <2>1 DEF FollowInv, FollowTypes
    <3> QED
      BY <1>1, <2>1, <2>3, <3>1, <3>2, OwedStays
  <2> QED
    BY <1>1, <1>2, <1>3, <2>2, <2>3, OutsideStep
<1> QED
  BY <1>4, <1>5

\* Someone outside the lock starts, gets the lock or goes.
LEMMA WaiterFollows ==
  ASSUME ProjectInv, FollowInv, [Next]_vars, NEW e \in Execs, UNCHANGED <<setup, Core, suspended>>,
         status' \in [Deployments -> Statuses], Standing',
         budget' \in Nat, budget' <= budget, tries' \in [Execs -> Nat], tries'[e] > budget',
         todo' \in [Execs -> Seq(Writes)], prev' \in [Execs -> Maybe(Deployments)], claimed' \subseteq Execs,
         \A f \in Execs : f # e => Same(f),
         pc[e] \in {"start", "wait"}, pc'[e] \in Outside \cup {"check"}, e \notin claimed',
         pc'[e] \in {"wait", "check"} =>
           (Op(e) = "retire" => Slot(D(e)) = "preview") /\ (Op(e) = "rollback" => Slot(D(e)) = "live"),
         Owed(e) => pc'[e] \in {"start", "wait", "check"}
  PROVE  FollowInv'
<1>1. Shaped(e)'
  BY DEF Shaped, Outside, Preparing, Op, D, Slot
<1>2. Budgeted'
  <2>1. pc'[e] # "undo" /\ tries'[e] > budget' + 0
    BY DEF Outside, FollowTypes
  <2> QED
    BY <2>1, BudgetedStays
<1>3. FollowTypes'
  BY DEF FollowInv, FollowTypes, Core
<1>4. ASSUME NEW f \in Execs, Owed(f) PROVE Owed(f)'
  <2>1. mode' \in {NULL, Preset(D(f))}
    BY <1>4 DEF Owed, Core
  <2>2. pc'[f] \in {"start", "wait", "check", "migrate", "write", "undo"}
    BY <1>4 DEF Owed, Same
  <2> QED
    BY <1>4, <2>1, <2>2, OwedStays
<1> QED
  BY <1>1, <1>2, <1>3, <1>4, OutsideStep

\* A serving mode is claimed by someone who is writing, or undoing it.
LEMMA NotClaimed ==
  ASSUME FollowInv, NEW e \in Execs, pc[e] \notin {"write", "undo"}
  PROVE  e \notin claimed
  BY DEF FollowInv, Local, Claims

\* The unlocked part of a job or request, a crash while it waits included.
LEMMA WaitersFollow ==
  ASSUME ProjectInv, FollowInv, [Next]_vars, NEW e \in Execs,
         Begin(e) \/ Acquire(e) \/ GiveUpWaiting(e) \/ ((Crash(e) \/ Die(e)) /\ pc[e] = "wait")
  PROVE  FollowInv'
<1>1. UNCHANGED <<setup, Core, suspended, deleted>>
  BY DEF Begin, Acquire, GiveUpWaiting, Crash, Die, rowVars, projectVars, worldVars, trafficVars, Core
<1>2. /\ pc \in [Execs -> Places] /\ budget \in Nat /\ tries \in [Execs -> Nat] /\ D(e) \in Deployments
      /\ todo \in [Execs -> Seq(Writes)] /\ prev \in [Execs -> Maybe(Deployments)] /\ claimed \subseteq Execs
      /\ Slot(D(e)) \in Slots
  BY Situation DEF ProjectInv, Types, FollowInv, FollowTypes
<1>3. pc[e] \in {"start", "wait"} /\ tries[e] > budget /\ e \notin claimed
  <2>1. pc[e] \in {"start", "wait"}
    BY DEF Begin, Acquire, GiveUpWaiting
  <2>2. tries[e] > budget + 0
    BY <2>1 DEF FollowInv, Budgeted
  <2> QED
    BY <1>2, <2>1, <2>2, NotClaimed
<1>4. pc[e] = "wait" => (Op(e) = "retire" => Slot(D(e)) = "preview") /\ (Op(e) = "rollback" => Slot(D(e)) = "live")
  BY DEF FollowInv, Local, Shaped
<1>5. ASSUME NEW p \in {"start", "done", "dead"}, Leave(e, p), budget' \in Nat, budget' <= budget,
             tries' \in [Execs -> Nat], tries'[e] > budget', \A f \in Execs : f # e => tries'[f] = tries[f],
             status' \in [Deployments -> Statuses], Standing', Owed(e) => p = "start"
      PROVE  FollowInv'
  <2>1. /\ pc'[e] = p /\ e \notin claimed'
        /\ \A f \in Execs : f # e => Same(f)
        /\ todo' \in [Execs -> Seq(Writes)] /\ prev' \in [Execs -> Maybe(Deployments)] /\ claimed' \subseteq Execs
    BY <1>5, LeaveFrame DEF Same
  <2> QED
    BY <1>1, <1>3, <1>5, <2>1, WaiterFollows DEF Outside
<1>6. ASSUME NEW p \in {"wait", "check"}, pc' = [pc EXCEPT ![e] = p], UNCHANGED <<todo, prev, claimed, tries, budget, status>>,
             (Op(e) = "retire" => Slot(D(e)) = "preview") /\ (Op(e) = "rollback" => Slot(D(e)) = "live")
      PROVE  FollowInv'
  <2>1. pc'[e] = p /\ \A f \in Execs : f # e => Same(f)
    BY <1>2, <1>6 DEF Same
  <2>2. status' \in [Deployments -> Statuses] /\ Standing'
    BY <1>1, <1>6, StandingStays
  <2>3. budget' \in Nat /\ budget' <= budget
    BY <1>2, <1>6
  <2> QED
    BY <1>1, <1>2, <1>3, <1>6, <2>1, <2>2, <2>3, WaiterFollows DEF Outside
<1>7. CASE Begin(e)
  <2>1. UNCHANGED budget /\ budget' \in Nat /\ budget' <= budget
    BY <1>2, <1>7 DEF Begin
  <2>2. status' \in [Deployments -> Statuses] /\ Standing'
    <3>1. UNCHANGED status \/ status' = [status EXCEPT ![D(e)] = "error"]
      BY <1>7 DEF Begin, SetStatus
    <3> QED
      BY <1>1, <1>2, <3>1, StandingStays DEF Statuses
  <2>3. Owed(e) => ~Moot(e) /\ ~suspended
    BY <1>2 DEF Owed, LiveRelease, Safe, Moot, FollowInv, Standing
  <2>4. CASE Finish(e) /\ ~Owed(e)
    <3>1. Leave(e, "done") /\ UNCHANGED tries
      BY <2>4 DEF Finish
    <3> QED
      BY <1>2, <1>3, <1>5, <2>1, <2>2, <2>4, <3>1
  <2>5. CASE Goto(e, "wait") /\ ~Moot(e) /\ UNCHANGED status
    <3>1. (Op(e) = "retire" => Slot(D(e)) = "preview") /\ (Op(e) = "rollback" => Slot(D(e)) = "live")
      BY <1>2, <2>5 DEF Moot, Slots
    <3> QED
      BY <1>6, <2>1, <2>5, <3>1 DEF Goto
  <2> QED
    BY <1>7, <2>3, <2>4, <2>5 DEF Begin
<1>8. CASE Acquire(e)
  BY <1>4, <1>6, <1>8 DEF Acquire, rowVars
<1>9. CASE GiveUpWaiting(e) \/ Crash(e) \/ Die(e)
  <2>1. budget' \in Nat /\ budget' <= budget /\ budget' < budget /\ budget > 0
    BY <1>9, Spent DEF GiveUpWaiting, Crash, Die
  <2>2. status' \in [Deployments -> Statuses] /\ Standing'
    BY <1>1, <1>9, StandingStays DEF GiveUpWaiting, Crash, Die, rowVars
  <2>3. CASE GiveUpWaiting(e)
    <3>1. Fail(e) /\ tries[e] \in Nat /\ tries[e] > 1
      BY <1>2, <1>3, <2>1, <2>3 DEF GiveUpWaiting
    <3>2. tries' \in [Execs -> Nat] /\ \A f \in Execs : f # e => tries'[f] = tries[f]
      BY <3>1, FailFrame
    <3>3. CASE Op(e) = "rollback"
      <4>1. Leave(e, "done") /\ UNCHANGED tries /\ ~Owed(e)
        BY <3>1, <3>3, FailFrame DEF Owed, LiveRelease
      <4>2. tries'[e] > budget'
        BY <1>2, <1>3, <2>1, <4>1
      <4> QED
        BY <1>5, <2>1, <2>2, <3>2, <4>1, <4>2
    <3>4. CASE Op(e) # "rollback"
      <4>1. Leave(e, "start") /\ tries'[e] = tries[e] - 1
        BY <3>1, <3>4, FailFrame
      <4>2. tries'[e] > budget'
        BY <1>2, <1>3, <2>1, <3>1, <4>1, Spent DEF GiveUpWaiting
      <4> QED
        BY <1>5, <2>1, <2>2, <3>2, <4>1, <4>2
    <3> QED
      BY <3>3, <3>4
  <2>4. CASE Crash(e)
    <3>1. Leave(e, "start") /\ UNCHANGED tries
      BY <2>4 DEF Crash
    <3> QED
      BY <1>2, <1>3, <1>5, <2>1, <2>2, <3>1
  <2>5. CASE Die(e)
    <3>1. Leave(e, "dead") /\ UNCHANGED tries /\ ~Owed(e)
      BY <2>5 DEF Die, Owed, LiveRelease
    <3> QED
      BY <1>2, <1>3, <1>5, <2>1, <2>2, <3>1
  <2> QED
    BY <1>9, <2>3, <2>4, <2>5
<1> QED
  BY <1>7, <1>8, <1>9

\* Who holds the lock takes a step: the others are outside, and what is said of them does not depend
\* on what the step does.
LEMMA HolderFollows ==
  ASSUME ProjectInv, FollowInv, NEW e \in Execs, pc[e] \notin Outside, UNCHANGED <<setup, suspended>>,
         FollowTypes', Modes', Standing', budget' <= budget,
         pc'[e] = "undo" => pc[e] = "undo" \/ ("throw" \in setup.trouble /\ budget' < budget),
         tries'[e] > budget' + (IF pc'[e] = "undo" THEN 1 ELSE 0),
         \A f \in Execs : f # e => Same(f),
         Local(e)', NoneDied /\ NoneDied' => Rolling(e)' /\ Settled'
  PROVE  FollowInv'
<1>1. \A f \in Execs : f # e => pc[f] \in Outside
  BY Alone DEF ProjectInv
<1>2. Budgeted'
  BY BudgetedStays DEF FollowTypes
<1>3. NoneDied' => NoneDied
  BY DEF NoneDied, Op, Same, Outside
<1>4. ASSUME NEW f \in Execs, f # e PROVE Local(f)' /\ Rolling(f)'
  <2>1. pc'[f] = pc[f] /\ pc[f] \in Outside /\ f \notin claimed'
    BY <1>1, <1>4, NotClaimed DEF Same, Outside
  <2>2. Shaped(f)'
    <3>1. Shaped(f)
      BY DEF FollowInv, Local
    <3> QED
      BY <2>1, <3>1 DEF Shaped, Outside, Preparing, Op, D, Slot
  <2> QED
    BY <2>1, <2>2 DEF Local, Outside, Preparing, Progress, Kept, Claims, RollBasis, Undone, Rolling
<1> QED
  BY <1>2, <1>3, <1>4 DEF FollowInv

\* What others owe they still owe.
LEMMA OthersOwe ==
  ASSUME ProjectInv, FollowInv, [Next]_vars, NEW e \in Execs, UNCHANGED <<setup, suspended>>,
         budget' \in Nat, budget' <= budget, \A f \in Execs : f # e => Same(f), UNCHANGED mode
  PROVE  Pending => Owed(e) \/ Pending'
<1> SUFFICES ASSUME NEW f \in Execs, f # e, Owed(f) PROVE Owed(f)'
  BY DEF Pending
<1>1. pc'[f] \in {"start", "wait", "check", "migrate", "write", "undo"} /\ mode' \in {NULL, Preset(D(f))}
  BY DEF Owed, Same
<1> QED
  BY <1>1, OwedStays

\* Only who holds the lock moves traffic.
LEMMA OnlyHolderMoves ==
  ASSUME ProjectInv, NEW e \in Execs, pc[e] \notin Outside
  PROVE  \A f \in Execs : f # e => ~Moving(f)
  BY Alone DEF ProjectInv, Moving, Outside

\* What is left when the holder of the lock takes a step that touches neither traffic nor pointer.
LEMMA SettledStays ==
  ASSUME ProjectInv, FollowInv, [Next]_vars, NEW e \in Execs, pc[e] \notin Outside,
         UNCHANGED <<setup, Core, suspended>>, budget' \in Nat, budget' <= budget, \A f \in Execs : f # e => Same(f),
         NoneDied, Moving(e) \/ Owed(e) => Clean \/ Owed(e)' \/ Moving(e)' \/ Pending'
  PROVE  Settled'
<1>1. Clean => Clean'
  BY DEF Clean, Core
<1>2. UNCHANGED mode
  BY DEF Core
<1> QED
  BY <1>1, <1>2, OnlyHolderMoves, OthersOwe DEF FollowInv, Settled, Pending

\* The holder of the lock leaves, for good or to be retried.
LEMMA LeaverFollows ==
  ASSUME ProjectInv, FollowInv, [Next]_vars, NEW e \in Execs, pc[e] \notin Outside,
         NEW p \in {"start", "done", "dead"}, Leave(e, p), UNCHANGED <<setup, Core, suspended>>,
         status' \in [Deployments -> Statuses], Standing', budget' \in Nat, budget' <= budget,
         tries' \in [Execs -> Nat], tries'[e] > budget', \A f \in Execs : f # e => tries'[f] = tries[f],
         NoneDied /\ NoneDied' /\ (Moving(e) \/ Owed(e)) => Clean \/ Owed(e)' \/ Pending'
  PROVE  FollowInv'
<1>1. /\ pc'[e] = p /\ e \notin claimed'
      /\ \A f \in Execs : f # e => Same(f)
      /\ todo' \in [Execs -> Seq(Writes)] /\ prev' \in [Execs -> Maybe(Deployments)] /\ claimed' \subseteq Execs
  BY LeaveFrame DEF Same
<1>2. Local(e)' /\ Rolling(e)'
  BY <1>1 DEF Local, Shaped, Outside, Preparing, Progress, Kept, Claims, RollBasis, Undone, Rolling
<1>3. FollowTypes'
  BY <1>1 DEF FollowInv, FollowTypes, Core
<1>4. Modes'
  BY DEF FollowInv, Modes, Core, Preset
<1>5. NoneDied /\ NoneDied' => Settled'
  BY <1>1, SettledStays
<1>6. pc'[e] # "undo" /\ tries'[e] > budget' + 0
  BY <1>1
<1> QED
  BY <1>1, <1>2, <1>3, <1>4, <1>5, <1>6, HolderFollows

\* After a crash, a throw or a lost lease nothing keeps the retry from going through.
LEMMA FaultSafe ==
  ASSUME Mendable, ProjectInv, FollowInv, NEW t \in {"crash", "throw", "lease"}, Trouble(t), UNCHANGED <<setup, suspended>>
  PROVE  Safe'
<1>1. setup \in Setups /\ setup.budget \in Nat
  BY ReleaseAssumption DEF ProjectInv, Types, SetupType
<1>2. budget \in Nat /\ budget > 0 /\ budget' = budget - 1 /\ t \in setup.trouble
  BY Spent
<1>3. "suspend" \in setup.trouble => setup.budget <= 1
  BY <1>1, <1>2 DEF Mendable
<1>4. budget <= setup.budget /\ (suspended => "suspend" \in setup.trouble /\ budget < setup.budget)
  BY DEF FollowInv, Budgeted
<1>5. ~suspended /\ ("suspend" \in setup.trouble => budget' = 0)
  BY <1>1, <1>2, <1>3, <1>4
<1> QED
  BY <1>5 DEF Safe

\* A release of the live slot that was writing, or that was owed, is owed after such a fault.
LEMMA Redone ==
  ASSUME ProjectInv, FollowInv, [Next]_vars, NEW e \in Execs, UNCHANGED <<setup, mode, suspended>>,
         budget' \in Nat, budget' <= budget, pc'[e] \in {"start", "undo"},
         \/ Owed(e)
         \/ Safe' /\ LiveRelease(e) /\ pc[e] = "write"
  PROVE  Owed(e)'
<1>1. CASE Owed(e)
  <2>1. mode' \in {NULL, Preset(D(e))}
    BY <1>1 DEF Owed
  <2> QED
    BY <1>1, <2>1, OwedStays
<1>2. CASE Safe' /\ LiveRelease(e) /\ pc[e] = "write"
  <2>1. D(e) \in Deployments /\ D(e)' = D(e)
    BY Situation DEF ProjectInv, Types, D
  <2>2. Served(D(e)) /\ Op(e) = "release"
    BY <1>2 DEF ProjectInv, Serving, LiveRelease
  <2>3. Served(D(e))'
    <3>1. \A d \in Deployments : Served(d) => Served(d)'
      BY MigratingStep DEF ProjectInv
    <3> QED
      BY <2>1, <2>2, <3>1 DEF Served
  <2>4. mode \in {NULL, Preset(D(e))}
    BY <1>2, <2>2 DEF FollowInv, Local, Progress
  <2>5. LiveRelease(e)' /\ mode' \in {NULL, Preset(D(e))}'
    BY <1>2, <2>4 DEF LiveRelease, Op, D, Slot, Preset
  <2> QED
    BY <1>2, <2>3, <2>5 DEF Owed
<1> QED
  BY <1>1, <1>2

\* Who moves is a release of the live slot at its writes, or a rollback.
LEMMA MovingIs ==
  ASSUME ProjectInv, NEW e \in Execs, Moving(e)
  PROVE  Op(e) = "rollback" \/ (LiveRelease(e) /\ pc[e] = "write")
<1>1. Op(e) \in Ops
  BY Situation DEF ProjectInv, Types
<1> QED
  BY <1>1 DEF Moving, LiveRelease, Ops

\* When all writes are done, traffic and pointer agree, unless someone else is still owed.
LEMMA WrittenIsClean ==
  ASSUME ProjectInv, FollowInv, NEW e \in Execs, pc[e] = "write", todo[e] = <<>>, NoneDied, Moving(e)
  PROVE  Clean \/ (Op(e) = "rollback" /\ Pending)
<1>1. Left(e) = {}
  BY NoNames DEF Left
<1>2. D(e) \in Deployments /\ NULL \notin Deployments /\ Preset(D(e)) \in Presets
  BY Situation, ReleaseAssumption DEF ProjectInv, Types
<1>3. Modes
  BY DEF FollowInv
<1>4. CASE LiveRelease(e)
  <2>1. /\ mode = Preset(D(e)) /\ points[Preset(D(e))]["live"] = D(e) /\ live = D(e)
        /\ Preset(D(e)) = "serverless" => queue = "live"
    BY <1>1, <1>4 DEF LiveRelease, FollowInv, Local, Progress
  <2> QED
    BY <1>2, <1>3, <2>1 DEF Clean, Modes
<1>5. CASE Op(e) = "rollback"
  <2>1. \/ Pending
        \/ ((queue = "live") <=> (mode = "serverless")) /\ points[mode]["live"] = D(e) /\ live = D(e)
    BY <1>1, <1>5 DEF FollowInv, Rolling
  <2> QED
    BY <1>2, <1>5, <2>1 DEF Clean
<1> QED
  BY <1>4, <1>5, MovingIs

\* The attempt ends before any write: the release was refused, or its migration did not succeed.
LEMMA StoppedFollow ==
  ASSUME ProjectInv, FollowInv, [Next]_vars, NEW e \in Execs, Finish(e),
         \/ CheckRelease(e) \/ CheckRollback(e) \/ CheckRetire(e)
         \/ Migrate(e) \/ MigrationFailed(e) \/ MigrationUnknown(e)
  PROVE  FollowInv'
<1>1. UNCHANGED <<setup, Core, suspended, deleted>>
  BY DEF CheckRelease, CheckRollback, CheckRetire, Migrate, MigrationFailed, MigrationUnknown,
     rowVars, projectVars, worldVars, trafficVars, Core
<1>2. /\ D(e) \in Deployments /\ budget \in Nat /\ tries \in [Execs -> Nat]
      /\ pc[e] \in {"check", "migrate", "invoke", "invoked", "failed"}
  BY Situation DEF ProjectInv, Types, FollowInv, FollowTypes, CheckRelease, CheckRollback, CheckRetire,
     Migrate, MigrationFailed, MigrationUnknown
<1>3. budget' \in Nat /\ budget' <= budget
  <2>1. UNCHANGED budget \/ Trouble("throw")
    BY DEF CheckRelease, CheckRollback, CheckRetire, Migrate, MigrationFailed, MigrationUnknown
  <2> QED
    BY <1>2, <2>1, Spent
<1>4. Leave(e, "done") /\ UNCHANGED tries
  BY DEF Finish
<1>5. tries'[e] > budget'
  <2>1. tries[e] > budget + 0 /\ tries[e] \in Nat
    BY <1>2 DEF FollowInv, Budgeted
  <2> QED
    BY <1>2, <1>3, <1>4, <2>1
<1>6. status' \in [Deployments -> Statuses] /\ Standing'
  <2>1. UNCHANGED status \/ \E s \in {"error", "deploying"} : status' = [status EXCEPT ![D(e)] = s]
    BY DEF CheckRelease, CheckRollback, CheckRetire, Migrate, MigrationFailed, MigrationUnknown, rowVars, SetStatus
  <2>2. "error" \in Statuses /\ "deploying" \in Statuses
    BY DEF Statuses
  <2> QED
    BY <1>1, <1>2, <2>1, <2>2, StandingStays
<1>7. ~Moving(e)
  BY <1>2 DEF Moving
<1>8. ~Owed(e)
  <2> SUFFICES ASSUME Owed(e) PROVE FALSE
    OBVIOUS
  <2>1. LiveRelease(e) /\ Served(D(e)) /\ mode \in {NULL, Preset(D(e))} /\ ~suspended /\ ~deleted
    BY DEF Owed, Safe, FollowInv, Standing
  <2>2. pc[e] \in {"check", "migrate"}
    BY <1>2 DEF Owed
  <2>3. CASE CheckRelease(e)
    <3>1. mode = NULL => live = NULL
      <4>1. live # NULL => live \in Deployments /\ mode = Preset(live)
        BY DEF FollowInv, FollowTypes, Maybe, Modes
      <4>2. \A d \in Deployments : Preset(d) # NULL
        BY Situation, ReleaseAssumption DEF ProjectInv, Types
      <4> QED
        BY <4>1, <4>2
    <3>2. ~Refused(e)
      BY <2>1, <3>1 DEF Refused, EstablishedMode
    <3>3. pc' = [pc EXCEPT ![e] = IF mig[D(e)] = "absent" THEN "write" ELSE "migrate"]
      BY <2>1, <2>3, <3>2 DEF CheckRelease
    <3> QED
      BY <1>4, <3>3, LeaveFrame DEF ProjectInv, Types
  <2>4. CASE Migrate(e)
    <3>1. mig[D(e)] \in {"absent", "succeeded"} /\ mig[D(e)] # "absent"
      BY <2>1, <2>4 DEF Served, ProjectInv, Migrating, Migrate
    <3>2. pc' = [pc EXCEPT ![e] = "write"]
      BY <2>4, <3>1 DEF Migrate, migrationResumeAction, Goto
    <3> QED
      BY <1>4, <3>2, LeaveFrame DEF ProjectInv, Types
  <2> QED
    BY <2>1, <2>2, <2>3, <2>4 DEF LiveRelease, CheckRelease, CheckRollback, CheckRetire, Migrate, MigrationFailed, MigrationUnknown
<1>9. pc[e] \notin Outside
  BY <1>2 DEF Outside
<1> QED
  BY <1>1, <1>2, <1>3, <1>4, <1>5, <1>6, <1>7, <1>8, <1>9, LeaverFollows

\* The attempt ends after its writes or its compensation, or a fault ends it.
LEMMA EndedFollow ==
  ASSUME Mendable, ProjectInv, FollowInv, [Next]_vars, NEW e \in Execs, pc[e] \notin Outside,
         \/ Complete(e) \/ Crash(e) \/ Die(e) \/ LoseLease(e)
         \/ UndoThrows(e) /\ Fail(e)
  PROVE  FollowInv'
<1>1. UNCHANGED <<setup, Core, status, suspended, deleted, mode>>
  BY DEF Complete, Crash, Die, LoseLease, UndoThrows, rowVars, projectVars, worldVars, trafficVars, Core
<1>2. /\ budget \in Nat /\ tries \in [Execs -> Nat] /\ tries[e] \in Nat
      /\ tries[e] > budget + (IF pc[e] = "undo" THEN 1 ELSE 0)
      /\ status' \in [Deployments -> Statuses] /\ Standing'
  BY <1>1, StandingStays DEF FollowInv, FollowTypes, Budgeted
<1>3. ASSUME NEW p \in {"start", "done", "dead"}, Leave(e, p), budget' \in Nat, budget' <= budget,
             tries' \in [Execs -> Nat], tries'[e] > budget', \A f \in Execs : f # e => tries'[f] = tries[f],
             NoneDied /\ NoneDied' /\ (Moving(e) \/ Owed(e)) => Clean \/ Owed(e)' \/ Pending'
      PROVE  FollowInv'
  BY <1>1, <1>2, <1>3, LeaverFollows
<1>4. LiveRelease(e) \/ ~Owed(e)
  BY DEF Owed
<1>5. CASE Crash(e)
  <2>1. Leave(e, "start") /\ UNCHANGED tries /\ Op(e) # "rollback" /\ Trouble("crash")
    BY <1>5 DEF Crash
  <2>2. budget' \in Nat /\ budget' <= budget /\ tries'[e] > budget'
    BY <1>2, <2>1, Spent
  <2>3. Safe'
    BY <1>1, <2>1, FaultSafe
  <2>4. Moving(e) \/ Owed(e) => Owed(e)'
    <3>1. pc'[e] = "start"
      BY <2>1, LeaveFrame
    <3> QED
      BY <1>1, <2>1, <2>2, <2>3, <3>1, MovingIs, Redone
  <2> QED
    BY <1>2, <1>3, <2>1, <2>2, <2>4
<1>6. CASE Die(e)
  <2>1. Leave(e, "dead") /\ UNCHANGED tries /\ Op(e) = "rollback" /\ Trouble("die")
    BY <1>6 DEF Die
  <2>2. budget' \in Nat /\ budget' <= budget /\ tries'[e] > budget'
    BY <1>2, <2>1, Spent
  <2>3. ~NoneDied'
    <3>1. pc'[e] = "dead"
      BY <2>1, LeaveFrame
    <3> QED
      BY <1>1, <2>1, <3>1 DEF NoneDied, Op
  <2> QED
    BY <1>2, <1>3, <2>1, <2>2, <2>3
<1>7. CASE LoseLease(e)
  <2>1. Op(e) # "rollback" /\ Trouble("lease") /\ Fail(e)
    BY <1>7 DEF LoseLease
  <2>2. budget' \in Nat /\ budget' = budget - 1 /\ budget' <= budget /\ tries[e] > 1
    BY <1>2, <2>1, Spent
  <2>3. Leave(e, "start") /\ tries' \in [Execs -> Nat] /\ tries'[e] > budget' /\ \A f \in Execs : f # e => tries'[f] = tries[f]
    BY <1>2, <2>1, <2>2, FailFrame
  <2>4. Safe'
    BY <1>1, <2>1, FaultSafe
  <2>5. Moving(e) \/ Owed(e) => Owed(e)'
    <3>1. pc'[e] = "start"
      BY <2>3, LeaveFrame
    <3> QED
      BY <1>1, <2>1, <2>2, <2>4, <3>1, MovingIs, Redone
  <2> QED
    BY <1>3, <2>2, <2>3, <2>5
<1>8. CASE Complete(e) /\ pc[e] = "write"
  <2>1. Leave(e, "done") /\ UNCHANGED <<tries, budget>> /\ todo[e] = <<>>
    BY <1>8 DEF Complete, Finish
  <2>2. budget' \in Nat /\ budget' <= budget /\ tries'[e] > budget'
    BY <1>2, <2>1
  <2>3. Owed(e) => Moving(e)
    BY <1>8 DEF Owed, LiveRelease, Moving
  <2>4. Op(e) = "rollback" => ~Owed(e)
    BY DEF Owed, LiveRelease
  <2>5. \A f \in Execs : f # e => Same(f)
    BY <2>1, LeaveFrame DEF Same
  <2>6. NoneDied /\ (Moving(e) \/ Owed(e)) => Clean \/ Pending'
    BY <1>1, <1>8, <2>1, <2>2, <2>3, <2>4, <2>5, WrittenIsClean, OthersOwe
  <2> QED
    BY <1>2, <1>3, <2>1, <2>2, <2>6
<1>9. ASSUME pc[e] = "undo", Fail(e), budget' \in Nat, budget' <= budget, Op(e) = "rollback" => ~Moving(e)
      PROVE  FollowInv'
  <2>1. tries[e] > 1
    BY <1>2, <1>9
  <2>2. tries' \in [Execs -> Nat] /\ \A f \in Execs : f # e => tries'[f] = tries[f]
    BY <1>9, <2>1, FailFrame
  <2>3. CASE Op(e) = "rollback"
    <3>1. Leave(e, "done") /\ UNCHANGED tries /\ ~Moving(e) /\ ~Owed(e)
      BY <1>9, <2>1, <2>3, FailFrame DEF Owed, LiveRelease
    <3>2. tries'[e] > budget'
      BY <1>2, <1>9, <3>1
    <3> QED
      BY <1>3, <1>9, <2>2, <3>1, <3>2
  <2>4. CASE Op(e) # "rollback"
    <3>1. Leave(e, "start") /\ tries'[e] = tries[e] - 1 /\ ~Moving(e)
      BY <1>9, <2>1, <2>4, FailFrame DEF Moving
    <3>2. tries'[e] > budget'
      BY <1>2, <1>9, <3>1
    <3>3. Owed(e) => Owed(e)'
      <4>1. pc'[e] = "start"
        BY <3>1, LeaveFrame
      <4> QED
        BY <1>1, <1>9, <4>1, Redone
    <3> QED
      BY <1>3, <1>9, <2>2, <3>1, <3>2, <3>3
  <2> QED
    BY <2>3, <2>4
<1>10. CASE Complete(e) /\ pc[e] = "undo"
  <2>1. Fail(e) /\ UNCHANGED budget /\ todo[e] = <<>>
    BY <1>10 DEF Complete
  <2> QED
    BY <1>2, <1>9, <1>10, <2>1 DEF Moving
<1>11. CASE UndoThrows(e) /\ Fail(e)
  <2>1. Trouble("throw") /\ pc[e] = "undo"
    BY <1>11 DEF UndoThrows
  <2>2. budget \in Nat /\ budget > 0 /\ budget' \in Nat /\ budget' <= budget /\ "throw" \in setup.trouble
    BY <2>1, Spent
  <2>3. Op(e) # "rollback"
    <3>1. setup \in Setups /\ setup.budget \in Nat /\ budget < setup.budget
      BY <2>1, ReleaseAssumption DEF ProjectInv, Types, SetupType, FollowInv, Budgeted
    <3>2. Op(e) = "rollback" => setup.budget <= 1
      BY <2>2, <3>1 DEF Mendable, Op
    <3> QED
      BY <2>2, <3>1, <3>2
  <2> QED
    BY <1>9, <1>11, <2>1, <2>2, <2>3
<1> QED
  BY <1>5, <1>6, <1>7, <1>8, <1>10, <1>11 DEF Complete

\* What a release is about to write is not affected by its migration.
LEMMA MigratorFollows ==
  ASSUME ProjectInv, FollowInv, [Next]_vars, NEW e \in Execs, ~Finish(e), Migrate(e) \/ Invoke(e) \/ Migrated(e)
  PROVE  FollowInv'
<1>1. UNCHANGED <<setup, Core, status, suspended, deleted, budget, todo, prev, claimed, tries>>
  BY DEF Migrate, Invoke, Migrated, Goto, projectVars, worldVars, trafficVars, Core
<1>2. /\ pc \in [Execs -> Places] /\ D(e) \in Deployments /\ mig \in [Deployments -> Migrations]
      /\ pc[e] \in Preparing /\ Op(e) = "release" /\ budget \in Nat
      /\ tries[e] > budget + (IF pc[e] = "undo" THEN 1 ELSE 0)
  BY Situation DEF ProjectInv, Types, FollowInv, FollowTypes, Budgeted, Local, Shaped, Migrate, Invoke, Migrated, Preparing
<1>3. PICK p \in {"write", "invoke", "invoked", "failed"} : pc' = [pc EXCEPT ![e] = p]
  BY DEF Migrate, Invoke, Migrated, Goto
<1>4. pc'[e] = p /\ \A f \in Execs : f # e => Same(f)
  BY <1>1, <1>2, <1>3 DEF Same
<1>5. status' \in [Deployments -> Statuses] /\ Standing' /\ budget' \in Nat /\ budget' <= budget
  BY <1>1, <1>2, StandingStays
<1>6. FollowTypes' /\ Modes'
  BY <1>1, <1>5 DEF FollowInv, FollowTypes, Modes, Core, Preset
<1>7. Local(e)
  BY DEF FollowInv
<1>8. e \notin claimed'
  BY <1>1, <1>2, NotClaimed DEF Preparing
<1>9. Local(e)'
  <2>1. Shaped(e)'
    <3>1. WriteNames(e)' = WriteNames(e)
      BY <1>1 DEF WriteNames, LiveRelease, Op, D, Slot, Preset
    <3> QED
      BY <1>1, <1>2, <1>4, <1>7, <3>1 DEF Local, Shaped, Left, Preparing, Op
  <2>2. Progress(e)'
    BY <1>1, <1>2, <1>4, <1>7 DEF Local, Progress, Left, Core, Op, D, Slot, Preset
  <2>3. Kept(e)'
    BY <1>1, <1>2, <1>4, <1>7 DEF Local, Kept, LiveRelease, Core, Op, D, Slot
  <2>4. Claims(e)' /\ RollBasis(e)' /\ Undone(e)'
    BY <1>1, <1>2, <1>4, <1>8 DEF Claims, RollBasis, Undone, Op
  <2> QED
    BY <2>1, <2>2, <2>3, <2>4 DEF Local
<1>10. Rolling(e)'
  BY <1>1, <1>2 DEF Rolling, Op
<1>11. Owed(e) => Moving(e)'
  <2> SUFFICES ASSUME Owed(e) PROVE Moving(e)'
    OBVIOUS
  <2>1. pc[e] = "migrate" /\ Served(D(e)) /\ LiveRelease(e)
    BY <1>2 DEF Owed, Preparing
  <2>2. mig[D(e)] = "succeeded"
    BY <2>1 DEF Served, ProjectInv, Migrating
  <2>3. pc' = [pc EXCEPT ![e] = "write"]
    BY <2>1, <2>2 DEF Migrate, Invoke, Migrated, migrationResumeAction, Goto
  <2> QED
    BY <1>1, <1>2, <2>1, <2>3 DEF Moving, LiveRelease, Op, D, Slot
<1>12. ~Moving(e) /\ pc[e] \notin Outside
  BY <1>2 DEF Moving, Preparing, Outside
<1>13. NoneDied => Settled'
  BY <1>1, <1>4, <1>5, <1>11, <1>12, SettledStays
<1>14. pc'[e] # "undo" /\ tries'[e] > budget' + 0
  BY <1>1, <1>2, <1>4 DEF Preparing
<1> QED
  BY <1>1, <1>4, <1>5, <1>6, <1>9, <1>10, <1>12, <1>13, <1>14, HolderFollows

\* A preview replaces a preview.
LEMMA PreviousPreview ==
  ASSUME NEW d, Slot(d) # "live", PreviousServing(d) # NULL
  PROVE  PreviousServing(d) \in Deployments /\ Slot(PreviousServing(d)) = "preview"
<1> DEFINE ready == {p \in Deployments \ {d} : Slot(p) = "preview" /\ status[p] = "ready"}
           newest == {p \in ready : \A q \in ready : q <= p}
<1>1. PreviousServing(d) = IF newest = {} THEN NULL ELSE CHOOSE p \in newest : TRUE
  BY DEF PreviousServing
<1>2. PreviousServing(d) \in newest
  BY <1>1
<1> QED
  BY <1>2

\* The checks pass: a release, a rollback or a teardown of a preview knows what it will write.
LEMMA CheckedFollow ==
  ASSUME ProjectInv, FollowInv, [Next]_vars, NEW e \in Execs, ~Finish(e), CheckRelease(e) \/ CheckRollback(e) \/ CheckRetire(e)
  PROVE  FollowInv'
<1>1. UNCHANGED <<setup, Core, suspended, deleted, budget, claimed, tries>> /\ pc[e] = "check"
  BY DEF CheckRelease, CheckRollback, CheckRetire, rowVars, projectVars, worldVars, trafficVars, Core
<1>2. /\ pc \in [Execs -> Places] /\ D(e) \in Deployments /\ mig \in [Deployments -> Migrations]
      /\ budget \in Nat /\ tries[e] > budget + (IF pc[e] = "undo" THEN 1 ELSE 0)
      /\ todo \in [Execs -> Seq(Writes)] /\ prev \in [Execs -> Maybe(Deployments)] /\ live \in Maybe(Deployments)
      /\ setup \in Setups /\ Slot(D(e)) \in Slots /\ Preset(D(e)) \in Presets /\ Modes
  BY Situation DEF ProjectInv, Types, FollowInv, FollowTypes, Budgeted
<1>3. e \notin claimed' /\ e \notin claimed /\ ~Moving(e) /\ pc[e] \notin Outside
  BY <1>1, NotClaimed DEF Moving, Outside
<1>4. (Op(e) = "retire" => Slot(D(e)) = "preview") /\ (Op(e) = "rollback" => Slot(D(e)) = "live")
  BY <1>1 DEF FollowInv, Local, Shaped
<1>5. budget' \in Nat /\ budget' <= budget
  BY <1>1, <1>2
<1>6. ASSUME NEW p \in {"write", "migrate"}, NEW q \in Seq(Writes), NEW v \in Maybe(Deployments),
             pc' = [pc EXCEPT ![e] = p], todo' = [todo EXCEPT ![e] = q], prev' = [prev EXCEPT ![e] = v],
             status' \in [Deployments -> Statuses], Standing',
             InOrder(q), Names(q) \subseteq WriteNames(e), p = "migrate" => Op(e) = "release",
             Progress(e)', Kept(e)', RollBasis(e)', NoneDied => Rolling(e)', Owed(e) => Moving(e)' \/ Owed(e)'
      PROVE  FollowInv'
  <2>1. /\ pc'[e] = p /\ todo'[e] = q /\ todo' \in [Execs -> Seq(Writes)] /\ prev' \in [Execs -> Maybe(Deployments)]
        /\ \A f \in Execs : f # e => Same(f)
    BY <1>1, <1>2, <1>6 DEF Same
  <2>2. FollowTypes' /\ Modes'
    BY <1>1, <1>6, <2>1 DEF FollowInv, FollowTypes, Modes, Core, Preset
  <2>3. Shaped(e)'
    <3>1. WriteNames(e)' = WriteNames(e)
      BY <1>1 DEF WriteNames, LiveRelease, Op, D, Slot, Preset
    <3> QED
      BY <1>1, <1>4, <1>6, <2>1, <3>1 DEF Shaped, Left, Preparing, Op, D, Slot
  <2>4. Local(e)'
    BY <1>3, <1>6, <2>1, <2>3 DEF Local, Claims, Undone
  <2>5. NoneDied => Settled'
    BY <1>1, <1>3, <1>5, <1>6, <2>1, SettledStays
  <2>6. pc'[e] # "undo" /\ tries'[e] > budget' + 0
    BY <1>1, <1>2, <2>1
  <2> QED
    BY <1>1, <1>3, <1>5, <1>6, <2>1, <2>2, <2>4, <2>5, <2>6, HolderFollows
<1>7. CASE CheckRelease(e)
  <2> DEFINE q == ReleaseWrites(D(e))
             v == PreviousServing(D(e))
             p == IF mig[D(e)] = "absent" THEN "write" ELSE "migrate"
  <2>1. /\ ~Refused(e) /\ status' = [status EXCEPT ![D(e)] = "deploying"] /\ Op(e) = "release"
        /\ prev' = [prev EXCEPT ![e] = v] /\ todo' = [todo EXCEPT ![e] = q] /\ pc' = [pc EXCEPT ![e] = p]
    BY <1>7 DEF CheckRelease, SetStatus
  <2>2. status' \in [Deployments -> Statuses] /\ Standing'
    BY <1>1, <1>2, <2>1, StandingStays DEF Statuses
  <2>3. /\ q \in Seq(Writes) /\ q # <<>> /\ InOrder(q) /\ Names(q) \subseteq WriteNames(e)
        /\ {"point", "claim", "ready"} \subseteq Names(q)
        /\ Slot(D(e)) = "live" => "mark" \in Names(q)
        /\ Slot(D(e)) = "live" /\ Preset(D(e)) = "serverless" => "sync" \in Names(q)
    BY <1>2, <2>1, ReleaseList
  <2>4. /\ Slot(D(e)) = "live" => v = live
        /\ Slot(D(e)) = "preview" /\ v # NULL => v \in Deployments /\ Slot(v) = "preview"
        /\ v \in Maybe(Deployments)
    BY <1>2, PreviousPreview DEF PreviousServing, Maybe, Slots
  <2>5. mode \in {NULL, Preset(D(e))}
    BY <2>1 DEF Refused, EstablishedMode
  <2> HIDE DEF q, v
  <2>6. pc'[e] = p /\ todo'[e] = q /\ prev'[e] = v
    BY <1>2, <2>1
  <2>7. Progress(e)'
    BY <1>1, <2>1, <2>3, <2>4, <2>5, <2>6 DEF Progress, Left, Core, Op, D, Slot, Preset
  <2>8. Kept(e)'
    <3>1. live # NULL => mode # NULL
      <4>1. live # NULL => Preset(live) \in Presets /\ mode = Preset(live)
        BY <1>2, Situation DEF Modes, Maybe
      <4> QED
        BY <4>1, ReleaseAssumption
    <3> QED
      BY <1>1, <2>4, <2>6, <3>1 DEF Kept, LiveRelease, Core, Op, D, Slot
  <2>9. RollBasis(e)' /\ Rolling(e)'
    BY <1>1, <2>1 DEF RollBasis, Rolling, Op
  <2>10. Owed(e) => Moving(e)' \/ Owed(e)'
    <3> SUFFICES ASSUME Owed(e) PROVE Moving(e)' \/ Owed(e)'
      OBVIOUS
    <3>1. CASE p = "write"
      BY <1>1, <2>1, <2>6, <3>1 DEF Owed, LiveRelease, Moving, Op, D, Slot
    <3>2. CASE p = "migrate"
      BY <1>1, <1>5, <2>5, <2>6, <3>2, OwedStays DEF Core
    <3> QED
      BY <3>1, <3>2
  <2>11. p \in {"write", "migrate"} /\ (p = "migrate" => Op(e) = "release")
    BY <2>1
  <2> HIDE DEF p
  <2> QED
    BY <1>6, <2>1, <2>2, <2>3, <2>4, <2>7, <2>8, <2>9, <2>10, <2>11
<1>8. CASE CheckRollback(e)
  <2> DEFINE q == RollbackWrites(D(e))
  <2>1. /\ Op(e) = "rollback" /\ live # NULL /\ Preset(live) = Preset(D(e)) /\ UNCHANGED status
        /\ prev' = [prev EXCEPT ![e] = live] /\ todo' = [todo EXCEPT ![e] = q] /\ pc' = [pc EXCEPT ![e] = "write"]
    BY <1>8 DEF CheckRollback, rowVars
  <2>2. status' \in [Deployments -> Statuses] /\ Standing'
    BY <1>1, <2>1, StandingStays
  <2>3. q \in Seq(Writes) /\ InOrder(q) /\ Names(q) \subseteq WriteNames(e) /\ {"point", "move"} \subseteq Names(q)
    BY <2>1, RollbackList
  <2> HIDE DEF q
  <2>4. pc'[e] = "write" /\ todo'[e] = q /\ prev'[e] = live
    BY <1>2, <2>1
  <2>5. Progress(e)' /\ Kept(e)'
    BY <1>1, <2>1 DEF Progress, Kept, LiveRelease, Op
  <2>6. D(e) \in recorded /\ mode = Preset(D(e)) /\ live \in recorded
    BY <1>1, <1>2, <2>1 DEF ProjectInv, Serving, Modes
  <2>7. RollBasis(e)'
    BY <1>1, <2>1, <2>4, <2>6 DEF RollBasis, Core, Op, D, Preset
  <2>8. ~Owed(e)
    BY <2>1 DEF Owed, LiveRelease
  <2>9. NoneDied => Rolling(e)'
    <3>1. \A f \in Execs : f # e => Same(f)
      BY <1>1, <1>2, <2>1 DEF Same
    <3>2. UNCHANGED mode
      BY <1>1 DEF Core
    <3>3. Pending => Pending'
      BY <1>1, <1>5, <2>8, <3>1, <3>2, OthersOwe
    <3>4. NoneDied => Clean \/ Pending
      BY <1>3, OnlyHolderMoves DEF FollowInv, Settled
    <3>5. Clean => ((queue = "live") <=> (mode = "serverless"))
      BY <2>1 DEF Clean
    <3> QED
      BY <1>1, <2>3, <2>4, <3>3, <3>4, <3>5 DEF Rolling, Left, Core, Op
  <2> QED
    BY <1>2, <1>6, <2>1, <2>2, <2>3, <2>5, <2>7, <2>8, <2>9
<1>9. CASE CheckRetire(e)
  <2> DEFINE q == RetireWrites(D(e))
  <2>1. /\ Op(e) = "retire" /\ UNCHANGED <<status, prev>> /\ todo' = [todo EXCEPT ![e] = q] /\ pc' = [pc EXCEPT ![e] = "write"]
    BY <1>9 DEF CheckRetire, rowVars
  <2>2. status' \in [Deployments -> Statuses] /\ Standing'
    BY <1>1, <2>1, StandingStays
  <2>3. q \in Seq(Writes) /\ InOrder(q) /\ Names(q) \subseteq WriteNames(e)
    BY <2>1, RetireList
  <2> HIDE DEF q
  <2>4. Progress(e)' /\ Kept(e)' /\ RollBasis(e)' /\ Rolling(e)' /\ ~Owed(e)
    BY <1>1, <2>1 DEF Progress, Kept, RollBasis, Rolling, Owed, LiveRelease, Op
  <2>5. prev' = [prev EXCEPT ![e] = prev[e]] /\ prev[e] \in Maybe(Deployments)
    BY <1>2, <2>1
  <2> QED
    BY <1>6, <2>1, <2>2, <2>3, <2>4, <2>5
<1> QED
  BY <1>7, <1>8, <1>9

\* What a throw leaves to be put back, by operation and by whether writing had begun.
LEMMA UndoList ==
  ASSUME setup \in Setups, NEW e \in Execs, Op(e) = "rollback" => Slot(D(e)) = "live"
  PROVE  LET q == UndoWrites(e) IN
         /\ q \in Seq(Writes) /\ InOrder(q) /\ Names(q) \subseteq UndoNames(e)
         /\ Op(e) = "release" /\ pc[e] # "write" => Names(q) \subseteq {"mode", "error", "failed"}
         /\ pc[e] = "write" /\ LiveRelease(e) /\ Preset(D(e)) = "serverless" => {"live", "sync"} \subseteq Names(q)
         /\ Op(e) = "rollback" => IF pc[e] = "write" /\ Restorable(e)
                                  THEN q # <<>> /\ {"point", "live"} \subseteq Names(q)
                                  ELSE q = <<>>
<1> DEFINE q == UndoWrites(e)
<1>1. CASE Op(e) = "release"
  <2>1. /\ FailureWrites(e) \in Seq(Writes) /\ InOrder(FailureWrites(e)) /\ Names(FailureWrites(e)) \subseteq UndoNames(e)
        /\ Names(FailureWrites(e)) \subseteq {"mode", "error", "failed"} /\ FailureWrites(e) # <<>>
    BY <1>1, FailureList
  <2>2. CASE pc[e] = "write"
    <3>1. q = RestoreWrites(e) \o FailureWrites(e)
      BY <1>1, <2>2 DEF UndoWrites
    <3>2. /\ RestoreWrites(e) \in Seq(Writes) /\ InOrder(RestoreWrites(e)) /\ Names(RestoreWrites(e)) \subseteq UndoNames(e)
          /\ {"mark", "mode", "retire"} \cap Names(RestoreWrites(e)) = {}
          /\ LiveRelease(e) /\ Preset(D(e)) = "serverless" => {"live", "sync"} \subseteq Names(RestoreWrites(e))
      BY <1>1, RestoreList
    <3>3. q \in Seq(Writes) /\ InOrder(q) /\ Names(q) = Names(RestoreWrites(e)) \cup Names(FailureWrites(e))
      BY <2>1, <3>1, <3>2, Joined
    <3> QED
      BY <1>1, <2>1, <2>2, <3>2, <3>3
  <2>3. CASE pc[e] # "write"
    <3>1. q = <<>> \o FailureWrites(e)
      BY <1>1, <2>3 DEF UndoWrites
    <3>2. q = FailureWrites(e)
      BY <2>1, <3>1
    <3> QED
      BY <1>1, <2>1, <2>3, <3>2
  <2> QED
    BY <2>2, <2>3
<1>2. CASE Op(e) = "rollback"
  <2>1. q = IF pc[e] = "write" /\ Restorable(e) THEN RestoreWrites(e) ELSE <<>>
    BY <1>2 DEF UndoWrites
  <2> QED
    BY <1>2, <2>1, RestoreList, NoNames DEF LiveRelease
<1>3. CASE Op(e) = "retire"
  <2>1. q = <<>>
    BY <1>3 DEF UndoWrites
  <2> QED
    BY <1>3, <2>1, NoNames DEF LiveRelease
<1> QED
  BY <1>1, <1>2, <1>3, Situation DEF Ops

\* A throw under the lock: the release or the rollback turns to putting things back.
LEMMA ThrownFollow ==
  ASSUME Mendable, ProjectInv, FollowInv, [Next]_vars, NEW e \in Execs, Throw(e)
  PROVE  FollowInv'
<1>1. /\ UNCHANGED <<setup, Core, status, suspended, deleted, prev, claimed, tries>> /\ Trouble("throw")
      /\ pc' = [pc EXCEPT ![e] = "undo"] /\ todo' = [todo EXCEPT ![e] = UndoWrites(e)]
      /\ pc[e] \in {"check", "migrate", "failed"} \/ (pc[e] = "write" /\ todo[e] # <<>>)
  BY DEF Throw, rowVars, projectVars, worldVars, trafficVars, Core
<1>2. /\ pc \in [Execs -> Places] /\ D(e) \in Deployments /\ setup \in Setups
      /\ budget \in Nat /\ tries[e] \in Nat /\ tries[e] > budget + 0
      /\ todo \in [Execs -> Seq(Writes)] /\ Op(e) \in Ops
      /\ Slot(D(e)) \in Slots /\ Preset(D(e)) \in Presets
  BY <1>1, Situation DEF ProjectInv, Types, FollowInv, FollowTypes, Budgeted
<1>3. budget' \in Nat /\ budget' <= budget /\ budget' < budget /\ budget' = budget - 1 /\ "throw" \in setup.trouble
  BY <1>1, Spent
<1>4. Local(e) /\ (NoneDied => Rolling(e))
  BY DEF FollowInv
<1>5. /\ (Op(e) = "retire" => Slot(D(e)) = "preview") /\ (Op(e) = "rollback" => Slot(D(e)) = "live")
      /\ pc[e] \in {"migrate", "failed"} => Op(e) = "release"
  BY <1>1, <1>4 DEF Local, Shaped, Preparing
<1> DEFINE q == UndoWrites(e)
<1>6. /\ q \in Seq(Writes) /\ InOrder(q) /\ Names(q) \subseteq UndoNames(e)
      /\ Op(e) = "release" /\ pc[e] # "write" => Names(q) \subseteq {"mode", "error", "failed"}
      /\ pc[e] = "write" /\ LiveRelease(e) /\ Preset(D(e)) = "serverless" => {"live", "sync"} \subseteq Names(q)
      /\ Op(e) = "rollback" => IF pc[e] = "write" /\ Restorable(e)
                               THEN q # <<>> /\ {"point", "live"} \subseteq Names(q)
                               ELSE q = <<>>
  BY <1>2, <1>5, UndoList
<1>7. pc'[e] = "undo" /\ todo'[e] = q /\ todo' \in [Execs -> Seq(Writes)] /\ \A f \in Execs : f # e => Same(f)
  BY <1>1, <1>2, <1>6 DEF Same
<1> HIDE DEF q
<1>8. status' \in [Deployments -> Statuses] /\ Standing'
  BY <1>1, StandingStays
<1>9. FollowTypes' /\ Modes'
  BY <1>1, <1>3, <1>7 DEF FollowInv, FollowTypes, Modes, Core, Preset
<1>10. Shaped(e)'
  <2>1. UndoNames(e)' = UndoNames(e)
    BY <1>1 DEF UndoNames, LiveRelease, Op, D, Slot, Preset
  <2> QED
    BY <1>1, <1>5, <1>6, <1>7, <2>1 DEF Shaped, Left, Preparing, Op, D, Slot
<1>11. Progress(e)'
  BY <1>7 DEF Progress, Preparing
<1>12. Kept(e)'
  <2>1. CASE pc[e] = "write"
    BY <1>1, <1>4, <1>7, <2>1 DEF Local, Kept, LiveRelease, Core, Op, D, Slot
  <2>2. CASE pc[e] # "write"
    <3>1. Op(e) = "release" => {"live", "sync"} \cap Names(q) = {}
      BY <1>6, <2>2
    <3> QED
      BY <1>1, <1>7, <3>1 DEF Kept, Left, LiveRelease, Preparing, Op
  <2> QED
    BY <2>1, <2>2
<1>13. Claims(e)'
  <2> SUFFICES ASSUME e \in claimed PROVE Claims(e)'
    BY <1>1 DEF Claims
  <2>1. /\ setup.live = NULL /\ pc[e] = "write" /\ Op(e) = "release" /\ todo[e] # <<>>
        /\ Slot(D(e)) = "preview" => live = NULL
        /\ Slot(D(e)) = "live" => prev[e] = NULL /\ (live # NULL => Preset(D(e)) = "serverless")
        /\ queue = "live" => LiveRelease(e) /\ Preset(D(e)) = "serverless"
    BY <1>1, <1>4 DEF Local, Claims
  <2>2. Slot(D(e)) = "live" /\ Preset(D(e)) = "serverless" => "live" \in Names(q) /\ "sync" \in Names(q)
    BY <1>6, <2>1 DEF LiveRelease
  <2> QED
    BY <1>1, <1>7, <2>1, <2>2 DEF Claims, Left, LiveRelease, Core, Op, D, Slot, Preset
<1>14. RollBasis(e)' /\ (NoneDied => Rolling(e)') /\ (Moving(e) /\ Op(e) = "rollback" => Moving(e)')
  <2>1. CASE Op(e) # "rollback"
    BY <1>1, <2>1 DEF RollBasis, Rolling, Op
  <2>2. CASE Op(e) = "rollback" /\ pc[e] # "write"
    BY <1>1, <1>6, <1>7, <2>2 DEF RollBasis, Rolling, Moving, Op
  <2>3. CASE Op(e) = "rollback" /\ pc[e] = "write"
    <3>1. /\ D(e) \in recorded /\ mode = Preset(D(e)) /\ live # NULL
          /\ prev[e] # NULL /\ prev[e] \in recorded /\ Preset(prev[e]) = mode
      BY <1>4, <2>3 DEF Local, RollBasis
    <3>2. Restorable(e)
      BY <3>1 DEF Restorable
    <3>3. q # <<>> /\ "point" \in Names(q) /\ "live" \in Names(q)
      BY <1>6, <2>3, <3>2
    <3>4. RollBasis(e)'
      BY <1>1, <3>1 DEF RollBasis, Core, D, Preset
    <3>5. Pending => Pending'
      <4>1. ~Owed(e) /\ UNCHANGED mode
        BY <1>1, <2>3 DEF Owed, LiveRelease, Core
      <4> QED
        BY <1>1, <1>3, <1>7, <4>1, OthersOwe
    <3>6. NoneDied => Rolling(e)'
      BY <1>1, <1>4, <1>7, <2>3, <3>3, <3>5 DEF Rolling, Left, Core
    <3>7. Moving(e)'
      BY <1>1, <1>5, <1>7, <2>3, <3>3 DEF Moving, Op, D, Slot
    <3> QED
      BY <3>4, <3>6, <3>7
  <2> QED
    BY <2>1, <2>2, <2>3
<1>15. Owed(e) \/ (LiveRelease(e) /\ pc[e] = "write") => Owed(e)'
  <2>1. UNCHANGED mode
    BY <1>1 DEF Core
  <2>2. Safe'
    BY <1>1, FaultSafe
  <2> QED
    BY <1>1, <1>3, <1>7, <2>1, <2>2, Redone
<1>16. Undone(e)'
  <2>1. pc[e] # "write" => e \notin claimed
    BY <1>1, NotClaimed
  <2>2. LiveRelease(e)' => LiveRelease(e) /\ Op(e) = "release"
    BY <1>1 DEF LiveRelease, Op, D, Slot
  <2> QED
    BY <1>1, <1>6, <1>7, <1>15, <2>1, <2>2 DEF Undone, Left
<1>17. pc[e] \notin Outside
  BY <1>1 DEF Outside
<1>18. NoneDied => Settled'
  BY <1>1, <1>3, <1>7, <1>14, <1>15, <1>17, MovingIs, SettledStays
<1>19. tries'[e] > budget' + 1
  BY <1>1, <1>2, <1>3
<1>20. Local(e)'
  BY <1>10, <1>11, <1>12, <1>13, <1>14, <1>16 DEF Local
<1> QED
  BY <1>1, <1>3, <1>7, <1>8, <1>9, <1>14, <1>17, <1>18, <1>19, <1>20, HolderFollows

\* The compensation throws: that of a static release leaves the marks of its failure to be written.
LEMMA UndoThrownFollow ==
  ASSUME ProjectInv, FollowInv, [Next]_vars, NEW e \in Execs, UndoThrows(e), ~Fail(e)
  PROVE  FollowInv'
<1> DEFINE q == FailureWrites(e)
<1>1. /\ UNCHANGED <<setup, Core, status, suspended, deleted, pc, prev, claimed, tries>> /\ Trouble("throw")
      /\ pc[e] = "undo" /\ Op(e) = "release" /\ Preset(D(e)) = "static"
      /\ todo' = [todo EXCEPT ![e] = q]
  BY DEF UndoThrows, rowVars, projectVars, worldVars, trafficVars, Core
<1>2. /\ D(e) \in Deployments /\ setup \in Setups /\ Slot(D(e)) \in Slots
      /\ budget \in Nat /\ tries[e] \in Nat /\ tries[e] > budget + 1 /\ todo \in [Execs -> Seq(Writes)]
  BY <1>1, Situation DEF ProjectInv, Types, FollowInv, FollowTypes, Budgeted
<1>3. budget' \in Nat /\ budget' <= budget /\ budget' = budget - 1
  BY <1>1, Spent
<1>4. Local(e)
  BY DEF FollowInv
<1>5. q \in Seq(Writes) /\ InOrder(q) /\ Names(q) \subseteq UndoNames(e) /\ Names(q) \subseteq {"mode", "error", "failed"}
  BY <1>1, <1>2, FailureList
<1> HIDE DEF q
<1>6. todo'[e] = q /\ todo' \in [Execs -> Seq(Writes)] /\ \A f \in Execs : f # e => Same(f)
  BY <1>1, <1>2, <1>5 DEF Same
<1>7. status' \in [Deployments -> Statuses] /\ Standing'
  BY <1>1, StandingStays
<1>8. FollowTypes' /\ Modes'
  BY <1>1, <1>3, <1>6 DEF FollowInv, FollowTypes, Modes, Core, Preset
<1>9. Shaped(e)'
  <2>1. UndoNames(e)' = UndoNames(e)
    BY <1>1 DEF UndoNames, LiveRelease, Op, D, Slot, Preset
  <2> QED
    BY <1>1, <1>4, <1>5, <1>6, <2>1 DEF Local, Shaped, Left, Preparing, Op, D, Slot
<1>10. Progress(e)' /\ RollBasis(e)' /\ Rolling(e)'
  BY <1>1 DEF Progress, Preparing, RollBasis, Rolling, Op
<1>11. Kept(e)'
  <2>1. {"live", "sync"} \cap Names(q) = {}
    BY <1>5
  <2> QED
    BY <1>1, <1>6, <2>1 DEF Kept, Left, Preparing
<1>12. Claims(e)'
  <2> SUFFICES ASSUME e \in claimed PROVE Claims(e)'
    BY <1>1 DEF Claims
  <2>1. /\ setup.live = NULL
        /\ Slot(D(e)) = "preview" => live = NULL
        /\ Slot(D(e)) = "live" => prev[e] = NULL /\ (live # NULL => "live" \in Left(e))
        /\ queue # "live"
    BY <1>1, <1>4 DEF Local, Claims
  <2>2. Slot(D(e)) = "live" => "live" \notin Left(e)
    BY <1>1, <1>4 DEF Local, Shaped, UndoNames, LiveRelease
  <2> QED
    BY <1>1, <1>6, <2>1, <2>2 DEF Claims, Core, Op, D, Slot
<1>13. Owed(e) => Owed(e)'
  <2>1. UNCHANGED mode
    BY <1>1 DEF Core
  <2> QED
    BY <1>1, <1>3, <2>1, Redone
<1>14. Undone(e)'
  BY <1>1, <1>4, <1>5, <1>6, <1>13 DEF Local, Undone, LiveRelease, Left, Op, D, Slot
<1>15. ~Moving(e) /\ pc[e] \notin Outside
  BY <1>1 DEF Moving, Outside
<1>16. NoneDied => Settled'
  BY <1>1, <1>3, <1>6, <1>13, <1>15, SettledStays
<1>17. tries'[e] > budget' + 1
  BY <1>1, <1>2, <1>3
<1>18. Local(e)'
  BY <1>9, <1>10, <1>11, <1>12, <1>14 DEF Local
<1> QED
  BY <1>1, <1>3, <1>6, <1>7, <1>8, <1>10, <1>15, <1>16, <1>17, <1>18, HolderFollows

\* One write under the lock, and who is left alone by it.
LEMMA WriteFrame ==
  ASSUME ProjectInv, FollowInv, NEW e \in Execs, Write(e)
  PROVE  LET w == Head(todo[e]) IN
         /\ UNCHANGED <<setup, budget, suspended, deleted, pc, prev, tries>>
         /\ pc[e] = "write" /\ pc[e] \notin Outside /\ todo[e] # <<>> /\ w \in WriteNames(e)
         /\ todo' \in [Execs -> Seq(Writes)] /\ todo'[e] = Tail(todo[e]) /\ claimed' \subseteq Execs
         /\ \A f \in Execs : f # e => Same(f)
         /\ w \in Left(e) /\ Left(e)' = Names(todo'[e]) /\ Left(e)' \subseteq Left(e) /\ Left(e) \subseteq Left(e)' \cup {w}
         /\ w = "mark" => Left(e)' \subseteq {"sync"}
         /\ w = "sync" => Left(e)' \subseteq {"mode", "error", "failed"}
         /\ w = "retire" => Left(e)' = {}
         /\ Shaped(e)'
         /\ budget' \in Nat /\ budget' <= budget /\ tries'[e] > budget' + 0
<1> DEFINE w == Head(todo[e])
<1>1. /\ UNCHANGED <<setup, budget, suspended, deleted, pc, prev, tries>>
      /\ pc[e] = "write" /\ todo[e] # <<>> /\ todo' = [todo EXCEPT ![e] = Tail(@)]
      /\ claimed' = claimed \/ claimed' = claimed \cup {e}
  BY DEF Write, WriteRows, worldVars
<1>2. /\ todo \in [Execs -> Seq(Writes)] /\ todo[e] \in Seq(Writes) /\ claimed \subseteq Execs
      /\ budget \in Nat /\ tries[e] > budget + 0 /\ Shaped(e)
  BY <1>1 DEF FollowInv, FollowTypes, Budgeted, Local
<1>3. InOrder(todo[e]) /\ Left(e) \subseteq WriteNames(e)
  BY <1>1, <1>2 DEF Shaped
<1>4. /\ Tail(todo[e]) \in Seq(Writes) /\ InOrder(Tail(todo[e])) /\ w \in Left(e)
      /\ Names(Tail(todo[e])) \subseteq Left(e) /\ Left(e) \subseteq Names(Tail(todo[e])) \cup {w}
      /\ w = "mark" => Names(Tail(todo[e])) \subseteq {"sync"}
      /\ w = "sync" => Names(Tail(todo[e])) \subseteq {"mode", "error", "failed"}
      /\ w = "retire" => Names(Tail(todo[e])) = {}
  BY <1>1, <1>2, <1>3, Turn DEF Left
<1>5. todo' \in [Execs -> Seq(Writes)] /\ todo'[e] = Tail(todo[e]) /\ claimed' \subseteq Execs /\ \A f \in Execs : f # e => Same(f)
  BY <1>1, <1>2, <1>4 DEF Same
<1>6. Left(e)' = Names(todo'[e])
  BY DEF Left
<1>7. Shaped(e)'
  <2>1. WriteNames(e)' = WriteNames(e)
    BY <1>1 DEF WriteNames, LiveRelease, Op, D, Slot, Preset
  <2> QED
    BY <1>1, <1>2, <1>3, <1>4, <1>5, <1>6, <2>1 DEF Shaped, Preparing, Op, D, Slot
<1>8. pc[e] \notin Outside
  BY <1>1 DEF Outside
<1> HIDE DEF w
<1>9. Left(e)' \subseteq Left(e) /\ Left(e) \subseteq Left(e)' \cup {w}
      /\ (w = "mark" => Left(e)' \subseteq {"sync"}) /\ (w = "sync" => Left(e)' \subseteq {"mode", "error", "failed"})
      /\ (w = "retire" => Left(e)' = {})
  BY <1>4, <1>5, <1>6
<1>10. w \in WriteNames(e)
  BY <1>3, <1>4
<1> QED
  BY <1>1, <1>2, <1>4, <1>5, <1>6, <1>7, <1>8, <1>9, <1>10 DEF w

\* The same of a step of the compensation.
LEMMA UndoFrame ==
  ASSUME ProjectInv, FollowInv, NEW e \in Execs, Undo(e)
  PROVE  LET w == Head(todo[e]) IN
         /\ UNCHANGED <<setup, budget, recorded, suspended, deleted, pc, prev, claimed, tries>>
         /\ pc[e] = "undo" /\ pc[e] \notin Outside /\ todo[e] # <<>> /\ w \in UndoNames(e)
         /\ todo' \in [Execs -> Seq(Writes)] /\ todo'[e] = Tail(todo[e])
         /\ \A f \in Execs : f # e => Same(f)
         /\ w \in Left(e) /\ Left(e)' = Names(todo'[e]) /\ Left(e)' \subseteq Left(e) /\ Left(e) \subseteq Left(e)' \cup {w}
         /\ w = "mode" => Left(e)' \subseteq {"error", "failed"}
         /\ Shaped(e)'
         /\ budget' \in Nat /\ budget' <= budget /\ tries'[e] > budget' + 1
<1> DEFINE w == Head(todo[e])
<1>1. /\ UNCHANGED <<setup, budget, recorded, suspended, deleted, pc, prev, claimed, tries>>
      /\ pc[e] = "undo" /\ todo[e] # <<>> /\ todo' = [todo EXCEPT ![e] = Tail(@)]
  BY DEF Undo, worldVars
<1>2. /\ todo \in [Execs -> Seq(Writes)] /\ todo[e] \in Seq(Writes)
      /\ budget \in Nat /\ tries[e] > budget + 1 /\ Shaped(e)
  BY <1>1 DEF FollowInv, FollowTypes, Budgeted, Local
<1>3. InOrder(todo[e]) /\ Left(e) \subseteq UndoNames(e)
  BY <1>1, <1>2 DEF Shaped
<1>4. /\ Tail(todo[e]) \in Seq(Writes) /\ InOrder(Tail(todo[e])) /\ w \in Left(e)
      /\ Names(Tail(todo[e])) \subseteq Left(e) /\ Left(e) \subseteq Names(Tail(todo[e])) \cup {w}
      /\ w = "mode" => Names(Tail(todo[e])) \subseteq {"error", "failed"}
  BY <1>1, <1>2, <1>3, Turn DEF Left
<1>5. todo' \in [Execs -> Seq(Writes)] /\ todo'[e] = Tail(todo[e]) /\ \A f \in Execs : f # e => Same(f)
  BY <1>1, <1>2, <1>4 DEF Same
<1>6. Left(e)' = Names(todo'[e])
  BY DEF Left
<1>7. Shaped(e)'
  <2>1. UndoNames(e)' = UndoNames(e)
    BY <1>1 DEF UndoNames, LiveRelease, Op, D, Slot, Preset
  <2> QED
    BY <1>1, <1>2, <1>3, <1>4, <1>5, <1>6, <2>1 DEF Shaped, Preparing, Op, D, Slot
<1>8. pc[e] \notin Outside
  BY <1>1 DEF Outside
<1> HIDE DEF w
<1>9. Left(e)' \subseteq Left(e) /\ Left(e) \subseteq Left(e)' \cup {w}
      /\ (w = "mode" => Left(e)' \subseteq {"error", "failed"})
  BY <1>4, <1>5, <1>6
<1>10. w \in UndoNames(e)
  BY <1>3, <1>4
<1> QED
  BY <1>1, <1>2, <1>4, <1>5, <1>6, <1>7, <1>8, <1>9, <1>10 DEF w

\* A step on a preview: what is live is not affected, and the serving mode only while nothing is live.
LEMMA PreviewSettled ==
  ASSUME ProjectInv, FollowInv, [Next]_vars, NEW e \in Execs, pc[e] \notin Outside, UNCHANGED <<setup, suspended>>,
         budget' \in Nat, budget' <= budget, \A f \in Execs : f # e => Same(f),
         UNCHANGED <<live, queue>>, recorded \subseteq recorded', mode' \in Maybe(Presets),
         \A p \in Presets : points'[p]["live"] = points[p]["live"],
         UNCHANGED mode \/ (live = NULL /\ queue # "live"), setup.live # NULL => mode' # NULL,
         Slot(D(e)) = "preview", \A f \in Execs : Owed(f) => mode' \in {NULL, Preset(D(f))}
  PROVE  Modes' /\ (NoneDied => Settled')
<1>1. live # NULL => live \in Deployments /\ mode = Preset(live) /\ mode \in Presets
  BY Situation DEF ProjectInv, Types, FollowInv, FollowTypes, Modes, Maybe
<1>2. Modes'
  BY <1>1 DEF FollowInv, Modes, Preset
<1>3. Clean => Clean'
  BY <1>1 DEF Clean
<1>4. ~Owed(e) /\ ~Moving(e)
  BY DEF Owed, LiveRelease, Moving
<1>5. Pending => Pending'
  <2> SUFFICES ASSUME NEW f \in Execs, Owed(f) PROVE Owed(f)'
    BY DEF Pending
  <2>1. pc'[f] \in {"start", "wait", "check", "migrate", "write", "undo"}
    BY <1>4 DEF Owed, Same
  <2> QED
    BY <2>1, OwedStays
<1> QED
  BY <1>2, <1>3, <1>4, <1>5, OnlyHolderMoves DEF FollowInv, Settled

\* Two releases at once, one of a preview, while no serving mode is established.
LEMMA SameMode ==
  ASSUME Mendable, ProjectInv, FollowInv, NEW e \in Execs, NEW f \in Execs, mode = NULL,
         Op(e) = "release", Slot(D(e)) = "preview", LiveRelease(f)
  PROVE  Preset(D(e)) = Preset(D(f))
<1>1. setup \in Setups /\ setup.live = NULL
  BY DEF ProjectInv, Types, FollowInv, Modes
<1> QED
  BY <1>1 DEF Mendable, LiveRelease, Op, D, Slot, Preset

\* Writes of a release, or of a teardown, of a preview.
LEMMA PreviewWritten ==
  ASSUME Mendable, ProjectInv, FollowInv, [Next]_vars, NEW e \in Execs, Write(e), Slot(D(e)) = "preview"
  PROVE  FollowInv'
<1> DEFINE w == Head(todo[e])
<1>1. /\ UNCHANGED <<setup, budget, suspended, deleted, pc, prev, tries>>
      /\ pc[e] = "write" /\ pc[e] \notin Outside /\ todo[e] # <<>> /\ w \in WriteNames(e)
      /\ todo' \in [Execs -> Seq(Writes)] /\ todo'[e] = Tail(todo[e]) /\ claimed' \subseteq Execs
      /\ \A f \in Execs : f # e => Same(f)
      /\ Left(e) \subseteq Left(e)' \cup {w} /\ Shaped(e)'
      /\ budget' \in Nat /\ budget' <= budget /\ tries'[e] > budget' + 0
  BY WriteFrame
<1>2. /\ D(e) \in Deployments /\ Preset(D(e)) \in Presets /\ Op(e) \in Ops /\ NULL \notin Presets
      /\ points \in [Presets -> [Slots -> Maybe(Deployments)]] /\ "live" \in Slots /\ "preview" \in Slots
      /\ prev[e] \in Maybe(Deployments) /\ mode \in Maybe(Presets)
  BY Situation, ReleaseAssumption DEF ProjectInv, Types, FollowInv, FollowTypes, Slots
<1>3. Op(e) \in {"release", "retire"} /\ Local(e) /\ Modes
  BY <1>1, <1>2 DEF FollowInv, Local, Shaped, Ops
<1>4. /\ Op(e) = "retire" => w \in {"unpoint", "unroute", "down"}
      /\ Op(e) = "release" => w \in {"point", "route", "claim", "ready", "retire"}
  BY <1>1 DEF WriteNames, LiveRelease
<1>5. /\ WriteTraffic(e, w) /\ WriteRows(e, w)
  BY DEF Write
<1> HIDE DEF w
<1>6. UNCHANGED <<live, queue>> /\ recorded \subseteq recorded'
  BY <1>3, <1>4, <1>5 DEF WriteTraffic, WriteRows
<1>7. \A p \in Presets : points'[p]["live"] = points[p]["live"]
  <2>1. UNCHANGED points \/ \E x : points' = [points EXCEPT ![Preset(D(e))]["preview"] = x]
    BY <1>5 DEF WriteTraffic, Host
  <2> QED
    BY <1>2, <2>1
<1>8. \/ UNCHANGED <<mode, claimed>> /\ (w = "claim" => mode # NULL)
      \/ w = "claim" /\ mode = NULL /\ mode' = Preset(D(e)) /\ claimed' = claimed \cup {e} /\ Op(e) = "release"
  BY <1>3, <1>4, <1>5 DEF WriteRows
<1>9. mode = NULL => live = NULL /\ queue # "live" /\ setup.live = NULL
  <2>1. live # NULL => live \in Deployments /\ mode = Preset(live)
    BY <1>3 DEF FollowInv, FollowTypes, Modes, Maybe
  <2>2. live # NULL => mode \in Presets
    BY <2>1, Situation DEF ProjectInv, Types
  <2>3. NULL # "serverless"
    BY <1>2 DEF Presets
  <2> QED
    BY <1>2, <1>3, <2>2, <2>3 DEF Modes
<1>10. status' \in [Deployments -> Statuses] /\ Standing'
  <2>1. w = "retire" => Op(e) = "release"
    BY <1>3, <1>4
  <2>2. w = "retire" /\ prev[e] # NULL => prev[e] \in Deployments /\ Slot(prev[e]) = "preview"
    BY <1>1, <1>2, <1>3, <2>1 DEF Local, Progress, Maybe
  <2>3. "torn_down" \in Statuses /\ "ready" \in Statuses
    BY DEF Statuses
  <2>4. status' = CASE w = "ready"  -> [status EXCEPT ![D(e)] = "ready"]
                    [] w = "down"   -> [status EXCEPT ![D(e)] = "torn_down"]
                    [] w = "retire" -> Retired(e)
                    [] OTHER        -> status
    BY <1>5 DEF WriteRows
  <2>5. CASE w = "ready"
    BY <1>1, <1>2, <2>3, <2>4, <2>5, StandingStays
  <2>6. CASE w = "down"
    BY <1>1, <1>2, <2>3, <2>4, <2>6, StandingStays
  <2>7. CASE w = "retire"
    BY <1>1, <2>2, <2>3, <2>4, <2>7, StandingStays DEF Retired
  <2>8. CASE w \notin {"ready", "down", "retire"}
    BY <1>1, <2>4, <2>8, StandingStays
  <2> QED
    BY <2>5, <2>6, <2>7, <2>8
<1>11. mode' \in Maybe(Presets) /\ (setup.live # NULL => mode' # NULL)
  BY <1>2, <1>3, <1>8 DEF Maybe, Modes
<1>12. \A f \in Execs : Owed(f) => mode' \in {NULL, Preset(D(f))}
  BY <1>8, SameMode DEF Owed
<1>13. Modes' /\ (NoneDied => Settled')
  BY <1>1, <1>6, <1>7, <1>8, <1>9, <1>11, <1>12, PreviewSettled
<1>14. FollowTypes'
  BY <1>1, <1>6, <1>10, <1>11 DEF FollowInv, FollowTypes
<1>15. Progress(e)'
  <2> SUFFICES ASSUME Op(e) = "release"
               PROVE  /\ mode' \in {NULL, Preset(D(e))} /\ ("claim" \notin Left(e)' => mode' = Preset(D(e)))
                      /\ prev[e] # NULL => Slot(prev[e]) = "preview"
    BY <1>1 DEF Progress, Op, D, Slot, Preset
  <2>1. /\ mode \in {NULL, Preset(D(e))} /\ ("claim" \notin Left(e) => mode = Preset(D(e)))
        /\ prev[e] # NULL => Slot(prev[e]) = "preview"
    BY <1>1, <1>3 DEF Local, Progress
  <2> QED
    BY <1>1, <1>2, <1>8, <2>1
<1>16. Claims(e)'
  BY <1>1, <1>2, <1>3, <1>6, <1>8, <1>9 DEF Local, Claims, LiveRelease, Op, D, Slot
<1>17. Kept(e)' /\ RollBasis(e)' /\ Rolling(e)' /\ Undone(e)'
  BY <1>1, <1>3 DEF Kept, RollBasis, Rolling, Undone, LiveRelease, Op, D, Slot
<1>18. Local(e)'
  BY <1>1, <1>15, <1>16, <1>17 DEF Local
<1> QED
  BY <1>1, <1>10, <1>13, <1>14, <1>17, <1>18, HolderFollows

\* Writes of a release of the live slot.
LEMMA LiveWritten ==
  ASSUME ProjectInv, FollowInv, [Next]_vars, NEW e \in Execs, Write(e), LiveRelease(e)
  PROVE  FollowInv'
<1> DEFINE w == Head(todo[e])
<1>1. /\ UNCHANGED <<setup, budget, suspended, deleted, pc, prev, tries>>
      /\ pc[e] = "write" /\ pc[e] \notin Outside /\ todo[e] # <<>> /\ w \in WriteNames(e)
      /\ todo' \in [Execs -> Seq(Writes)] /\ todo'[e] = Tail(todo[e]) /\ claimed' \subseteq Execs
      /\ \A f \in Execs : f # e => Same(f)
      /\ w \in Left(e) /\ Left(e)' \subseteq Left(e) /\ Left(e) \subseteq Left(e)' \cup {w} /\ Shaped(e)'
      /\ w = "mark" => Left(e)' \subseteq {"sync"}
      /\ w = "sync" => Left(e)' \subseteq {"mode", "error", "failed"}
      /\ budget' \in Nat /\ budget' <= budget /\ tries'[e] > budget' + 0
  BY WriteFrame
<1>2. /\ D(e) \in Deployments /\ Preset(D(e)) \in Presets /\ NULL \notin Presets /\ NULL \notin Deployments
      /\ points \in [Presets -> [Slots -> Maybe(Deployments)]] /\ "live" \in Slots
      /\ mode \in Maybe(Presets) /\ live \in Maybe(Deployments) /\ Modes /\ Local(e) /\ queue \in {"none", "live", "withdrawn"}
  BY Situation, ReleaseAssumption DEF ProjectInv, Types, FollowInv, FollowTypes, Slots
<1>3. Op(e) = "release" /\ Slot(D(e)) = "live"
  BY DEF LiveRelease
<1>4. w \in {"point", "route", "domains", "key", "claim", "ready", "mark", "sync"} /\ (w = "sync" => Preset(D(e)) = "serverless")
  BY <1>1, <1>2, <1>3 DEF WriteNames, LiveRelease, Presets
<1>5. /\ points' = IF w = "point" THEN [points EXCEPT ![Preset(D(e))]["live"] = D(e)] ELSE points
      /\ queue' = IF w = "sync" THEN "live" ELSE queue
      /\ recorded' = IF w = "ready" THEN recorded \cup {D(e)} ELSE recorded
      /\ live' = IF w = "mark" THEN D(e) ELSE live
      /\ status' = IF w = "ready" THEN [status EXCEPT ![D(e)] = "ready"] ELSE status
      /\ \/ UNCHANGED <<mode, claimed>> /\ (w = "claim" => mode # NULL)
         \/ w = "claim" /\ mode = NULL /\ mode' = Preset(D(e)) /\ claimed' = claimed \cup {e}
  <2>1. WriteTraffic(e, w) /\ WriteRows(e, w)
    BY DEF Write
  <2>2. queue # "withdrawn"
    BY <1>2 DEF Modes
  <2> HIDE DEF w
  <2>3. points' = IF w = "point" THEN [points EXCEPT ![Preset(D(e))]["live"] = D(e)] ELSE points
    BY <1>3, <1>4, <2>1 DEF WriteTraffic, Host
  <2>4. queue' = IF w = "sync" THEN "live" ELSE queue
    BY <2>1, <2>2 DEF WriteTraffic
  <2>5. status' = IF w = "ready" THEN [status EXCEPT ![D(e)] = "ready"] ELSE status
    BY <1>4, <2>1 DEF WriteRows
  <2> QED
    BY <1>4, <2>1, <2>3, <2>4, <2>5 DEF WriteRows
<1> HIDE DEF w
<1>6. /\ mode \in {NULL, Preset(D(e))}
      /\ "claim" \notin Left(e) => mode = Preset(D(e))
      /\ "point" \notin Left(e) => points[Preset(D(e))]["live"] = D(e)
      /\ "ready" \notin Left(e) => D(e) \in recorded
      /\ "mark" \notin Left(e) => live = D(e)
      /\ "sync" \notin Left(e) /\ Preset(D(e)) = "serverless" => queue = "live"
      /\ "claim" \in Left(e) => live = prev[e]
      /\ Preset(D(e)) = "static" => live = prev[e]
  BY <1>1, <1>2, <1>3 DEF Local, Progress
<1>7. mode = NULL => live = NULL /\ queue # "live" /\ setup.live = NULL
  <2>1. live # NULL => live \in Deployments /\ mode = Preset(live)
    BY <1>2 DEF Modes, Maybe
  <2>2. live # NULL => mode \in Presets
    BY <2>1, Situation DEF ProjectInv, Types
  <2>3. NULL # "serverless"
    BY <1>2 DEF Presets
  <2> QED
    BY <1>2, <2>2, <2>3 DEF Modes
<1>8. /\ mode' \in {NULL, Preset(D(e))}
      /\ "claim" \notin Left(e)' => mode' = Preset(D(e))
      /\ "point" \notin Left(e)' => points'[Preset(D(e))]["live"] = D(e)
      /\ "ready" \notin Left(e)' => D(e) \in recorded'
      /\ "mark" \notin Left(e)' => live' = D(e)
      /\ "sync" \notin Left(e)' /\ Preset(D(e)) = "serverless" => queue' = "live"
      /\ "claim" \in Left(e)' => live' = prev[e]
  <2>1. mode' \in {NULL, Preset(D(e))} /\ ("claim" \notin Left(e)' => mode' = Preset(D(e)))
    BY <1>1, <1>2, <1>5, <1>6
  <2>2. "point" \notin Left(e)' => points'[Preset(D(e))]["live"] = D(e)
    BY <1>1, <1>2, <1>5, <1>6
  <2>3. "ready" \notin Left(e)' => D(e) \in recorded'
    BY <1>1, <1>5, <1>6
  <2>4. "mark" \notin Left(e)' => live' = D(e)
    BY <1>1, <1>5, <1>6
  <2>5. "sync" \notin Left(e)' /\ Preset(D(e)) = "serverless" => queue' = "live"
    BY <1>1, <1>5, <1>6
  <2>6. "claim" \in Left(e)' => live' = prev[e]
    BY <1>1, <1>5, <1>6
  <2> QED
    BY <2>1, <2>2, <2>3, <2>4, <2>5, <2>6
<1>9. Preset(D(e)) = "static" /\ todo'[e] # <<>> => live' = prev[e]
  <2> SUFFICES ASSUME Preset(D(e)) = "static", todo'[e] # <<>>, w = "mark" PROVE FALSE
    BY <1>5, <1>6
  <2>1. todo'[e] \in Seq(Writes) /\ InOrder(todo'[e]) /\ Left(e)' = Names(todo'[e]) /\ Left(e)' \subseteq WriteNames(e)'
    BY <1>1 DEF Shaped, Left
  <2>2. Head(todo'[e]) \in Left(e)'
    BY <2>1, Turn
  <2>3. "sync" \notin WriteNames(e)'
    BY <1>1, <1>3 DEF WriteNames, LiveRelease, Op, D, Slot, Preset
  <2> QED
    BY <1>1, <2>1, <2>2, <2>3
<1>10. Modes'
  <2>1. w = "mark" => mode = Preset(D(e)) /\ D(e) \in recorded
    BY <1>1, <1>6
  <2>2. w = "sync" => mode = "serverless"
    BY <1>1, <1>4, <1>6
  <2>3. live' # NULL => mode' = Preset(live') /\ live' \in recorded'
    BY <1>2, <1>5, <1>7, <2>1 DEF Modes
  <2>4. queue' # "withdrawn" /\ (queue' = "live" => mode' = "serverless") /\ (setup.live # NULL => mode' # NULL)
    BY <1>2, <1>5, <1>7, <2>2 DEF Modes
  <2> QED
    BY <1>1, <2>3, <2>4 DEF Modes, Preset
<1>11. status' \in [Deployments -> Statuses] /\ Standing'
  BY <1>1, <1>2, <1>5, StandingStays DEF Statuses
<1>12. FollowTypes'
  BY <1>1, <1>2, <1>5, <1>11 DEF FollowInv, FollowTypes, Maybe
<1>13. Progress(e)'
  BY <1>1, <1>3, <1>8, <1>9 DEF Progress, Op, D, Slot, Preset
<1>14. Claims(e)'
  <2>1. CASE e \in claimed
    <3>1. /\ setup.live = NULL /\ prev[e] = NULL
          /\ queue = "live" => Preset(D(e)) = "serverless"
      BY <1>2, <1>3, <2>1 DEF Local, Claims
    <3>2. live' # NULL => todo'[e] = <<>> \/ Preset(D(e)) = "serverless"
      BY <1>2, <1>9, <3>1 DEF Presets
    <3>3. queue' = "live" => Preset(D(e)) = "serverless"
      BY <1>4, <1>5, <3>1
    <3> QED
      BY <1>1, <1>3, <3>1, <3>2, <3>3 DEF Claims, LiveRelease, Op, D, Slot, Preset
  <2>2. CASE e \notin claimed /\ e \in claimed'
    <3>1. w = "claim" /\ mode = NULL
      BY <1>5, <2>2
    <3>2. prev[e] = NULL /\ live' = NULL /\ queue' # "live" /\ setup.live = NULL
      BY <1>1, <1>5, <1>6, <1>7, <3>1
    <3> QED
      BY <1>1, <1>3, <3>2 DEF Claims, LiveRelease, Op, D, Slot
  <2> QED
    BY <2>1, <2>2 DEF Claims
<1>15. Kept(e)'
  BY <1>1, <1>2, <1>5 DEF Local, Kept, LiveRelease, Op, D, Slot
<1>16. RollBasis(e)' /\ Rolling(e)' /\ Undone(e)'
  BY <1>1, <1>3 DEF RollBasis, Rolling, Undone, Op
<1>17. Settled'
  <2>1. Moving(e)'
    BY <1>1, <1>3 DEF Moving, Op, D, Slot
  <2> QED
    BY <2>1 DEF Settled
<1>18. Local(e)'
  BY <1>1, <1>13, <1>14, <1>15, <1>16 DEF Local
<1> QED
  BY <1>1, <1>10, <1>11, <1>12, <1>16, <1>17, <1>18, HolderFollows

\* Writes of a rollback.
LEMMA RollbackWritten ==
  ASSUME ProjectInv, FollowInv, [Next]_vars, NEW e \in Execs, Write(e), Op(e) = "rollback"
  PROVE  FollowInv'
<1> DEFINE w == Head(todo[e])
<1>1. /\ UNCHANGED <<setup, budget, suspended, deleted, pc, prev, tries>>
      /\ pc[e] = "write" /\ pc[e] \notin Outside /\ w \in WriteNames(e)
      /\ todo' \in [Execs -> Seq(Writes)] /\ claimed' \subseteq Execs
      /\ \A f \in Execs : f # e => Same(f)
      /\ Left(e) \subseteq Left(e)' \cup {w} /\ Shaped(e)'
      /\ budget' \in Nat /\ budget' <= budget /\ tries'[e] > budget' + 0
  BY WriteFrame
<1>2. /\ D(e) \in Deployments /\ Preset(D(e)) \in Presets /\ NULL \notin Presets /\ NULL \notin Deployments
      /\ points \in [Presets -> [Slots -> Maybe(Deployments)]] /\ "live" \in Slots
      /\ Modes /\ Local(e) /\ (NoneDied => Rolling(e))
  BY Situation, ReleaseAssumption DEF ProjectInv, Types, FollowInv, Slots
<1>3. Slot(D(e)) = "live" /\ e \notin claimed
  BY <1>1, <1>2 DEF Local, Shaped, Claims
<1>4. w \in {"point", "route", "domains", "key", "move"}
  BY <1>1 DEF WriteNames, LiveRelease
<1>5. /\ points' = IF w = "point" THEN [points EXCEPT ![Preset(D(e))]["live"] = D(e)] ELSE points
      /\ UNCHANGED <<queue, recorded, mode, claimed, status>>
      /\ live' = IF w = "move" THEN D(e) ELSE live
  <2>1. WriteTraffic(e, w) /\ WriteRows(e, w)
    BY DEF Write
  <2> HIDE DEF w
  <2>2. points' = IF w = "point" THEN [points EXCEPT ![Preset(D(e))]["live"] = D(e)] ELSE points
    BY <1>3, <1>4, <2>1 DEF WriteTraffic, Host
  <2>3. UNCHANGED status
    BY <1>4, <2>1 DEF WriteRows
  <2> QED
    BY <1>4, <2>1, <2>2, <2>3 DEF WriteTraffic, WriteRows
<1> HIDE DEF w
<1>6. /\ D(e) \in recorded /\ mode = Preset(D(e)) /\ live # NULL
      /\ prev[e] # NULL /\ prev[e] \in recorded /\ Preset(prev[e]) = mode
  BY <1>1, <1>2 DEF Local, RollBasis
<1>7. Modes'
  BY <1>1, <1>2, <1>5, <1>6 DEF Modes, Preset
<1>8. status' \in [Deployments -> Statuses] /\ Standing'
  BY <1>1, <1>5, StandingStays
<1>9. FollowTypes'
  BY <1>1, <1>2, <1>5, <1>8 DEF FollowInv, FollowTypes, Maybe
<1>10. RollBasis(e)'
  BY <1>1, <1>2, <1>5, <1>6 DEF RollBasis, D, Preset
<1>11. Pending => Pending'
  <2>1. ~Owed(e)
    BY DEF Owed, LiveRelease
  <2> QED
    BY <1>1, <1>5, <2>1, OthersOwe
<1>12. NoneDied => Rolling(e)'
  <2> SUFFICES ASSUME NoneDied, ~Pending
               PROVE  /\ (queue' = "live") <=> (mode' = "serverless")
                      /\ "point" \notin Left(e)' => points'[mode']["live"] = D(e)
                      /\ "move" \notin Left(e)' => live' = D(e)
    BY <1>1, <1>11 DEF Rolling, D
  <2>1. /\ (queue = "live") <=> (mode = "serverless")
        /\ "point" \notin Left(e) => points[mode]["live"] = D(e)
        /\ "move" \notin Left(e) => live = D(e)
    BY <1>1, <1>2 DEF Rolling
  <2>2. "point" \notin Left(e)' => points'[mode']["live"] = D(e)
    BY <1>1, <1>2, <1>5, <1>6, <2>1
  <2> QED
    BY <1>1, <1>5, <2>1, <2>2
<1>13. Progress(e)' /\ Kept(e)' /\ Claims(e)' /\ Undone(e)'
  BY <1>1, <1>3, <1>5 DEF Progress, Kept, Claims, Undone, LiveRelease, Op
<1>14. Settled'
  <2>1. Moving(e)'
    BY <1>1, <1>3 DEF Moving, Op, D, Slot
  <2> QED
    BY <2>1 DEF Settled
<1>15. Local(e)'
  BY <1>1, <1>10, <1>13 DEF Local
<1> QED
  BY <1>1, <1>7, <1>8, <1>9, <1>12, <1>14, <1>15, HolderFollows

\* What a compensation goes back to.
LEMMA BackIs ==
  ASSUME ProjectInv, FollowInv, NEW e \in Execs, Undo(e)
  PROVE  LET w == Head(todo[e])
             back == IF Restorable(e) THEN prev[e] ELSE NULL
         IN  /\ back \in Maybe(Deployments) /\ (back # NULL => back = prev[e] /\ back \in recorded /\ Preset(back) = Preset(D(e)))
             /\ points' = IF w = "point" THEN [points EXCEPT ![Preset(D(e))][Slot(D(e))] = back] ELSE points
             /\ queue' = IF w = "sync" THEN (IF back = NULL THEN "none" ELSE "live") ELSE queue
             /\ live' = IF w = "live" THEN back ELSE live
             /\ mode' = IF w = "mode" /\ e \in claimed THEN NULL ELSE mode
             /\ status' \in [Deployments -> Statuses] /\ Standing'
<1> DEFINE w == Head(todo[e])
           back == IF Restorable(e) THEN prev[e] ELSE NULL
<1>1. back \in Maybe(Deployments) /\ (back # NULL => back = prev[e] /\ back \in recorded /\ Preset(back) = Preset(D(e)))
  BY DEF Restorable, Maybe, FollowInv, FollowTypes
<1>2. /\ points' = IF w = "point" THEN [points EXCEPT ![Preset(D(e))][Host(e)] = back] ELSE points
      /\ queue' = IF w = "sync" /\ queue # "withdrawn" THEN (IF back = NULL THEN "none" ELSE "live") ELSE queue
      /\ live' = IF w = "live" THEN back ELSE live
      /\ mode' = IF w = "mode" /\ e \in claimed THEN NULL ELSE mode
      /\ status' = CASE w = "error" -> [status EXCEPT ![D(e)] = "error"]
                     [] w = "revive" /\ back # NULL -> [status EXCEPT ![back] = "ready"]
                     [] OTHER -> status
      /\ UNCHANGED <<setup, deleted>>
  BY DEF Undo, worldVars
<1> HIDE DEF w, back
<1>3. queue # "withdrawn"
  BY DEF FollowInv, Modes
<1>4. status' \in [Deployments -> Statuses] /\ Standing'
  <2>1. D(e) \in Deployments /\ "error" \in Statuses /\ "ready" \in Statuses
    BY Situation DEF ProjectInv, Types, Statuses
  <2>2. CASE w = "error"
    BY <1>2, <2>1, <2>2, StandingStays
  <2>3. CASE w = "revive" /\ back # NULL
    <3>1. back \in Deployments /\ status' = [status EXCEPT ![back] = "ready"]
      BY <1>1, <1>2, <2>3 DEF Maybe
    <3> QED
      BY <1>2, <2>1, <3>1, StandingStays
  <2>4. CASE w # "error" /\ ~(w = "revive" /\ back # NULL)
    BY <1>2, <2>4, StandingStays
  <2> QED
    BY <2>2, <2>3, <2>4
<1> QED
  BY <1>1, <1>2, <1>3, <1>4 DEF w, back, Host

\* The compensation of a preview's release.
LEMMA PreviewUndone ==
  ASSUME ProjectInv, FollowInv, [Next]_vars, NEW e \in Execs, Undo(e), Slot(D(e)) = "preview"
  PROVE  FollowInv'
<1> DEFINE w == Head(todo[e])
           back == IF Restorable(e) THEN prev[e] ELSE NULL
<1>1. /\ UNCHANGED <<setup, budget, recorded, suspended, deleted, pc, prev, claimed, tries>>
      /\ pc[e] = "undo" /\ pc[e] \notin Outside /\ w \in UndoNames(e)
      /\ todo' \in [Execs -> Seq(Writes)] /\ \A f \in Execs : f # e => Same(f)
      /\ Shaped(e)' /\ budget' \in Nat /\ budget' <= budget /\ tries'[e] > budget' + 1
  BY UndoFrame
<1>2. /\ D(e) \in Deployments /\ Preset(D(e)) \in Presets /\ Op(e) \in Ops
      /\ points \in [Presets -> [Slots -> Maybe(Deployments)]] /\ "live" \in Slots /\ "preview" \in Slots
      /\ mode \in Maybe(Presets) /\ Modes /\ Local(e) /\ claimed \subseteq Execs
  BY Situation DEF ProjectInv, Types, FollowInv, FollowTypes, Slots
<1>3. Op(e) = "release" /\ w \in {"point", "route", "revive", "mode", "error"}
  <2>1. Op(e) \in {"release", "retire"}
    BY <1>1, <1>2 DEF Local, Shaped, Ops
  <2> QED
    BY <1>1, <2>1 DEF UndoNames, LiveRelease
<1>4. /\ points' = IF w = "point" THEN [points EXCEPT ![Preset(D(e))]["preview"] = back] ELSE points
      /\ queue' = IF w = "sync" THEN (IF back = NULL THEN "none" ELSE "live") ELSE queue
      /\ live' = IF w = "live" THEN back ELSE live
      /\ mode' = IF w = "mode" /\ e \in claimed THEN NULL ELSE mode
      /\ status' \in [Deployments -> Statuses] /\ Standing'
  BY BackIs
<1> HIDE DEF w, back
<1>5. e \in claimed => setup.live = NULL /\ live = NULL /\ queue # "live"
  BY <1>2 DEF Local, Claims, LiveRelease
<1>6. UNCHANGED <<live, queue>> /\ \A p \in Presets : points'[p]["live"] = points[p]["live"]
  BY <1>2, <1>3, <1>4
<1>7. mode' \in Maybe(Presets) /\ (setup.live # NULL => mode' # NULL) /\ mode' \in {mode, NULL}
  BY <1>2, <1>4, <1>5 DEF Maybe, Modes
<1>8. UNCHANGED mode \/ (live = NULL /\ queue # "live")
  BY <1>4, <1>5
<1>9. \A f \in Execs : Owed(f) => mode' \in {NULL, Preset(D(f))}
  BY <1>7 DEF Owed
<1>10. Modes' /\ (NoneDied => Settled')
  BY <1>1, <1>6, <1>7, <1>8, <1>9, PreviewSettled
<1>11. FollowTypes'
  BY <1>1, <1>2, <1>4, <1>6, <1>7 DEF FollowInv, FollowTypes
<1>12. Claims(e)'
  BY <1>1, <1>2, <1>3, <1>5, <1>6 DEF Claims, Op, D, Slot
<1>13. Progress(e)' /\ Kept(e)' /\ RollBasis(e)' /\ Rolling(e)' /\ Undone(e)'
  BY <1>1, <1>3 DEF Progress, Preparing, Kept, RollBasis, Rolling, Undone, LiveRelease, Op, D, Slot
<1>14. Local(e)'
  BY <1>1, <1>12, <1>13 DEF Local
<1> QED
  BY <1>1, <1>4, <1>10, <1>11, <1>13, <1>14, HolderFollows

\* The compensation of a release of the live slot: it is owed until it has given the serving mode back.
LEMMA LiveUndone ==
  ASSUME ProjectInv, FollowInv, [Next]_vars, NEW e \in Execs, Undo(e), LiveRelease(e)
  PROVE  FollowInv'
<1> DEFINE w == Head(todo[e])
           back == IF Restorable(e) THEN prev[e] ELSE NULL
<1>1. /\ UNCHANGED <<setup, budget, recorded, suspended, deleted, pc, prev, claimed, tries>>
      /\ pc[e] = "undo" /\ pc[e] \notin Outside /\ w \in UndoNames(e)
      /\ todo' \in [Execs -> Seq(Writes)] /\ \A f \in Execs : f # e => Same(f)
      /\ w \in Left(e) /\ Left(e)' \subseteq Left(e) /\ Left(e) \subseteq Left(e)' \cup {w}
      /\ w = "mode" => Left(e)' \subseteq {"error", "failed"}
      /\ Shaped(e)' /\ budget' \in Nat /\ budget' <= budget /\ tries'[e] > budget' + 1
  BY UndoFrame
<1>2. /\ D(e) \in Deployments /\ Preset(D(e)) \in Presets /\ NULL \notin Presets /\ NULL \notin Deployments
      /\ mode \in Maybe(Presets) /\ live \in Maybe(Deployments) /\ queue \in {"none", "live", "withdrawn"}
      /\ Modes /\ Local(e) /\ claimed \subseteq Execs
  BY Situation, ReleaseAssumption DEF ProjectInv, Types, FollowInv, FollowTypes
<1>3. Op(e) = "release" /\ Slot(D(e)) = "live"
  BY DEF LiveRelease
<1>4. w \in {"live", "sync"} => Preset(D(e)) = "serverless"
  BY <1>1, <1>2, <1>3 DEF UndoNames, LiveRelease, Presets
<1>5. /\ back \in Maybe(Deployments) /\ (back # NULL => back = prev[e] /\ back \in recorded /\ Preset(back) = Preset(D(e)))
      /\ w # "point" => UNCHANGED points
      /\ queue' = IF w = "sync" THEN (IF back = NULL THEN "none" ELSE "live") ELSE queue
      /\ live' = IF w = "live" THEN back ELSE live
      /\ mode' = IF w = "mode" /\ e \in claimed THEN NULL ELSE mode
      /\ status' \in [Deployments -> Statuses] /\ Standing'
  BY BackIs
<1> HIDE DEF w, back
<1>6. Owed(e) \/ (e \notin claimed /\ Left(e) \subseteq {"mode", "error", "failed"})
  BY <1>1, <1>2 DEF Local, Undone
<1>7. w \in {"live", "sync"} /\ back # NULL => mode = Preset(D(e))
  <2> SUFFICES ASSUME w \in {"live", "sync"}, back # NULL PROVE mode = Preset(D(e))
    OBVIOUS
  <2>1. mode # NULL
    BY <1>1, <1>2, <1>5 DEF Local, Kept
  <2>2. mode \in {NULL, Preset(D(e))}
    BY <1>1, <1>6 DEF Owed
  <2> QED
    BY <2>1, <2>2
<1>8. e \in claimed =>
        /\ setup.live = NULL /\ prev[e] = NULL /\ back = NULL
        /\ live # NULL => "live" \in Left(e)
        /\ queue = "live" => Preset(D(e)) = "serverless" /\ "sync" \in Left(e)
  BY <1>1, <1>2, <1>3, <1>5 DEF Local, Claims
<1>9. w = "mode" /\ e \in claimed => live = NULL /\ queue # "live"
  BY <1>1, <1>8
<1>10. Modes'
  <2>1. live' # NULL => mode' = Preset(live') /\ live' \in recorded
    BY <1>2, <1>5, <1>7, <1>9 DEF Modes
  <2>2. queue' # "withdrawn" /\ (queue' = "live" => mode' = "serverless") /\ (setup.live # NULL => mode' # NULL)
    BY <1>2, <1>4, <1>5, <1>7, <1>8, <1>9 DEF Modes
  <2> QED
    BY <1>1, <2>1, <2>2 DEF Modes, Preset
<1>11. FollowTypes'
  BY <1>1, <1>2, <1>5 DEF FollowInv, FollowTypes, Maybe
<1>12. Claims(e)'
  <2> SUFFICES ASSUME e \in claimed
               PROVE  /\ live' # NULL => "live" \in Left(e)'
                      /\ queue' = "live" => Preset(D(e)) = "serverless" /\ "sync" \in Left(e)'
    BY <1>1, <1>3, <1>8 DEF Claims, LiveRelease, Op, D, Slot, Preset
  <2> QED
    BY <1>1, <1>5, <1>8
<1>13. Kept(e)'
  <2> SUFFICES ASSUME prev[e] # NULL, {"live", "sync"} \cap Left(e)' # {} PROVE mode' # NULL
    BY <1>1 DEF Kept, Preparing
  <2>1. mode # NULL
    BY <1>1, <1>2 DEF Local, Kept
  <2> QED
    BY <1>1, <1>5, <2>1
<1>14. Owed(e) => Owed(e)'
  <2> SUFFICES ASSUME Owed(e) PROVE Owed(e)'
    OBVIOUS
  <2>1. mode' \in {NULL, Preset(D(e))} /\ pc'[e] = "undo"
    BY <1>1, <1>5 DEF Owed
  <2> QED
    BY <1>1, <2>1, OwedStays
<1>15. Undone(e)'
  BY <1>1, <1>6, <1>14 DEF Undone
<1>16. Progress(e)' /\ RollBasis(e)' /\ Rolling(e)'
  BY <1>1, <1>3 DEF Progress, Preparing, RollBasis, Rolling, Op
<1>17. NoneDied => Settled'
  <2>1. CASE Owed(e)
    BY <1>14, <2>1 DEF Settled, Pending
  <2>2. CASE ~Owed(e)
    <3>1. w \in {"mode", "error", "failed"} /\ e \notin claimed
      BY <1>1, <1>6, <2>2
    <3>2. UNCHANGED Core
      BY <1>1, <1>5, <3>1 DEF Core
    <3>3. ~Moving(e)
      BY <1>1, <1>3 DEF Moving
    <3> QED
      BY <1>1, <2>2, <3>2, <3>3, SettledStays
  <2> QED
    BY <2>1, <2>2
<1>18. Local(e)'
  BY <1>1, <1>12, <1>13, <1>15, <1>16 DEF Local
<1> QED
  BY <1>1, <1>5, <1>10, <1>11, <1>16, <1>17, <1>18, HolderFollows

\* The compensation of a rollback.
LEMMA RollbackUndone ==
  ASSUME ProjectInv, FollowInv, [Next]_vars, NEW e \in Execs, Undo(e), Op(e) = "rollback"
  PROVE  FollowInv'
<1> DEFINE w == Head(todo[e])
           back == IF Restorable(e) THEN prev[e] ELSE NULL
<1>1. /\ UNCHANGED <<setup, budget, recorded, suspended, deleted, pc, prev, claimed, tries>>
      /\ pc[e] = "undo" /\ pc[e] \notin Outside /\ todo[e] # <<>> /\ w \in UndoNames(e)
      /\ todo' \in [Execs -> Seq(Writes)] /\ \A f \in Execs : f # e => Same(f)
      /\ Left(e) \subseteq Left(e)' \cup {w} /\ Left(e)' = Names(todo'[e])
      /\ Shaped(e)' /\ budget' \in Nat /\ budget' <= budget /\ tries'[e] > budget' + 1
  BY UndoFrame
<1>2. /\ D(e) \in Deployments /\ Preset(D(e)) \in Presets /\ NULL \notin Deployments
      /\ points \in [Presets -> [Slots -> Maybe(Deployments)]] /\ "live" \in Slots
      /\ Modes /\ Local(e) /\ (NoneDied => Rolling(e)) /\ claimed \subseteq Execs /\ prev[e] \in Maybe(Deployments)
  BY Situation, ReleaseAssumption DEF ProjectInv, Types, FollowInv, FollowTypes, Slots
<1>3. Slot(D(e)) = "live" /\ e \notin claimed
  BY <1>1, <1>2 DEF Local, Shaped, Claims
<1>4. w \in {"point", "route", "domains", "key", "live"}
  BY <1>1 DEF UndoNames, LiveRelease
<1>5. /\ D(e) \in recorded /\ mode = Preset(D(e)) /\ live # NULL
      /\ prev[e] # NULL /\ prev[e] \in recorded /\ Preset(prev[e]) = mode
  BY <1>1, <1>2 DEF Local, RollBasis
<1>6. back = prev[e]
  BY <1>5 DEF Restorable
<1>7. /\ points' = IF w = "point" THEN [points EXCEPT ![Preset(D(e))][Slot(D(e))] = back] ELSE points
      /\ queue' = IF w = "sync" THEN (IF back = NULL THEN "none" ELSE "live") ELSE queue
      /\ live' = IF w = "live" THEN back ELSE live
      /\ mode' = IF w = "mode" /\ e \in claimed THEN NULL ELSE mode
      /\ status' \in [Deployments -> Statuses] /\ Standing'
  BY BackIs
<1> HIDE DEF w, back
<1>8. /\ points' = IF w = "point" THEN [points EXCEPT ![Preset(D(e))]["live"] = prev[e]] ELSE points
      /\ UNCHANGED <<queue, mode>> /\ live' = IF w = "live" THEN prev[e] ELSE live
  BY <1>3, <1>4, <1>6, <1>7
<1>9. Modes'
  BY <1>1, <1>2, <1>5, <1>8 DEF Modes, Preset
<1>10. FollowTypes'
  BY <1>1, <1>2, <1>7, <1>8 DEF FollowInv, FollowTypes
<1>11. RollBasis(e)'
  BY <1>1, <1>5, <1>8 DEF RollBasis, D, Preset
<1>12. Pending => Pending'
  <2>1. ~Owed(e)
    BY DEF Owed, LiveRelease
  <2> QED
    BY <1>1, <1>8, <2>1, OthersOwe
<1>13. NoneDied => \/ Pending'
                   \/ /\ (queue' = "live") <=> (mode' = "serverless")
                      /\ "point" \notin Left(e)' => points'[mode']["live"] = prev[e]
                      /\ "live" \notin Left(e)' => live' = prev[e]
  <2> SUFFICES ASSUME NoneDied, ~Pending
               PROVE  /\ (queue' = "live") <=> (mode' = "serverless")
                      /\ "point" \notin Left(e)' => points'[mode']["live"] = prev[e]
                      /\ "live" \notin Left(e)' => live' = prev[e]
    BY <1>12
  <2>1. /\ (queue = "live") <=> (mode = "serverless")
        /\ "point" \notin Left(e) => points[mode]["live"] = prev[e]
        /\ "live" \notin Left(e) => live = prev[e]
    BY <1>1, <1>2 DEF Rolling
  <2>2. "point" \notin Left(e)' => points'[mode']["live"] = prev[e]
    BY <1>1, <1>2, <1>5, <1>8, <2>1
  <2> QED
    BY <1>1, <1>8, <2>1, <2>2
<1>14. NoneDied => Rolling(e)'
  BY <1>1, <1>13 DEF Rolling
<1>15. Progress(e)' /\ Kept(e)' /\ Claims(e)' /\ Undone(e)'
  BY <1>1, <1>3 DEF Progress, Kept, Claims, Undone, LiveRelease, Op
<1>16. NoneDied => Settled'
  <2>1. CASE todo'[e] # <<>>
    <3>1. Moving(e)'
      BY <1>1, <1>3, <2>1 DEF Moving, Op, D, Slot
    <3> QED
      BY <3>1 DEF Settled
  <2>2. CASE todo'[e] = <<>>
    <3>1. Left(e)' = {}
      BY <1>1, <2>2, NoNames
    <3>2. NoneDied => Pending' \/ (((queue' = "live") <=> (mode' = "serverless")) /\ points'[mode']["live"] = prev[e] /\ live' = prev[e])
      BY <1>13, <3>1
    <3> QED
      BY <1>5, <3>2 DEF Settled, Clean
  <2> QED
    BY <2>1, <2>2
<1>17. Local(e)'
  BY <1>1, <1>11, <1>15 DEF Local
<1> QED
  BY <1>1, <1>7, <1>9, <1>10, <1>14, <1>16, <1>17, HolderFollows

-----------------------------------------------------------------------------
(* The steps together. *)

\* Writes and compensation, by slot and operation.
LEMMA WritersFollow ==
  ASSUME Mendable, ProjectInv, FollowInv, [Next]_vars, NEW e \in Execs, Write(e) \/ Undo(e)
  PROVE  FollowInv'
<1>1. pc[e] \in {"write", "undo"}
  BY DEF Write, Undo
<1>2. Op(e) \in Ops /\ Slot(D(e)) \in Slots
  BY Situation DEF ProjectInv, Types
<1>3. (Op(e) = "retire" => Slot(D(e)) = "preview") /\ (Op(e) = "rollback" => Slot(D(e)) = "live")
  BY <1>1 DEF FollowInv, Local, Shaped
<1>4. Slot(D(e)) = "preview" \/ LiveRelease(e) \/ Op(e) = "rollback"
  BY <1>2, <1>3 DEF Ops, Slots, LiveRelease
<1> QED
  BY <1>4, PreviewWritten, LiveWritten, RollbackWritten, PreviewUndone, LiveUndone, RollbackUndone

\* Every step of the release side.
LEMMA FollowStep ==
  ASSUME Mendable, ProjectInv, FollowInv, [Next]_vars, ReleaseSide \/ UNCHANGED vars
  PROVE  FollowInv'
<1>1. CASE Suspend \/ Refresher \/ Router \/ Expiry \/ UNCHANGED vars
  BY <1>1, BystandersFollow
<1>2. ASSUME NEW e \in Execs, Step(e) \/ Disturb(e) PROVE FollowInv'
  <2>1. pc[e] \in Places
    BY DEF ProjectInv, Types
  <2>2. CASE Begin(e) \/ Acquire(e) \/ GiveUpWaiting(e)
    BY <2>2, WaitersFollow
  <2>3. CASE Crash(e) \/ Die(e)
    <3>1. pc[e] = "wait" \/ pc[e] \notin Outside
      BY <2>1, <2>3 DEF Crash, Die, Places, Outside
    <3> QED
      BY <2>3, <3>1, WaitersFollow, EndedFollow
  <2>4. CASE CheckRelease(e) \/ CheckRollback(e) \/ CheckRetire(e)
    BY <2>4, StoppedFollow, CheckedFollow
  <2>5. CASE Migrate(e) \/ Invoke(e) \/ Migrated(e)
    <3>1. Invoke(e) \/ Migrated(e) => ~Finish(e)
      <4>1. Invoke(e) \/ Migrated(e) => pc'[e] \in {"invoked", "write", "failed"}
        BY DEF Invoke, Migrated, Goto, ProjectInv, Types
      <4>2. Finish(e) => pc'[e] = "done"
        BY DEF Finish, Leave, ProjectInv, Types
      <4> QED
        BY <4>1, <4>2
    <3> QED
      BY <2>5, <3>1, StoppedFollow, MigratorFollows
  <2>6. CASE MigrationFailed(e) \/ MigrationUnknown(e)
    <3>1. Finish(e)
      BY <2>6 DEF MigrationFailed, MigrationUnknown
    <3> QED
      BY <2>6, <3>1, StoppedFollow
  <2>7. CASE Complete(e) \/ LoseLease(e)
    <3>1. pc[e] \notin Outside
      BY <2>7 DEF Complete, LoseLease, Outside
    <3> QED
      BY <2>7, <3>1, EndedFollow
  <2>8. CASE UndoThrows(e)
    <3>1. pc[e] \notin Outside
      BY <2>8 DEF UndoThrows, Outside
    <3> QED
      BY <2>8, <3>1, EndedFollow, UndoThrownFollow
  <2> QED
    BY <1>2, <2>2, <2>3, <2>4, <2>5, <2>6, <2>7, <2>8, ThrownFollow, WritersFollow DEF Step, Disturb
<1> QED
  BY <1>1, <1>2 DEF ReleaseSide

\* Who starts to delete a project never stops: no step comes back to "none".
LEMMA DeletionStays ==
  ASSUME [Next]_vars, tpc' = "none"
  PROVE  tpc = "none" /\ (ReleaseSide \/ UNCHANGED vars)
<1>1. tpc' = "none" => ~(\E r \in setup.ends : Delete(r)) /\ ~TStep /\ ~TThrow /\ ~TCrash
  <2>1. ~(\E r \in setup.ends : Delete(r))
    BY DEF Delete
  <2>2. ~TThrow /\ ~TCrash /\ ~TStuck
    BY DEF TThrow, TCrash, TStuck, TFail, AfterFailure
  <2>3. ~TStep
    BY <2>2 DEF TStep, TGoto, TBegin, TQueues, TDomain, TUndomain, TUndomained, TStatic, TWithdraw, TFunction, TDown,
       TDestroy, TInstance, TRow, TSandboxes, TSecrets, TGone, TReport
  <2> QED
    BY <2>1, <2>2, <2>3
<1>2. ReleaseSide \/ UNCHANGED vars
  BY <1>1 DEF Next
<1>3. tpc' = tpc
  BY <1>2 DEF ReleaseSide, vars, teardownVars
<1> QED
  BY <1>2, <1>3

\* What the invariant comes to once everything has ended.
LEMMA FollowedAtRest ==
  ASSUME FollowInv, Ended
  PROVE  TrafficFollowsPointer
<1>1. \A e \in Execs : pc[e] \in {"done", "dead"}
  BY DEF Ended, Quiet
<1>2. NoneDied
  BY DEF Ended, NoneDied
<1>3. ~Pending /\ ~(\E e \in Execs : Moving(e))
  BY <1>1 DEF Pending, Owed, Moving
<1>4. Clean /\ Modes
  BY <1>2, <1>3 DEF FollowInv, Settled
<1>5. (queue = "live") = (live # NULL /\ mode = "serverless")
  BY <1>4 DEF Clean
<1> QED
  BY <1>4, <1>5 DEF Clean, Modes, TrafficFollowsPointer

\* Once every release, rollback and preview teardown of a project that is not being deleted has ended,
\* what carries its traffic is what its row says is live, whatever writes failed, processes died or
\* suspensions came in between, as long as those disturbances are of the kind Mendable describes.
THEOREM TrafficFollows == ASSUME Mendable PROVE Spec => []TrafficFollowsPointer
<1> DEFINE Inv == tpc = "none" => FollowInv
<1>1. TeardownInit => Inv
  BY FollowInit
<1>2. ProjectInv /\ Inv /\ [Next]_vars => Inv'
  BY FollowStep, DeletionStays
<1>3. Inv => TrafficFollowsPointer
  BY FollowedAtRest DEF Ended, TrafficFollowsPointer
<1> QED
  BY <1>1, <1>2, <1>3, ProjectInvariant, PTL DEF Spec

-----------------------------------------------------------------------------
(* One preview. *)

ReadyPreview(d)   == Slot(d) = "preview" /\ status[d] = "ready"
PreviewRelease(e) == Op(e) = "release" /\ Slot(D(e)) = "preview"
Shows(d)          == points[Preset(d)]["preview"] = d

\* A job for the deployment itself is still to end.
InHand(d) == \E e \in Execs : Op(e) # "rollback" /\ D(e) = d /\ pc[e] \notin {"done", "dead"}

\* A release that failed and that nothing keeps from being written when it is retried.
Coming(e) ==
  /\ pc[e] \in {"start", "wait", "check", "migrate", "write", "undo"}
  /\ Troubled(setup) /\ Safe /\ Served(D(e)) /\ status[D(e)] # "torn_down"

\* Another preview is taking this one's place, or will.
Replaces(e, d) ==
  /\ PreviewRelease(e) /\ D(e) # d /\ Preset(D(e)) = Preset(d)
  /\ pc[e] = "write" \/ Coming(e)

\* Previews are recorded by their release, and ready only then.
Listed ==
  /\ \A d \in recorded : Slot(d) = "preview" => \E e \in Execs : PreviewRelease(e) /\ D(e) = d
  /\ \A d \in Deployments : ReadyPreview(d) => d \in recorded

\* A ready preview that nobody works on any more is the one that is shown, or is being replaced.
Shown ==
  \A d \in Deployments : ReadyPreview(d) =>
    InHand(d) \/ (mode = Preset(d) /\ (Shows(d) \/ \E e \in Execs : Replaces(e, d)))

\* The serving mode may still be given back only while every ready preview is in someone's hands.
Unclaimed == claimed # {} => \A d \in Deployments : ReadyPreview(d) => InHand(d)

\* Where no worker fails, two previews are ready only while one replaces the other.
Single ==
  ~Troubled(setup) =>
    \A c, d \in Deployments : c # d /\ ReadyPreview(c) /\ ReadyPreview(d) =>
      \E e \in Execs : pc[e] = "write" /\ PreviewRelease(e) /\ D(e) \in {c, d}

\* Where there is no suspension either, a preview that has been ready never fails.
Lasting ==
  ~Troubled(setup) /\ ~Suspendable(setup) =>
    \A d \in recorded : Slot(d) = "preview" =>
      \/ \E e \in Execs : PreviewRelease(e) /\ D(e) = d /\ pc[e] \in Preparing \cup {"write"}
      \/ status[d] \in {"ready", "torn_down"} /\ mode = Preset(d)

\* The release of a preview under the lock: the only other ready preview is the one it will retire.
Replacing(e) ==
  PreviewRelease(e) /\ pc[e] \in Preparing \cup {"write"} =>
    /\ Left(e) # {} => "retire" \in Left(e)
    /\ status[D(e)] # "torn_down" /\ (pc[e] \in Preparing => status[D(e)] # "ready")
    /\ \A d \in Deployments : ReadyPreview(d) /\ d # D(e) => d = prev[e] /\ "retire" \in Left(e)
    /\ "point" \notin Left(e) => Shows(D(e))
    /\ prev[e] # NULL /\ "retire" \in Left(e) => prev[e] # D(e) /\ (ReadyPreview(prev[e]) \/ suspended)
    /\ "ready" \notin Left(e) => status[D(e)] = "ready" \/ suspended
    /\ pc[e] = "failed" => mig[D(e)] = "failed"

\* What a failed release puts back is still there, and the release will be retried.
PuttingBack(e) ==
  PreviewRelease(e) /\ pc[e] = "undo" /\ {"point", "revive"} \cap Left(e) # {} =>
    /\ Safe /\ Served(D(e)) /\ status[D(e)] # "torn_down"
    /\ prev[e] # NULL => prev[e] # D(e) /\ ReadyPreview(prev[e])

\* The teardown of a preview unpoints no other that is ready.
Closing(e) ==
  Op(e) = "retire" /\ pc[e] = "write" =>
    /\ "unpoint" \in Left(e) => \A d \in Deployments : ReadyPreview(d) => d = D(e)
    /\ "down" \notin Left(e) => status[D(e)] # "ready"

PreviewInv ==
  /\ Listed /\ Shown /\ Unclaimed /\ Single /\ Lasting
  /\ \A e \in Execs : Replacing(e) /\ PuttingBack(e) /\ Closing(e)

\* What Tidy says of the situation at hand.
LEMMA TidyIs ==
  ASSUME Tidy, setup \in Setups
  PROVE  LET apart == \A e, f \in Execs : PreviewRelease(e) /\ Op(f) = "retire" => D(e) # D(f) IN
         \/ ~Troubled(setup) /\ (Suspendable(setup) => apart)
         \/ \E d \in Deployments : \A e \in Execs : PreviewRelease(e) => D(e) = d
         \/ apart /\ \E c, d \in Deployments : \A e \in Execs : PreviewRelease(e) => D(e) \in {c, d}
<1> DEFINE rel == PreviewsTo(setup, "release")
           ret == PreviewsTo(setup, "retire")
           apart == \A e, f \in Execs : PreviewRelease(e) /\ Op(f) = "retire" => D(e) # D(f)
<1>1. \A e \in Execs : D(e) \in Deployments
  BY Situation
<1>2. \A e \in Execs : PreviewRelease(e) => D(e) \in rel
  BY <1>1 DEF PreviewsTo, PreviewRelease, Op, D, Slot
<1>3. rel \cap ret = {} => apart
  BY <1>1, <1>2 DEF PreviewsTo, PreviewRelease, Op, D, Slot
<1>4. \/ ~Troubled(setup) /\ (Suspendable(setup) => rel \cap ret = {})
      \/ \E d \in Deployments : rel \subseteq {d}
      \/ rel \cap ret = {} /\ \E c, d \in Deployments : rel \subseteq {c, d}
  BY DEF Tidy
<1> HIDE DEF rel, ret
<1> QED
  BY <1>2, <1>3, <1>4

\* Initially no preview is ready or recorded.
LEMMA PreviewInit == ASSUME TeardownInit PROVE PreviewInv
<1> USE DEF TeardownInit, Init
<1>1. setup \in Setups /\ setup.live # NULL => Slot(setup.live) = "live"
  BY ReleaseAssumption DEF Slot
<1>2. \A d \in Deployments : ~ReadyPreview(d)
  BY <1>1, ReleaseAssumption DEF ReadyPreview
<1>3. \A d \in recorded : Slot(d) # "preview"
  BY <1>1
<1>4. \A e \in Execs : pc[e] = "start"
  OBVIOUS
<1>5. \A e \in Execs : Replacing(e) /\ PuttingBack(e) /\ Closing(e)
  BY <1>4 DEF Replacing, PuttingBack, Closing, Preparing
<1> QED
  BY <1>2, <1>3, <1>5 DEF PreviewInv, Listed, Shown, Unclaimed, Single, Lasting

\* What is said of the operations and the deployments does not change.
LEMMA FixedPreviews ==
  ASSUME UNCHANGED setup
  PROVE  /\ Troubled(setup)' = Troubled(setup) /\ Suspendable(setup)' = Suspendable(setup)
         /\ \A e \in Execs : PreviewRelease(e)' = PreviewRelease(e) /\ D(e)' = D(e) /\ Op(e)' = Op(e)
         /\ \A d : Slot(d)' = Slot(d) /\ Preset(d)' = Preset(d)
  BY DEF Troubled, Suspendable, PreviewRelease, Op, D, Slot, Preset

\* A deployment is in hand as long as one of its jobs does not end.
LEMMA InHandStays ==
  ASSUME UNCHANGED setup, NEW d, InHand(d),
         \A e \in Execs : Op(e) # "rollback" /\ D(e) = d /\ pc[e] \notin {"done", "dead"} => pc'[e] \notin {"done", "dead"}
  PROVE  InHand(d)'
  BY DEF InHand, Op, D

\* A release that is coming still is, unless it ends, the preview is torn down or the project suspended.
LEMMA ComingStays ==
  ASSUME ProjectInv, FollowInv, [Next]_vars, UNCHANGED <<setup, suspended>>, budget' \in Nat, budget' <= budget,
         NEW f \in Execs, Coming(f), pc'[f] \in {"start", "wait", "check", "migrate", "write", "undo"},
         status'[D(f)] # "torn_down"
  PROVE  Coming(f)'
<1>1. D(f) \in Deployments /\ D(f)' = D(f)
  BY Situation DEF ProjectInv, Types, D
<1>2. Served(D(f))'
  <2>1. \A d \in Deployments : Served(d) => Served(d)'
    BY MigratingStep DEF ProjectInv
  <2>2. Served(D(f))
    BY DEF Coming
  <2> QED
    BY <1>1, <2>1, <2>2 DEF Served
<1>3. Safe'
  <2>1. budget \in Nat
    BY DEF FollowInv, FollowTypes
  <2> QED
    BY <2>1 DEF Coming, Safe
<1>4. Troubled(setup)'
  BY DEF Coming, Troubled
<1> QED
  BY <1>1, <1>2, <1>3, <1>4 DEF Coming

\* Steps outside the lock leave the previews as they are, but for one that is refused for a suspension.
LEMMA OutsidePreviews ==
  ASSUME ProjectInv, FollowInv, PreviewInv, UNCHANGED <<setup, points, mode, recorded, mig, claimed>>,
         suspended => suspended', Safe => Safe',
         \A d \in Deployments : status'[d] = status[d] \/ (suspended /\ status'[d] = "error"),
         \A f \in Execs : \/ Same(f)
                          \/ /\ pc[f] \in {"start", "wait"} /\ pc'[f] \in Outside \cup {"check"}
                             /\ pc'[f] \in {"done", "dead"} /\ Op(f) # "rollback" /\ Slot(D(f)) = "preview" =>
                                  status'[D(f)] # "ready" /\ ~Coming(f)
  PROVE  PreviewInv'
<1> USE FixedPreviews
<1>1. \A d \in Deployments : ReadyPreview(d)' => ReadyPreview(d)
  BY DEF ReadyPreview
<1>2. \A f \in Execs : D(f) \in Deployments
  BY Situation DEF ProjectInv, Types
<1>3. \A d \in Deployments : Shows(d) => Shows(d)'
  BY DEF Shows
<1>4. ASSUME NEW d \in Deployments, ReadyPreview(d)', InHand(d) PROVE InHand(d)'
  BY <1>4, InHandStays DEF ReadyPreview, Same, Outside
<1>5. ASSUME NEW f \in Execs, NEW d \in Deployments, Replaces(f, d) PROVE Replaces(f, d)'
  <2>1. CASE pc[f] = "write"
    BY <1>5, <2>1 DEF Replaces, Same
  <2>2. CASE Coming(f)
    <3>1. Slot(D(f)) = "preview" /\ Op(f) = "release"
      BY <1>5 DEF Replaces, PreviewRelease
    <3>2. pc'[f] \in {"start", "wait", "check", "migrate", "write", "undo"}
      BY <2>2, <3>1 DEF Coming, Same, Outside
    <3>3. Served(D(f))' /\ status'[D(f)] # "torn_down" /\ Safe'
      BY <1>2, <2>2 DEF Coming, Served
    <3>4. Coming(f)'
      BY <2>2, <3>2, <3>3 DEF Coming
    <3> QED
      BY <1>5, <3>4 DEF Replaces
  <2> QED
    BY <1>5, <2>1, <2>2 DEF Replaces
<1>6. Listed'
  BY <1>1 DEF PreviewInv, Listed
<1>7. Shown'
  BY <1>1, <1>3, <1>4, <1>5 DEF PreviewInv, Shown
<1>8. Unclaimed'
  BY <1>1, <1>4 DEF PreviewInv, Unclaimed
<1>9. Single'
  <2>1. \A f \in Execs : pc[f] = "write" => pc'[f] = "write"
    BY DEF Same
  <2> QED
    BY <1>1, <2>1 DEF PreviewInv, Single
<1>10. Lasting'
  <2>1. \A f \in Execs : pc[f] \in Preparing \cup {"write"} => pc'[f] = pc[f]
    BY DEF Same, Preparing
  <2>2. ~Suspendable(setup) => ~suspended
    <3>1. setup.budget \in Nat /\ budget \in Nat
      BY ReleaseAssumption DEF ProjectInv, Types, SetupType, FollowInv, FollowTypes
    <3> QED
      BY <3>1 DEF FollowInv, Budgeted, Suspendable
  <2>3. recorded \subseteq Deployments
    BY DEF ProjectInv, Types
  <2> QED
    BY <2>1, <2>2, <2>3 DEF PreviewInv, Lasting
<1>11. ASSUME NEW f \in Execs PROVE Replacing(f)' /\ PuttingBack(f)' /\ Closing(f)'
  <2>1. Replacing(f) /\ PuttingBack(f) /\ Closing(f)
    BY DEF PreviewInv
  <2>2. CASE Same(f)
    <3>1. pc'[f] = pc[f] /\ Left(f)' = Left(f) /\ prev'[f] = prev[f] /\ prev[f] \in Maybe(Deployments)
      BY <2>2 DEF Same, Left, FollowInv, FollowTypes
    <3>2. prev[f] # NULL => prev[f] \in Deployments
      BY <3>1 DEF Maybe
    <3>3. Replacing(f)'
      <4> SUFFICES ASSUME PreviewRelease(f), pc[f] \in Preparing \cup {"write"} PROVE Replacing(f)'
        BY <3>1 DEF Replacing
      <4>1. /\ Left(f) # {} => "retire" \in Left(f)
            /\ status[D(f)] # "torn_down" /\ (pc[f] \in Preparing => status[D(f)] # "ready")
            /\ \A d \in Deployments : ReadyPreview(d) /\ d # D(f) => d = prev[f] /\ "retire" \in Left(f)
            /\ "point" \notin Left(f) => Shows(D(f))
            /\ prev[f] # NULL /\ "retire" \in Left(f) => prev[f] # D(f) /\ (ReadyPreview(prev[f]) \/ suspended)
            /\ "ready" \notin Left(f) => status[D(f)] = "ready" \/ suspended
            /\ pc[f] = "failed" => mig[D(f)] = "failed"
        BY <2>1 DEF Replacing
      <4>2. prev[f] # NULL /\ ReadyPreview(prev[f]) => ReadyPreview(prev[f])' \/ suspended'
        BY <3>1, <3>2 DEF ReadyPreview
      <4>3. status'[D(f)] # "torn_down" /\ (pc[f] \in Preparing => status'[D(f)] # "ready")
        BY <1>2, <4>1
      <4>4. "ready" \notin Left(f) => status'[D(f)] = "ready" \/ suspended'
        BY <1>2, <4>1
      <4> QED
        BY <1>1, <1>2, <1>3, <3>1, <4>1, <4>2, <4>3, <4>4 DEF Replacing
    <3>4. PuttingBack(f)'
      <4> SUFFICES ASSUME PreviewRelease(f), pc[f] = "undo", {"point", "revive"} \cap Left(f) # {} PROVE PuttingBack(f)'
        BY <3>1 DEF PuttingBack
      <4>1. Safe /\ Served(D(f)) /\ status[D(f)] # "torn_down" /\ (prev[f] # NULL => prev[f] # D(f) /\ ReadyPreview(prev[f]))
        BY <2>1 DEF PuttingBack
      <4>2. \A d \in Deployments : status'[d] = status[d]
        BY <4>1 DEF Safe
      <4> QED
        BY <1>2, <3>1, <3>2, <4>1, <4>2 DEF PuttingBack, Served, ReadyPreview
    <3>5. Closing(f)'
      BY <1>1, <1>2, <2>1, <3>1 DEF Closing
    <3> QED
      BY <3>3, <3>4, <3>5
  <2>3. CASE ~Same(f)
    <3>1. pc'[f] \in Outside \cup {"check"}
      BY <2>3
    <3> QED
      BY <3>1 DEF Replacing, PuttingBack, Closing, Preparing, Outside
  <2> QED
    BY <2>2, <2>3
<1> QED
  BY <1>6, <1>7, <1>8, <1>9, <1>10, <1>11 DEF PreviewInv

\* The suspension, the refresher, the router and the expiry.
LEMMA BystandersAndPreviews ==
  ASSUME ProjectInv, FollowInv, PreviewInv, Suspend \/ Refresher \/ Router \/ Expiry \/ UNCHANGED vars
  PROVE  PreviewInv'
<1>1. UNCHANGED <<setup, points, mode, recorded, mig, status, pc, todo, prev, claimed, tries>>
  BY DEF Suspend, Refresher, RefreshRead, RefreshWrite, Router, RouterLookup, RouterBackfill, Expiry, Expire, ExpireKey,
     vars, releaseVars, rowVars, projectVars, worldVars, trafficVars, execVars
<1>2. \A f \in Execs : Same(f)
  BY <1>1 DEF Same
<1>3. (suspended => suspended') /\ (Safe => Safe')
  <2>1. CASE Suspend
    <3>1. Trouble("suspend") /\ suspended' = TRUE
      BY <2>1 DEF Suspend
    <3> QED
      BY <3>1, Spent DEF Safe
  <2>2. CASE Refresher \/ Router \/ Expiry \/ UNCHANGED vars
    <3>1. UNCHANGED <<suspended, budget>>
      BY <2>2 DEF Refresher, RefreshRead, RefreshWrite, Router, RouterLookup, RouterBackfill, Expiry, Expire, ExpireKey,
         vars, releaseVars, worldVars
    <3> QED
      BY <1>1, <3>1 DEF Safe
  <2> QED
    BY <2>1, <2>2
<1> QED
  BY <1>1, <1>2, <1>3, OutsidePreviews

\* The unlocked part of a job or request, a crash while it waits included.
LEMMA WaitersAndPreviews ==
  ASSUME Mendable, ProjectInv, FollowInv, PreviewInv, NEW e \in Execs,
         Begin(e) \/ Acquire(e) \/ GiveUpWaiting(e) \/ ((Crash(e) \/ Die(e)) /\ pc[e] = "wait")
  PROVE  PreviewInv'
<1>1. UNCHANGED <<setup, points, mode, recorded, mig, suspended>>
  BY DEF Begin, Acquire, GiveUpWaiting, Crash, Die, rowVars, projectVars, worldVars, trafficVars
<1>2. /\ pc \in [Execs -> Places] /\ D(e) \in Deployments /\ Op(e) \in Ops /\ tries[e] \in Nat /\ budget \in Nat
      /\ status \in [Deployments -> Statuses] /\ ~deleted
  BY Situation DEF ProjectInv, Types, FollowInv, FollowTypes, Standing
<1>3. pc[e] \in {"start", "wait"} /\ e \notin claimed
  BY NotClaimed DEF Begin, Acquire, GiveUpWaiting
<1>4. Safe => Safe'
  <2>1. UNCHANGED budget \/ (budget > 0 /\ budget' = budget - 1)
    BY DEF Begin, Acquire, GiveUpWaiting, Crash, Die, Trouble
  <2> QED
    BY <1>1, <1>2, <2>1 DEF Safe
<1>5. ASSUME NEW p \in {"start", "done", "dead"}, Leave(e, p), \A f \in Execs : f # e => tries'[f] = tries[f],
             UNCHANGED status \/ (suspended /\ status' = [status EXCEPT ![D(e)] = "error"]),
             p \in {"done", "dead"} /\ Op(e) # "rollback" /\ Slot(D(e)) = "preview" => status'[D(e)] # "ready" /\ ~Coming(e)
      PROVE  PreviewInv'
  <2>1. pc'[e] = p /\ \A f \in Execs : f # e => Same(f)
    BY <1>5, LeaveFrame DEF Same
  <2>2. claimed' = claimed
    BY <1>3, <1>5 DEF Leave
  <2>3. \A d \in Deployments : status'[d] = status[d] \/ (suspended /\ status'[d] = "error")
    BY <1>2, <1>5
  <2> QED
    BY <1>1, <1>3, <1>4, <1>5, <2>1, <2>2, <2>3, OutsidePreviews DEF Outside
<1>6. ASSUME NEW p \in {"wait", "check"}, pc' = [pc EXCEPT ![e] = p], UNCHANGED <<todo, prev, claimed, tries, status>>
      PROVE  PreviewInv'
  <2>1. pc'[e] = p /\ \A f \in Execs : f # e => Same(f)
    BY <1>2, <1>6 DEF Same
  <2> QED
    BY <1>1, <1>3, <1>4, <1>6, <2>1, OutsidePreviews DEF Outside
<1>7. CASE Begin(e)
  <2>1. CASE Moot(e) /\ Finish(e) /\ UNCHANGED status
    <3>1. Op(e) # "rollback" /\ Slot(D(e)) = "preview" => status[D(e)] = "torn_down"
      BY <1>2, <2>1 DEF Moot
    <3> QED
      BY <1>5, <2>1, <3>1 DEF Finish, Coming
  <2>2. CASE Op(e) = "release" /\ suspended /\ Finish(e) /\ SetStatus(D(e), "error")
    <3>1. status'[D(e)] # "ready" /\ ~Coming(e)
      BY <1>2, <2>2 DEF SetStatus, Coming, Safe
    <3> QED
      BY <1>5, <2>2, <3>1 DEF Finish, SetStatus
  <2>3. CASE Goto(e, "wait") /\ UNCHANGED status
    BY <1>6, <2>3 DEF Goto
  <2> QED
    BY <1>7, <2>1, <2>2, <2>3 DEF Begin
<1>8. CASE Acquire(e)
  BY <1>6, <1>8 DEF Acquire, rowVars
<1>9. CASE GiveUpWaiting(e)
  <2>1. Fail(e) /\ tries[e] > 1 /\ UNCHANGED status
    <3>1. budget > 0
      BY <1>9 DEF GiveUpWaiting, Trouble
    <3>2. tries[e] > budget + 0
      BY <1>9 DEF FollowInv, Budgeted, GiveUpWaiting
    <3> QED
      BY <1>2, <1>9, <3>1, <3>2 DEF GiveUpWaiting, rowVars
  <2>2. \A f \in Execs : f # e => tries'[f] = tries[f]
    BY <2>1, FailFrame
  <2>3. (Op(e) = "rollback" /\ Leave(e, "done")) \/ Leave(e, "start")
    BY <2>1, FailFrame
  <2> QED
    BY <1>5, <2>1, <2>2, <2>3
<1>10. CASE Crash(e) \/ Die(e)
  <2>1. Leave(e, "start") \/ (Op(e) = "rollback" /\ Leave(e, "dead"))
    BY <1>10 DEF Crash, Die
  <2>2. UNCHANGED <<tries, status>>
    BY <1>10 DEF Crash, Die, rowVars
  <2> QED
    BY <1>5, <2>1, <2>2
<1> QED
  BY <1>7, <1>8, <1>9, <1>10

\* Who holds the lock takes a step: nothing is said of the others' writes.
LEMMA HolderPreviews ==
  ASSUME ProjectInv, NEW e \in Execs, pc[e] \notin Outside, \A f \in Execs : f # e => Same(f),
         Listed', Shown', Unclaimed', Single', Lasting', Replacing(e)', PuttingBack(e)', Closing(e)'
  PROVE  PreviewInv'
<1>1. ASSUME NEW f \in Execs, f # e PROVE Replacing(f)' /\ PuttingBack(f)' /\ Closing(f)'
  <2>1. pc'[f] \in Outside
    BY <1>1, Alone DEF ProjectInv, Same
  <2> QED
    BY <2>1 DEF Replacing, PuttingBack, Closing, Preparing, Outside
<1> QED
  BY <1>1 DEF PreviewInv

\* Others replace what they replaced.
LEMMA OthersReplace ==
  ASSUME ProjectInv, FollowInv, [Next]_vars, UNCHANGED <<setup, suspended>>, budget' \in Nat, budget' <= budget,
         NEW e \in Execs, pc[e] \notin Outside, NEW f \in Execs, f # e, Same(f), NEW d, Replaces(f, d),
         status'[D(f)] # "torn_down" \/ status'[D(f)] = status[D(f)]
  PROVE  Replaces(f, d)'
<1>1. Coming(f)
  BY Alone DEF ProjectInv, Outside, Replaces
<1>2. pc'[f] \in {"start", "wait", "check", "migrate", "write", "undo"} /\ status'[D(f)] # "torn_down"
  BY <1>1 DEF Coming, Same
<1>3. Coming(f)'
  BY <1>1, <1>2, ComingStays
<1> QED
  BY <1>3, FixedPreviews DEF Replaces

\* Only the holder of the lock has claimed the serving mode.
LEMMA OnlyHolderClaims ==
  ASSUME ProjectInv, FollowInv, NEW e \in Execs, pc[e] \notin Outside
  PROVE  claimed \subseteq {e}
<1>1. claimed \subseteq Execs
  BY DEF FollowInv, FollowTypes
<1>2. \A f \in claimed : pc[f] \in {"write", "undo"}
  BY <1>1 DEF FollowInv, Local, Claims
<1> QED
  BY <1>1, <1>2, Alone DEF ProjectInv, Outside

\* The holder of the lock leaves, for good or to be retried.
LEMMA LeaverPreviews ==
  ASSUME ProjectInv, FollowInv, PreviewInv, [Next]_vars, NEW e \in Execs, pc[e] \notin Outside,
         NEW p \in {"start", "done", "dead"}, Leave(e, p), \A f \in Execs : f # e => tries'[f] = tries[f],
         UNCHANGED <<setup, points, mode, recorded, suspended>>, budget' \in Nat, budget' <= budget,
         \A d \in Deployments : status'[d] = status[d] \/ (d = D(e) /\ Op(e) = "release" /\ status'[d] = "error"),
         p # "start" /\ Op(e) # "rollback" /\ ReadyPreview(D(e))' => mode = Preset(D(e)) /\ Shows(D(e)),
         \A d \in Deployments : ReadyPreview(d)' /\ mode = Preset(d) /\ Replaces(e, d) => Replaces(e, d)',
         ~Troubled(setup) /\ PreviewRelease(e) /\ pc[e] = "write" => todo[e] = <<>>,
         ~Troubled(setup) /\ ~Suspendable(setup) /\ PreviewRelease(e) /\ D(e) \in recorded =>
           status'[D(e)] \in {"ready", "torn_down"} /\ mode = Preset(D(e))
  PROVE  PreviewInv'
<1> USE FixedPreviews
<1>1. pc'[e] = p /\ \A f \in Execs : f # e => Same(f)
  BY LeaveFrame DEF Same
<1>2. \A d \in Deployments : ReadyPreview(d)' => ReadyPreview(d)
  BY DEF ReadyPreview
<1>3. \A f \in Execs : D(f) \in Deployments
  BY Situation DEF ProjectInv, Types
<1>4. \A f \in Execs : f # e => pc[f] \in Outside
  BY Alone DEF ProjectInv
<1>5. Listed'
  BY <1>2 DEF PreviewInv, Listed
<1>6. Shown'
  <2> SUFFICES ASSUME NEW d \in Deployments, ReadyPreview(d)'
               PROVE  InHand(d)' \/ (mode' = Preset(d)' /\ (Shows(d)' \/ \E f \in Execs : Replaces(f, d)'))
    BY DEF Shown
  <2>1. ReadyPreview(d) /\ (Shows(d) => Shows(d)')
    BY <1>2 DEF Shows
  <2>2. CASE InHand(d)
    <3>1. CASE p # "start" /\ Op(e) # "rollback" /\ D(e) = d
      BY <2>1, <3>1
    <3>2. CASE ~(p # "start" /\ Op(e) # "rollback" /\ D(e) = d)
      <4>1. InHand(d)'
        BY <1>1, <2>2, <3>2, InHandStays DEF Same
      <4> QED
        BY <4>1
    <3> QED
      BY <3>1, <3>2
  <2>3. CASE ~InHand(d)
    <3>1. mode = Preset(d) /\ (Shows(d) \/ \E f \in Execs : Replaces(f, d))
      BY <2>1, <2>3 DEF PreviewInv, Shown
    <3>2. ASSUME NEW f \in Execs, Replaces(f, d) PROVE Replaces(f, d)'
      <4>1. CASE f = e
        BY <3>1, <3>2, <4>1
      <4>2. CASE f # e
        <5>1. status'[D(f)] # "torn_down" \/ status'[D(f)] = status[D(f)]
          BY <1>3
        <5> QED
          BY <1>1, <3>2, <4>2, <5>1, OthersReplace
      <4> QED
        BY <4>1, <4>2
    <3> QED
      BY <2>1, <3>1, <3>2
  <2> QED
    BY <2>2, <2>3
<1>7. Unclaimed'
  <2>1. claimed' = {}
    BY OnlyHolderClaims DEF Leave
  <2> QED
    BY <2>1 DEF Unclaimed
<1>8. Single'
  <2> SUFFICES ASSUME ~Troubled(setup), NEW c \in Deployments, NEW d \in Deployments, c # d, ReadyPreview(c)', ReadyPreview(d)'
               PROVE  FALSE
    BY DEF Single
  <2>1. ReadyPreview(c) /\ ReadyPreview(d)
    BY <1>2
  <2>2. PICK f \in Execs : pc[f] = "write" /\ PreviewRelease(f) /\ D(f) \in {c, d}
    BY <2>1 DEF PreviewInv, Single
  <2>3. f = e
    BY <1>4, <2>2 DEF Outside
  <2>4. Left(e) = {}
    BY <2>2, <2>3, NoNames DEF Left
  <2> QED
    BY <2>1, <2>2, <2>3, <2>4 DEF PreviewInv, Replacing
<1>9. Lasting'
  <2> SUFFICES ASSUME ~Troubled(setup), ~Suspendable(setup), NEW d \in recorded, Slot(d) = "preview"
               PROVE  status'[d] \in {"ready", "torn_down"} /\ mode = Preset(d)
    BY DEF Lasting
  <2>1. d \in Deployments
    BY DEF ProjectInv, Types
  <2>2. CASE \E f \in Execs : PreviewRelease(f) /\ D(f) = d /\ pc[f] \in Preparing \cup {"write"}
    <3>1. PreviewRelease(e) /\ D(e) = d
      BY <1>4, <2>2 DEF Preparing, Outside
    <3> QED
      BY <3>1
  <2>3. CASE status[d] \in {"ready", "torn_down"} /\ mode = Preset(d)
    <3>1. CASE status'[d] = status[d]
      BY <2>3, <3>1
    <3>2. CASE d = D(e) /\ Op(e) = "release"
      BY <3>2 DEF PreviewRelease
    <3> QED
      BY <2>1, <3>1, <3>2
  <2> QED
    BY <2>2, <2>3 DEF PreviewInv, Lasting
<1>10. Replacing(e)' /\ PuttingBack(e)' /\ Closing(e)'
  BY <1>1 DEF Replacing, PuttingBack, Closing, Preparing
<1> QED
  BY <1>1, <1>5, <1>6, <1>7, <1>8, <1>9, <1>10, HolderPreviews

\* No job of a setup in which no worker fails is disturbed.
LEMMA FaultIsTrouble ==
  ASSUME ProjectInv, FollowInv, NEW t \in {"crash", "throw", "lease"}, Trouble(t)
  PROVE  Troubled(setup)
<1>1. budget \in Nat /\ budget > 0 /\ t \in setup.trouble
  BY Spent
<1>2. budget <= setup.budget /\ setup.budget \in Nat
  BY ReleaseAssumption DEF ProjectInv, Types, SetupType, FollowInv, Budgeted
<1>3. setup.budget > 0
  BY <1>1, <1>2
<1> QED
  BY <1>1, <1>3 DEF Troubled

\* Likewise of one that is undone.
LEMMA UndoIsTrouble ==
  ASSUME ProjectInv, FollowInv, NEW e \in Execs, pc[e] = "undo"
  PROVE  Troubled(setup)
<1>1. "throw" \in setup.trouble /\ budget < setup.budget /\ budget \in Nat /\ setup.budget \in Nat
  BY ReleaseAssumption DEF ProjectInv, Types, SetupType, FollowInv, FollowTypes, Budgeted
<1>2. setup.budget > 0
  BY <1>1
<1> QED
  BY <1>1, <1>2 DEF Troubled

\* After a crash, a throw or a lost lease, the release of a preview that was being written is coming.
LEMMA ComingAfterFault ==
  ASSUME Mendable, ProjectInv, FollowInv, PreviewInv, [Next]_vars, UNCHANGED <<setup, suspended, status>>,
         NEW t \in {"crash", "throw", "lease"}, Trouble(t), NEW e \in Execs, pc'[e] \in {"start", "undo"},
         NEW d, Replaces(e, d)
  PROVE  Replaces(e, d)'
<1>1. Safe' /\ Troubled(setup)
  BY FaultSafe, FaultIsTrouble
<1>2. budget' \in Nat /\ budget' <= budget
  BY Spent
<1>3. PreviewRelease(e) /\ Op(e) # "retire"
  BY DEF Replaces, PreviewRelease
<1>4. Coming(e)'
  <2>1. CASE pc[e] = "write"
    <3>1. Served(D(e)) /\ status[D(e)] # "torn_down"
      BY <1>3, <2>1 DEF ProjectInv, Serving, PreviewInv, Replacing
    <3>2. Coming(e)' \/ Coming(e)
      <4>1. D(e) \in Deployments
        BY Situation DEF ProjectInv, Types
      <4>2. Served(D(e))'
        <5>1. \A x \in Deployments : Served(x) => Served(x)'
          BY MigratingStep DEF ProjectInv
        <5> QED
          BY <3>1, <4>1, <5>1, FixedPreviews DEF Served
      <4> QED
        BY <1>1, <3>1, <4>2, FixedPreviews DEF Coming
    <3> QED
      BY <1>2, <3>1, <3>2, ComingStays
  <2>2. CASE Coming(e)
    BY <1>2, <2>2, ComingStays DEF Coming
  <2> QED
    BY <2>1, <2>2 DEF Replaces
<1> QED
  BY <1>4, FixedPreviews DEF Replaces

\* The attempt ends before any write: refused, already torn down, or the migration did not succeed.
LEMMA StoppedPreviews ==
  ASSUME ProjectInv, FollowInv, PreviewInv, [Next]_vars, NEW e \in Execs, Finish(e),
         \/ CheckRelease(e) \/ CheckRollback(e) \/ CheckRetire(e)
         \/ Migrate(e) \/ MigrationFailed(e) \/ MigrationUnknown(e)
  PROVE  PreviewInv'
<1>1. UNCHANGED <<setup, points, mode, recorded, suspended>>
  BY DEF CheckRelease, CheckRollback, CheckRetire, Migrate, MigrationFailed, MigrationUnknown,
     rowVars, projectVars, worldVars, trafficVars
<1>2. /\ D(e) \in Deployments /\ Op(e) \in Ops /\ budget \in Nat /\ ~deleted /\ setup.budget \in Nat
      /\ status \in [Deployments -> Statuses]
      /\ pc \in [Execs -> Places] /\ pc[e] \in {"check", "migrate", "invoke", "invoked", "failed"} /\ pc[e] \notin Outside
      /\ pc[e] # "check" => Op(e) = "release"
  BY Situation, ReleaseAssumption DEF ProjectInv, Types, SetupType, FollowInv, FollowTypes, Standing, Local, Shaped, Preparing,
     Outside, CheckRelease, CheckRollback, CheckRetire, Migrate, MigrationFailed, MigrationUnknown
<1>3. budget' \in Nat /\ budget' <= budget
  <2>1. UNCHANGED budget \/ Trouble("throw")
    BY DEF CheckRelease, CheckRollback, CheckRetire, Migrate, MigrationFailed, MigrationUnknown
  <2> QED
    BY <1>2, <2>1, Spent
<1>4. Leave(e, "done") /\ UNCHANGED tries /\ pc'[e] = "done"
  BY <1>2 DEF Finish, Leave
<1>5. /\ CheckRelease(e) => Refused(e) /\ status' = [status EXCEPT ![D(e)] = "error"] /\ Op(e) = "release"
      /\ CheckRetire(e) => UNCHANGED status /\ status[D(e)] = "torn_down" /\ Op(e) = "retire"
      /\ CheckRollback(e) => UNCHANGED status /\ Op(e) = "rollback"
  BY <1>2, <1>4 DEF CheckRelease, CheckRetire, CheckRollback, SetStatus, rowVars
<1>6. /\ Migrate(e) => pc[e] = "migrate" /\ (UNCHANGED status \/ status' = [status EXCEPT ![D(e)] = "error"])
      /\ MigrationFailed(e) \/ MigrationUnknown(e) => status' = [status EXCEPT ![D(e)] = "error"]
  BY DEF Migrate, MigrationFailed, MigrationUnknown, SetStatus
<1>7. \A d \in Deployments : status'[d] = status[d] \/ (d = D(e) /\ Op(e) = "release" /\ status'[d] = "error")
  BY <1>2, <1>5, <1>6 DEF Migrate, MigrationFailed, MigrationUnknown
<1>8. Op(e) # "rollback" => ~ReadyPreview(D(e))'
  <2>1. CASE status'[D(e)] = "error"
    BY <1>1, <2>1, FixedPreviews DEF ReadyPreview
  <2>2. CASE Migrate(e) /\ UNCHANGED status
    <3>1. Slot(D(e)) = "preview" => status[D(e)] # "ready"
      BY <1>2, <1>6, <2>2 DEF PreviewInv, Replacing, PreviewRelease, Preparing
    <3> QED
      BY <1>1, <2>2, <3>1, FixedPreviews DEF ReadyPreview
  <2>3. CASE CheckRetire(e)
    BY <1>1, <1>5, <2>3, FixedPreviews DEF ReadyPreview
  <2> QED
    BY <1>2, <1>5, <1>6, <2>1, <2>2, <2>3
<1>9. ~(PreviewRelease(e) /\ Served(D(e)) /\ mode = Preset(D(e)) /\ ~suspended /\ pc[e] \in {"check", "migrate"})
  <2> SUFFICES ASSUME PreviewRelease(e), Served(D(e)), mode = Preset(D(e)), ~suspended, pc[e] \in {"check", "migrate"}
               PROVE  FALSE
    OBVIOUS
  <2>1. CASE pc[e] = "check"
    <3>1. CheckRelease(e)
      BY <2>1 DEF PreviewRelease, CheckRollback, CheckRetire, Migrate, MigrationFailed, MigrationUnknown
    <3>2. Preset(D(e)) # NULL
      BY <1>2, Situation, ReleaseAssumption DEF ProjectInv, Types
    <3> QED
      BY <1>5, <3>1, <3>2 DEF Refused, EstablishedMode
  <2>2. CASE pc[e] = "migrate"
    <3>1. mig[D(e)] = "succeeded"
      BY <2>2 DEF Served, ProjectInv, Migrating
    <3>2. Migrate(e)
      BY <2>2 DEF CheckRelease, CheckRollback, CheckRetire, MigrationFailed, MigrationUnknown
    <3>3. pc' = [pc EXCEPT ![e] = "write"]
      BY <3>1, <3>2 DEF Migrate, migrationResumeAction, Goto
    <3> QED
      BY <1>2, <1>4, <3>3
  <2> QED
    BY <2>1, <2>2
<1>10. \A d \in Deployments : mode = Preset(d) => ~Replaces(e, d)
  BY <1>2, <1>9 DEF Replaces, Coming, Safe
<1>11. ~(~Troubled(setup) /\ ~Suspendable(setup) /\ PreviewRelease(e) /\ D(e) \in recorded)
  <2> SUFFICES ASSUME ~Troubled(setup), ~Suspendable(setup), PreviewRelease(e), D(e) \in recorded PROVE FALSE
    OBVIOUS
  <2>1. Served(D(e))
    BY DEF ProjectInv, Serving
  <2>2. ~suspended
    BY <1>2 DEF FollowInv, Budgeted, Suspendable
  <2>3. CASE pc[e] = "check"
    <3>1. \A f \in Execs : pc[f] \notin Preparing \cup {"write"}
      BY <1>2, <2>3, Alone DEF ProjectInv, Outside, Preparing
    <3>2. mode = Preset(D(e))
      BY <3>1 DEF PreviewInv, Lasting, PreviewRelease
    <3> QED
      BY <1>9, <2>1, <2>2, <2>3, <3>2
  <2>4. CASE pc[e] = "migrate"
    <3>1. mig[D(e)] = "succeeded"
      BY <2>1, <2>4 DEF Served, ProjectInv, Migrating
    <3>2. Migrate(e)
      BY <2>4 DEF CheckRelease, CheckRollback, CheckRetire, MigrationFailed, MigrationUnknown
    <3>3. pc' = [pc EXCEPT ![e] = "write"]
      BY <3>1, <3>2 DEF Migrate, migrationResumeAction, Goto
    <3> QED
      BY <1>2, <1>4, <3>3
  <2>5. CASE pc[e] = "failed"
    BY <2>1, <2>5 DEF PreviewInv, Replacing, Preparing, Served
  <2>6. CASE pc[e] \in {"invoke", "invoked"}
    BY <2>1, <2>6 DEF ProjectInv, Migrating, Served
  <2> QED
    BY <1>2, <2>3, <2>4, <2>5, <2>6
<1>12. pc[e] # "write"
  BY <1>2
<1> QED
  BY <1>1, <1>2, <1>3, <1>4, <1>7, <1>8, <1>10, <1>11, <1>12, LeaverPreviews

\* All writes of a preview are done: it is the one that is shown, and no other is ready.
LEMMA WrittenPreview ==
  ASSUME ProjectInv, FollowInv, PreviewInv, NEW e \in Execs, pc[e] = "write", todo[e] = <<>>, PreviewRelease(e)
  PROVE  /\ mode = Preset(D(e)) /\ Shows(D(e)) /\ (status[D(e)] = "ready" \/ suspended)
         /\ \A d \in Deployments : ReadyPreview(d) => d = D(e)
<1>1. Left(e) = {}
  BY NoNames DEF Left
<1>2. mode = Preset(D(e))
  BY <1>1 DEF FollowInv, Local, Progress, PreviewRelease
<1> QED
  BY <1>1, <1>2 DEF PreviewInv, Replacing

\* The attempt ends after its writes or its compensation, or a fault ends it.
LEMMA EndedPreviews ==
  ASSUME Mendable, ProjectInv, FollowInv, PreviewInv, [Next]_vars, NEW e \in Execs, pc[e] \notin Outside,
         Crash(e) \/ Die(e) \/ Complete(e) \/ LoseLease(e) \/ (UndoThrows(e) /\ Fail(e))
  PROVE  PreviewInv'
<1>1. UNCHANGED <<setup, points, mode, recorded, suspended, status>>
  BY DEF Crash, Die, Complete, LoseLease, UndoThrows, rowVars, projectVars, worldVars, trafficVars
<1>2. /\ D(e) \in Deployments /\ Op(e) \in Ops /\ Slot(D(e)) \in Slots /\ budget \in Nat /\ setup.budget \in Nat
      /\ tries \in [Execs -> Nat]
      /\ tries[e] > budget + (IF pc[e] = "undo" THEN 1 ELSE 0)
  BY Situation, ReleaseAssumption DEF ProjectInv, Types, SetupType, FollowInv, FollowTypes, Budgeted
<1>3. \A d \in Deployments : status'[d] = status[d] /\ ReadyPreview(d)' = ReadyPreview(d)
  BY <1>1, FixedPreviews DEF ReadyPreview
<1>4. ASSUME Op(e) = "rollback", NEW p \in {"start", "done", "dead"}, Leave(e, p), UNCHANGED tries,
             budget' \in Nat, budget' <= budget
      PROVE  PreviewInv'
  <2>1. ~PreviewRelease(e)
    BY <1>4 DEF PreviewRelease
  <2> QED
    BY <1>1, <1>3, <1>4, <2>1, LeaverPreviews DEF Replaces
<1>5. ASSUME Op(e) # "rollback", Leave(e, "start"), Troubled(setup), \A f \in Execs : f # e => tries'[f] = tries[f],
             budget' \in Nat, budget' <= budget, \A d \in Deployments : Replaces(e, d) => Replaces(e, d)'
      PROVE  PreviewInv'
  BY <1>1, <1>3, <1>5, LeaverPreviews
<1>6. ASSUME NEW t \in {"crash", "throw", "lease"}, Trouble(t), Op(e) # "rollback", Leave(e, "start"),
             \A f \in Execs : f # e => tries'[f] = tries[f]
      PROVE  PreviewInv'
  <2>1. budget' \in Nat /\ budget' <= budget /\ Troubled(setup)
    BY <1>6, Spent, FaultIsTrouble
  <2>2. pc'[e] = "start"
    BY <1>6, LeaveFrame
  <2>3. \A d \in Deployments : Replaces(e, d) => Replaces(e, d)'
    BY <1>1, <1>6, <2>2, ComingAfterFault
  <2> QED
    BY <1>5, <1>6, <2>1, <2>3
<1>7. CASE Crash(e)
  BY <1>6, <1>7 DEF Crash
<1>8. CASE Die(e)
  <2>1. Op(e) = "rollback" /\ Leave(e, "dead") /\ UNCHANGED tries /\ Trouble("die")
    BY <1>8 DEF Die
  <2> QED
    BY <1>4, <2>1, Spent
<1>9. CASE LoseLease(e) \/ (UndoThrows(e) /\ Fail(e))
  <2>1. (Trouble("lease") \/ Trouble("throw")) /\ Fail(e)
    BY <1>9 DEF LoseLease, UndoThrows
  <2>2. tries[e] > 1 /\ budget' \in Nat /\ budget' <= budget
    <3>1. budget > 0 /\ budget' \in Nat /\ budget' = budget - 1
      BY <2>1, Spent
    <3> QED
      BY <1>2, <3>1
  <2>3. /\ Op(e) = "rollback" => Leave(e, "done") /\ UNCHANGED tries
        /\ Op(e) # "rollback" => Leave(e, "start") /\ \A f \in Execs : f # e => tries'[f] = tries[f]
    BY <2>1, <2>2, FailFrame
  <2> QED
    BY <1>4, <1>6, <2>1, <2>2, <2>3
<1>10. CASE Complete(e) /\ pc[e] = "undo"
  <2>1. Fail(e) /\ UNCHANGED budget
    BY <1>10 DEF Complete
  <2>2. tries[e] > 1 /\ budget' \in Nat /\ budget' <= budget /\ Troubled(setup)
    BY <1>2, <1>10, <2>1, UndoIsTrouble
  <2>3. /\ Op(e) = "rollback" => Leave(e, "done") /\ UNCHANGED tries
        /\ Op(e) # "rollback" => Leave(e, "start") /\ \A f \in Execs : f # e => tries'[f] = tries[f]
    BY <2>1, <2>2, FailFrame
  <2>4. ASSUME Op(e) # "rollback", NEW d \in Deployments, Replaces(e, d) PROVE Replaces(e, d)'
    <3>1. Coming(e)
      BY <1>10, <2>4 DEF Replaces
    <3>2. pc'[e] = "start" /\ status'[D(e)] # "torn_down"
      BY <1>1, <2>3, <2>4, <3>1, LeaveFrame DEF Coming
    <3>3. Coming(e)'
      BY <1>1, <2>2, <3>1, <3>2, ComingStays
    <3> QED
      BY <1>1, <2>4, <3>3, FixedPreviews DEF Replaces
  <2> QED
    BY <1>4, <1>5, <2>2, <2>3, <2>4
<1>11. CASE Complete(e) /\ pc[e] = "write"
  <2>1. Leave(e, "done") /\ UNCHANGED <<tries, budget>> /\ todo[e] = <<>> /\ budget' \in Nat /\ budget' <= budget
    BY <1>2, <1>11 DEF Complete, Finish
  <2>2. CASE PreviewRelease(e)
    <3>1. /\ mode = Preset(D(e)) /\ Shows(D(e)) /\ (status[D(e)] = "ready" \/ suspended)
          /\ \A d \in Deployments : ReadyPreview(d) => d = D(e)
      BY <1>11, <2>1, <2>2, WrittenPreview
    <3>2. \A d \in Deployments : ReadyPreview(d) => ~Replaces(e, d)
      BY <3>1 DEF Replaces
    <3>3. ~Suspendable(setup) => ~suspended
      BY <1>2 DEF FollowInv, Budgeted, Suspendable
    <3> QED
      BY <1>1, <1>3, <1>2, <2>1, <3>1, <3>2, <3>3, LeaverPreviews
  <2>3. CASE Op(e) = "rollback"
    BY <1>4, <2>1, <2>3
  <2>4. CASE ~PreviewRelease(e) /\ Op(e) # "rollback"
    <3>1. ~ReadyPreview(D(e))
      <4>1. CASE Op(e) = "release"
        BY <2>4, <4>1 DEF PreviewRelease, ReadyPreview
      <4>2. CASE Op(e) = "retire"
        <5>1. Left(e) = {}
          BY <2>1, NoNames DEF Left
        <5> QED
          BY <1>11, <4>2, <5>1 DEF PreviewInv, Closing, ReadyPreview
      <4> QED
        BY <1>2, <2>4, <4>1, <4>2 DEF Ops
    <3>2. ~ReadyPreview(D(e))'
      BY <1>1, <3>1, FixedPreviews DEF ReadyPreview
    <3> QED
      BY <1>1, <1>3, <2>1, <2>4, <3>2, LeaverPreviews DEF Replaces
  <2> QED
    BY <2>2, <2>3, <2>4
<1> QED
  BY <1>7, <1>8, <1>9, <1>10, <1>11 DEF Complete

\* A serving mode that is about to be claimed, or given back, leaves no ready preview to itself.
LEMMA AllInHand ==
  ASSUME ProjectInv, PreviewInv, mode = NULL \/ claimed # {}
  PROVE  \A d \in Deployments : ReadyPreview(d) => InHand(d)
<1>1. \A d \in Deployments : Preset(d) # NULL
  BY Situation, ReleaseAssumption DEF ProjectInv, Types
<1> QED
  BY <1>1 DEF PreviewInv, Shown, Unclaimed

\* The holder of the lock goes on without changing a preview or where the previews' traffic goes.
LEMMA SteadyPreviews ==
  ASSUME ProjectInv, FollowInv, PreviewInv, [Next]_vars, NEW e \in Execs, pc[e] \notin Outside,
         \A f \in Execs : f # e => Same(f), pc'[e] \notin {"done", "dead"},
         UNCHANGED <<setup, suspended>>, budget' \in Nat, budget' <= budget,
         \A d \in Deployments : Slot(d) = "preview" =>
           /\ status'[d] = status[d] /\ (d \in recorded' <=> d \in recorded)
           /\ points'[Preset(d)]["preview"] = points[Preset(d)]["preview"],
         recorded' \subseteq Deployments,
         UNCHANGED <<mode, claimed>> \/ mode = NULL \/ (claimed # {} /\ Troubled(setup)),
         \A d \in Deployments : ReadyPreview(d) /\ mode = Preset(d) /\ Replaces(e, d) => Replaces(e, d)',
         ~Troubled(setup) /\ PreviewRelease(e) =>
           /\ pc[e] = "write" => pc'[e] = "write"
           /\ pc[e] \in Preparing \cup {"write"} => pc'[e] \in Preparing \cup {"write"},
         Replacing(e)', PuttingBack(e)', Closing(e)'
  PROVE  PreviewInv'
<1> USE FixedPreviews
<1>1. \A d \in Deployments : ReadyPreview(d)' = ReadyPreview(d) /\ (ReadyPreview(d) /\ Shows(d) => Shows(d)')
  BY DEF ReadyPreview, Shows
<1>2. \A f \in Execs : D(f) \in Deployments
  BY Situation DEF ProjectInv, Types
<1>3. \A f \in Execs : f # e => pc[f] \in Outside
  BY Alone DEF ProjectInv
<1>4. \A d \in Deployments : InHand(d) => InHand(d)'
  BY InHandStays DEF Same
<1>5. recorded \subseteq Deployments
  BY DEF ProjectInv, Types
<1>6. Listed'
  BY <1>1, <1>5 DEF PreviewInv, Listed, ReadyPreview
<1>7. Shown'
  <2> SUFFICES ASSUME NEW d \in Deployments, ReadyPreview(d), ~InHand(d)
               PROVE  mode' = Preset(d) /\ (Shows(d)' \/ \E f \in Execs : Replaces(f, d)')
    BY <1>1, <1>4 DEF Shown
  <2>1. mode = Preset(d) /\ (Shows(d) \/ \E f \in Execs : Replaces(f, d))
    BY DEF PreviewInv, Shown
  <2>2. UNCHANGED mode
    BY AllInHand
  <2>3. ASSUME NEW f \in Execs, f # e, Replaces(f, d) PROVE Replaces(f, d)'
    <3>1. status'[D(f)] = status[D(f)]
      BY <1>2, <2>3 DEF Replaces, PreviewRelease
    <3> QED
      BY <2>3, <3>1, OthersReplace
  <2> QED
    BY <1>1, <2>1, <2>2, <2>3
<1>8. Unclaimed'
  BY <1>1, <1>4, AllInHand DEF PreviewInv, Unclaimed
<1>9. Single'
  <2> SUFFICES ASSUME ~Troubled(setup), NEW c \in Deployments, NEW d \in Deployments, c # d, ReadyPreview(c), ReadyPreview(d)
               PROVE  \E f \in Execs : pc'[f] = "write" /\ PreviewRelease(f) /\ D(f) \in {c, d}
    BY <1>1 DEF Single
  <2>1. PICK f \in Execs : pc[f] = "write" /\ PreviewRelease(f) /\ D(f) \in {c, d}
    BY DEF PreviewInv, Single
  <2>2. pc'[f] = "write"
    BY <2>1 DEF Same
  <2> QED
    BY <2>1, <2>2
<1>10. Lasting'
  <2> SUFFICES ASSUME ~Troubled(setup), ~Suspendable(setup), NEW d \in recorded', Slot(d) = "preview"
               PROVE  \/ \E f \in Execs : PreviewRelease(f) /\ D(f) = d /\ pc'[f] \in Preparing \cup {"write"}
                      \/ status'[d] \in {"ready", "torn_down"} /\ mode' = Preset(d)
    BY DEF Lasting
  <2>1. d \in Deployments /\ d \in recorded /\ status'[d] = status[d]
    OBVIOUS
  <2>2. CASE \E f \in Execs : PreviewRelease(f) /\ D(f) = d /\ pc[f] \in Preparing \cup {"write"}
    <3>1. PICK f \in Execs : PreviewRelease(f) /\ D(f) = d /\ pc[f] \in Preparing \cup {"write"}
      BY <2>2
    <3>2. pc'[f] \in Preparing \cup {"write"}
      BY <3>1 DEF Same
    <3> QED
      BY <3>1, <3>2
  <2>3. CASE status[d] \in {"ready", "torn_down"} /\ mode = Preset(d)
    <3>1. mode # NULL
      BY <2>1, <2>3, Situation, ReleaseAssumption DEF ProjectInv, Types
    <3> QED
      BY <2>1, <2>3, <3>1
  <2> QED
    BY <2>1, <2>2, <2>3 DEF PreviewInv, Lasting
<1> QED
  BY <1>6, <1>7, <1>8, <1>9, <1>10, HolderPreviews

\* The same when neither the previews nor the traffic nor the rows change at all.
LEMMA QuietPreviews ==
  ASSUME ProjectInv, FollowInv, PreviewInv, [Next]_vars, NEW e \in Execs, pc[e] \notin Outside,
         \A f \in Execs : f # e => Same(f), pc'[e] \notin {"done", "dead"},
         UNCHANGED <<setup, suspended, status, recorded, points, mode, claimed>>, budget' \in Nat, budget' <= budget,
         \A d \in Deployments : ReadyPreview(d) /\ mode = Preset(d) /\ Replaces(e, d) => Replaces(e, d)',
         ~Troubled(setup) /\ PreviewRelease(e) =>
           /\ pc[e] = "write" => pc'[e] = "write"
           /\ pc[e] \in Preparing \cup {"write"} => pc'[e] \in Preparing \cup {"write"},
         Replacing(e)', PuttingBack(e)', Closing(e)'
  PROVE  PreviewInv'
<1>1. recorded' \subseteq Deployments
  BY DEF ProjectInv, Types
<1> QED
  BY <1>1, SteadyPreviews

\* The migration goes on, or is over and done.
LEMMA MigratorPreviews ==
  ASSUME ProjectInv, FollowInv, PreviewInv, [Next]_vars, NEW e \in Execs, ~Finish(e), Migrate(e) \/ Invoke(e) \/ Migrated(e)
  PROVE  PreviewInv'
<1>1. UNCHANGED <<setup, points, mode, recorded, status, suspended, budget, todo, prev, claimed, tries>>
  BY DEF Migrate, Invoke, Migrated, Goto, projectVars, worldVars, trafficVars
<1>2. /\ pc \in [Execs -> Places] /\ D(e) \in Deployments /\ mig \in [Deployments -> Migrations]
      /\ pc[e] \in Preparing /\ Op(e) = "release" /\ budget \in Nat /\ pc[e] \notin Outside
  BY Situation DEF ProjectInv, Types, FollowInv, FollowTypes, Local, Shaped, Migrate, Invoke, Migrated, Preparing, Outside
<1>3. PICK p \in {"write", "invoke", "invoked", "failed"} : pc' = [pc EXCEPT ![e] = p]
  BY DEF Migrate, Invoke, Migrated, Goto
<1>4. pc'[e] = p /\ \A f \in Execs : f # e => Same(f)
  BY <1>1, <1>2, <1>3 DEF Same
<1>5. p = "failed" => mig'[D(e)] = "failed"
  <2>1. ASSUME p = "failed" PROVE Migrated(e) /\ SetMigration(D(e), "failed")
    BY <1>2, <1>3, <1>4, <2>1 DEF Migrate, Invoke, Migrated, Goto
  <2> QED
    BY <1>2, <2>1 DEF SetMigration
<1>6. ASSUME NEW d \in Deployments, Replaces(e, d) PROVE Replaces(e, d)'
  <2>1. pc[e] = "migrate" /\ Served(D(e))
    BY <1>2, <1>6 DEF Replaces, Coming, Preparing
  <2>2. mig[D(e)] = "succeeded"
    BY <2>1 DEF Served, ProjectInv, Migrating
  <2>3. pc' = [pc EXCEPT ![e] = "write"]
    BY <2>1, <2>2 DEF Migrate, Invoke, Migrated, migrationResumeAction, Goto
  <2> QED
    BY <1>1, <1>2, <1>6, <2>3, FixedPreviews DEF Replaces
<1>7. Replacing(e)'
  <2> SUFFICES ASSUME PreviewRelease(e) PROVE Replacing(e)'
    BY <1>1, FixedPreviews DEF Replacing
  <2>1. Replacing(e)
    BY DEF PreviewInv
  <2>2. \A d : ReadyPreview(d)' = ReadyPreview(d) /\ Shows(d)' = Shows(d)
    BY <1>1, FixedPreviews DEF ReadyPreview, Shows
  <2>3. Left(e)' = Left(e) /\ prev'[e] = prev[e]
    BY <1>1 DEF Left
  <2>4. pc'[e] \in Preparing \cup {"write"} /\ (pc'[e] \in Preparing => pc[e] \in Preparing)
    BY <1>2, <1>4 DEF Preparing
  <2> QED
    BY <1>1, <1>2, <1>4, <1>5, <2>1, <2>2, <2>3, <2>4, FixedPreviews DEF Replacing
<1>8. PuttingBack(e)' /\ Closing(e)'
  BY <1>1, <1>2, <1>4, FixedPreviews DEF PuttingBack, Closing
<1>9. budget' \in Nat /\ budget' <= budget /\ pc'[e] \notin {"done", "dead"} /\ pc[e] # "write" /\ pc'[e] \in Preparing \cup {"write"}
  BY <1>1, <1>2, <1>4 DEF Preparing
<1> QED
  BY <1>1, <1>2, <1>4, <1>6, <1>7, <1>8, <1>9, QuietPreviews

\* A throw under the lock: what a release was writing is put back, and it comes again.
LEMMA ThrownPreviews ==
  ASSUME Mendable, ProjectInv, FollowInv, PreviewInv, [Next]_vars, NEW e \in Execs, Throw(e)
  PROVE  PreviewInv'
<1>1. /\ UNCHANGED <<setup, points, mode, recorded, status, suspended, prev, claimed, tries, mig>> /\ Trouble("throw")
      /\ pc' = [pc EXCEPT ![e] = "undo"] /\ todo' = [todo EXCEPT ![e] = UndoWrites(e)]
      /\ pc[e] \in {"check", "migrate", "failed"} \/ (pc[e] = "write" /\ todo[e] # <<>>)
  BY DEF Throw, rowVars, projectVars, worldVars, trafficVars
<1>2. /\ pc \in [Execs -> Places] /\ D(e) \in Deployments /\ setup \in Setups /\ todo \in [Execs -> Seq(Writes)]
      /\ pc[e] \notin Outside
  BY <1>1, Situation DEF ProjectInv, Types, FollowInv, FollowTypes, Outside
<1>3. budget' \in Nat /\ budget' <= budget /\ Troubled(setup) /\ Safe'
  BY <1>1, Spent, FaultIsTrouble, FaultSafe
<1>4. Local(e)
  BY DEF FollowInv
<1>5. pc'[e] = "undo" /\ todo'[e] = UndoWrites(e) /\ \A f \in Execs : f # e => Same(f)
  BY <1>1, <1>2 DEF Same
<1>6. \A d \in Deployments : Replaces(e, d) => Replaces(e, d)'
  BY <1>1, <1>5, ComingAfterFault
<1>7. Replacing(e)' /\ Closing(e)'
  BY <1>5 DEF Replacing, Closing, Preparing
<1>8. PuttingBack(e)'
  <2> SUFFICES ASSUME PreviewRelease(e), {"point", "revive"} \cap Left(e)' # {} PROVE PuttingBack(e)'
    BY <1>1, FixedPreviews DEF PuttingBack
  <2>1. Op(e) = "release" /\ Op(e) # "retire" /\ (Op(e) = "rollback" => Slot(D(e)) = "live")
    BY DEF PreviewRelease
  <2>2. pc[e] # "write" => Names(UndoWrites(e)) \subseteq {"mode", "error", "failed"}
    BY <1>2, <2>1, UndoList
  <2>3. pc[e] = "write" /\ todo[e] # <<>>
    BY <1>1, <1>5, <2>2 DEF Left
  <2>4. "retire" \in Left(e)
    <3>1. todo[e] \in Seq(Writes) /\ InOrder(todo[e])
      BY <1>2, <1>4, <2>3 DEF Local, Shaped
    <3>2. Left(e) # {}
      BY <2>3, <3>1, Turn DEF Left
    <3> QED
      BY <2>3, <3>2 DEF PreviewInv, Replacing
  <2>5. /\ Served(D(e)) /\ status[D(e)] # "torn_down"
        /\ prev[e] # NULL => prev[e] # D(e) /\ (ReadyPreview(prev[e]) \/ suspended)
    BY <2>1, <2>3, <2>4 DEF ProjectInv, Serving, PreviewInv, Replacing
  <2>6. ~suspended
    BY <1>1, <1>3 DEF Safe
  <2> QED
    BY <1>1, <1>3, <2>5, <2>6, FixedPreviews DEF PuttingBack, Served, ReadyPreview
<1> QED
  BY <1>1, <1>2, <1>3, <1>5, <1>6, <1>7, <1>8, QuietPreviews

\* The static catch block throws as well, and the outer one follows.
LEMMA UndoThrownPreviews ==
  ASSUME Mendable, ProjectInv, FollowInv, PreviewInv, [Next]_vars, NEW e \in Execs, UndoThrows(e), ~Fail(e)
  PROVE  PreviewInv'
<1>1. /\ UNCHANGED <<setup, points, mode, recorded, status, suspended, prev, claimed, tries, pc>> /\ Trouble("throw")
      /\ todo' = [todo EXCEPT ![e] = FailureWrites(e)] /\ pc[e] = "undo" /\ Op(e) = "release"
  BY DEF UndoThrows, rowVars, projectVars, worldVars, trafficVars
<1>2. setup \in Setups /\ todo \in [Execs -> Seq(Writes)] /\ pc[e] \notin Outside
  BY <1>1 DEF ProjectInv, Types, FollowInv, FollowTypes, Outside
<1>3. budget' \in Nat /\ budget' <= budget /\ Troubled(setup)
  BY <1>1, Spent, FaultIsTrouble
<1>4. pc'[e] = "undo" /\ todo'[e] = FailureWrites(e) /\ \A f \in Execs : f # e => Same(f)
  BY <1>1, <1>2 DEF Same
<1>5. \A d \in Deployments : Replaces(e, d) => Replaces(e, d)'
  BY <1>1, <1>4, ComingAfterFault
<1>6. Left(e)' \subseteq {"mode", "error", "failed"}
  BY <1>1, <1>2, <1>4, FailureList DEF Left
<1>7. Replacing(e)' /\ Closing(e)' /\ PuttingBack(e)'
  BY <1>4, <1>6 DEF Replacing, Closing, PuttingBack, Preparing
<1> QED
  BY <1>1, <1>2, <1>3, <1>4, <1>5, <1>7, QuietPreviews

\* The holder of the lock works on a preview of its own.
LEMMA OwnPreviews ==
  ASSUME ProjectInv, FollowInv, PreviewInv, NEW e \in Execs, pc[e] \notin Outside,
         \A f \in Execs : f # e => Same(f), pc'[e] \notin {"done", "dead"}, Op(e) # "rollback",
         UNCHANGED <<setup, mode, claimed>>, recorded \subseteq recorded', recorded' \subseteq recorded \cup {D(e)},
         D(e) \in recorded' => D(e) \in recorded \/ PreviewRelease(e),
         ReadyPreview(D(e))' => D(e) \in recorded',
         \A d \in Deployments : d # D(e) /\ ReadyPreview(d)' =>
           ReadyPreview(d) /\ (mode = Preset(d) /\ ~InHand(d) => Shows(d)' \/ \E f \in Execs : Replaces(f, d)'),
         Single', Lasting', Replacing(e)', PuttingBack(e)', Closing(e)'
  PROVE  PreviewInv'
<1> USE FixedPreviews
<1>1. InHand(D(e))'
  BY DEF InHand
<1>2. \A d \in Deployments : InHand(d) => InHand(d)'
  BY InHandStays DEF Same
<1>3. Listed'
  BY DEF PreviewInv, Listed
<1>4. Shown'
  <2> SUFFICES ASSUME NEW d \in Deployments, ReadyPreview(d)', d # D(e), ~InHand(d)
               PROVE  mode' = Preset(d) /\ (Shows(d)' \/ \E f \in Execs : Replaces(f, d)')
    BY <1>1, <1>2 DEF Shown
  <2>1. ReadyPreview(d)
    OBVIOUS
  <2>2. mode = Preset(d)
    BY <2>1 DEF PreviewInv, Shown
  <2> QED
    BY <2>2
<1>5. Unclaimed'
  <2> SUFFICES ASSUME claimed # {}, NEW d \in Deployments, ReadyPreview(d)', d # D(e) PROVE InHand(d)'
    BY <1>1 DEF Unclaimed
  <2> QED
    BY <1>2 DEF PreviewInv, Unclaimed
<1> QED
  BY <1>3, <1>4, <1>5, HolderPreviews

\* The previous preview is a ready one, and the only one if there is only one.
LEMMA PreviousReady ==
  ASSUME NEW d, Slot(d) # "live"
  PROVE  /\ PreviousServing(d) # NULL =>
              PreviousServing(d) \in Deployments /\ PreviousServing(d) # d /\ ReadyPreview(PreviousServing(d))
         /\ \A x \in Deployments :
              ReadyPreview(x) /\ x # d /\ (\A y \in Deployments : ReadyPreview(y) /\ y # d => y = x) => PreviousServing(d) = x
<1> DEFINE ready == {p \in Deployments \ {d} : Slot(p) = "preview" /\ status[p] = "ready"}
           newest == {p \in ready : \A q \in ready : q <= p}
<1>1. PreviousServing(d) = IF newest = {} THEN NULL ELSE CHOOSE p \in newest : TRUE
  BY DEF PreviousServing
<1>2. ASSUME PreviousServing(d) # NULL PROVE PreviousServing(d) \in newest
  BY <1>1, <1>2
<1>3. ASSUME NEW x \in Deployments, ReadyPreview(x), x # d, \A y \in Deployments : ReadyPreview(y) /\ y # d => y = x
      PROVE  PreviousServing(d) = x
  <2>1. ready = {x}
    BY <1>3 DEF ReadyPreview
  <2>2. x <= x
    BY ReleaseAssumption
  <2>3. newest = {x}
    BY <2>1, <2>2
  <2> HIDE DEF newest
  <2> QED
    BY <1>1, <2>3
<1> QED
  BY <1>2, <1>3 DEF ReadyPreview

\* Whoever starts to release a preview finds at most one other that is ready.
LEMMA OneOther ==
  ASSUME Tidy, ProjectInv, PreviewInv, NEW e \in Execs, pc[e] = "check", PreviewRelease(e),
         NEW c \in Deployments, NEW d \in Deployments, ReadyPreview(c), ReadyPreview(d), c # D(e), d # D(e)
  PROVE  c = d
<1>1. CASE ~Troubled(setup)
  <2>1. \A f \in Execs : pc[f] # "write"
    BY Alone DEF ProjectInv, Outside
  <2> QED
    BY <1>1, <2>1 DEF PreviewInv, Single
<1>2. CASE Troubled(setup)
  <2>1. c \in recorded /\ d \in recorded /\ Slot(c) = "preview" /\ Slot(d) = "preview"
    BY DEF PreviewInv, Listed, ReadyPreview
  <2>2. PICK f \in Execs : PreviewRelease(f) /\ D(f) = c
    BY <2>1 DEF PreviewInv, Listed
  <2>3. PICK g \in Execs : PreviewRelease(g) /\ D(g) = d
    BY <2>1 DEF PreviewInv, Listed
  <2>4. \E x, y \in Deployments : \A h \in Execs : PreviewRelease(h) => D(h) \in {x, y}
    BY <1>2, TidyIs DEF ProjectInv, Types
  <2> QED
    BY <2>2, <2>3, <2>4
<1> QED
  BY <1>1, <1>2

\* The teardown of a preview that has been ready finds no other that is.
LEMMA ClosesAlone ==
  ASSUME Tidy, ProjectInv, FollowInv, PreviewInv, NEW e \in Execs, pc[e] = "check", Op(e) = "retire", D(e) \in recorded,
         status[D(e)] # "torn_down", NEW d \in Deployments, ReadyPreview(d)
  PROVE  d = D(e)
<1>1. Slot(D(e)) = "preview" /\ D(e) \in Deployments
  BY Situation DEF ProjectInv, Types, FollowInv, Local, Shaped
<1>2. PICK f \in Execs : PreviewRelease(f) /\ D(f) = D(e)
  BY <1>1 DEF PreviewInv, Listed
<1>3. PICK g \in Execs : PreviewRelease(g) /\ D(g) = d
  BY DEF PreviewInv, Listed, ReadyPreview
<1>4. \/ ~Troubled(setup) /\ ~Suspendable(setup)
      \/ \E x \in Deployments : \A h \in Execs : PreviewRelease(h) => D(h) = x
  BY <1>2, TidyIs DEF ProjectInv, Types
<1>5. CASE ~Troubled(setup) /\ ~Suspendable(setup)
  <2>1. \A h \in Execs : pc[h] \notin Preparing \cup {"write"}
    BY Alone DEF ProjectInv, Outside, Preparing
  <2>2. status[D(e)] = "ready"
    BY <1>1, <1>5, <2>1 DEF PreviewInv, Lasting
  <2>3. ReadyPreview(D(e))
    BY <1>1, <2>2 DEF ReadyPreview
  <2> QED
    BY <1>1, <1>5, <2>1, <2>3 DEF PreviewInv, Single
<1> QED
  BY <1>2, <1>3, <1>4, <1>5

\* The checks of a preview's release pass.
LEMMA CheckedPreview ==
  ASSUME Tidy, ProjectInv, FollowInv, PreviewInv, [Next]_vars, NEW e \in Execs, ~Finish(e), CheckRelease(e), PreviewRelease(e)
  PROVE  PreviewInv'
<1> USE FixedPreviews
<1> DEFINE q == ReleaseWrites(D(e))
           v == PreviousServing(D(e))
           p == IF mig[D(e)] = "absent" THEN "write" ELSE "migrate"
<1>1. /\ UNCHANGED <<setup, points, mode, recorded, suspended, budget, claimed, tries>> /\ pc[e] = "check"
      /\ status' = [status EXCEPT ![D(e)] = "deploying"] /\ Op(e) = "release"
      /\ prev' = [prev EXCEPT ![e] = v] /\ todo' = [todo EXCEPT ![e] = q] /\ pc' = [pc EXCEPT ![e] = p]
  BY DEF CheckRelease, SetStatus, projectVars, worldVars, trafficVars
<1>2. /\ pc \in [Execs -> Places] /\ D(e) \in Deployments /\ budget \in Nat
      /\ todo \in [Execs -> Seq(Writes)] /\ prev \in [Execs -> Maybe(Deployments)]
      /\ status \in [Deployments -> Statuses] /\ setup \in Setups /\ Slot(D(e)) = "preview" /\ pc[e] \notin Outside
  BY <1>1, Situation DEF ProjectInv, Types, FollowInv, FollowTypes, PreviewRelease, Outside
<1>3. {"point", "claim", "ready", "retire"} \subseteq Names(q)
  BY <1>1, <1>2, ReleaseList
<1>4. /\ v # NULL => v \in Deployments /\ v # D(e) /\ ReadyPreview(v)
      /\ \A x \in Deployments : ReadyPreview(x) /\ x # D(e) => v = x
  BY <1>1, <1>2, PreviousReady, OneOther
<1> HIDE DEF q, v
<1>5. pc'[e] = p /\ todo'[e] = q /\ prev'[e] = v /\ \A f \in Execs : f # e => Same(f)
  BY <1>1, <1>2 DEF Same
<1>6. \A d \in Deployments : d # D(e) => status'[d] = status[d] /\ (ReadyPreview(d)' = ReadyPreview(d)) /\ Shows(d)' = Shows(d)
  BY <1>1, <1>2 DEF ReadyPreview, Shows
<1>7. status'[D(e)] = "deploying" /\ ~ReadyPreview(D(e))'
  BY <1>1, <1>2 DEF ReadyPreview
<1>8. budget' \in Nat /\ budget' <= budget /\ p \in {"write", "migrate"}
  BY <1>1, <1>2
<1> HIDE DEF p
<1>9. \A f \in Execs : pc[f] \notin Preparing \cup {"write"}
  BY <1>1, <1>2, Alone DEF ProjectInv, Outside, Preparing
<1>10. ASSUME NEW d \in Deployments, d # D(e), ReadyPreview(d)'
       PROVE  ReadyPreview(d) /\ (mode = Preset(d) /\ ~InHand(d) => Shows(d)' \/ \E f \in Execs : Replaces(f, d)')
  <2>1. ReadyPreview(d)
    BY <1>6, <1>10
  <2>2. ASSUME NEW f \in Execs, Replaces(f, d) PROVE Replaces(f, d)'
    <3>1. CASE f = e
      <4>1. CASE p = "write"
        BY <1>1, <1>5, <2>2, <3>1, <4>1 DEF Replaces
      <4>2. CASE p = "migrate"
        <5>1. Coming(e)
          BY <1>1, <2>2, <3>1 DEF Replaces
        <5>2. Coming(e)'
          BY <1>1, <1>5, <1>7, <1>8, <4>2, <5>1, ComingStays
        <5> QED
          BY <1>1, <2>2, <3>1, <5>2 DEF Replaces
      <4> QED
        BY <1>8, <4>1, <4>2
    <3>2. CASE f # e
      <4>1. D(f) \in Deployments
        BY <1>2, Situation
      <4>2. status'[D(f)] # "torn_down" \/ status'[D(f)] = status[D(f)]
        BY <1>6, <1>7, <4>1
      <4> QED
        BY <1>1, <1>2, <1>5, <1>8, <2>2, <3>2, <4>2, OthersReplace
    <3> QED
      BY <3>1, <3>2
  <2> QED
    BY <1>6, <1>10, <2>1, <2>2 DEF PreviewInv, Shown
<1>11. Single'
  BY <1>1, <1>6, <1>7, <1>9 DEF PreviewInv, Single
<1>12. Lasting'
  <2> SUFFICES ASSUME ~Troubled(setup), ~Suspendable(setup), NEW d \in recorded, Slot(d) = "preview", d # D(e)
               PROVE  status'[d] \in {"ready", "torn_down"} /\ mode = Preset(d)
    BY <1>1, <1>5, <1>8 DEF Lasting, Preparing
  <2>1. d \in Deployments
    BY DEF ProjectInv, Types
  <2> QED
    BY <1>6, <1>9, <2>1 DEF PreviewInv, Lasting
<1>13. Replacing(e)'
  <2>1. Left(e)' = Names(q)
    BY <1>5 DEF Left
  <2>2. \A d \in Deployments : ReadyPreview(d)' /\ d # D(e) => d = v
    BY <1>4, <1>6
  <2>3. prev'[e] # NULL => prev'[e] # D(e) /\ ReadyPreview(prev[e])'
    <3>1. v # NULL => v # D(e) /\ status'[v] = "ready" /\ Slot(v) = "preview"
      BY <1>4, <1>6 DEF ReadyPreview
    <3> QED
      BY <1>1, <1>5, <3>1 DEF ReadyPreview
  <2>4. pc'[e] # "failed"
    BY <1>5, <1>8
  <2> QED
    BY <1>1, <1>3, <1>5, <1>7, <2>1, <2>2, <2>3, <2>4 DEF Replacing
<1>14. PuttingBack(e)' /\ Closing(e)' /\ pc'[e] \notin {"done", "dead"}
  BY <1>1, <1>5, <1>8 DEF PuttingBack, Closing
<1> QED
  BY <1>1, <1>2, <1>5, <1>7, <1>10, <1>11, <1>12, <1>13, <1>14, OwnPreviews

\* The checks of a release, a rollback or a preview's teardown pass.
LEMMA CheckedPreviews ==
  ASSUME Tidy, ProjectInv, FollowInv, PreviewInv, [Next]_vars, NEW e \in Execs, ~Finish(e),
         CheckRelease(e) \/ CheckRollback(e) \/ CheckRetire(e)
  PROVE  PreviewInv'
<1>1. UNCHANGED <<setup, points, mode, recorded, suspended, budget, claimed, tries>> /\ pc[e] = "check"
  BY DEF CheckRelease, CheckRollback, CheckRetire, rowVars, projectVars, worldVars, trafficVars
<1>2. /\ pc \in [Execs -> Places] /\ D(e) \in Deployments /\ Slot(D(e)) \in Slots /\ budget \in Nat /\ setup \in Setups
      /\ todo \in [Execs -> Seq(Writes)] /\ prev \in [Execs -> Maybe(Deployments)] /\ pc[e] \notin Outside
      /\ status \in [Deployments -> Statuses] /\ recorded \subseteq Deployments
  BY <1>1, Situation DEF ProjectInv, Types, FollowInv, FollowTypes, Outside
<1>3. budget' \in Nat /\ budget' <= budget /\ pc[e] \notin Preparing \cup {"write"}
  BY <1>1, <1>2 DEF Preparing
<1>4. ASSUME ~PreviewRelease(e), NEW p \in {"write", "migrate"}, pc' = [pc EXCEPT ![e] = p], \A f \in Execs : f # e => Same(f),
             \A d \in Deployments : Slot(d) = "preview" => status'[d] = status[d], Closing(e)'
      PROVE  PreviewInv'
  <2>1. pc'[e] = p /\ pc'[e] \notin {"done", "dead"}
    BY <1>2, <1>4
  <2>2. Replacing(e)' /\ PuttingBack(e)'
    BY <1>1, <1>4, FixedPreviews DEF Replacing, PuttingBack
  <2> QED
    BY <1>1, <1>2, <1>3, <1>4, <2>1, <2>2, SteadyPreviews DEF Replaces
<1>5. CASE CheckRelease(e) /\ ~PreviewRelease(e)
  <2> DEFINE p == IF mig[D(e)] = "absent" THEN "write" ELSE "migrate"
  <2>1. /\ status' = [status EXCEPT ![D(e)] = "deploying"] /\ Op(e) = "release" /\ pc' = [pc EXCEPT ![e] = p]
        /\ \E v : prev' = [prev EXCEPT ![e] = v]
        /\ \E q : todo' = [todo EXCEPT ![e] = q]
    BY <1>5 DEF CheckRelease, SetStatus
  <2>2. \A f \in Execs : f # e => Same(f)
    BY <1>1, <1>2, <2>1 DEF Same
  <2>3. \A d \in Deployments : Slot(d) = "preview" => status'[d] = status[d]
    BY <1>2, <1>5, <2>1 DEF PreviewRelease
  <2>4. Closing(e)' /\ p \in {"write", "migrate"}
    BY <1>1, <2>1, FixedPreviews DEF Closing
  <2> HIDE DEF p
  <2> QED
    BY <1>4, <1>5, <2>1, <2>2, <2>3, <2>4
<1>6. CASE CheckRollback(e)
  <2>1. /\ UNCHANGED status /\ Op(e) = "rollback" /\ pc' = [pc EXCEPT ![e] = "write"]
        /\ \E v : prev' = [prev EXCEPT ![e] = v]
        /\ \E q : todo' = [todo EXCEPT ![e] = q]
    BY <1>6 DEF CheckRollback, rowVars
  <2>2. \A f \in Execs : f # e => Same(f)
    BY <1>1, <1>2, <2>1 DEF Same
  <2>3. Closing(e)' /\ ~PreviewRelease(e)
    BY <1>1, <2>1, FixedPreviews DEF Closing, PreviewRelease
  <2> QED
    BY <1>4, <2>1, <2>2, <2>3
<1>7. CASE CheckRetire(e)
  <2> DEFINE q == RetireWrites(D(e))
  <2>1. /\ UNCHANGED <<status, prev>> /\ Op(e) = "retire" /\ pc' = [pc EXCEPT ![e] = "write"] /\ status[D(e)] # "torn_down"
        /\ todo' = [todo EXCEPT ![e] = q]
    BY <1>7 DEF CheckRetire, rowVars
  <2>2. "down" \in Names(q) /\ ("unpoint" \in Names(q) => D(e) \in recorded)
    BY <2>1, RetireList
  <2> HIDE DEF q
  <2>3. pc'[e] = "write" /\ todo'[e] = q /\ \A f \in Execs : f # e => Same(f)
    BY <1>1, <1>2, <2>1 DEF Same
  <2>4. D(e) \in recorded => \A d \in Deployments : ReadyPreview(d) => d = D(e)
    BY <1>1, <2>1, ClosesAlone
  <2>5. \A d \in Deployments : ReadyPreview(d)' = ReadyPreview(d)
    BY <1>1, <2>1, FixedPreviews DEF ReadyPreview
  <2>6. Closing(e)' /\ ~PreviewRelease(e)
    BY <1>1, <2>1, <2>2, <2>3, <2>4, <2>5, FixedPreviews DEF Closing, Left, PreviewRelease
  <2> QED
    BY <1>4, <2>1, <2>3, <2>6
<1> QED
  BY <1>5, <1>6, <1>7, CheckedPreview

\* A write of a release of the live slot, or of a rollback: no preview changes.
LEMMA LiveWritePreviews ==
  ASSUME ProjectInv, FollowInv, PreviewInv, [Next]_vars, NEW e \in Execs, Write(e), Slot(D(e)) = "live"
  PROVE  PreviewInv'
<1> DEFINE w == Head(todo[e])
<1>1. /\ UNCHANGED <<setup, budget, suspended, pc, prev>>
      /\ pc[e] = "write" /\ pc[e] \notin Outside /\ w \in WriteNames(e)
      /\ \A f \in Execs : f # e => Same(f)
      /\ budget' \in Nat /\ budget' <= budget
  BY WriteFrame
<1>2. /\ D(e) \in Deployments /\ Op(e) \in Ops /\ status \in [Deployments -> Statuses] /\ recorded \subseteq Deployments
      /\ points \in [Presets -> [Slots -> Maybe(Deployments)]] /\ "live" \in Slots /\ "preview" \in Slots
      /\ \A d \in Deployments : Preset(d) \in Presets
  BY Situation DEF ProjectInv, Types, FollowInv, FollowTypes, Slots
<1>3. Op(e) # "retire" /\ ~PreviewRelease(e)
  BY <1>1 DEF FollowInv, Local, Shaped, PreviewRelease
<1>4. WriteTraffic(e, w) /\ WriteRows(e, w)
  BY DEF Write
<1>5. w \in {"point", "route", "domains", "key", "claim", "ready", "mark", "sync", "move"}
  BY <1>1, <1>2, <1>3 DEF WriteNames, LiveRelease, PreviewRelease, Ops
<1> HIDE DEF w
<1>6. UNCHANGED points \/ \E x : points' = [points EXCEPT ![Preset(D(e))]["live"] = x]
  BY <1>4, <1>5 DEF WriteTraffic, Host
<1>7. \A d \in Deployments : points'[Preset(d)]["preview"] = points[Preset(d)]["preview"]
  BY <1>2, <1>6
<1>8. UNCHANGED status \/ status' = [status EXCEPT ![D(e)] = "ready"]
  BY <1>4, <1>5 DEF WriteRows
<1>9. recorded' = recorded \/ recorded' = recorded \cup {D(e)}
  BY <1>4 DEF WriteRows
<1>10. UNCHANGED <<mode, claimed>> \/ mode = NULL
  BY <1>4 DEF WriteRows
<1>11. \A d \in Deployments : Slot(d) = "preview" => status'[d] = status[d] /\ (d \in recorded' <=> d \in recorded)
  BY <1>2, <1>8, <1>9
<1>12. recorded' \subseteq Deployments
  BY <1>2, <1>9
<1>13. Replacing(e)' /\ PuttingBack(e)' /\ Closing(e)'
  BY <1>1, <1>3, FixedPreviews DEF Replacing, PuttingBack, Closing
<1>14. pc'[e] \notin {"done", "dead"} /\ \A d \in Deployments : ~Replaces(e, d)
  BY <1>1, <1>3 DEF Replaces
<1> QED
  BY <1>1, <1>3, <1>7, <1>10, <1>11, <1>12, <1>13, <1>14, SteadyPreviews

\* A write of the teardown of a preview.
LEMMA RetireWritePreviews ==
  ASSUME Tidy, ProjectInv, FollowInv, PreviewInv, [Next]_vars, NEW e \in Execs, Write(e), Op(e) = "retire"
  PROVE  PreviewInv'
<1> USE FixedPreviews
<1> DEFINE w == Head(todo[e])
<1>1. /\ UNCHANGED <<setup, budget, suspended, pc, prev>>
      /\ pc[e] = "write" /\ pc[e] \notin Outside /\ w \in WriteNames(e) /\ w \in Left(e)
      /\ Left(e)' \subseteq Left(e) /\ Left(e) \subseteq Left(e)' \cup {w}
      /\ \A f \in Execs : f # e => Same(f)
      /\ budget' \in Nat /\ budget' <= budget
  BY WriteFrame
<1>2. /\ D(e) \in Deployments /\ status \in [Deployments -> Statuses] /\ recorded \subseteq Deployments
      /\ points \in [Presets -> [Slots -> Maybe(Deployments)]] /\ "live" \in Slots /\ "preview" \in Slots
      /\ \A d \in Deployments : Preset(d) \in Presets
      /\ \A f \in Execs : D(f) \in Deployments
  BY Situation DEF ProjectInv, Types, FollowInv, FollowTypes, Slots
<1>3. WriteTraffic(e, w) /\ WriteRows(e, w) /\ Closing(e)
  BY DEF Write, PreviewInv
<1>4. w \in {"unpoint", "unroute", "down"} /\ Slot(D(e)) = "preview" /\ ~PreviewRelease(e)
  <2>1. w \in {"unpoint", "unroute", "down"}
    BY <1>1 DEF WriteNames, LiveRelease
  <2>2. Slot(D(e)) = "preview"
    BY <1>1 DEF FollowInv, Local, Shaped
  <2> QED
    BY <2>1, <2>2 DEF PreviewRelease
<1> HIDE DEF w
<1>5. UNCHANGED <<mode, claimed, recorded>>
  BY <1>3, <1>4 DEF WriteRows
<1>6. /\ w = "unpoint" => UNCHANGED status
      /\ w = "unroute" => UNCHANGED <<status, points>>
      /\ w = "down" => UNCHANGED points /\ status' = [status EXCEPT ![D(e)] = "torn_down"]
  BY <1>3, <1>4 DEF WriteTraffic, WriteRows
<1>7. \A d \in Deployments : /\ d # D(e) => status'[d] = status[d]
                             /\ ReadyPreview(d)' => ReadyPreview(d)
                             /\ status'[d] \in {status[d], "torn_down"}
  <2>1. UNCHANGED status \/ status' = [status EXCEPT ![D(e)] = "torn_down"]
    BY <1>4, <1>6
  <2> QED
    BY <1>1, <1>2, <2>1 DEF ReadyPreview
<1>8. \A f \in Execs : f # e => pc[f] \in Outside
  BY <1>1, Alone DEF ProjectInv
<1>9. \A f \in Execs : ~(PreviewRelease(f) /\ pc[f] \in Preparing \cup {"write"})
  BY <1>4, <1>8 DEF Outside, Preparing
<1>10. Closing(e)'
  <2>1. "down" \notin Left(e)' => status'[D(e)] # "ready"
    BY <1>1, <1>2, <1>3, <1>6, <1>7 DEF Closing
  <2>2. "unpoint" \in Left(e)' => \A d \in Deployments : ReadyPreview(d)' => d = D(e)
    BY <1>1, <1>3, <1>7 DEF Closing
  <2> QED
    BY <1>1, <2>1, <2>2 DEF Closing
<1>11. Replacing(e)' /\ PuttingBack(e)' /\ pc'[e] \notin {"done", "dead"}
  BY <1>1, <1>4 DEF Replacing, PuttingBack
<1>12. Single'
  BY <1>1, <1>7, <1>9 DEF PreviewInv, Single
<1>13. Lasting'
  <2> SUFFICES ASSUME ~Troubled(setup), ~Suspendable(setup), NEW d \in recorded, Slot(d) = "preview"
               PROVE  status'[d] \in {"ready", "torn_down"} /\ mode = Preset(d)
    BY <1>1, <1>5 DEF Lasting
  <2> QED
    BY <1>2, <1>7, <1>9 DEF PreviewInv, Lasting
<1>14. ASSUME NEW d \in Deployments, d # D(e), ReadyPreview(d)'
       PROVE  ReadyPreview(d) /\ (mode = Preset(d) /\ ~InHand(d) => Shows(d)' \/ \E f \in Execs : Replaces(f, d)')
  <2>1. ReadyPreview(d)
    BY <1>7, <1>14
  <2>2. w # "unpoint"
    BY <1>1, <1>3, <1>14, <2>1 DEF Closing
  <2>3. Shows(d)' = Shows(d)
    BY <1>1, <1>4, <1>6, <2>2 DEF Shows
  <2>4. ASSUME NEW f \in Execs, Replaces(f, d) PROVE Replaces(f, d)'
    <3>1. f # e /\ PreviewRelease(f) /\ D(f) # d
      BY <1>4, <2>4 DEF Replaces
    <3>2. Troubled(setup)
      BY <1>8, <2>4, <3>1 DEF Replaces, Coming, Outside
    <3>3. PICK g \in Execs : PreviewRelease(g) /\ D(g) = d
      BY <2>1 DEF PreviewInv, Listed, ReadyPreview
    <3>4. D(f) # D(e)
      BY <3>1, <3>2, <3>3, TidyIs DEF ProjectInv, Types
    <3>5. status'[D(f)] = status[D(f)]
      BY <1>2, <1>7, <3>4
    <3> QED
      BY <1>1, <2>4, <3>1, <3>5, OthersReplace
  <2> QED
    BY <2>1, <2>3, <2>4 DEF PreviewInv, Shown
<1>15. ReadyPreview(D(e))' => D(e) \in recorded'
  BY <1>1, <1>2, <1>5, <1>7 DEF PreviewInv, Listed
<1> QED
  BY <1>1, <1>5, <1>10, <1>11, <1>12, <1>13, <1>14, <1>15, OwnPreviews

\* A write of the release of a preview: whatever other preview is ready is the one it retires at the end.
LEMMA PreviewWritePreviews ==
  ASSUME ProjectInv, FollowInv, PreviewInv, [Next]_vars, NEW e \in Execs, Write(e), PreviewRelease(e)
  PROVE  PreviewInv'
<1> USE FixedPreviews
<1> DEFINE w == Head(todo[e])
<1>1. /\ UNCHANGED <<setup, budget, suspended, pc, prev>>
      /\ pc[e] = "write" /\ pc[e] \notin Outside /\ w \in WriteNames(e) /\ w \in Left(e)
      /\ Left(e)' \subseteq Left(e) /\ Left(e) \subseteq Left(e)' \cup {w} /\ (w = "retire" => Left(e)' = {})
      /\ \A f \in Execs : f # e => Same(f)
      /\ budget' \in Nat /\ budget' <= budget
  BY WriteFrame
<1>2. /\ D(e) \in Deployments /\ status \in [Deployments -> Statuses] /\ recorded \subseteq Deployments
      /\ points \in [Presets -> [Slots -> Maybe(Deployments)]] /\ "preview" \in Slots
      /\ Preset(D(e)) \in Presets /\ prev[e] \in Maybe(Deployments)
      /\ \A d \in Deployments : d # NULL /\ Preset(d) # NULL
  BY Situation, ReleaseAssumption DEF ProjectInv, Types, FollowInv, FollowTypes, Slots
<1>3. Op(e) = "release" /\ Slot(D(e)) = "preview" /\ Op(e) # "rollback" /\ Op(e) # "retire" /\ ~LiveRelease(e)
  BY DEF PreviewRelease, LiveRelease
<1>4. w \in {"point", "route", "claim", "ready", "retire"}
  BY <1>1, <1>3 DEF WriteNames
<1>5. WriteTraffic(e, w) /\ WriteRows(e, w)
  BY DEF Write
<1> HIDE DEF w
<1>6. /\ "retire" \in Left(e) /\ status[D(e)] # "torn_down"
      /\ \A d \in Deployments : ReadyPreview(d) /\ d # D(e) => d = prev[e]
      /\ "point" \notin Left(e) => Shows(D(e))
      /\ prev[e] # NULL => prev[e] # D(e) /\ (ReadyPreview(prev[e]) \/ suspended)
      /\ "ready" \notin Left(e) => status[D(e)] = "ready" \/ suspended
  BY <1>1 DEF PreviewInv, Replacing
<1>7. mode \in {NULL, Preset(D(e))}
  BY <1>1, <1>3 DEF FollowInv, Local, Progress
<1>8. /\ w = "point" => points' = [points EXCEPT ![Preset(D(e))]["preview"] = D(e)]
      /\ w # "point" => UNCHANGED points
  BY <1>3, <1>4, <1>5 DEF WriteTraffic, Host
<1>9. /\ w = "ready" => status' = [status EXCEPT ![D(e)] = "ready"] /\ recorded' = recorded \cup {D(e)}
      /\ w # "ready" => UNCHANGED recorded
      /\ w = "retire" => status' = IF prev[e] = NULL THEN status ELSE [status EXCEPT ![prev[e]] = "torn_down"]
      /\ w \notin {"ready", "retire"} => UNCHANGED status
  BY <1>4, <1>5 DEF WriteRows, Retired
<1>10. UNCHANGED <<mode, claimed>> \/ (w = "claim" /\ mode = NULL)
  BY <1>5 DEF WriteRows
<1>11. status'[D(e)] = IF w = "ready" THEN "ready" ELSE status[D(e)]
  BY <1>2, <1>6, <1>9
<1>12. \A d \in Deployments : d # D(e) => status'[d] = IF w = "retire" /\ d = prev[e] THEN "torn_down" ELSE status[d]
  BY <1>2, <1>9
<1>13. \A d \in Deployments : d # D(e) /\ ReadyPreview(d)' => ReadyPreview(d) /\ d = prev[e] /\ w # "retire"
  BY <1>1, <1>6, <1>12 DEF ReadyPreview
<1>14. w # "retire" => "retire" \in Left(e)'
  BY <1>1, <1>6
<1>15. "point" \notin Left(e)' => Shows(D(e))'
  <2>1. w = "point" => Shows(D(e))'
    BY <1>1, <1>2, <1>3, <1>8 DEF Shows
  <2>2. w # "point" => Shows(D(e))' = Shows(D(e))
    BY <1>1, <1>8 DEF Shows
  <2> QED
    BY <1>1, <1>6, <2>1, <2>2
<1>16. prev[e] # NULL /\ "retire" \in Left(e)' => prev[e] # D(e) /\ (ReadyPreview(prev[e])' \/ suspended)
  <2> SUFFICES ASSUME prev[e] # NULL, "retire" \in Left(e)', ~suspended PROVE prev[e] # D(e) /\ ReadyPreview(prev[e])'
    BY <1>6
  <2>1. w # "retire" /\ prev[e] \in Deployments /\ prev[e] # D(e) /\ ReadyPreview(prev[e])
    BY <1>1, <1>2, <1>6 DEF Maybe
  <2>2. status'[prev[e]] = status[prev[e]]
    BY <1>12, <2>1
  <2> QED
    BY <1>1, <2>1, <2>2 DEF ReadyPreview
<1>17. Replacing(e)'
  <2>1. Left(e)' # {} => "retire" \in Left(e)'
    BY <1>1, <1>14
  <2>2. status'[D(e)] # "torn_down" /\ ("ready" \notin Left(e)' => status'[D(e)] = "ready" \/ suspended)
    BY <1>1, <1>6, <1>11
  <2>3. pc'[e] = "write" /\ prev'[e] = prev[e]
    BY <1>1
  <2> QED
    BY <1>1, <1>13, <1>14, <1>15, <1>16, <2>1, <2>2, <2>3 DEF Replacing, Preparing
<1>18. PuttingBack(e)' /\ Closing(e)' /\ pc'[e] \notin {"done", "dead"}
  BY <1>1, <1>3 DEF PuttingBack, Closing
<1>19. CASE w = "claim" /\ mode = NULL
  <2>1. UNCHANGED <<status, recorded, points>>
    BY <1>8, <1>9, <1>19
  <2>2. \A d \in Deployments : Replaces(e, d) => Replaces(e, d)'
    BY <1>1 DEF Replaces
  <2> QED
    BY <1>1, <1>2, <1>17, <1>18, <1>19, <2>1, <2>2, SteadyPreviews
<1>20. CASE UNCHANGED <<mode, claimed>>
  <2>1. Single'
    BY <1>1, <1>13 DEF Single
  <2>2. Lasting'
    <3> SUFFICES ASSUME ~Troubled(setup), ~Suspendable(setup), NEW d \in recorded', Slot(d) = "preview", d # D(e)
                 PROVE  status'[d] \in {"ready", "torn_down"} /\ mode = Preset(d)
      BY <1>1, <1>20 DEF Lasting
    <3>1. d \in recorded /\ d \in Deployments
      BY <1>2, <1>9
    <3>2. \A f \in Execs : PreviewRelease(f) /\ D(f) = d => pc[f] \in Outside
      BY <1>1, Alone DEF ProjectInv
    <3>3. status[d] \in {"ready", "torn_down"} /\ mode = Preset(d)
      BY <3>1, <3>2 DEF PreviewInv, Lasting, Outside, Preparing
    <3> QED
      BY <1>12, <3>1, <3>3
  <2>3. ASSUME NEW d \in Deployments, d # D(e), ReadyPreview(d)', mode = Preset(d) PROVE Replaces(e, d)'
    <3>1. Preset(D(e)) = Preset(d)
      BY <1>2, <1>7, <2>3
    <3> QED
      BY <1>1, <2>3, <3>1 DEF Replaces
  <2>4. ReadyPreview(D(e))' => D(e) \in recorded'
    BY <1>1, <1>2, <1>9, <1>11 DEF PreviewInv, Listed, ReadyPreview
  <2>5. recorded \subseteq recorded' /\ recorded' \subseteq recorded \cup {D(e)}
    BY <1>9
  <2> QED
    BY <1>1, <1>3, <1>13, <1>17, <1>18, <1>20, <2>1, <2>2, <2>3, <2>4, <2>5, OwnPreviews
<1> QED
  BY <1>10, <1>19, <1>20

\* What putting back does to the rows of the deployments.
LEMMA RowsPutBack ==
  ASSUME ProjectInv, FollowInv, NEW e \in Execs, Undo(e)
  PROVE  LET w == Head(todo[e])
             back == IF Restorable(e) THEN prev[e] ELSE NULL
         IN  /\ w = "error" => status' = [status EXCEPT ![D(e)] = "error"]
             /\ w = "revive" /\ back # NULL => status' = [status EXCEPT ![back] = "ready"]
             /\ w # "error" /\ (w # "revive" \/ back = NULL) => UNCHANGED status
  BY DEF Undo

\* Putting back the traffic of the live slot touches no preview.
LEMMA LiveUndoPreviews ==
  ASSUME ProjectInv, FollowInv, PreviewInv, [Next]_vars, NEW e \in Execs, Undo(e), Slot(D(e)) = "live"
  PROVE  PreviewInv'
<1> DEFINE w == Head(todo[e])
           back == IF Restorable(e) THEN prev[e] ELSE NULL
<1>1. /\ UNCHANGED <<setup, budget, recorded, suspended, pc, prev, claimed>>
      /\ pc[e] = "undo" /\ pc[e] \notin Outside /\ w \in UndoNames(e)
      /\ \A f \in Execs : f # e => Same(f)
      /\ budget' \in Nat /\ budget' <= budget
  BY UndoFrame
<1>2. /\ D(e) \in Deployments /\ Op(e) \in Ops /\ status \in [Deployments -> Statuses] /\ recorded \subseteq Deployments
      /\ points \in [Presets -> [Slots -> Maybe(Deployments)]] /\ "live" \in Slots /\ "preview" \in Slots
      /\ \A d \in Deployments : Preset(d) \in Presets
  BY Situation DEF ProjectInv, Types, FollowInv, FollowTypes, Slots
<1>3. Op(e) # "retire" /\ ~PreviewRelease(e)
  BY <1>1 DEF FollowInv, Local, Shaped, PreviewRelease
<1>4. w # "revive"
  BY <1>1, <1>2, <1>3 DEF UndoNames, LiveRelease, PreviewRelease, Ops
<1>5. points' = points \/ points' = [points EXCEPT ![Preset(D(e))]["live"] = back]
  BY BackIs
<1>6. UNCHANGED mode \/ claimed # {}
  BY BackIs
<1>7. UNCHANGED status \/ status' = [status EXCEPT ![D(e)] = "error"]
  BY <1>4, RowsPutBack
<1> HIDE DEF w, back
<1>8. \A d \in Deployments : Slot(d) = "preview" =>
        status'[d] = status[d] /\ points'[Preset(d)]["preview"] = points[Preset(d)]["preview"]
  BY <1>2, <1>5, <1>7
<1>9. Troubled(setup)
  BY <1>1, UndoIsTrouble
<1>10. Replacing(e)' /\ PuttingBack(e)' /\ Closing(e)' /\ pc'[e] \notin {"done", "dead"}
  BY <1>1, <1>3, FixedPreviews DEF Replacing, PuttingBack, Closing
<1>11. \A d \in Deployments : ~Replaces(e, d)
  BY <1>3 DEF Replaces
<1> QED
  BY <1>1, <1>2, <1>3, <1>6, <1>8, <1>9, <1>10, <1>11, SteadyPreviews

\* Putting back what the release of a preview did: the release comes again, and what it was replacing
\* is ready still.
LEMMA PreviewUndoPreviews ==
  ASSUME ProjectInv, FollowInv, PreviewInv, [Next]_vars, NEW e \in Execs, Undo(e), PreviewRelease(e)
  PROVE  PreviewInv'
<1> USE FixedPreviews
<1> DEFINE w == Head(todo[e])
           back == IF Restorable(e) THEN prev[e] ELSE NULL
<1>1. /\ UNCHANGED <<setup, budget, recorded, suspended, pc, prev, claimed>>
      /\ pc[e] = "undo" /\ pc[e] \notin Outside /\ w \in UndoNames(e) /\ w \in Left(e) /\ Left(e)' \subseteq Left(e)
      /\ \A f \in Execs : f # e => Same(f)
      /\ budget' \in Nat /\ budget' <= budget
  BY UndoFrame
<1>2. /\ D(e) \in Deployments /\ status \in [Deployments -> Statuses] /\ recorded \subseteq Deployments
      /\ points \in [Presets -> [Slots -> Maybe(Deployments)]] /\ "preview" \in Slots
      /\ \A d \in Deployments : Preset(d) \in Presets
      /\ \A f \in Execs : D(f) \in Deployments
  BY Situation DEF ProjectInv, Types, FollowInv, FollowTypes, Slots
<1>3. Op(e) = "release" /\ Slot(D(e)) = "preview" /\ Op(e) # "rollback" /\ Op(e) # "retire" /\ ~LiveRelease(e)
  BY DEF PreviewRelease, LiveRelease
<1>4. w \in {"point", "route", "revive", "mode", "error"}
  BY <1>1, <1>3 DEF UndoNames
<1>5. /\ back \in Maybe(Deployments) /\ (back # NULL => back = prev[e])
      /\ points' = IF w = "point" THEN [points EXCEPT ![Preset(D(e))]["preview"] = back] ELSE points
      /\ mode' = IF w = "mode" /\ e \in claimed THEN NULL ELSE mode
  BY <1>3, BackIs
<1>6. /\ w = "error" => status' = [status EXCEPT ![D(e)] = "error"]
      /\ w = "revive" /\ back # NULL => status' = [status EXCEPT ![back] = "ready"]
      /\ w # "error" /\ (w # "revive" \/ back = NULL) => UNCHANGED status
  BY RowsPutBack
<1> HIDE DEF w, back
<1>7. w \in {"point", "revive"} \/ {"point", "revive"} \cap Left(e)' # {} =>
        /\ Safe /\ Served(D(e)) /\ status[D(e)] # "torn_down"
        /\ prev[e] # NULL => prev[e] # D(e) /\ ReadyPreview(prev[e])
  BY <1>1 DEF PreviewInv, PuttingBack
<1>8. \A d \in Deployments : status'[d] = IF w = "error" /\ d = D(e) THEN "error" ELSE status[d]
  <2>1. w = "revive" /\ back # NULL => status[back] = "ready" /\ back \in Deployments
    BY <1>5, <1>7 DEF ReadyPreview, Maybe
  <2> QED
    BY <1>2, <1>6, <2>1
<1>9. Troubled(setup)
  BY <1>1, UndoIsTrouble
<1>10. Coming(e) => Coming(e)'
  <2>1. status[D(e)] # "torn_down" => status'[D(e)] # "torn_down"
    BY <1>2, <1>8
  <2>2. Coming(e) => status[D(e)] # "torn_down"
    BY DEF Coming
  <2>3. pc'[e] \in {"start", "wait", "check", "migrate", "write", "undo"}
    BY <1>1
  <2> QED
    BY <1>1, <2>1, <2>2, <2>3, ComingStays
<1>11. \A d \in Deployments : Replaces(e, d) => Replaces(e, d)'
  BY <1>1, <1>10 DEF Replaces
<1>12. PuttingBack(e)'
  <2> SUFFICES ASSUME {"point", "revive"} \cap Left(e)' # {} PROVE PuttingBack(e)'
    BY DEF PuttingBack
  <2>1. Coming(e)
    BY <1>1, <1>7, <1>9 DEF Coming
  <2>2. Safe' /\ Served(D(e))' /\ status'[D(e)] # "torn_down"
    BY <1>1, <1>10, <2>1 DEF Coming
  <2>3. ASSUME prev[e] # NULL PROVE prev[e] # D(e) /\ ReadyPreview(prev[e])'
    <3>1. prev[e] # D(e) /\ ReadyPreview(prev[e]) /\ prev[e] \in Deployments
      BY <1>7, <2>3 DEF FollowInv, FollowTypes, Maybe
    <3>2. status'[prev[e]] = status[prev[e]]
      BY <1>8, <3>1
    <3> QED
      BY <1>1, <3>1, <3>2 DEF ReadyPreview
  <2> QED
    BY <1>1, <2>2, <2>3 DEF PuttingBack, Served
<1>13. Replacing(e)' /\ Closing(e)' /\ pc'[e] \notin {"done", "dead"}
  BY <1>1 DEF Replacing, Closing, Preparing
<1>14. CASE w \notin {"point", "error"}
  <2>1. \A d \in Deployments : status'[d] = status[d]
    BY <1>8, <1>14
  <2>2. UNCHANGED points /\ (UNCHANGED mode \/ claimed # {})
    BY <1>5, <1>14
  <2> QED
    BY <1>1, <1>2, <1>9, <1>11, <1>12, <1>13, <2>1, <2>2, SteadyPreviews
<1>15. CASE w \in {"point", "error"}
  <2>1. UNCHANGED mode
    BY <1>5, <1>15
  <2>2. Single' /\ Lasting'
    BY <1>1, <1>9 DEF Single, Lasting
  <2>3. ReadyPreview(D(e))' => D(e) \in recorded'
    BY <1>1, <1>2, <1>8 DEF PreviewInv, Listed, ReadyPreview
  <2>4. ASSUME NEW d \in Deployments, d # D(e), ReadyPreview(d)'
        PROVE  ReadyPreview(d) /\ (mode = Preset(d) /\ ~InHand(d) => Shows(d)' \/ \E f \in Execs : Replaces(f, d)')
    <3>1. ReadyPreview(d)
      BY <1>1, <1>8, <2>4 DEF ReadyPreview
    <3> SUFFICES ASSUME mode = Preset(d), ~InHand(d) PROVE Shows(d)' \/ \E f \in Execs : Replaces(f, d)'
      BY <3>1
    <3>2. CASE w = "point" /\ Preset(d) = Preset(D(e))
      <4>1. Coming(e)
        BY <1>1, <1>7, <1>9, <3>2 DEF Coming
      <4>2. Replaces(e, d)'
        BY <1>1, <1>10, <2>4, <3>2, <4>1 DEF Replaces
      <4> QED
        BY <4>2
    <3>3. CASE w # "point" \/ Preset(d) # Preset(D(e))
      <4>1. Shows(d) => Shows(d)'
        BY <1>1, <1>2, <1>5, <3>3 DEF Shows
      <4>2. ASSUME NEW f \in Execs, f # e, Replaces(f, d) PROVE Replaces(f, d)'
        <5>1. status'[D(f)] # "torn_down" \/ status'[D(f)] = status[D(f)]
          BY <1>2, <1>8
        <5> QED
          BY <1>1, <4>2, <5>1, OthersReplace
      <4>3. Shows(d) \/ \E f \in Execs : Replaces(f, d)
        BY <3>1 DEF PreviewInv, Shown
      <4> QED
        BY <1>11, <4>1, <4>2, <4>3
    <3> QED
      BY <3>2, <3>3
  <2> QED
    BY <1>1, <1>3, <1>12, <1>13, <2>1, <2>2, <2>3, <2>4, OwnPreviews
<1> QED
  BY <1>14, <1>15

\* Writes and compensation, by slot and operation.
LEMMA WritersAndPreviews ==
  ASSUME Tidy, ProjectInv, FollowInv, PreviewInv, [Next]_vars, NEW e \in Execs, Write(e) \/ Undo(e)
  PROVE  PreviewInv'
<1>1. pc[e] \in {"write", "undo"}
  BY DEF Write, Undo
<1>2. Op(e) \in Ops /\ Slot(D(e)) \in Slots
  BY Situation DEF ProjectInv, Types
<1>3. (Op(e) = "retire" => Slot(D(e)) = "preview") /\ (Op(e) = "rollback" => Slot(D(e)) = "live")
  BY <1>1 DEF FollowInv, Local, Shaped
<1>4. Slot(D(e)) = "live" \/ PreviewRelease(e) \/ Op(e) = "retire"
  BY <1>2, <1>3 DEF Ops, Slots, PreviewRelease
<1>5. Undo(e) => Op(e) # "retire"
  <2>1. Undo(e) => Head(todo[e]) \in UndoNames(e)
    BY UndoFrame
  <2> QED
    BY <2>1 DEF UndoNames, LiveRelease
<1> QED
  BY <1>4, <1>5, LiveWritePreviews, PreviewWritePreviews, RetireWritePreviews, LiveUndoPreviews, PreviewUndoPreviews

\* Every step of the release side.
LEMMA PreviewStep ==
  ASSUME Mendable, Tidy, ProjectInv, FollowInv, PreviewInv, [Next]_vars, ReleaseSide \/ UNCHANGED vars
  PROVE  PreviewInv'
<1>1. CASE Suspend \/ Refresher \/ Router \/ Expiry \/ UNCHANGED vars
  BY <1>1, BystandersAndPreviews
<1>2. ASSUME NEW e \in Execs, Step(e) \/ Disturb(e) PROVE PreviewInv'
  <2>1. pc[e] \in Places
    BY DEF ProjectInv, Types
  <2>2. CASE Begin(e) \/ Acquire(e) \/ GiveUpWaiting(e)
    BY <2>2, WaitersAndPreviews
  <2>3. CASE Crash(e) \/ Die(e)
    <3>1. pc[e] = "wait" \/ pc[e] \notin Outside
      BY <2>1, <2>3 DEF Crash, Die, Places, Outside
    <3> QED
      BY <2>3, <3>1, WaitersAndPreviews, EndedPreviews
  <2>4. CASE CheckRelease(e) \/ CheckRollback(e) \/ CheckRetire(e)
    BY <2>4, StoppedPreviews, CheckedPreviews
  <2>5. CASE Migrate(e) \/ Invoke(e) \/ Migrated(e)
    <3>1. Invoke(e) \/ Migrated(e) => ~Finish(e)
      <4>1. Invoke(e) \/ Migrated(e) => pc'[e] \in {"invoked", "write", "failed"}
        BY DEF Invoke, Migrated, Goto, ProjectInv, Types
      <4>2. Finish(e) => pc'[e] = "done"
        BY DEF Finish, Leave, ProjectInv, Types
      <4> QED
        BY <4>1, <4>2
    <3> QED
      BY <2>5, <3>1, StoppedPreviews, MigratorPreviews
  <2>6. CASE MigrationFailed(e) \/ MigrationUnknown(e)
    <3>1. Finish(e)
      BY <2>6 DEF MigrationFailed, MigrationUnknown
    <3> QED
      BY <2>6, <3>1, StoppedPreviews
  <2>7. CASE Complete(e) \/ LoseLease(e)
    <3>1. pc[e] \notin Outside
      BY <2>7 DEF Complete, LoseLease, Outside
    <3> QED
      BY <2>7, <3>1, EndedPreviews
  <2>8. CASE UndoThrows(e)
    <3>1. pc[e] \notin Outside
      BY <2>8 DEF UndoThrows, Outside
    <3> QED
      BY <2>8, <3>1, EndedPreviews, UndoThrownPreviews
  <2> QED
    BY <1>2, <2>2, <2>3, <2>4, <2>5, <2>6, <2>7, <2>8, ThrownPreviews, WritersAndPreviews DEF Step, Disturb
<1> QED
  BY <1>1, <1>2 DEF ReleaseSide

\* What the invariant comes to once everything has ended: nobody is replacing a preview any more.
LEMMA OneAtRest ==
  ASSUME PreviewInv, Ended
  PROVE  OnePreview
<1>1. \A e \in Execs : pc[e] \in {"done", "dead"}
  BY DEF Ended, Quiet
<1>2. \A d \in Deployments : ~InHand(d) /\ \A e \in Execs : ~Replaces(e, d)
  BY <1>1 DEF InHand, Replaces, Coming
<1> QED
  BY <1>2 DEF PreviewInv, Shown, ReadyPreview, Shows, OnePreview

\* Once every job of a project that is not being deleted has ended, at most one preview is ready and it
\* is the one that is shown, whatever failed in between, for the disturbances and the previews that
\* Mendable and Tidy describe.
THEOREM PreviewsAgree == ASSUME Mendable, Tidy PROVE Spec => []OnePreview
<1> DEFINE Inv == tpc = "none" => FollowInv /\ PreviewInv
<1>1. TeardownInit => Inv
  BY FollowInit, PreviewInit
<1>2. ProjectInv /\ Inv /\ [Next]_vars => Inv'
  BY FollowStep, PreviewStep, DeletionStays
<1>3. Inv => OnePreview
  BY OneAtRest DEF Ended, OnePreview
<1> QED
  BY <1>1, <1>2, <1>3, ProjectInvariant, PTL DEF Spec

-----------------------------------------------------------------------------
(* Deletion: what a teardown that reports success has returned. *)

Emptied    == {"sandboxes", "secrets", "gone", "report", "done"}
Cleared    == {"secrets", "gone", "report", "done"}

\* What the teardown has returned at each of its steps, all of it again after an attempt that failed: a
\* resource exists only while its row does, and each step leaves behind nothing of what it returned.
Returning ==
  /\ there \subseteq rows
  /\ tpc \in {"instance", "row"} => at \notin there
  /\ tpc \in Emptied => rows = {}
  /\ tpc \in Cleared => ~sandboxes
  /\ tpc = "gone" => ~secrets
  /\ tpc \in {"report", "done"} /\ reason # "nonpayment" => ~secrets
  /\ deleted => reason = "user_requested" /\ tpc # "none"

\* Nobody but the delete request and the teardown touches what Returning speaks of.
LEMMA ReturningStays ==
  ASSUME Returning, UNCHANGED <<deleted, teardownVars>>
  PROVE  Returning'
  BY DEF Returning, teardownVars, Emptied, Cleared

LEMMA ReleasesReturnNothing ==
  ASSUME ReleaseSide \/ UNCHANGED vars
  PROVE  UNCHANGED <<deleted, teardownVars>>
<1>1. ASSUME NEW e \in Execs, Step(e) PROVE UNCHANGED deleted
  BY <1>1 DEF Step, Begin, Acquire, CheckRelease, CheckRollback, CheckRetire, Migrate, Invoke, Migrated,
     MigrationFailed, Write, Undo, Complete, worldVars
<1>2. ASSUME NEW e \in Execs, Disturb(e) PROVE UNCHANGED deleted
  BY <1>2 DEF Disturb, Crash, Die, MigrationUnknown, LoseLease, Throw, GiveUpWaiting, UndoThrows, worldVars
<1>3. Suspend \/ Refresher \/ Router \/ Expiry => UNCHANGED deleted
  BY DEF Suspend, Refresher, RefreshRead, RefreshWrite, Router, RouterLookup, RouterBackfill, Expiry,
     Expire, ExpireKey, worldVars
<1> QED
  BY <1>1, <1>2, <1>3 DEF ReleaseSide, vars, releaseVars, worldVars

LEMMA ReturningStep ==
  ASSUME Returning, [Next]_vars
  PROVE  Returning'
<1>1. CASE ReleaseSide \/ UNCHANGED vars
  BY <1>1, ReleasesReturnNothing, ReturningStays
<1>2. ASSUME NEW r \in setup.ends, Delete(r) PROVE Returning'
  BY <1>2 DEF Delete, Returning, Serviced, Emptied, Cleared
<1>3. CASE TBegin \/ TQueues \/ TDomain \/ TUndomain \/ TUndomained \/ TStatic \/ TWithdraw \/ TFunction \/ TDown
  BY <1>3 DEF Returning, StayOthers, Serviced, Emptied, Cleared, TGoto, TBegin, TQueues, TDomain, TUndomain,
     TUndomained, TStatic, TWithdraw, TFunction, TDown
<1>4. CASE TDestroy
  <2>1. UNCHANGED <<rows, reason, sandboxes, secrets, deleted>> /\ tpc = "services"
    BY <1>4 DEF TDestroy, StayOthers
  <2>2. CASE \E s \in rows : at' = s /\ there' = there \ {s} /\ tpc' = "instance"
    BY <2>1, <2>2 DEF Returning, Emptied, Cleared
  <2>3. CASE rows = {} /\ tpc' = "sandboxes" /\ UNCHANGED there
    BY <2>1, <2>3 DEF Returning, Emptied, Cleared
  <2> QED
    BY <1>4, <2>2, <2>3 DEF TDestroy, TGoto
<1>5. CASE TInstance \/ TRow
  BY <1>5 DEF TInstance, TRow, TGoto, StayOthers, Returning, Emptied, Cleared
<1>6. CASE TSandboxes \/ TSecrets \/ TGone \/ TReport
  BY <1>6 DEF TSandboxes, TSecrets, TGone, TReport, TGoto, StayOthers, Serviced, Returning, Emptied, Cleared
<1>7. CASE TStuck \/ TThrow \/ TCrash
  <2>1. tpc' \in {"queued", "dead"} /\ UNCHANGED <<deleted, reason, there, rows>>
    BY <1>7 DEF TStuck, TThrow, TCrash, TFail, AfterFailure, TLeaveAlone, worldVars, Serviced
  <2> QED
    BY <2>1 DEF Returning, Emptied, Cleared
<1> QED
  BY <1>1, <1>2, <1>3, <1>4, <1>5, <1>6, <1>7 DEF Next, TStep

\* A teardown that reports success has destroyed every backend service and its row, every sandbox and,
\* for a deleted project, its variables: for any services of any kind, however many attempts died in
\* the middle, were refused by a driver or ran again over what was already gone.
THEOREM ReturnsWhatItRented == Spec => [](tpc = "done" => NothingRented)
<1>1. TeardownInit => Returning
  BY DEF TeardownInit, Init, Returning, Emptied, Cleared
<1>2. Returning /\ [Next]_vars => Returning'
  BY ReturningStep
<1>3. Returning => (tpc = "done" => NothingRented)
  BY DEF Returning, NothingRented, Emptied, Cleared
<1> QED
  BY <1>1, <1>2, <1>3, PTL DEF Spec

-----------------------------------------------------------------------------
(* Deletion: the function stays gone. *)

\* A step of a job or request: where it goes, what it has left to write and what it would put back.
Turns(e, p, q, v) ==
  pc' = [pc EXCEPT ![e] = p] /\ todo' = [todo EXCEPT ![e] = q] /\ prev' = [prev EXCEPT ![e] = v]

\* The steps of a job or request, by what they leave it to write.
Quits(e)    == \E p \in {"start", "done", "dead"} : Turns(e, p, <<>>, NULL)
Waits(e)    == /\ pc[e] = "start" /\ ~Moot(e) /\ Turns(e, "wait", todo[e], prev[e])
Enters(e)   == pc[e] = "wait" /\ Turns(e, "check", todo[e], prev[e])
Admitted(e) ==
  /\ pc[e] = "check" /\ ~deleted /\ ~suspended
  /\ \/ \E p \in {"migrate", "write"} : Op(e) = "release" /\ Turns(e, p, ReleaseWrites(D(e)), PreviousServing(D(e)))
     \/ Op(e) = "rollback" /\ Turns(e, "write", RollbackWrites(D(e)), live)
Retires(e)  == pc[e] = "check" /\ Op(e) = "retire" /\ Turns(e, "write", RetireWrites(D(e)), prev[e])
Prepares(e) == pc[e] \in Preparing /\ \E p \in Preparing \cup {"write"} : Turns(e, p, todo[e], prev[e])
Writing(e)  == pc[e] \in {"write", "undo"} /\ todo[e] # <<>> /\ Turns(e, pc[e], Tail(todo[e]), prev[e])
Throws(e)   == pc[e] \in {"check", "write"} \cup Preparing /\ Turns(e, "undo", UndoWrites(e), prev[e])
Catches(e)  == pc[e] = "undo" /\ Op(e) = "release" /\ Turns(e, "undo", FailureWrites(e), prev[e])

Lists == todo \in [Execs -> Seq(Writes)] /\ prev = [e \in Execs |-> prev[e]]

LEMMA StepKinds ==
  ASSUME ProjectInv, Lists, NEW e \in Execs, Step(e) \/ Disturb(e)
  PROVE  /\ UNCHANGED <<setup, deleted, suspended>>
         /\ \/ Quits(e) \/ Waits(e) \/ Enters(e) \/ Admitted(e) \/ Retires(e) \/ Prepares(e) \/ Writing(e)
            \/ Throws(e) \/ Catches(e)
<1>1. /\ pc \in [Execs -> Places] /\ todo = [f \in Execs |-> todo[f]] /\ prev = [f \in Execs |-> prev[f]]
  BY DEF ProjectInv, Types, Lists
<1>2. \A p : pc' = [pc EXCEPT ![e] = p] /\ UNCHANGED <<todo, prev>> => Turns(e, p, todo[e], prev[e])
  BY <1>1 DEF Turns
<1>3. \A p : Goto(e, p) => Turns(e, p, todo[e], prev[e])
  BY <1>2 DEF Goto
<1>4. Finish(e) \/ Fail(e) => Quits(e)
  BY Exits DEF Leave, Quits, Turns
<1>5. CASE Begin(e) \/ Acquire(e)
  BY <1>2, <1>3, <1>4, <1>5 DEF Begin, Acquire, Waits, Enters, worldVars
<1>6. CASE CheckRelease(e)
  BY <1>4, <1>6 DEF CheckRelease, Refused, Admitted, Turns, worldVars
<1>7. CASE CheckRollback(e)
  BY <1>4, <1>7 DEF CheckRollback, Admitted, Turns, worldVars
<1>8. CASE CheckRetire(e)
  <2>1. UNCHANGED <<setup, deleted, suspended>> /\ pc[e] = "check" /\ Op(e) = "retire"
    BY <1>8 DEF CheckRetire, worldVars
  <2>2. Finish(e) \/ (pc' = [pc EXCEPT ![e] = "write"] /\ todo' = [todo EXCEPT ![e] = RetireWrites(D(e))] /\ UNCHANGED prev)
    BY <1>8 DEF CheckRetire
  <2> QED
    BY <1>1, <1>4, <2>1, <2>2 DEF Retires, Turns
<1>9. CASE Migrate(e) \/ Invoke(e) \/ Migrated(e)
  <2>1. UNCHANGED <<setup, deleted, suspended>> /\ pc[e] \in Preparing
    BY <1>9 DEF Migrate, Invoke, Migrated, Preparing, worldVars
  <2>2. Finish(e) \/ \E p \in {"write", "invoke", "invoked", "failed"} : Goto(e, p)
    BY <1>9 DEF Migrate, Invoke, Migrated
  <2> QED
    BY <1>3, <1>4, <2>1, <2>2 DEF Prepares, Preparing
<1>10. CASE MigrationFailed(e) \/ Complete(e) \/ MigrationUnknown(e) \/ LoseLease(e) \/ GiveUpWaiting(e)
  BY <1>4, <1>10 DEF MigrationFailed, Complete, MigrationUnknown, LoseLease, GiveUpWaiting, worldVars
<1>11. CASE Crash(e) \/ Die(e)
  BY <1>11 DEF Crash, Die, Leave, Quits, Turns, worldVars
<1>12. CASE Write(e) \/ Undo(e)
  <2>1. /\ UNCHANGED <<setup, deleted, suspended, pc, prev>> /\ pc[e] \in {"write", "undo"} /\ todo[e] # <<>>
        /\ todo' = [todo EXCEPT ![e] = Tail(todo[e])]
    BY <1>12 DEF Write, Undo, worldVars
  <2> QED
    BY <1>1, <2>1 DEF Writing, Turns
<1>13. CASE Throw(e)
  <2>1. /\ UNCHANGED <<setup, deleted, suspended, prev>> /\ pc[e] \in {"check", "write"} \cup Preparing
        /\ pc' = [pc EXCEPT ![e] = "undo"] /\ todo' = [todo EXCEPT ![e] = UndoWrites(e)]
    BY <1>13 DEF Throw, Preparing, worldVars
  <2> QED
    BY <1>1, <2>1 DEF Throws, Turns
<1>14. CASE UndoThrows(e)
  <2>1. UNCHANGED <<setup, deleted, suspended>> /\ pc[e] = "undo"
    BY <1>14 DEF UndoThrows, worldVars
  <2>2. Fail(e) \/ (Op(e) = "release" /\ todo' = [todo EXCEPT ![e] = FailureWrites(e)] /\ UNCHANGED <<pc, prev>>)
    BY <1>14 DEF UndoThrows
  <2> QED
    BY <1>1, <1>4, <2>1, <2>2 DEF Catches, Turns
<1> QED
  BY <1>5, <1>6, <1>7, <1>8, <1>9, <1>10, <1>11, <1>12, <1>13, <1>14 DEF Step, Disturb

\* A release of a preview replaces a preview, whatever it has left to write.
Replacement(e) ==
  pc[e] \in Preparing \cup {"write"} /\ PreviewRelease(e) /\ prev[e] # NULL => Slot(prev[e]) = "preview"

WorkInv == Lists /\ \A e \in Execs : Shaped(e) /\ Replacement(e)

\* The lists of writes keep their shape, in a project that is being deleted as in any other.
LEMMA WorkStep ==
  ASSUME ProjectInv, WorkInv, [Next]_vars
  PROVE  WorkInv'
<1>1. CASE UNCHANGED <<setup, pc, todo, prev>>
  BY <1>1 DEF WorkInv, Lists, Shaped, Replacement, Left, WriteNames, UndoNames, LiveRelease, PreviewRelease, Op, D,
     Slot, Preset
<1>2. ASSUME NEW e \in Execs, Step(e) \/ Disturb(e) PROVE WorkInv'
  <2>1. /\ Lists /\ Shaped(e) /\ Replacement(e) /\ pc \in [Execs -> Places] /\ setup \in Setups /\ UNCHANGED setup
        /\ pc[e] \in Places /\ todo[e] \in Seq(Writes) /\ Op(e) \in Ops /\ Slot(D(e)) \in Slots
    BY <1>2, StepKinds, Situation DEF WorkInv, ProjectInv, Types, Lists
  <2>2. \A f \in Execs : /\ WriteNames(f)' = WriteNames(f) /\ UndoNames(f)' = UndoNames(f)
                         /\ Op(f)' = Op(f) /\ D(f)' = D(f) /\ Slot(D(f))' = Slot(D(f))
                         /\ (PreviewRelease(f)' <=> PreviewRelease(f))
    BY <2>1 DEF WriteNames, UndoNames, LiveRelease, PreviewRelease, Op, D, Slot, Preset
  <2>3. \A x : Slot(x)' = Slot(x)
    BY <2>1 DEF Slot
  <2>4. ASSUME NEW p \in Places, NEW q \in Seq(Writes), NEW v, Turns(e, p, q, v),
               p \in Preparing => Op(e) = "release",
               p \in Preparing \cup {"write"} => InOrder(q) /\ Names(q) \subseteq WriteNames(e),
               p = "undo" => InOrder(q) /\ Names(q) \subseteq UndoNames(e),
               p \notin {"start", "done", "dead"} =>
                 (Op(e) = "retire" => Slot(D(e)) = "preview") /\ (Op(e) = "rollback" => Slot(D(e)) = "live"),
               p \in Preparing \cup {"write"} /\ PreviewRelease(e) /\ v # NULL => Slot(v) = "preview"
        PROVE  WorkInv'
    <3>1. /\ pc' = [pc EXCEPT ![e] = p] /\ todo' = [todo EXCEPT ![e] = q] /\ prev' = [prev EXCEPT ![e] = v]
      BY <2>4 DEF Turns
    <3>2. todo' \in [Execs -> Seq(Writes)] /\ prev' = [f \in Execs |-> prev'[f]]
      BY <2>1, <3>1 DEF Lists
    <3>3. pc'[e] = p /\ todo'[e] = q /\ prev'[e] = v
      BY <2>1, <3>1 DEF Lists
    <3>4. \A f \in Execs : f # e => pc'[f] = pc[f] /\ todo'[f] = todo[f] /\ prev'[f] = prev[f]
      BY <2>1, <3>1 DEF Lists
    <3>5. Shaped(e)' /\ Replacement(e)'
      BY <2>2, <2>3, <2>4, <3>3 DEF Shaped, Replacement, Left
    <3>6. ASSUME NEW f \in Execs, f # e PROVE Shaped(f)' /\ Replacement(f)'
      <4>1. Shaped(f) /\ Replacement(f)
        BY DEF WorkInv
      <4> QED
        BY <2>2, <2>3, <3>4, <3>6, <4>1 DEF Shaped, Replacement, Left
    <3> QED
      BY <3>2, <3>5, <3>6 DEF WorkInv, Lists
  <2>5. /\ pc[e] \notin {"start", "done", "dead"} =>
             (Op(e) = "retire" => Slot(D(e)) = "preview") /\ (Op(e) = "rollback" => Slot(D(e)) = "live")
        /\ pc[e] \in Preparing => Op(e) = "release"
        /\ pc[e] \in Preparing \cup {"write"} => InOrder(todo[e]) /\ Names(todo[e]) \subseteq WriteNames(e)
        /\ pc[e] = "undo" => InOrder(todo[e]) /\ Names(todo[e]) \subseteq UndoNames(e)
        /\ pc[e] \in Preparing \cup {"write"} /\ PreviewRelease(e) /\ prev[e] # NULL => Slot(prev[e]) = "preview"
    BY <2>1 DEF Shaped, Replacement, Left
  <2>6. CASE Quits(e)
    BY <2>4, <2>6, NoNames DEF Quits, Preparing, Places
  <2>7. CASE Waits(e) \/ Enters(e)
    <3>1. Waits(e) => (Op(e) = "retire" => Slot(D(e)) = "preview") /\ (Op(e) = "rollback" => Slot(D(e)) = "live")
      BY <2>1 DEF Waits, Moot, Slots
    <3> QED
      BY <2>1, <2>4, <2>5, <2>7, <3>1 DEF Waits, Enters, Preparing, Places
  <2>8. CASE Admitted(e) /\ Op(e) = "release"
    <3>1. PICK p \in {"migrate", "write"} : Turns(e, p, ReleaseWrites(D(e)), PreviousServing(D(e)))
      BY <2>8 DEF Admitted
    <3>2. PreviewRelease(e) /\ PreviousServing(D(e)) # NULL => Slot(PreviousServing(D(e))) = "preview"
      BY PreviousPreview DEF PreviewRelease
    <3> HIDE DEF PreviousServing
    <3> QED
      BY <2>1, <2>4, <2>8, <3>1, <3>2, ReleaseList DEF Preparing, Places
  <2>9. CASE Admitted(e) /\ Op(e) = "rollback"
    <3>1. Turns(e, "write", RollbackWrites(D(e)), live) /\ ~PreviewRelease(e) /\ pc[e] = "check"
      BY <2>9 DEF Admitted, PreviewRelease
    <3> QED
      BY <2>4, <2>5, <2>9, <3>1, RollbackList DEF Preparing, Places
  <2>10. CASE Retires(e)
    <3>1. Turns(e, "write", RetireWrites(D(e)), prev[e]) /\ ~PreviewRelease(e) /\ pc[e] = "check" /\ Op(e) = "retire"
      BY <2>10 DEF Retires, PreviewRelease
    <3> QED
      BY <2>4, <2>5, <3>1, RetireList DEF Preparing, Places
  <2>11. CASE Prepares(e)
    BY <2>1, <2>4, <2>5, <2>11 DEF Prepares, Preparing, Places
  <2>12. CASE Writing(e)
    <3>1. /\ Turns(e, pc[e], Tail(todo[e]), prev[e]) /\ pc[e] \in {"write", "undo"} /\ todo[e] # <<>>
          /\ InOrder(todo[e])
      BY <2>5, <2>12 DEF Writing
    <3>2. /\ Tail(todo[e]) \in Seq(Writes) /\ InOrder(Tail(todo[e]))
          /\ Names(Tail(todo[e])) \subseteq Names(todo[e])
      BY <2>1, <3>1, Turn
    <3> QED
      BY <2>1, <2>4, <2>5, <3>1, <3>2 DEF Preparing, Places
  <2>13. CASE Throws(e)
    <3>1. Turns(e, "undo", UndoWrites(e), prev[e]) /\ pc[e] \notin {"start", "done", "dead"}
      BY <2>13 DEF Throws, Preparing
    <3>2. UndoWrites(e) \in Seq(Writes) /\ InOrder(UndoWrites(e)) /\ Names(UndoWrites(e)) \subseteq UndoNames(e)
      BY <2>1, <2>5, <3>1, UndoList
    <3> QED
      BY <2>4, <2>5, <3>1, <3>2 DEF Preparing, Places
  <2>14. CASE Catches(e)
    <3>1. Turns(e, "undo", FailureWrites(e), prev[e]) /\ Op(e) = "release"
      BY <2>14 DEF Catches
    <3> QED
      BY <2>1, <2>4, <3>1, FailureList DEF Preparing, Places
  <2> QED
    BY <1>2, <2>1, <2>6, <2>7, <2>8, <2>9, <2>10, <2>11, <2>12, <2>13, <2>14, StepKinds DEF Admitted
<1>3. CASE TStatic \/ TFunction
  BY <1>1, <1>3 DEF TStatic, TFunction, StayOthers
<1>4. CASE Aside
  <2>1. UNCHANGED prev
    BY <1>4 DEF Aside, Suspend, Refresher, RefreshRead, RefreshWrite, Router, RouterLookup, RouterBackfill, Expiry,
       Expire, ExpireKey, vars, releaseVars, Delete, StayOthers, TLeaveAlone, execVars,
       TBegin, TQueues, TDomain, TUndomain, TUndomained, TWithdraw, TDown, TDestroy, TInstance, TRow, TSandboxes,
       TSecrets, TGone, TReport, TStuck, TThrow, TCrash
  <2> QED
    BY <1>1, <1>4, <2>1, AsideFrame
<1> QED
  BY <1>2, <1>3, <1>4, NextCases

Dark  == \A s \in Slots : points["serverless"][s] = NULL
Begun == job \in {"running", "succeeded"}
Later == {"down", "services", "instance", "row"} \cup Emptied

\* Under the lock, once the teardown has had it: only a preview's teardown writes, and nothing that is
\* put back moves traffic.
Barred(e) ==
  pc[e] \notin Outside =>
    /\ pc[e] \in {"check", "write", "undo"}
    /\ pc[e] = "write" => Op(e) = "retire"
    /\ pc[e] = "undo" => "point" \notin Left(e)

\* The teardown comes after the mark or the suspension that bars every later attempt; and it is the first
\* to tear down a deployment of the live slot, after the function is gone.
GoneInv ==
  /\ status \in [Deployments -> Statuses]
  /\ tpc = "none" => ~Begun
  /\ tpc # "none" => deleted \/ suspended
  /\ tpc \notin {"none", "queued"} => Begun
  /\ Begun => \A e \in Execs : Barred(e)
  /\ \A d \in Deployments : Slot(d) = "live" /\ status[d] = "torn_down" => Begun /\ Dark
  /\ tpc \in Later => Dark

\* What a job or request does to the traffic and to the rows of the live slot.
LEMMA WorkAfterDeletion ==
  ASSUME ProjectInv, WorkInv, status \in [Deployments -> Statuses], NEW e \in Execs, Step(e) \/ Disturb(e)
  PROVE  /\ status' \in [Deployments -> Statuses]
         /\ \A d \in Deployments : Slot(d) = "live" /\ status'[d] = "torn_down" => status[d] = "torn_down"
         /\ Barred(e) /\ Dark => Dark'
<1>1. /\ D(e) \in Deployments /\ pc[e] \in Places /\ todo[e] \in Seq(Writes) /\ Shaped(e) /\ Replacement(e)
      /\ points \in [Presets -> [Slots -> Maybe(Deployments)]] /\ "serverless" \in Presets
      /\ Slot(D(e)) \in Slots /\ Preset(D(e)) \in Presets /\ Op(e) \in Ops
  BY Situation DEF ProjectInv, Types, WorkInv, Lists, Presets
<1>2. CASE Write(e)
  <2> DEFINE w == Head(todo[e])
  <2>1. /\ pc[e] = "write" /\ WriteTraffic(e, w) /\ WriteRows(e, w) /\ w \in WriteNames(e)
    <3>1. pc[e] = "write" /\ todo[e] # <<>> /\ InOrder(todo[e]) /\ Left(e) \subseteq WriteNames(e)
      BY <1>1, <1>2 DEF Write, Shaped
    <3>2. w \in Left(e)
      BY <1>1, <3>1, Turn DEF Left
    <3> QED
      BY <1>2, <3>1, <3>2 DEF Write
  <2> HIDE DEF w
  <2>2. status' = CASE w = "ready"  -> [status EXCEPT ![D(e)] = "ready"]
                    [] w = "down"   -> [status EXCEPT ![D(e)] = "torn_down"]
                    [] w = "retire" -> Retired(e)
                    [] OTHER        -> status
    BY <2>1 DEF WriteRows
  <2>3. w = "down" => Op(e) = "retire" /\ Slot(D(e)) = "preview"
    BY <1>1, <2>1 DEF WriteNames, Shaped, Ops
  <2>4. w = "retire" => PreviewRelease(e) /\ (prev[e] # NULL => Slot(prev[e]) = "preview")
    BY <1>1, <2>1 DEF WriteNames, LiveRelease, PreviewRelease, Replacement, Ops
  <2>5. \A d \in Deployments : Slot(d) = "live" /\ status'[d] = "torn_down" => status[d] = "torn_down"
    <3>1. CASE w = "retire"
      BY <2>2, <2>4, <3>1 DEF Retired
    <3> QED
      BY <1>1, <2>2, <2>3, <3>1
  <2>6. status' \in [Deployments -> Statuses]
    BY <2>2 DEF Retired, Statuses
  <2>7. ASSUME Barred(e), Dark PROVE Dark'
    <3>1. w # "point"
      BY <2>1, <2>7 DEF Barred, Outside, WriteNames, LiveRelease
    <3>2. points' = points \/ points' = [points EXCEPT ![Preset(D(e))][Host(e)] = NULL]
      BY <2>1, <3>1 DEF WriteTraffic
    <3> QED
      BY <1>1, <2>7, <3>2 DEF Dark, Host
  <2> QED
    BY <2>5, <2>6, <2>7
<1>3. CASE Undo(e)
  <2> DEFINE w == Head(todo[e])
             back == IF Restorable(e) THEN prev[e] ELSE NULL
  <2>1. /\ pc[e] = "undo" /\ todo[e] # <<>>
        /\ points' = IF w = "point" THEN [points EXCEPT ![Preset(D(e))][Host(e)] = back] ELSE points
        /\ status' = CASE w = "error" -> [status EXCEPT ![D(e)] = "error"]
                       [] w = "revive" /\ back # NULL -> [status EXCEPT ![back] = "ready"]
                       [] OTHER -> status
    BY <1>3 DEF Undo
  <2>2. w \in Left(e)
    BY <1>1, <2>1, Turn DEF Left, Shaped
  <2> HIDE DEF w, back
  <2>3. status' \in [Deployments -> Statuses]
    BY <2>1 DEF Statuses
  <2>4. \A d \in Deployments : status'[d] = "torn_down" => status[d] = "torn_down"
    BY <2>1
  <2>5. Barred(e) => UNCHANGED points
    BY <2>1, <2>2 DEF Barred, Outside
  <2> QED
    BY <2>3, <2>4, <2>5 DEF Dark
<1>4. CASE ~Write(e) /\ ~Undo(e)
  <2>1. UNCHANGED points
    BY <1>4 DEF Step, Disturb, Begin, Acquire, CheckRelease, CheckRollback, CheckRetire, Migrate, Invoke, Migrated,
       MigrationFailed, Complete, Crash, Die, MigrationUnknown, LoseLease, Throw, GiveUpWaiting, UndoThrows, trafficVars
  <2>2. status' = status \/ \E s \in {"error", "deploying"} : status' = [status EXCEPT ![D(e)] = s]
    BY <1>4 DEF Step, Disturb, Begin, Acquire, CheckRelease, CheckRollback, CheckRetire, Migrate, Invoke, Migrated,
       MigrationFailed, Complete, Crash, Die, MigrationUnknown, LoseLease, Throw, GiveUpWaiting, UndoThrows, rowVars,
       SetStatus
  <2> QED
    BY <2>1, <2>2 DEF Dark, Statuses
<1> QED
  BY <1>2, <1>3, <1>4

\* Once the teardown has had the lock, no attempt gets past the checks any more.
LEMMA BarredStays ==
  ASSUME ProjectInv, WorkInv, deleted \/ suspended, NEW e \in Execs, Step(e) \/ Disturb(e), \A f \in Execs : Barred(f)
  PROVE  \A f \in Execs : Barred(f)'
<1>1. /\ Lists /\ pc \in [Execs -> Places] /\ setup \in Setups /\ UNCHANGED setup /\ Barred(e) /\ Shaped(e)
      /\ pc[e] \in Places /\ todo[e] \in Seq(Writes) /\ Op(e) \in Ops
  BY StepKinds, Situation DEF WorkInv, ProjectInv, Types, Lists
<1>2. \A f \in Execs : Op(f)' = Op(f)
  BY <1>1 DEF Op
<1>3. ASSUME NEW p, NEW q, NEW v, Turns(e, p, q, v),
             p \in Outside \/ (p \in {"check", "write", "undo"} /\ (p = "write" => Op(e) = "retire")
                                 /\ (p = "undo" => "point" \notin Names(q)))
      PROVE  \A f \in Execs : Barred(f)'
  <2>1. /\ pc'[e] = p /\ todo'[e] = q
        /\ \A f \in Execs : f # e => pc'[f] = pc[f] /\ todo'[f] = todo[f]
    BY <1>1, <1>3 DEF Turns, Lists
  <2> QED
    BY <1>2, <1>3, <2>1 DEF Barred, Left
<1>4. CASE Quits(e) \/ Waits(e) \/ Enters(e) \/ Retires(e)
  BY <1>3, <1>4 DEF Quits, Waits, Enters, Retires, Outside
<1>5. ~Admitted(e)
  BY DEF Admitted
<1>6. ~Prepares(e)
  BY <1>1 DEF Prepares, Preparing, Barred, Outside
<1>7. CASE Writing(e)
  <2>1. /\ Turns(e, pc[e], Tail(todo[e]), prev[e]) /\ pc[e] \in {"write", "undo"} /\ todo[e] # <<>> /\ InOrder(todo[e])
    BY <1>1, <1>7 DEF Writing, Shaped
  <2>2. Names(Tail(todo[e])) \subseteq Names(todo[e])
    BY <1>1, <2>1, Turn
  <2>3. (pc[e] = "write" => Op(e) = "retire") /\ (pc[e] = "undo" => "point" \notin Names(todo[e]))
    BY <1>1, <2>1 DEF Barred, Outside, Left
  <2> QED
    BY <1>3, <2>1, <2>2, <2>3
<1>8. CASE Throws(e)
  <2>1. Turns(e, "undo", UndoWrites(e), prev[e]) /\ pc[e] \in {"check", "write"} /\ (pc[e] = "write" => Op(e) = "retire")
    BY <1>1, <1>8 DEF Throws, Barred, Outside, Preparing
  <2>2. Op(e) = "rollback" => Slot(D(e)) = "live"
    BY <1>1, <2>1 DEF Shaped
  <2>3. /\ Names(UndoWrites(e)) \subseteq UndoNames(e)
        /\ Op(e) = "release" /\ pc[e] # "write" => Names(UndoWrites(e)) \subseteq {"mode", "error", "failed"}
        /\ Op(e) = "rollback" /\ pc[e] # "write" => UndoWrites(e) = <<>>
    BY <1>1, <2>2, UndoList
  <2>4. Op(e) = "retire" => UndoNames(e) = {}
    BY DEF UndoNames, LiveRelease
  <2>5. "point" \notin Names(UndoWrites(e))
    BY <1>1, <2>1, <2>3, <2>4, NoNames DEF Ops
  <2> QED
    BY <1>3, <2>1, <2>5
<1>9. CASE Catches(e)
  <2>1. Turns(e, "undo", FailureWrites(e), prev[e]) /\ Op(e) = "release"
    BY <1>9 DEF Catches
  <2>2. "point" \notin Names(FailureWrites(e))
    BY <1>1, <2>1, FailureList
  <2> QED
    BY <1>3, <2>1, <2>2
<1> QED
  BY <1>1, <1>4, <1>5, <1>6, <1>7, <1>8, <1>9, StepKinds

LEMMA GoneStep ==
  ASSUME LiveSlotTaken, ProjectInv, WorkInv, GoneInv, [Next]_vars
  PROVE  GoneInv'
<1>1. \A d \in Deployments : UNCHANGED setup => Slot(d)' = Slot(d)
  BY DEF Slot
<1>2. ASSUME UNCHANGED <<setup, pc, todo>> PROVE \A e \in Execs : Barred(e)' <=> Barred(e)
  BY <1>2 DEF Barred, Left, Op
<1>3. ASSUME NEW e \in Execs, Step(e) \/ Disturb(e), UNCHANGED teardownVars PROVE GoneInv'
  <2>1. UNCHANGED <<setup, deleted, suspended, tpc, job>>
    BY <1>3, StepKinds DEF teardownVars, WorkInv
  <2>2. Begun' = Begun
    BY <2>1 DEF Begun
  <2>3. /\ status' \in [Deployments -> Statuses]
        /\ \A d \in Deployments : Slot(d) = "live" /\ status'[d] = "torn_down" => status[d] = "torn_down"
        /\ Barred(e) /\ Dark => Dark'
    BY <1>3, WorkAfterDeletion DEF GoneInv
  <2>4. Begun => \A f \in Execs : Barred(f)'
    BY <1>3, BarredStays DEF GoneInv
  <2>5. tpc \in Later => Begun
    BY DEF GoneInv, Later, Emptied
  <2>6. Begun /\ Dark => Dark'
    BY <2>3 DEF GoneInv
  <2> QED
    BY <1>1, <2>1, <2>2, <2>3, <2>4, <2>5, <2>6 DEF GoneInv
<1>4. CASE UNCHANGED <<setup, status, points, pc, todo, deleted, tpc, job>> /\ (suspended => suspended')
  <2>1. (Dark' <=> Dark) /\ (Begun' <=> Begun)
    BY <1>4 DEF Dark, Begun
  <2> QED
    BY <1>1, <1>2, <1>4, <2>1 DEF GoneInv
<1>5. CASE (Suspend \/ Refresher \/ Router \/ Expiry) /\ UNCHANGED teardownVars
  BY <1>4, <1>5 DEF Suspend, Refresher, RefreshRead, RefreshWrite, Router, RouterLookup, RouterBackfill, Expiry,
     Expire, ExpireKey, execVars, rowVars, worldVars, trafficVars, teardownVars
<1>6. CASE UNCHANGED vars
  BY <1>4, <1>6 DEF vars, releaseVars, execVars, rowVars, worldVars, trafficVars, teardownVars
<1>7. ASSUME NEW r \in setup.ends, Delete(r) PROVE GoneInv'
  <2>1. /\ UNCHANGED <<setup, status, points, pc, todo>> /\ tpc = "none" /\ tpc' = "queued" /\ job' = "queued"
        /\ deleted' \/ suspended'
    BY <1>7 DEF Delete, rowVars, trafficVars, execVars
  <2>2. ~Begun /\ ~Begun'
    BY <2>1 DEF GoneInv, Begun
  <2> QED
    BY <1>1, <2>1, <2>2 DEF GoneInv, Later, Emptied
<1>8. CASE TBegin
  <2>1. /\ UNCHANGED <<setup, status, points, pc, todo, deleted, suspended>> /\ lock = NULL /\ tpc = "queued"
        /\ tpc' = "queues" /\ job' = "running"
    BY <1>8 DEF TBegin, StayOthers, trafficVars
  <2>2. \A e \in Execs : Barred(e)'
    <3>1. \A e \in Execs : pc[e] \in Outside
      BY <2>1, ReleaseAssumption DEF ProjectInv, Held
    <3> QED
      BY <2>1, <3>1 DEF Barred
  <2>3. (Dark' <=> Dark) /\ Begun'
    BY <2>1 DEF Dark, Begun
  <2> QED
    BY <1>1, <2>1, <2>2, <2>3 DEF GoneInv, Later, Emptied
<1>9. ASSUME UNCHANGED <<setup, status, pc, todo, deleted, suspended>>, Begun, Begun', tpc # "none", tpc' # "none",
             Dark => Dark', tpc' \in Later => Dark'
      PROVE  GoneInv'
  BY <1>1, <1>2, <1>9 DEF GoneInv
<1>10. CASE TQueues \/ TDomain \/ TUndomain \/ TUndomained
  <2>1. UNCHANGED <<setup, status, pc, todo, deleted, suspended, points, job>> /\ tpc \notin {"none", "queued"} /\ tpc' \notin Later \cup {"none"}
    BY <1>10 DEF TQueues, TDomain, TUndomain, TUndomained, TGoto, StayOthers, trafficVars, Later, Emptied
  <2> QED
    BY <1>9, <2>1 DEF GoneInv, Begun, Dark
<1>11. CASE TStatic \/ TFunction
  <2>1. UNCHANGED <<setup, status, pc, todo, deleted, suspended, job>> /\ tpc \notin {"none", "queued"} /\ tpc' # "none"
    BY <1>11 DEF TStatic, TFunction, TGoto, StayOthers
  <2>2. points \in [Presets -> [Slots -> Maybe(Deployments)]] /\ "serverless" \in Presets
    BY DEF ProjectInv, Types, Presets
  <2>3. TStatic => (Dark => Dark') /\ tpc' \notin Later
    BY <2>2 DEF TStatic, TGoto, Dark, Later, Emptied
  <2>4. TFunction => Dark'
    BY <2>2 DEF TFunction, Dark
  <2> QED
    BY <1>9, <1>11, <2>1, <2>3, <2>4 DEF GoneInv, Begun
<1>12. CASE TWithdraw
  <2>1. UNCHANGED <<setup, status, pc, todo, deleted, suspended, points, job>> /\ tpc = "deployments" /\ tpc' # "none"
    BY <1>12 DEF TWithdraw, TGoto, StayOthers
  <2>2. tpc' \in Later => Remaining = {}
    BY <1>12 DEF TWithdraw, TGoto, Later, Emptied
  <2>3. PICK d \in Deployments : Slot(d) = "live"
    BY DEF LiveSlotTaken, Slot, ProjectInv, Types
  <2>4. tpc' \in Later => Dark
    BY <2>2, <2>3 DEF GoneInv, Remaining
  <2> QED
    BY <1>9, <2>1, <2>4 DEF GoneInv, Begun, Dark
<1>13. CASE TDown
  <2>1. UNCHANGED <<setup, pc, todo, deleted, suspended, points, job>> /\ tpc = "down" /\ tpc' = "deployments"
        /\ status' = [status EXCEPT ![at] = "torn_down"]
    BY <1>13 DEF TDown, TornDown, TGoto, StayOthers, trafficVars
  <2>2. Begun /\ Begun' /\ Dark /\ Dark'
    BY <2>1 DEF GoneInv, Begun, Dark, Later
  <2>3. status' \in [Deployments -> Statuses]
    BY <2>1 DEF GoneInv, Statuses
  <2> QED
    BY <1>2, <2>1, <2>2, <2>3 DEF GoneInv
<1>14. CASE TDestroy \/ TInstance \/ TRow \/ TSandboxes \/ TSecrets \/ TGone \/ TReport
  <2>1. UNCHANGED <<setup, status, pc, todo, deleted, suspended, points>> /\ tpc \in Later /\ tpc' # "none"
        /\ (UNCHANGED job \/ job' = "succeeded")
    BY <1>14 DEF TDestroy, TInstance, TRow, TSandboxes, TSecrets, TGone, TReport, TGoto, StayOthers, trafficVars, Later, Emptied
  <2>2. tpc \notin {"none", "queued"}
    BY <2>1 DEF Later, Emptied
  <2> QED
    BY <1>9, <2>1, <2>2 DEF GoneInv, Begun, Dark
<1>15. CASE TStuck \/ TThrow \/ TCrash
  <2>1. UNCHANGED <<setup, status, pc, todo, deleted, suspended, points, job>> /\ Working /\ tpc' \in {"queued", "dead"}
    BY <1>15 DEF TStuck, TThrow, TCrash, TFail, AfterFailure, TLeaveAlone, Working, rowVars, trafficVars, worldVars
  <2> QED
    BY <1>9, <2>1 DEF GoneInv, Begun, Dark, Working, Later, Emptied
<1> QED
  BY <1>3, <1>5, <1>6, <1>7, <1>8, <1>10, <1>11, <1>12, <1>13, <1>14, <1>15 DEF Next, ReleaseSide, TStep

LEMMA GoneInit == TeardownInit => WorkInv /\ GoneInv
<1> SUFFICES ASSUME TeardownInit PROVE WorkInv /\ GoneInv
  OBVIOUS
<1>1. /\ todo = [e \in Execs |-> <<>>] /\ prev = [e \in Execs |-> NULL] /\ pc = [e \in Execs |-> "start"]
      /\ status = [d \in Deployments |-> IF d = setup.live THEN "ready" ELSE "queued"]
      /\ tpc = "none" /\ job = "none"
  BY DEF TeardownInit, Init
<1>2. WorkInv
  BY <1>1, NoNames DEF WorkInv, Lists, Shaped, Replacement, Preparing
<1>3. GoneInv
  BY <1>1 DEF GoneInv, Begun, Later, Emptied, Statuses
<1> QED
  BY <1>2, <1>3

\* Once a teardown has reported success the project's function stays gone: no release, rollback or
\* preview that was waiting for the lock, was retried after a crash, or was putting traffic back when
\* the project was deleted or its organization suspended creates it again.  For any deployments, jobs
\* and requests, where some deployment is of the live slot.
THEOREM FunctionStaysGone ==
  ASSUME LiveSlotTaken
  PROVE  Spec => [](tpc = "done" => \A s \in Slots : points["serverless"][s] = NULL)
<1>1. TeardownInit => WorkInv /\ GoneInv
  BY GoneInit
<1>2. ProjectInv /\ WorkInv /\ GoneInv /\ [Next]_vars => WorkInv' /\ GoneInv'
  BY WorkStep, GoneStep
<1>3. GoneInv => (tpc = "done" => \A s \in Slots : points["serverless"][s] = NULL)
  BY DEF GoneInv, Dark, Later, Emptied
<1> QED
  BY <1>1, <1>2, <1>3, ProjectInvariant, PTL DEF Spec
=============================================================================
