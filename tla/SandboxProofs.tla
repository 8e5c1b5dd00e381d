---------------------------- MODULE SandboxProofs ----------------------------
(* Theorems about Sandbox, for every number of slots, attempts, containers and requests. *)
EXTENDS Sandbox, TLAPS

\* Nothing brings back a sandbox whose deletion was requested: every job writes the row on a condition
\* that excludes `deleting`, and the destroy, which does not, removes it.
THEOREM DeletionStands == Spec => DeletingIsFinal
<1> DEFINE Kept == row = "deleting" => row' \in {"deleting", "gone"} /\ (row' = "deleting" => ext' = ext)
<1>1. [Next]_vars => [Kept]_vars
  <2> SUFFICES ASSUME Next PROVE Kept
    OBVIOUS
  <2>1. CASE Request \/ Clock
    BY <2>1 DEF Request, Clock, requestSandboxStart, requestSandboxDestroy, TearDownProject, Suspend,
       reapSandboxes, repairDeletingSandboxes, reconcileSandboxes, rowVars
  <2>2. CASE World
    BY <2>2 DEF World, Lose, AutoStop, Tire, Crash, Throw, Problem, rowVars
  <2>3. ASSUME NEW j \in Slots, provisionSandbox(j) PROVE Kept
    BY <2>3 DEF provisionSandbox, provisionRead, provisionRetry, provisionUp, provisionReread, create,
       provisionRecord, bootstrap, provisionRun, Discard, provisionCaught, provisionFail, rowVars,
       updateIfState, Startable
  <2>4. ASSUME NEW j \in Slots, startSandbox(j) \/ stopSandbox(j) PROVE Kept
    BY <2>4 DEF startSandbox, startRead, startWithoutId, startUp, startRun, startReread, startFail,
       stopSandbox, stopRead, stopDown, stopWrite, rowVars, updateIfState, Startable
  <2>5. ASSUME NEW j \in Slots, destroySandbox(j) \/ Reconciliation(j) PROVE Kept
    BY <2>5 DEF destroySandbox, destroyRead, destroyAtProvider, destroyRow, Reconciliation, reconcileLook,
       reconcileStop, cleanMissingMark, cleanMissingClear, Ours, Live, rowVars, updateIfState
  <2> QED
    BY <2>1, <2>2, <2>3, <2>4, <2>5 DEF Next, Step
<1> QED
  BY <1>1, PTL DEF Spec, DeletingIsFinal

-----------------------------------------------------------------------------
(* The container.  A container that exists is named by the row, or by an attempt that has just created *)
(* it and will record it or take it away.                                                              *)

Known == (1 .. made) \cup {NULL}
Jobs(K) == [kind : Kinds \cup {NULL}, pc : PCs, left : Nat, ext : K]

Types ==
  /\ setup \in Setups /\ made \in Nat /\ ext \in Known /\ (row = "gone" => ext = NULL)
  /\ obj \in {NULL} \cup [id : 1 .. made, on : BOOLEAN, ready : BOOLEAN]
  /\ job \in [Slots -> Jobs(Known)]

ByUser == setup.deleter = "user"
Ending == row \in {"deleting", "gone"}

\* A cleanup is about a container that is missing, and stays missing since ids are not used again; a
\* destroy that the user asked for takes away the container the row names until it is removed.
JobOK(j) ==
  /\ job[j].pc \in {"c_mark", "c_clear", "p_mark", "p_clear"} => Missing(job[j].ext)
  /\ job[j].pc \in {"d_destroy", "d_remove"} => job[j].kind = "destroy"
  /\ ByUser /\ job[j].kind = "destroy" => Ending
  /\ ByUser /\ job[j].pc = "d_destroy" => row = "gone" \/ job[j].ext = ext
  /\ ByUser /\ job[j].pc = "d_remove" => Missing(ext)

Fetched(j, x) == job[j].pc \in {"p_record", "p_discard"} /\ job[j].ext = x
Named == ByUser /\ ~cut /\ obj # NULL => obj.id = ext \/ \E j \in Slots : Fetched(j, obj.id)

SandboxInv == Types /\ (\A j \in Slots : JobOK(j)) /\ Named

\* Only job j moves: it is at p afterwards, of kind k and knows x.
Becomes(j, p, x, k) ==
  /\ job'[j].pc = p /\ job'[j].ext = x /\ job'[j].kind = k
  /\ \A i \in Slots : i # j => job'[i] = job[i]

\* What the ways of moving a job do to it.
LEMMA Moves ==
  ASSUME NEW K, NULL \in K, job \in [Slots -> Jobs(K)], NEW j \in Slots
  PROVE  /\ \A p \in PCs : Goto(j, p) => job' \in [Slots -> Jobs(K)] /\ Becomes(j, p, job[j].ext, job[j].kind)
         /\ \A p \in PCs, x \in K :
              GotoWith(j, p, x) => job' \in [Slots -> Jobs(K)] /\ Becomes(j, p, x, job[j].kind)
         /\ Finish(j) => job' \in [Slots -> Jobs(K)] /\ Becomes(j, "free", NULL, NULL)
         /\ Rethrow(j) => /\ job' \in [Slots -> Jobs(K)]
                          /\ Becomes(j, "free", NULL, NULL) \/ Becomes(j, "ready", NULL, job[j].kind)
<1>1. ASSUME NEW b \in Jobs(K), job' = [job EXCEPT ![j] = b]
      PROVE  job' \in [Slots -> Jobs(K)] /\ Becomes(j, b.pc, b.ext, b.kind)
  BY <1>1 DEF Becomes
<1>2. job[j] \in Jobs(K) /\ Free \in Jobs(K) /\ Free.pc = "free" /\ Free.ext = NULL /\ Free.kind = NULL
  BY DEF Free, Jobs, PCs
<1>3. ASSUME NEW p \in PCs, Goto(j, p)
      PROVE  job' \in [Slots -> Jobs(K)] /\ Becomes(j, p, job[j].ext, job[j].kind)
  <2> DEFINE b == [job[j] EXCEPT !.pc = p]
  <2>1. b \in Jobs(K) /\ b.pc = p /\ b.ext = job[j].ext /\ b.kind = job[j].kind
    BY <1>2 DEF Jobs
  <2>2. job' = [job EXCEPT ![j] = b]
    BY <1>3 DEF Goto
  <2> HIDE DEF b
  <2> QED
    BY <1>1, <2>1, <2>2
<1>4. ASSUME NEW p \in PCs, NEW x \in K, GotoWith(j, p, x)
      PROVE  job' \in [Slots -> Jobs(K)] /\ Becomes(j, p, x, job[j].kind)
  <2> DEFINE b == [job[j] EXCEPT !.pc = p, !.ext = x]
  <2>1. b \in Jobs(K) /\ b.pc = p /\ b.ext = x /\ b.kind = job[j].kind
    BY <1>2 DEF Jobs
  <2>2. job' = [job EXCEPT ![j] = b]
    BY <1>4 DEF GotoWith
  <2> HIDE DEF b
  <2> QED
    BY <1>1, <2>1, <2>2
<1>5. Finish(j) => job' \in [Slots -> Jobs(K)] /\ Becomes(j, "free", NULL, NULL)
  <2>1. Finish(j) => job' = [job EXCEPT ![j] = Free]
    BY DEF Finish
  <2> HIDE DEF Free
  <2> QED
    BY <1>1, <1>2, <2>1
<1>6. ASSUME Rethrow(j)
      PROVE  /\ job' \in [Slots -> Jobs(K)]
             /\ Becomes(j, "free", NULL, NULL) \/ Becomes(j, "ready", NULL, job[j].kind)
  <2> DEFINE b == Again(job[j])
  <2>1. job[j].left > 1 => b \in Jobs(K) /\ b.pc = "ready" /\ b.ext = NULL /\ b.kind = job[j].kind
    <3>1. job[j].left \in Nat
      BY <1>2 DEF Jobs
    <3> SUFFICES ASSUME job[j].left > 1
                 PROVE  b \in Jobs(K) /\ b.pc = "ready" /\ b.ext = NULL /\ b.kind = job[j].kind
      OBVIOUS
    <3>2. job[j].left - 1 \in Nat
      BY <3>1
    <3>3. "ready" \in PCs
      BY DEF PCs
    <3> QED
      BY <1>2, <3>2, <3>3 DEF Jobs, Again
  <2>2. job' = [job EXCEPT ![j] = IF job[j].left > 1 THEN b ELSE Free]
    BY <1>6 DEF Rethrow
  <2> HIDE DEF b
  <2>3. CASE job[j].left > 1
    BY <1>1, <2>1, <2>2, <2>3
  <2>4. CASE ~(job[j].left > 1)
    BY <1>1, <1>2, <2>2, <2>4
  <2> QED
    BY <2>3, <2>4
<1> QED
  BY <1>3, <1>4, <1>5, <1>6

\* The provider: ids are handed out once, so that a container which is missing stays missing.
LEMMA Containers ==
  ASSUME Types, [Next]_vars
  PROVE  /\ made' \in Nat /\ Known \subseteq Known'
         /\ obj' \in {NULL} \cup [id : 1 .. made', on : BOOLEAN, ready : BOOLEAN]
         /\ \A x \in Known : Missing(x) => Missing(x)'
<1> DEFINE Obj == [id : 1 .. made, on : BOOLEAN, ready : BOOLEAN]
           Goal == /\ made' \in Nat /\ Known \subseteq Known'
                   /\ obj' \in {NULL} \cup [id : 1 .. made', on : BOOLEAN, ready : BOOLEAN]
                   /\ \A x \in Known : Missing(x) => Missing(x)'
<1>1. made \in Nat /\ obj \in {NULL} \cup Obj /\ NULL \notin Nat
  BY SandboxAssumption DEF Types
<1>2. ASSUME made' = made, obj' = obj \/ obj' = NULL \/ (obj' \in Obj /\ obj # NULL /\ obj'.id = obj.id)
      PROVE  Goal
  BY <1>1, <1>2 DEF Known, Missing
<1>3. ASSUME NEW x \in Known, NEW b \in BOOLEAN, made' = made, PowerTo(x, b)
      PROVE  Goal
  <2>1. obj' = obj \/ (~Missing(x) /\ obj' = [obj EXCEPT !.on = b])
    BY <1>3 DEF PowerTo
  <2>2. ~Missing(x) => obj # NULL /\ obj \in Obj
    BY <1>1 DEF Missing
  <2> QED
    BY <1>2, <1>3, <2>1, <2>2
<1>4. ASSUME NEW x \in Known, made' = made, DestroyAt(x)
      PROVE  Goal
  BY <1>2, <1>4 DEF DestroyAt
<1>5. \A j \in Slots : job[j].ext \in Known
  BY DEF Types, Jobs
<1>6. ASSUME UNCHANGED <<obj, made>> PROVE Goal
  BY <1>2, <1>6
<1> HIDE DEF Goal, Obj
<1> SUFFICES Goal
  BY DEF Goal
<1>7. CASE UNCHANGED vars \/ Request \/ Clock
  BY <1>6, <1>7 DEF vars, Request, Clock, requestSandboxStart, requestSandboxDestroy, TearDownProject, Suspend,
     reapSandboxes, repairDeletingSandboxes, reconcileSandboxes
<1>8. CASE World
  <2>1. CASE Lose
    BY <1>2, <2>1 DEF Lose
  <2>2. CASE AutoStop
    <3>1. obj # NULL /\ obj \in Obj /\ obj' = [obj EXCEPT !.on = FALSE] /\ made' = made
      BY <1>1, <2>2 DEF AutoStop
    <3>2. obj' \in Obj /\ obj'.id = obj.id
      BY <3>1 DEF Obj
    <3> QED
      BY <1>2, <3>1, <3>2
  <2>3. CASE UNCHANGED <<obj, made>>
    BY <1>6, <2>3
  <2> QED
    BY <1>8, <2>1, <2>2, <2>3 DEF World, Tire, Crash, Throw, Problem
<1>9. ASSUME NEW j \in Slots, provisionSandbox(j) PROVE Goal
  <2>1. CASE provisionUp(j) \/ provisionCaught(j)
    BY <1>3, <1>5, <2>1 DEF provisionUp, provisionCaught
  <2>2. CASE Discard(j)
    BY <1>4, <1>5, <2>2 DEF Discard
  <2>3. CASE bootstrap(j)
    <3> DEFINE ok == ~Missing(job[j].ext) /\ obj.on
    <3>1. made' = made /\ obj' = IF ok THEN [obj EXCEPT !.ready = TRUE] ELSE obj
      BY <2>3 DEF bootstrap
    <3>2. ok => obj # NULL /\ obj \in Obj
      BY <1>1 DEF Missing
    <3>3. ok => obj' \in Obj /\ obj'.id = obj.id
      BY <3>1, <3>2 DEF Obj
    <3> QED
      BY <1>2, <3>1, <3>2, <3>3
  <2>4. CASE create(j)
    <3>1. CASE UNCHANGED <<obj, made>>
      BY <1>6, <3>1
    <3>2. CASE obj = NULL /\ made' = made + 1 /\ obj' = [id |-> made', on |-> TRUE, ready |-> FALSE]
      BY <1>1, <3>2 DEF Goal, Known, Missing
    <3> QED
      BY <2>4, <3>1, <3>2 DEF create
  <2>5. CASE UNCHANGED <<obj, made>>
    BY <1>6, <2>5
  <2> QED
    BY <1>9, <2>1, <2>2, <2>3, <2>4, <2>5
       DEF provisionSandbox, provisionRead, provisionRetry, provisionReread, provisionRecord, provisionRun, provisionFail
<1>10. ASSUME NEW j \in Slots, startSandbox(j) \/ stopSandbox(j) PROVE Goal
  <2>1. CASE startUp(j) \/ stopDown(j)
    BY <1>3, <1>5, <2>1 DEF startUp, stopDown
  <2>2. CASE UNCHANGED <<obj, made>>
    BY <1>6, <2>2
  <2> QED
    BY <1>10, <2>1, <2>2 DEF startSandbox, startRead, startWithoutId, startRun, startReread, startFail,
       stopSandbox, stopRead, stopWrite
<1>11. ASSUME NEW j \in Slots, destroySandbox(j) \/ Reconciliation(j) PROVE Goal
  <2>1. CASE destroyAtProvider(j)
    BY <1>4, <1>5, <2>1 DEF destroyAtProvider
  <2>2. CASE UNCHANGED <<obj, made>>
    BY <1>6, <2>2
  <2> QED
    BY <1>11, <2>1, <2>2 DEF destroySandbox, destroyRead, destroyRow, Reconciliation, reconcileLook,
       reconcileStop, cleanMissingMark, cleanMissingClear
<1> QED
  BY <1>7, <1>8, <1>9, <1>10, <1>11 DEF Next, Step

\* The row: a deletion goes forward, and until the row is removed its id stays; no row is removed but
\* by its destroy.
LEMMA Rows ==
  ASSUME Types, [Next]_vars
  PROVE  /\ UNCHANGED setup
         /\ row = "gone" => row' = "gone" /\ ext' = NULL
         /\ row = "deleting" => Ending' /\ (row' = "deleting" => ext' = ext)
         /\ row' = "gone" => ext' = NULL
<1> USE DEF Ending, Types
<1>1. CASE UNCHANGED vars \/ Request \/ Clock
  BY <1>1 DEF vars, Request, Clock, requestSandboxStart, requestSandboxDestroy, TearDownProject, Suspend,
     reapSandboxes, repairDeletingSandboxes, reconcileSandboxes, rowVars, envVars
<1>2. CASE World
  BY <1>2 DEF World, Lose, AutoStop, Tire, Crash, Throw, Problem, rowVars, envVars
<1>3. ASSUME NEW j \in Slots, provisionSandbox(j)
      PROVE  /\ UNCHANGED setup
             /\ row = "gone" => row' = "gone" /\ ext' = NULL
             /\ row = "deleting" => Ending' /\ (row' = "deleting" => ext' = ext)
             /\ row' = "gone" => ext' = NULL
  BY <1>3 DEF provisionSandbox, provisionRead, provisionRetry, provisionUp, provisionReread, create,
     provisionRecord, bootstrap, provisionRun, Discard, provisionCaught, provisionFail, rowVars, envVars,
     updateIfState, Startable
<1>4. ASSUME NEW j \in Slots, startSandbox(j) \/ stopSandbox(j) \/ destroySandbox(j) \/ Reconciliation(j)
      PROVE  /\ UNCHANGED setup
             /\ row = "gone" => row' = "gone" /\ ext' = NULL
             /\ row = "deleting" => Ending' /\ (row' = "deleting" => ext' = ext)
             /\ row' = "gone" => ext' = NULL
  BY <1>4 DEF startSandbox, startRead, startWithoutId, startUp, startRun, startReread, startFail,
     stopSandbox, stopRead, stopDown, stopWrite, destroySandbox, destroyRead, destroyAtProvider, destroyRow,
     Reconciliation, reconcileLook, reconcileStop, cleanMissingMark, cleanMissingClear, Ours, Live, rowVars,
     envVars, updateIfState, Startable
<1> QED
  BY <1>1, <1>2, <1>3, <1>4 DEF Next, Step

\* What a move of job j has to respect: for the job itself, and for the container.
Sound(j, p, x, k) ==
  /\ p \in {"c_mark", "c_clear", "p_mark", "p_clear"} => obj' = NULL \/ obj'.id # x
  /\ p \in {"d_destroy", "d_remove"} => k = "destroy"
  /\ ByUser /\ k = "destroy" => job[j].kind = "destroy" \/ Ending'
  /\ ByUser /\ p = "d_destroy" => row' = "gone" \/ x = ext'
  /\ ByUser /\ p = "d_remove" => Missing(ext)'

Keeps(j) ==
  /\ cut => cut'
  /\ \/ cut' \/ ~ByUser
     \/ obj' = NULL \/ obj'.id = ext' \/ Fetched(j, obj.id)'
     \/ obj # NULL /\ obj'.id = obj.id /\ obj.id # ext /\ ~Fetched(j, obj.id)

\* The other jobs are as they were, and rows and containers only go forward.
LEMMA Unmoved ==
  ASSUME SandboxInv, [Next]_vars, Types', NEW i \in Slots, job'[i] = job[i]
  PROVE  JobOK(i)'
<1> USE DEF SandboxInv
<1>1. job[i].ext \in Known /\ ext \in Known /\ UNCHANGED setup
  BY Rows DEF Types, Jobs
<1>2. Missing(job[i].ext) => Missing(job[i].ext)'
  <2>1. Missing(job[i].ext) => \A x \in {job[i].ext} : Missing(x)'
    BY <1>1, Containers
  <2> QED
    BY <2>1 DEF Missing
<1>3. Missing(NULL)'
  BY SandboxAssumption DEF Types, Missing
<1>4. Ending => Ending'
  BY Rows DEF Ending
<1>5. Ending /\ Missing(ext) => Missing(ext)'
  <2>1. CASE row' = "gone"
    BY <1>3, <2>1, Rows
  <2>2. CASE row = "deleting" /\ row' = "deleting"
    <3>1. ext' = ext
      BY <2>2, Rows
    <3>2. Missing(ext) => \A x \in {ext} : Missing(x)'
      BY <1>1, Containers
    <3> QED
      BY <3>1, <3>2 DEF Missing
  <2> QED
    BY <1>4, <2>1, <2>2, Rows DEF Ending
<1>6. JobOK(i)
  OBVIOUS
<1>7. job[i].pc \in {"c_mark", "c_clear", "p_mark", "p_clear"} => Missing(job[i].ext)'
  BY <1>2, <1>6 DEF JobOK
<1>8. ByUser /\ job[i].pc = "d_remove" => Missing(ext)'
  BY <1>5, <1>6 DEF JobOK
<1>9. ByUser /\ job[i].pc = "d_destroy" => row' = "gone" \/ job[i].ext = ext'
  BY <1>6, Rows DEF JobOK, Ending
<1> QED
  BY <1>1, <1>4, <1>6, <1>7, <1>8, <1>9 DEF JobOK, ByUser, Missing

\* A move that respects both keeps the invariant.
LEMMA OneMoves ==
  ASSUME SandboxInv, [Next]_vars, ext' \in Known', job' \in [Slots -> Jobs(Known')],
         NEW j \in Slots, NEW p, NEW x, NEW k, Becomes(j, p, x, k), Sound(j, p, x, k), Keeps(j)
  PROVE  SandboxInv'
<1> USE DEF SandboxInv
<1>1. Types' /\ UNCHANGED setup
  BY Containers, Rows DEF Types
<1>2. Ending => Ending'
  BY Rows DEF Ending
<1>3. JobOK(j)'
  BY <1>1, <1>2 DEF JobOK, Becomes, Sound, ByUser, Missing
<1>4. ASSUME NEW i \in Slots, i # j PROVE JobOK(i)'
  BY <1>1, <1>4, Unmoved DEF Becomes
<1>5. Named'
  <2> SUFFICES ASSUME ByUser, ~cut', obj' # NULL, obj'.id # ext', ~Fetched(j, obj.id)'
               PROVE  \E i \in Slots : Fetched(i, obj.id)'
    BY <1>1 DEF Named, ByUser
  <2>1. obj # NULL /\ obj'.id = obj.id /\ obj.id # ext /\ ~Fetched(j, obj.id) /\ ~cut
    BY DEF Keeps
  <2>2. PICK i \in Slots : Fetched(i, obj.id)
    BY <2>1 DEF Named
  <2> QED
    BY <2>1, <2>2 DEF Fetched, Becomes
<1> QED
  BY <1>1, <1>3, <1>4, <1>5

\* A handler's step ends its attempt, or goes on to a place that is sound.
Moved(j) ==
  \/ Finish(j) \/ Rethrow(j)
  \/ \E p \in PCs : Goto(j, p) /\ Sound(j, p, job[j].ext, job[j].kind)
  \/ \E p \in PCs, x \in Known : GotoWith(j, p, x) /\ Sound(j, p, x, job[j].kind)

LEMMA MovedKeeps ==
  ASSUME SandboxInv, [Next]_vars, ext' \in Known', NEW j \in Slots, Moved(j), Keeps(j)
  PROVE  SandboxInv'
<1>1. Known \subseteq Known' /\ NULL \in Known'
  BY Containers DEF SandboxInv, Known
<1>2. job \in [Slots -> Jobs(Known')]
  BY <1>1 DEF SandboxInv, Types, Jobs
<1>3. CASE Finish(j)
  <2>1. job' \in [Slots -> Jobs(Known')] /\ Becomes(j, "free", NULL, NULL)
    BY <1>1, <1>2, <1>3, Moves
  <2>2. Sound(j, "free", NULL, NULL)
    BY SandboxAssumption DEF Sound, Kinds
  <2> QED
    BY <2>1, <2>2, OneMoves
<1>4. CASE Rethrow(j)
  <2>1. /\ job' \in [Slots -> Jobs(Known')]
        /\ Becomes(j, "free", NULL, NULL) \/ Becomes(j, "ready", NULL, job[j].kind)
    BY <1>1, <1>2, <1>4, Moves
  <2>2. Sound(j, "free", NULL, NULL) /\ Sound(j, "ready", NULL, job[j].kind)
    BY SandboxAssumption DEF Sound, Kinds
  <2> QED
    BY <2>1, <2>2, OneMoves
<1>5. ASSUME NEW p \in PCs, Goto(j, p), Sound(j, p, job[j].ext, job[j].kind) PROVE SandboxInv'
  <2>1. job' \in [Slots -> Jobs(Known')] /\ Becomes(j, p, job[j].ext, job[j].kind)
    BY <1>1, <1>2, <1>5, Moves
  <2> QED
    BY <1>5, <2>1, OneMoves
<1>6. ASSUME NEW p \in PCs, NEW x \in Known, GotoWith(j, p, x), Sound(j, p, x, job[j].kind) PROVE SandboxInv'
  <2>1. job' \in [Slots -> Jobs(Known')] /\ Becomes(j, p, x, job[j].kind)
    BY <1>1, <1>2, <1>6, Moves
  <2> QED
    BY <1>6, <2>1, OneMoves
<1> QED
  BY <1>3, <1>4, <1>5, <1>6 DEF Moved

\* A step that leaves the row's id alone and the container the one it was, of a job that has not just
\* fetched it, keeps the container named.
LEMMA PlainKeeps ==
  ASSUME NEW j \in Slots, UNCHANGED <<ext, cut>>, job[j].pc \notin {"p_record", "p_discard"},
         obj' = NULL \/ (obj # NULL /\ obj'.id = obj.id)
  PROVE  Keeps(j)
  BY DEF Keeps, Fetched

LEMMA SameContainer ==
  ASSUME Types
  PROVE  /\ UNCHANGED obj => obj' = NULL \/ (obj # NULL /\ obj'.id = obj.id)
         /\ \A x, b : PowerTo(x, b) => obj' = NULL \/ (obj # NULL /\ obj'.id = obj.id)
         /\ \A x : DestroyAt(x) => obj' = NULL \/ (obj # NULL /\ obj'.id = obj.id)
<1>1. ASSUME NEW x, NEW b, PowerTo(x, b) PROVE obj' = NULL \/ (obj # NULL /\ obj'.id = obj.id)
  <2>1. CASE Missing(x)
    BY <1>1, <2>1 DEF PowerTo
  <2>2. CASE ~Missing(x)
    <3>1. obj # NULL /\ obj \in [id : 1 .. made, on : BOOLEAN, ready : BOOLEAN] /\ obj' = [obj EXCEPT !.on = b]
      BY <1>1, <2>2 DEF PowerTo, Missing, Types
    <3> QED
      BY <3>1
  <2> QED
    BY <2>1, <2>2
<1> QED
  BY <1>1 DEF DestroyAt

\* A place that is not of a cleanup or a destroy is sound for any job.
LEMMA OrdinarySound ==
  ASSUME NEW j \in Slots, NEW p, p \notin {"c_mark", "c_clear", "p_mark", "p_clear", "d_destroy", "d_remove"}, NEW x
  PROVE  Sound(j, p, x, job[j].kind)
  BY DEF Sound

\* sandbox.provision keeps the invariant.
LEMMA ProvisionKeeps ==
  ASSUME SandboxInv, [Next]_vars, NEW j \in Slots, provisionSandbox(j)
  PROVE  SandboxInv'
<1> USE DEF SandboxInv
<1>1. ext \in Known /\ job[j].ext \in Known /\ Known \subseteq Known' /\ Types
  BY Containers DEF Types, Jobs
<1>2. CASE provisionRead(j)
  <2>1. UNCHANGED <<ext, cut, obj>> /\ job[j].pc = "ready"
    BY <1>2 DEF provisionRead, rowVars, envVars
  <2>2. Moved(j)
    BY <1>1, <1>2, OrdinarySound DEF provisionRead, Suspended, Moved, PCs
  <2> QED
    BY <1>1, <2>1, <2>2, SameContainer, PlainKeeps, MovedKeeps
<1>3. CASE provisionRetry(j) \/ provisionReread(j) \/ provisionRun(j) \/ provisionFail(j)
  <2>1. UNCHANGED <<ext, cut, obj>> /\ job[j].pc \in {"p_retry", "p_reread", "p_run", "p_fail"}
    BY <1>3 DEF provisionRetry, provisionReread, provisionRun, provisionFail, rowVars, envVars
  <2>2. Moved(j)
    BY <1>1, <1>3, OrdinarySound DEF provisionRetry, provisionReread, provisionRun, provisionFail, Moved, PCs
  <2> QED
    BY <1>1, <2>1, <2>2, SameContainer, PlainKeeps, MovedKeeps
<1>4. CASE provisionUp(j)
  <2>1. UNCHANGED <<ext, cut>> /\ job[j].pc = "p_up" /\ PowerTo(job[j].ext, TRUE)
    BY <1>4 DEF provisionUp, rowVars, envVars
  <2>2. Missing(job[j].ext) => Sound(j, "p_mark", job[j].ext, job[j].kind)
    BY <1>1, Containers DEF Sound, Missing
  <2>3. Moved(j)
    BY <1>4, <2>2, OrdinarySound DEF provisionUp, Moved, PCs
  <2> QED
    BY <1>1, <2>1, <2>3, SameContainer, PlainKeeps, MovedKeeps
<1>5. CASE provisionCaught(j)
  <2>1. UNCHANGED <<ext, cut>> /\ job[j].pc = "p_caught" /\ PowerTo(job[j].ext, FALSE)
    BY <1>5 DEF provisionCaught, rowVars, envVars
  <2>2. Moved(j)
    BY <1>5, OrdinarySound DEF provisionCaught, Moved, PCs
  <2> QED
    BY <1>1, <2>1, <2>2, SameContainer, PlainKeeps, MovedKeeps
<1>6. CASE bootstrap(j)
  <2> DEFINE ok == ~Missing(job[j].ext) /\ obj.on
  <2>1. UNCHANGED <<ext, cut>> /\ job[j].pc = "p_boot" /\ obj' = IF ok THEN [obj EXCEPT !.ready = TRUE] ELSE obj
    BY <1>6 DEF bootstrap, rowVars, envVars
  <2>2. ok => obj # NULL /\ obj \in [id : 1 .. made, on : BOOLEAN, ready : BOOLEAN]
    BY <1>1 DEF Missing, Types
  <2>3. obj' = NULL \/ (obj # NULL /\ obj'.id = obj.id)
    BY <2>1, <2>2
  <2>4. Moved(j)
    BY <1>6, OrdinarySound DEF bootstrap, Moved, PCs
  <2> QED
    BY <1>1, <2>1, <2>3, <2>4, PlainKeeps, MovedKeeps
<1>7. CASE create(j)
  <2>1. UNCHANGED <<ext, cut>> /\ job[j].pc = "p_create"
    BY <1>7 DEF create, rowVars, envVars
  <2>2. CASE UNCHANGED <<obj, made>>
    <3>1. obj # NULL => obj.id \in Known
      BY <1>1 DEF Types, Known
    <3>2. Moved(j)
      <4>1. CASE obj # NULL /\ GotoWith(j, "p_record", obj.id)
        BY <3>1, <4>1, OrdinarySound DEF Moved, PCs
      <4>2. CASE Goto(j, "p_caught")
        BY <4>2, OrdinarySound DEF Moved, PCs
      <4>3. made' # made + 1
        BY <1>1, <2>2 DEF Types
      <4> QED
        BY <1>7, <4>1, <4>2, <4>3 DEF create
    <3> QED
      BY <1>1, <2>1, <2>2, <3>2, SameContainer, PlainKeeps, MovedKeeps
  <2>3. CASE ~UNCHANGED <<obj, made>>
    <3>1. made' \in Known' /\ NULL \in Known' /\ obj'.id = made' /\ GotoWith(j, "p_record", made')
      BY <1>1, <1>7, <2>3 DEF create, Types, Known
    <3>2. job' \in [Slots -> Jobs(Known')] /\ Becomes(j, "p_record", made', job[j].kind)
      <4>1. job \in [Slots -> Jobs(Known')]
        BY <1>1 DEF Types, Jobs
      <4> QED
        BY <3>1, <4>1, Moves DEF PCs
    <3>3. Keeps(j)
      BY <2>1, <3>1, <3>2 DEF Keeps, Becomes, Fetched
    <3> QED
      BY <1>1, <2>1, <3>2, <3>3, OrdinarySound, OneMoves
  <2> QED
    BY <2>2, <2>3
<1>8. CASE provisionRecord(j)
  <2>1. UNCHANGED obj /\ job[j].pc = "p_record"
    BY <1>8 DEF provisionRecord
  <2>1a. cut => cut'
    BY <1>8, Zenon DEF provisionRecord
  <2>2. Moved(j)
    BY <1>8, OrdinarySound DEF provisionRecord, Moved, PCs
  <2>3. ext' \in Known'
    BY <1>1, <1>8 DEF provisionRecord
  <2>4. CASE row \in Startable
    <3>1. ext' = job[j].ext /\ (~cut' => ~Missing(job[j].ext))
      BY <1>8, <2>4 DEF provisionRecord
    <3>2. cut' \/ obj'.id = ext'
      BY <2>1, <3>1 DEF Missing
    <3> QED
      BY <2>1a, <2>2, <2>3, <3>2, MovedKeeps DEF Keeps
  <2>5. CASE row \notin Startable
    <3>1. UNCHANGED <<ext, cut>> /\ Goto(j, "p_discard")
      BY <1>8, <2>5 DEF provisionRecord
    <3>2. Becomes(j, "p_discard", job[j].ext, job[j].kind)
      BY <1>1, <3>1, Moves DEF PCs, Types, Known
    <3>3. Keeps(j)
      BY <2>1, <3>1, <3>2 DEF Keeps, Becomes, Fetched
    <3> QED
      BY <2>2, <2>3, <3>3, MovedKeeps
  <2> QED
    BY <2>4, <2>5
<1>9. CASE Discard(j)
  <2>1. UNCHANGED <<ext, cut>> /\ DestroyAt(job[j].ext) /\ Finish(j)
    BY <1>9 DEF Discard, rowVars, envVars
  <2>2. Keeps(j)
    BY <2>1 DEF Keeps, DestroyAt, Missing, Fetched
  <2> QED
    BY <1>1, <2>1, <2>2, MovedKeeps DEF Moved
<1> QED
  BY <1>2, <1>3, <1>4, <1>5, <1>6, <1>7, <1>8, <1>9 DEF provisionSandbox

\* sandbox.start and sandbox.stop keep the invariant.
LEMMA StartStopKeeps ==
  ASSUME SandboxInv, [Next]_vars, NEW j \in Slots, startSandbox(j) \/ stopSandbox(j)
  PROVE  SandboxInv'
<1> USE DEF SandboxInv
<1>1. ext \in Known /\ job[j].ext \in Known /\ Known \subseteq Known' /\ Types
  BY Containers DEF Types, Jobs
<1>2. Missing(job[j].ext) => Sound(j, "c_mark", job[j].ext, job[j].kind)
  BY <1>1, Containers DEF Sound, Missing
<1>3. CASE startUp(j)
  <2>1. UNCHANGED <<ext, cut>> /\ job[j].pc = "t_start" /\ PowerTo(job[j].ext, TRUE)
    BY <1>3 DEF startUp, rowVars, envVars
  <2>2. Moved(j)
    BY <1>2, <1>3, OrdinarySound DEF startUp, Moved, PCs
  <2> QED
    BY <1>1, <2>1, <2>2, SameContainer, PlainKeeps, MovedKeeps
<1>4. CASE stopDown(j)
  <2>1. UNCHANGED <<ext, cut>> /\ job[j].pc = "s_stop" /\ PowerTo(job[j].ext, FALSE)
    BY <1>4 DEF stopDown, rowVars, envVars
  <2>2. Moved(j)
    BY <1>2, <1>4, OrdinarySound DEF stopDown, Moved, PCs
  <2> QED
    BY <1>1, <2>1, <2>2, SameContainer, PlainKeeps, MovedKeeps
<1>5. CASE startRead(j) \/ startWithoutId(j) \/ startRun(j) \/ startReread(j) \/ startFail(j)
  <2>1. UNCHANGED <<ext, cut, obj>> /\ job[j].pc \notin {"p_record", "p_discard"}
    BY <1>5 DEF startRead, startWithoutId, startRun, startReread, startFail, rowVars, envVars
  <2>2. Moved(j)
    BY <1>1, <1>5, OrdinarySound DEF startRead, startWithoutId, startRun, startReread, startFail, Suspended, Moved, PCs
  <2> QED
    BY <1>1, <2>1, <2>2, SameContainer, PlainKeeps, MovedKeeps
<1>6. CASE stopRead(j) \/ stopWrite(j)
  <2>1. UNCHANGED <<ext, cut, obj>> /\ job[j].pc \notin {"p_record", "p_discard"}
    BY <1>6 DEF stopRead, stopWrite, rowVars, envVars
  <2>2. Moved(j)
    BY <1>1, <1>6, OrdinarySound DEF stopRead, stopWrite, Moved, PCs
  <2> QED
    BY <1>1, <2>1, <2>2, SameContainer, PlainKeeps, MovedKeeps
<1> QED
  BY <1>3, <1>4, <1>5, <1>6 DEF startSandbox, stopSandbox

\* sandbox.destroy keeps the invariant: it removes the row only over a container that is gone.
LEMMA DestroyKeeps ==
  ASSUME SandboxInv, [Next]_vars, NEW j \in Slots, destroySandbox(j)
  PROVE  SandboxInv'
<1> USE DEF SandboxInv
<1>1. ext \in Known /\ job[j].ext \in Known /\ NULL \in Known' /\ Known \subseteq Known' /\ Types /\ JobOK(j)
  BY Containers DEF Types, Jobs, Known
<1>2. CASE destroyRead(j)
  <2>1. UNCHANGED <<ext, cut, obj>> /\ job[j].pc = "ready" /\ job[j].kind = "destroy"
    BY <1>2 DEF destroyRead, rowVars, envVars
  <2>2. Sound(j, "d_destroy", ext, job[j].kind)
    BY <2>1 DEF Sound
  <2>3. Moved(j)
    BY <1>1, <1>2, <2>2 DEF destroyRead, Moved, PCs
  <2> QED
    BY <1>1, <2>1, <2>3, SameContainer, PlainKeeps, MovedKeeps
<1>3. CASE destroyAtProvider(j)
  <2>1. UNCHANGED <<row, ext, cut>> /\ job[j].pc = "d_destroy" /\ DestroyAt(job[j].ext) /\ Goto(j, "d_remove")
    BY <1>3 DEF destroyAtProvider, rowVars, envVars
  <2>2. ASSUME ByUser PROVE Missing(ext)'
    <3>1. CASE job[j].ext = ext
      BY <2>1, <3>1 DEF DestroyAt, Missing
    <3>2. CASE row = "gone"
      <4>1. ext' = NULL /\ obj' \in {NULL} \cup [id : 1 .. made', on : BOOLEAN, ready : BOOLEAN] /\ made' \in Nat
        BY <1>1, <2>1, <3>2, Containers DEF Types
      <4> QED
        BY <4>1, SandboxAssumption DEF Missing
    <3> QED
      BY <1>1, <2>1, <2>2, <3>1, <3>2 DEF JobOK
  <2>3. Sound(j, "d_remove", job[j].ext, job[j].kind)
    BY <1>1, <2>1, <2>2 DEF Sound, JobOK
  <2>4. Moved(j)
    BY <2>1, <2>3 DEF Moved, PCs
  <2> QED
    BY <1>1, <2>1, <2>4, SameContainer, PlainKeeps, MovedKeeps
<1>4. CASE destroyRow(j)
  <2>1. ext' = NULL /\ UNCHANGED <<cut, obj>> /\ job[j].pc = "d_remove" /\ Finish(j)
    BY <1>4 DEF destroyRow, envVars
  <2>2. ByUser => Missing(ext)
    BY <1>1, <2>1 DEF JobOK
  <2>3. Keeps(j)
    BY <2>1, <2>2 DEF Keeps, Fetched, Missing
  <2> QED
    BY <1>1, <2>1, <2>3, MovedKeeps DEF Moved
<1> QED
  BY <1>2, <1>3, <1>4 DEF destroySandbox

\* The reconciliation keeps the invariant: it clears only the id of a container that is missing.
LEMMA ReconcileKeeps ==
  ASSUME SandboxInv, [Next]_vars, NEW j \in Slots, Reconciliation(j)
  PROVE  SandboxInv'
<1> USE DEF SandboxInv
<1>1. ext \in Known /\ job[j].ext \in Known /\ NULL \in Known' /\ Known \subseteq Known' /\ Types /\ JobOK(j)
  BY Containers DEF Types, Jobs, Known
<1>2. Missing(job[j].ext) =>
        \A p \in {"c_mark", "c_clear", "p_clear"} : Sound(j, p, job[j].ext, job[j].kind)
  BY <1>1, Containers DEF Sound, Missing
<1>3. NotCleaned(j) => Moved(j)
  BY OrdinarySound DEF NotCleaned, Moved, PCs
<1>4. CASE reconcileLook(j) \/ reconcileStop(j)
  <2>1. UNCHANGED <<ext, cut, obj>> /\ job[j].pc \in {"r_look", "r_stop"}
    BY <1>4 DEF reconcileLook, reconcileStop, rowVars, envVars
  <2>2. Moved(j)
    BY <1>2, <1>4, OrdinarySound DEF reconcileLook, reconcileStop, Moved, PCs
  <2> QED
    BY <1>1, <2>1, <2>2, SameContainer, PlainKeeps, MovedKeeps
<1>5. CASE cleanMissingMark(j)
  <2>1. UNCHANGED <<ext, cut, obj>> /\ job[j].pc \in {"c_mark", "p_mark"} /\ Missing(job[j].ext)
    BY <1>1, <1>5 DEF cleanMissingMark, rowVars, envVars, JobOK
  <2>2. Moved(j)
    BY <1>2, <1>3, <1>5, <2>1 DEF cleanMissingMark, Moved, PCs
  <2> QED
    BY <1>1, <2>1, <2>2, SameContainer, PlainKeeps, MovedKeeps
<1>6. CASE cleanMissingClear(j)
  <2>1. UNCHANGED <<cut, obj>> /\ job[j].pc \in {"c_clear", "p_clear"} /\ Missing(job[j].ext)
    BY <1>1, <1>6 DEF cleanMissingClear, envVars, JobOK
  <2>2. ext' = ext \/ (ext' = NULL /\ Missing(ext))
    BY <1>6, <2>1 DEF cleanMissingClear, Ours, rowVars
  <2>3. Keeps(j)
    BY <2>1, <2>2 DEF Keeps, Fetched, Missing
  <2>4. Moved(j)
    BY <1>3, <1>6 DEF cleanMissingClear, Moved
  <2> QED
    BY <1>1, <2>2, <2>3, <2>4, MovedKeeps
<1> QED
  BY <1>4, <1>5, <1>6 DEF Reconciliation

\* A step of no job that leaves the row's id alone and the container the one it was, or takes it away.
LEMMA NoneMoves ==
  ASSUME SandboxInv, [Next]_vars, UNCHANGED <<ext, job>>, cut => cut',
         obj' = NULL \/ (obj # NULL /\ obj'.id = obj.id)
  PROVE  SandboxInv'
<1> USE DEF SandboxInv
<1>1. Known \subseteq Known'
  BY Containers
<1>2. Types' /\ UNCHANGED setup
  BY <1>1, Containers, Rows DEF Types, Jobs
<1>3. \A i \in Slots : JobOK(i)'
  BY <1>2, Unmoved
<1>4. Named'
  <2> SUFFICES ASSUME ByUser, ~cut', obj' # NULL, obj'.id # ext'
               PROVE  \E i \in Slots : Fetched(i, obj.id)'
    BY <1>2 DEF Named, ByUser
  <2> QED
    BY DEF Named, Fetched
<1> QED
  BY <1>2, <1>3, <1>4

\* A new job takes a free slot; a destroy the user asked for comes after the row is `deleting`.
LEMMA NewJobKeeps ==
  ASSUME SandboxInv, [Next]_vars, UNCHANGED <<ext, cut, obj>>, NEW j \in Slots, job[j] = Free,
         NEW k \in Kinds, NEW p \in {"ready", "r_look"}, NEW x \in Known, NEW n \in Nat,
         job' = [job EXCEPT ![j] = [kind |-> k, pc |-> p, left |-> n, ext |-> x]],
         ByUser /\ k = "destroy" => Ending'
  PROVE  SandboxInv'
<1> USE DEF SandboxInv
<1> DEFINE b == [kind |-> k, pc |-> p, left |-> n, ext |-> x]
<1>1. Known \subseteq Known' /\ Types
  BY Containers
<1>2. b \in Jobs(Known') /\ job \in [Slots -> Jobs(Known')] /\ ext' \in Known'
  BY <1>1 DEF Types, Jobs, PCs
<1>3. b.pc = p /\ b.ext = x /\ b.kind = k
  OBVIOUS
<1> HIDE DEF b
<1>4. job' = [job EXCEPT ![j] = b]
  BY DEF b
<1>5. job' \in [Slots -> Jobs(Known')] /\ Becomes(j, p, x, k)
  BY <1>2, <1>3, <1>4 DEF Becomes
<1>6. Sound(j, p, x, k)
  BY DEF Sound
<1>7. job[j].pc = "free"
  BY DEF Free
<1>8. Keeps(j)
  BY <1>1, <1>7, SameContainer, PlainKeeps
<1> QED
  BY <1>2, <1>5, <1>6, <1>8, OneMoves

\* Requests and the clock keep the invariant.
LEMMA RequestKeeps ==
  ASSUME SandboxInv, [Next]_vars, Request \/ Clock
  PROVE  SandboxInv'
<1>1. Types /\ ext \in Known /\ NULL \in Known /\ Tries \in Nat
  BY SandboxAssumption DEF SandboxInv, Types, Known
<1>2. UNCHANGED <<ext, cut, obj>>
  BY DEF Request, Clock, requestSandboxStart, requestSandboxDestroy, TearDownProject, Suspend,
     reapSandboxes, repairDeletingSandboxes, reconcileSandboxes, rowVars, envVars
<1>3. ASSUME NEW k \in Kinds, Enqueue(k), ByUser /\ k = "destroy" => Ending' PROVE SandboxInv'
  <2>1. PICK j \in Slots : /\ job[j] = Free
                           /\ job' = [job EXCEPT ![j] = [kind |-> k, pc |-> "ready", left |-> Tries, ext |-> NULL]]
    BY <1>3 DEF Enqueue
  <2> QED
    BY <1>1, <1>2, <1>3, <2>1, NewJobKeeps
<1>4. CASE UNCHANGED job
  BY <1>1, <1>2, <1>4, SameContainer, NoneMoves
<1>5. CASE requestSandboxStart
  BY <1>3, <1>4, <1>5 DEF requestSandboxStart, Kinds
<1>6. CASE requestSandboxDestroy
  BY <1>3, <1>4, <1>6 DEF requestSandboxDestroy, Kinds, Ending
<1>7. CASE TearDownProject
  BY <1>3, <1>7 DEF TearDownProject, Kinds, ByUser
<1>8. CASE Suspend \/ reapSandboxes
  BY <1>3, <1>4, <1>8 DEF Suspend, reapSandboxes, Kinds
<1>9. CASE repairDeletingSandboxes
  BY <1>3, <1>9 DEF repairDeletingSandboxes, Kinds, Ending, rowVars
<1>10. CASE reconcileSandboxes
  <2>1. PICK j \in Slots : /\ job[j] = Free
                           /\ job' = [job EXCEPT ![j] = [kind |-> "reconcile", pc |-> "r_look", left |-> 1, ext |-> ext]]
    BY <1>10 DEF reconcileSandboxes
  <2> QED
    BY <1>1, <1>2, <2>1, NewJobKeeps DEF Kinds
<1> QED
  BY <1>5, <1>6, <1>7, <1>8, <1>9, <1>10 DEF Request, Clock

\* Faults and the provider keep the invariant: an attempt that ends while only it knows the container
\* is remembered in `cut`.
LEMMA WorldKeeps ==
  ASSUME SandboxInv, [Next]_vars, World
  PROVE  SandboxInv'
<1>1. Types /\ ext \in Known /\ Known \subseteq Known'
  BY Containers DEF SandboxInv, Types
<1>2. CASE Lose
  <2>1. UNCHANGED <<ext, job>> /\ obj' = NULL
    BY <1>2 DEF Lose, rowVars
  <2>2. cut => cut'
    BY <1>2, Zenon DEF Lose
  <2> QED
    BY <2>1, <2>2, NoneMoves
<1>3. CASE AutoStop \/ Tire
  <2>1. UNCHANGED <<ext, job, cut>>
    BY <1>3 DEF AutoStop, Tire, rowVars, envVars
  <2>2. obj' = NULL \/ (obj # NULL /\ obj'.id = obj.id)
    BY <1>1, <1>3 DEF AutoStop, Tire, Types
  <2> QED
    BY <2>1, <2>2, NoneMoves
<1>4. ASSUME NEW j \in Slots, Crash(j) \/ Throw(j) \/ Problem(j) PROVE SandboxInv'
  <2>1. UNCHANGED <<ext, obj>>
    BY <1>4 DEF Crash, Throw, Problem, rowVars
  <2>2. (cut => cut') /\ (Holds(j) => cut')
    BY <1>4, Zenon DEF Crash, Throw, Problem, Cut
  <2>3. Moved(j)
    BY <1>4, OrdinarySound DEF Crash, Throw, Problem, Moved, PCs
  <2>4. obj # NULL => obj.id # NULL
    BY <1>1, SandboxAssumption DEF Types
  <2>5. Keeps(j)
    BY <2>1, <2>2, <2>4 DEF Keeps, Fetched, Holds
  <2> QED
    BY <1>1, <2>1, <2>3, <2>5, MovedKeeps
<1> QED
  BY <1>2, <1>3, <1>4 DEF World

THEOREM SandboxInvariant == Spec => []SandboxInv
<1>1. Init => SandboxInv
  <2> SUFFICES ASSUME Init PROVE SandboxInv
    OBVIOUS
  <2>1. \A j \in Slots : job[j] = Free
    BY DEF Init
  <2>2. Free \in Jobs({NULL}) /\ Free.pc = "free" /\ Free.kind = NULL
    BY DEF Free, Jobs, PCs
  <2>3. Types
    BY <2>2 DEF Init, Types, Known, Jobs
  <2>4. \A j \in Slots : JobOK(j)
    BY <2>1, <2>2, SandboxAssumption DEF JobOK, Kinds
  <2> QED
    BY <2>3, <2>4 DEF Init, SandboxInv, Named
<1>2. SandboxInv /\ [Next]_vars => SandboxInv'
  <2> SUFFICES ASSUME SandboxInv, [Next]_vars PROVE SandboxInv'
    OBVIOUS
  <2>1. CASE UNCHANGED vars
    <3>1. UNCHANGED <<ext, job, cut, obj>> /\ Types
      BY <2>1 DEF vars, SandboxInv
    <3> QED
      BY <3>1, SameContainer, NoneMoves
  <2>2. ASSUME NEW j \in Slots, Step(j) PROVE SandboxInv'
    BY <2>2, ProvisionKeeps, StartStopKeeps, DestroyKeeps, ReconcileKeeps DEF Step
  <2> QED
    BY <2>1, <2>2, RequestKeeps, WorldKeeps DEF Next
<1> QED
  BY <1>1, <1>2, PTL DEF Spec

\* A row the user had removed leaves no container behind, in whatever order provisions, starts, stops
\* and the destroy interleave, except where an attempt was cut short while only it knew the container
\* or recorded one already taken away: every other container is named by the row until the destroy
\* has taken it away, or by an attempt that will.
THEOREM LeavesNoOrphan == Spec => []NoOrphan
<1>1. SandboxInv => NoOrphan
  <2> SUFFICES ASSUME SandboxInv, setup.deleter = "user", row = "gone", Settled, obj # NULL, ~cut
               PROVE  FALSE
    BY SandboxAssumption DEF NoOrphan, SandboxInv, Types, SetupType
  <2>1. ext = NULL /\ obj.id # NULL
    BY SandboxAssumption DEF SandboxInv, Types
  <2>2. ASSUME NEW j \in Slots PROVE job[j].pc = "free"
    <3>1. job[j] = Free
      BY DEF Settled
    <3> QED
      BY <3>1 DEF Free
  <2> QED
    BY <2>1, <2>2 DEF SandboxInv, Named, ByUser, Fetched
<1> QED
  BY <1>1, SandboxInvariant, PTL
=============================================================================
