--------------------------- MODULE JobQueueProofs ---------------------------
(***************************************************************************)
(* Theorems about JobQueue, for every set of jobs, processes and slots and *)
(* every value of the other constants.                                     *)
(***************************************************************************)
EXTENDS JobQueue, TLAPS

\* The columns a release writes keep their types.
LEMMA ReleaseType ==
  ASSUME TypeOK, NEW j \in Jobs, NEW st \in RowStates, Release(j, st)
  PROVE  /\ state' \in [Jobs -> RowStates]
         /\ lockedBy' \in [Jobs -> Workers \cup {NULL}]
         /\ leaseIn' \in [Jobs -> NoLease..Lease]
BY QueueAssumption DEF TypeOK, Release, NoLease

\* The next-state relation preserves the type invariant: one step per action.
LEMMA TypeStep == TypeOK /\ [Next]_vars => TypeOK'
<1> SUFFICES ASSUME TypeOK, [Next]_vars PROVE TypeOK'
  OBVIOUS
<1> USE QueueAssumption DEF TypeOK, RowStates, Live, NoLease, Lapsed, rowVars, callVars, slotVars, loopVars
<1>1. ASSUME NEW j \in Jobs, EnqueueInsert(j) PROVE TypeOK'
  <2>1. CASE SameKey(j) = {}
    <3>1. /\ state' = [state EXCEPT ![j] = "queued"]
          /\ runIn' = [runIn EXCEPT ![j] = Delay[j]]
          /\ call' = [call EXCEPT ![j] = "returned"]
          /\ got' = [got EXCEPT ![j] = j]
      BY <1>1, <2>1 DEF EnqueueInsert
    <3> QED
      BY <1>1, <3>1 DEF EnqueueInsert
  <2>2. CASE SameKey(j) # {}
    BY <1>1, <2>2 DEF EnqueueInsert
  <2> QED
    BY <2>1, <2>2
<1>2. ASSUME NEW j \in Jobs, EnqueueSelect(j) PROVE TypeOK'
  <2>1. SameKey(j) \subseteq Jobs
    BY DEF SameKey
  <2>2. CASE SameKey(j) = {}
    <3>1. call' = [call EXCEPT ![j] = "threw"] /\ got' = got
      BY <1>2, <2>2 DEF EnqueueSelect
    <3> QED
      BY <1>2, <3>1 DEF EnqueueSelect
  <2>3. CASE SameKey(j) # {}
    <3>1. PICK k \in Jobs : /\ call' = [call EXCEPT ![j] = "returned"]
                            /\ got' = [got EXCEPT ![j] = k]
      BY <1>2, <2>1, <2>3 DEF EnqueueSelect
    <3> QED
      BY <1>2, <3>1 DEF EnqueueSelect
  <2> QED
    BY <2>2, <2>3
<1>3. ASSUME NEW j \in Jobs, Sweep(j) PROVE TypeOK'
  BY <1>3 DEF Sweep
<1>4. ASSUME NEW w \in Workers, ReclaimScan(w) PROVE TypeOK'
  BY <1>4 DEF ReclaimScan
<1>5. ASSUME NEW w \in Workers, ReclaimWrite(w) PROVE TypeOK'
  BY <1>5 DEF ReclaimWrite, Requeue
<1>6. ASSUME NEW w \in Workers, Crash(w) PROVE TypeOK'
  BY <1>6 DEF Crash, Fault
<1>7. ASSUME NEW s \in Slots, Claim(s) PROVE TypeOK'
  BY <1>7 DEF Claim, Claimable
<1>8. ASSUME NEW s \in Slots, FindNothing(s) PROVE TypeOK'
  BY <1>8 DEF FindNothing
<1>9. ASSUME NEW s \in Slots, Heartbeat(s) PROVE TypeOK'
  BY <1>9 DEF Heartbeat
<1>10. ASSUME NEW s \in Slots, Handler(s) PROVE TypeOK'
  <2>1. CASE HandlerReturns(s)
    <3>1. job[s] \in Jobs
      BY <2>1 DEF HandlerReturns
    <3> QED
      BY <2>1, <3>1 DEF HandlerReturns
  <2>2. CASE HandlerThrows(s)
    BY <2>2 DEF HandlerThrows
  <2> QED
    BY <1>10, <2>1, <2>2 DEF Handler
<1>11. ASSUME NEW s \in Slots, Succeed(s) PROVE TypeOK'
  <2>1. s \in Live /\ job[s] \in Jobs
    BY <1>11 DEF Succeed
  <2>2. state' \in [Jobs -> RowStates] /\ lockedBy' \in [Jobs -> Workers \cup {NULL}]
        /\ leaseIn' \in [Jobs -> NoLease..Lease]
    BY <1>11, <2>1, ReleaseType DEF Succeed, MarkSucceeded
  <2> QED
    BY <1>11, <2>1, <2>2 DEF Succeed
<1>12. ASSUME NEW s \in Slots, SucceedThrows(s) PROVE TypeOK'
  BY <1>12 DEF SucceedThrows
<1>13. ASSUME NEW s \in Slots, SucceedLosesAck(s) PROVE TypeOK'
  <2>1. s \in Live /\ job[s] \in Jobs
    BY <1>13 DEF SucceedLosesAck
  <2>2. state' \in [Jobs -> RowStates] /\ lockedBy' \in [Jobs -> Workers \cup {NULL}]
        /\ leaseIn' \in [Jobs -> NoLease..Lease]
    BY <1>13, <2>1, ReleaseType DEF SucceedLosesAck, MarkSucceeded
  <2> QED
    BY <1>13, <2>1, <2>2 DEF SucceedLosesAck, Fault
<1>14. ASSUME NEW s \in Slots, Fail(s) PROVE TypeOK'
  <2>1. s \in Live /\ job[s] \in Jobs
    BY <1>14 DEF Fail
  <2>2. state' \in [Jobs -> RowStates] /\ lockedBy' \in [Jobs -> Workers \cup {NULL}]
        /\ leaseIn' \in [Jobs -> NoLease..Lease]
    BY <1>14, <2>1, ReleaseType DEF Fail, Retry
  <2>3. Backoff(token[s]) \in Int
    BY DEF Backoff
  <2>4. runIn' \in [Jobs -> Int]
    <3>1. CASE runIn' = runIn
      BY <3>1
    <3>2. CASE runIn' = [runIn EXCEPT ![job[s]] = Backoff(token[s])]
      BY <2>3, <3>2
    <3> QED
      BY <1>14, <3>1, <3>2 DEF Fail, Retry
  <2> QED
    BY <1>14, <2>1, <2>2, <2>4 DEF Fail
<1>15. CASE Tick
  BY <1>15 DEF Tick, Fault, Down
<1>16. CASE UNCHANGED vars
  BY <1>16 DEF vars
<1> QED
  BY <1>1, <1>2, <1>3, <1>4, <1>5, <1>6, <1>7, <1>8, <1>9, <1>10, <1>11, <1>12, <1>13, <1>14,
     <1>15, <1>16 DEF Next, Settle

\* Every reachable state of the queue is well typed, whatever the constants: in particular a
\* slot that runs always names a job, and a lease is never longer than Lease.
THEOREM TypeCorrect == Spec => []TypeOK
<1>1. Init => TypeOK
  BY QueueAssumption DEF Init, TypeOK, RowStates, Live, NoLease
<1> QED
  BY <1>1, TypeStep, PTL DEF Spec

-----------------------------------------------------------------------------
(* The fencing token. *)

\* No step lowers the attempt column, and a slot that was not live before a step and is
\* after it has just claimed a job at the next attempt number.
LEMMA AttemptStep ==
  ASSUME TypeOK, [Next]_vars
  PROVE  /\ \A j \in Jobs : attempt'[j] \in Nat /\ attempt'[j] >= attempt[j]
         /\ \A s \in Live' :
              \/ s \in Live /\ job'[s] = job[s] /\ token'[s] = token[s]
              \/ /\ job'[s] \in Jobs
                 /\ token'[s] = attempt[job'[s]] + 1
                 /\ attempt'[job'[s]] = token'[s]
                 /\ \A t \in Live' \ {s} : t \in Live /\ job'[t] = job[t] /\ token'[t] = token[t]
<1> USE DEF TypeOK, Live, rowVars, callVars, slotVars, loopVars
<1>1. ASSUME NEW s \in Slots, Claim(s)
      PROVE  /\ \A j \in Jobs : attempt'[j] \in Nat /\ attempt'[j] >= attempt[j]
             /\ \A t \in Live' :
                  \/ t \in Live /\ job'[t] = job[t] /\ token'[t] = token[t]
                  \/ /\ job'[t] \in Jobs
                     /\ token'[t] = attempt[job'[t]] + 1
                     /\ attempt'[job'[t]] = token'[t]
                     /\ \A u \in Live' \ {t} :
                          u \in Live /\ job'[u] = job[u] /\ token'[u] = token[u]
  <2>1. PICK j \in Jobs : /\ attempt' = [attempt EXCEPT ![j] = @ + 1]
                          /\ job' = [job EXCEPT ![s] = j]
                          /\ token' = [token EXCEPT ![s] = attempt[j] + 1]
                          /\ pc' = [pc EXCEPT ![s] = "run"]
    BY <1>1, QueueAssumption DEF Claim, Claimable
  <2> QED
    BY <2>1
<1>2. ASSUME attempt' = attempt, job' = job, token' = token, Live' \subseteq Live
      PROVE  /\ \A j \in Jobs : attempt'[j] \in Nat /\ attempt'[j] >= attempt[j]
             /\ \A t \in Live' : t \in Live /\ job'[t] = job[t] /\ token'[t] = token[t]
  BY <1>2
<1>3. ASSUME NEW j \in Jobs, EnqueueInsert(j) \/ EnqueueSelect(j) \/ Sweep(j)
      PROVE  attempt' = attempt /\ job' = job /\ token' = token /\ Live' \subseteq Live
  BY <1>3 DEF EnqueueInsert, EnqueueSelect, Sweep
<1>4. ASSUME NEW w \in Workers, ReclaimScan(w) \/ ReclaimWrite(w) \/ Crash(w)
      PROVE  attempt' = attempt /\ job' = job /\ token' = token /\ Live' \subseteq Live
  BY <1>4 DEF ReclaimScan, ReclaimWrite, Requeue, Crash
<1>5. ASSUME NEW s \in Slots, FindNothing(s) \/ Heartbeat(s) \/ Handler(s) \/ Settle(s)
      PROVE  attempt' = attempt /\ job' = job /\ token' = token /\ Live' \subseteq Live
  BY <1>5 DEF FindNothing, Heartbeat, Handler, HandlerReturns, HandlerThrows, Settle, Succeed,
              SucceedThrows, SucceedLosesAck, Fail
<1>6. ASSUME Tick \/ UNCHANGED vars
      PROVE  attempt' = attempt /\ job' = job /\ token' = token /\ Live' \subseteq Live
  BY <1>6 DEF Tick, vars
<1> QED
  BY <1>1, <1>2, <1>3, <1>4, <1>5, <1>6 DEF Next

\* A single step of the queue keeps attempt numbers fencing tokens.
LEMMA FencingStep == TypeOK /\ FencingToken /\ [Next]_vars => FencingToken'
<1> SUFFICES ASSUME TypeOK, FencingToken, [Next]_vars PROVE FencingToken'
  OBVIOUS
<1>1. TypeOK'
  BY TypeStep
<1>2. ASSUME NEW s \in Live' PROVE token'[s] \in 1..attempt'[job'[s]]
  BY AttemptStep, <1>1, <1>2 DEF FencingToken, TypeOK, Live
<1>3. ASSUME NEW s \in Live', NEW t \in Live', s # t, job'[s] = job'[t]
      PROVE  token'[s] # token'[t]
  BY AttemptStep, <1>1, <1>3 DEF FencingToken, TypeOK, Live
<1> QED
  BY <1>2, <1>3 DEF FencingToken

\* (job, attempt) identifies an execution for every number of jobs, processes and slots and
\* under every fault, overruns and races included: what a fenced succeed() or fail() could
\* safely be scoped by.
THEOREM Fencing == Spec => []FencingToken
<1>1. Init => FencingToken
  BY DEF Init, FencingToken, Live
<1> QED
  BY <1>1, FencingStep, TypeCorrect, PTL DEF Spec

-----------------------------------------------------------------------------
(* At least once. *)

\* NothingLost made inductive: a slot on its way to succeed() has seen its handler return.
LostInv ==
  /\ NothingLost
  /\ \A s \in Slots : pc[s] = "succeed" => job[s] \in completed

\* Every step of the queue keeps a success, or a sweep, backed by a returned handler.
LEMMA LostStep == TypeOK /\ LostInv /\ [Next]_vars => LostInv'
<1> SUFFICES ASSUME TypeOK, LostInv, [Next]_vars PROVE LostInv'
  OBVIOUS
<1> USE DEF TypeOK, LostInv, NothingLost, Live, rowVars, callVars, slotVars, loopVars
<1>1. ASSUME NEW j \in Jobs, EnqueueInsert(j) \/ EnqueueSelect(j) \/ Sweep(j) PROVE LostInv'
  BY <1>1 DEF EnqueueInsert, EnqueueSelect, Sweep
<1>2. ASSUME NEW w \in Workers, ReclaimScan(w) \/ ReclaimWrite(w) \/ Crash(w) PROVE LostInv'
  BY <1>2 DEF ReclaimScan, ReclaimWrite, Requeue, Crash
<1>3. ASSUME NEW s \in Slots, Claim(s) \/ FindNothing(s) \/ Heartbeat(s) PROVE LostInv'
  BY <1>3, QueueAssumption DEF Claim, Claimable, FindNothing, Heartbeat
<1>4. ASSUME NEW s \in Slots, Handler(s) \/ SucceedThrows(s) PROVE LostInv'
  BY <1>4 DEF Handler, HandlerReturns, HandlerThrows, SucceedThrows
<1>5. ASSUME NEW s \in Slots, Succeed(s) \/ SucceedLosesAck(s) PROVE LostInv'
  BY <1>5 DEF Succeed, SucceedLosesAck, MarkSucceeded, Release
<1>6. ASSUME NEW s \in Slots, Fail(s) PROVE LostInv'
  BY <1>6 DEF Fail, Retry, Release
<1>7. ASSUME Tick \/ UNCHANGED vars PROVE LostInv'
  BY <1>7 DEF Tick, vars
<1> QED
  BY <1>1, <1>2, <1>3, <1>4, <1>5, <1>6, <1>7 DEF Next, Settle

\* The queue never reports success for, and retention never deletes, a job whose handler has
\* not returned: for every constant and under every fault.
THEOREM AtLeastOnce == Spec => []NothingLost
<1>1. Init => LostInv
  BY DEF Init, LostInv, NothingLost
<1>2. LostInv => NothingLost
  BY DEF LostInv
<1> QED
  BY <1>1, <1>2, LostStep, TypeCorrect, PTL DEF Spec

-----------------------------------------------------------------------------
(* Mutual exclusion of executions. *)

\* A row exists only once the call that inserts it has returned.
Inserted == \A j \in Jobs : state[j] # "absent" => call[j] = "returned"

\* Only the insert of enqueue() makes a row, and it returns at once.
LEMMA InsertedStep == TypeOK /\ Inserted /\ [Next]_vars => Inserted'
<1> SUFFICES ASSUME TypeOK, Inserted, [Next]_vars PROVE Inserted'
  OBVIOUS
<1> USE DEF TypeOK, Inserted, Live, rowVars, callVars, slotVars, loopVars
<1>1. ASSUME NEW j \in Jobs, EnqueueInsert(j) \/ EnqueueSelect(j) \/ Sweep(j) PROVE Inserted'
  BY <1>1 DEF EnqueueInsert, EnqueueSelect, Sweep
<1>2. ASSUME NEW w \in Workers, ReclaimScan(w) \/ ReclaimWrite(w) \/ Crash(w) PROVE Inserted'
  BY <1>2 DEF ReclaimScan, ReclaimWrite, Requeue, Reclaimed, Present, Crash
<1>3. ASSUME NEW s \in Slots, Claim(s) \/ FindNothing(s) \/ Heartbeat(s) PROVE Inserted'
  BY <1>3, QueueAssumption DEF Claim, Claimable, FindNothing, Heartbeat
<1>4. ASSUME NEW s \in Slots, Handler(s) \/ SucceedThrows(s) PROVE Inserted'
  BY <1>4 DEF Handler, HandlerReturns, HandlerThrows, SucceedThrows
<1>5. ASSUME NEW s \in Slots, Succeed(s) \/ SucceedLosesAck(s) PROVE Inserted'
  BY <1>5 DEF Succeed, SucceedLosesAck, MarkSucceeded, Release, Present
<1>6. ASSUME NEW s \in Slots, Fail(s) PROVE Inserted'
  BY <1>6 DEF Fail, Retry, Release, Present
<1>7. ASSUME Tick \/ UNCHANGED vars PROVE Inserted'
  BY <1>7 DEF Tick, vars
<1> QED
  BY <1>1, <1>2, <1>3, <1>4, <1>5, <1>6, <1>7 DEF Next, Settle

\* With one process: no live slot while it reclaims, and no live job back in the queue.
SoloInv ==
  /\ Inserted
  /\ \A w \in Workers : loop[w] = "reclaiming" => \A s \in SlotsOf(w) : pc[s] = "idle"
  /\ \A s \in Live : state[job[s]] \notin {"absent", "queued"}
  /\ AtMostOneExecution

\* claim() takes a queued job.
LEMMA ClaimTakes ==
  ASSUME NEW s \in Slots, Claim(s)
  PROVE  \E j \in Jobs : /\ state[j] = "queued"
                         /\ state' = [state EXCEPT ![j] = "running"]
                         /\ job' = [job EXCEPT ![s] = j]
                         /\ pc' = [pc EXCEPT ![s] = "run"]
<1>1. PICK j \in Claimable(Owner[s]) : state' = [state EXCEPT ![j] = "running"] /\ job' = [job EXCEPT ![s] = j]
  BY DEF Claim
<1>2. j \in Jobs /\ state[j] = "queued"
  BY QueueAssumption DEF Claimable
<1> QED
  BY <1>1, <1>2 DEF Claim

\* With one process every step keeps executions apart.
LEMMA SoloStep ==
  ASSUME \A v, w \in Workers : v = w, TypeOK, SoloInv, [Next]_vars
  PROVE  SoloInv'
<1>0. Inserted'
  BY InsertedStep DEF SoloInv
<1>t. TypeOK'
  BY TypeStep
<1> USE DEF TypeOK, SoloInv, Inserted, AtMostOneExecution, Live, SlotsOf, rowVars, callVars,
            slotVars, loopVars
<1>1. ASSUME NEW j \in Jobs, EnqueueInsert(j) \/ EnqueueSelect(j) \/ Sweep(j) PROVE SoloInv'
  BY <1>0, <1>1 DEF EnqueueInsert, EnqueueSelect, Sweep
<1>2. ASSUME NEW w \in Workers, ReclaimScan(w) PROVE SoloInv'
  BY <1>0, <1>2, QueueAssumption DEF ReclaimScan
<1>3. ASSUME NEW w \in Workers, ReclaimWrite(w) PROVE SoloInv'
  <2>1. \A s \in Slots : pc[s] = "idle" /\ pc'[s] = "poll"
    BY <1>3, QueueAssumption DEF ReclaimWrite, Requeue
  <2> QED
    BY <1>0, <1>3, <2>1 DEF ReclaimWrite, Requeue
<1>4. ASSUME NEW w \in Workers, Crash(w) PROVE SoloInv'
  BY <1>0, <1>4, QueueAssumption DEF Crash
<1>5. ASSUME NEW s \in Slots, Claim(s) PROVE SoloInv'
  <2>1. PICK j \in Jobs : /\ state[j] = "queued"
                          /\ state' = [state EXCEPT ![j] = "running"]
                          /\ job' = [job EXCEPT ![s] = j]
                          /\ pc' = [pc EXCEPT ![s] = "run"]
    BY <1>5, ClaimTakes
  <2>2. loop' = loop /\ pc[s] = "poll"
    BY <1>5 DEF Claim
  <2> QED
    BY <1>0, <2>1, <2>2
<1>6. ASSUME NEW s \in Slots, FindNothing(s) \/ Heartbeat(s) \/ Handler(s) \/ SucceedThrows(s)
      PROVE SoloInv'
  BY <1>0, <1>6 DEF FindNothing, Heartbeat, Handler, HandlerReturns, HandlerThrows, SucceedThrows
<1>7. ASSUME NEW s \in Slots, Succeed(s) \/ SucceedLosesAck(s) PROVE SoloInv'
  BY <1>0, <1>7 DEF Succeed, SucceedLosesAck, MarkSucceeded, Release
<1>8. ASSUME NEW s \in Slots, Fail(s) PROVE SoloInv'
  BY <1>0, <1>8 DEF Fail, Retry, Release
<1>9. ASSUME Tick \/ UNCHANGED vars PROVE SoloInv'
  BY <1>0, <1>9 DEF Tick, vars
<1> QED
  BY <1>1, <1>2, <1>3, <1>4, <1>5, <1>6, <1>7, <1>8, <1>9 DEF Next, Settle

\* One worker process never runs a job twice at once, with any number of slots and under every
\* fault, overruns included: work() reclaims only when all its slots have come back.
THEOREM SingleProcessExclusion ==
  ASSUME \A v, w \in Workers : v = w
  PROVE  Spec => []AtMostOneExecution
<1>1. Init => SoloInv
  BY DEF Init, SoloInv, Inserted, AtMostOneExecution, Live
<1>2. SoloInv => AtMostOneExecution
  BY DEF SoloInv
<1>3. TypeOK /\ SoloInv /\ [Next]_vars => SoloInv'
  BY SoloStep
<1> QED
  BY <1>1, <1>2, <1>3, TypeCorrect, PTL DEF Spec

-----------------------------------------------------------------------------
(* Crashes only: what the lease guarantees to any number of processes. *)

LeaseInv == Inserted /\ FencingToken /\ LeaseProtects

\* Two executions of one job would share its row's attempt number, which is a token.
LEMMA LeaseExcludes == TypeOK /\ LeaseInv => AtMostOneExecution
BY DEF TypeOK, LeaseInv, FencingToken, LeaseProtects, Holds, AtMostOneExecution

\* When crashes are the only fault, every step leaves the lease of a live execution in place.
LEMMA LeaseStep ==
  ASSUME Faults \subseteq {"crash"}, TypeOK, LeaseInv, [Next]_vars
  PROVE  LeaseInv'
<1>0. Inserted' /\ FencingToken'
  BY InsertedStep, FencingStep DEF LeaseInv
<1>x. AtMostOneExecution
  BY LeaseExcludes
<1>t. TypeOK'
  BY TypeStep
<1> SUFFICES LeaseProtects'
  BY <1>0 DEF LeaseInv
<1> USE DEF TypeOK, LeaseInv, Inserted, LeaseProtects, Holds, Live, rowVars, callVars, slotVars,
            loopVars
<1>1. ASSUME NEW j \in Jobs, EnqueueInsert(j) \/ EnqueueSelect(j) \/ Sweep(j) PROVE LeaseProtects'
  BY <1>1 DEF EnqueueInsert, EnqueueSelect, Sweep
<1>2. ASSUME NEW w \in Workers, ReclaimScan(w) \/ Crash(w) PROVE LeaseProtects'
  BY <1>2 DEF ReclaimScan, Crash
<1>3. ASSUME NEW w \in Workers, ReclaimWrite(w) PROVE LeaseProtects'
  <2>1. \A s \in Live : job[s] \notin Reclaimed(w)
    BY DEF Reclaimed, Expired, Lapsed
  <2>2. Live' \subseteq Live
    BY <1>3 DEF ReclaimWrite, Requeue
  <2> QED
    BY <1>3, <2>1, <2>2 DEF ReclaimWrite, Requeue
<1>4. ASSUME NEW s \in Slots, Claim(s) PROVE LeaseProtects'
  <2>1. \A j \in Claimable(Owner[s]) : j \in Jobs /\ state[j] = "queued"
    BY QueueAssumption DEF Claimable
  <2>2. PICK j \in Claimable(Owner[s]) :
          /\ state' = [state EXCEPT ![j] = "running"]
          /\ lockedBy' = [lockedBy EXCEPT ![j] = Owner[s]]
          /\ leaseIn' = [leaseIn EXCEPT ![j] = Lease]
          /\ attempt' = [attempt EXCEPT ![j] = @ + 1]
          /\ job' = [job EXCEPT ![s] = j]
          /\ token' = [token EXCEPT ![s] = attempt[j] + 1]
    BY <1>4 DEF Claim
  <2>3. pc' = [pc EXCEPT ![s] = "run"]
    BY <1>4 DEF Claim
  <2> QED
    BY <2>1, <2>2, <2>3, QueueAssumption
<1>5. ASSUME NEW s \in Slots, FindNothing(s) \/ Handler(s) \/ SucceedThrows(s)
      PROVE LeaseProtects'
  BY <1>5 DEF FindNothing, Handler, HandlerReturns, HandlerThrows, SucceedThrows
<1>6. ASSUME NEW s \in Slots, Heartbeat(s) PROVE LeaseProtects'
  BY <1>6, QueueAssumption DEF Heartbeat
<1>7. ASSUME NEW s \in Slots, Succeed(s) \/ Fail(s) PROVE LeaseProtects'
  <2>1. /\ \A j \in Jobs \ {job[s]} : /\ state'[j] = state[j]
                                      /\ lockedBy'[j] = lockedBy[j]
                                      /\ leaseIn'[j] = leaseIn[j]
        /\ s \in Live /\ Live' = Live \ {s}
        /\ attempt' = attempt /\ job' = job /\ token' = token
    BY <1>7 DEF Succeed, MarkSucceeded, Fail, Retry, Release
  <2> QED
    BY <1>x, <2>1 DEF AtMostOneExecution
<1>8. ASSUME NEW s \in Slots PROVE ~SucceedLosesAck(s)
  BY DEF SucceedLosesAck, Fault
<1>9. ASSUME Tick PROVE LeaseProtects'
  <2>1. Overrunning = {}
    BY <1>9 DEF Tick, Fault
  <2>2. \A s \in Live : leaseIn[job[s]] > 0
    BY <2>1 DEF Overrunning
  <2> QED
    BY <1>9, <2>2, QueueAssumption DEF Tick, Down, Lapsed, NoLease
<1>10. ASSUME UNCHANGED vars PROVE LeaseProtects'
  BY <1>10 DEF vars
<1> QED
  BY <1>1, <1>2, <1>3, <1>4, <1>5, <1>6, <1>7, <1>8, <1>9, <1>10 DEF Next, Settle

\* When crashes are the only fault, LeaseInv holds in every reachable state.
LEMMA LeaseInvariant ==
  ASSUME Faults \subseteq {"crash"}
  PROVE  Spec => []LeaseInv
<1>1. Init => LeaseInv
  BY DEF Init, LeaseInv, Inserted, FencingToken, LeaseProtects, Live
<1>2. TypeOK /\ LeaseInv /\ [Next]_vars => LeaseInv'
  BY LeaseStep
<1> QED
  BY <1>1, <1>2, TypeCorrect, PTL DEF Spec

\* When handlers keep within their leases, statements are atomic and answers arrive, any number
\* of processes that crash at any point share the queue safely: an execution keeps its lease.
THEOREM CrashSafety ==
  ASSUME Faults \subseteq {"crash"}
  PROVE  Spec => []LeaseProtects
<1>1. LeaseInv => LeaseProtects
  BY DEF LeaseInv
<1> QED
  BY <1>1, LeaseInvariant, PTL

\* Under the same conditions no job is ever executed twice at once.
THEOREM CrashExclusion ==
  ASSUME Faults \subseteq {"crash"}
  PROVE  Spec => []AtMostOneExecution
BY LeaseExcludes, LeaseInvariant, TypeCorrect, PTL

\* Under the same conditions a settled job stays settled: no late succeed() or fail() reopens it.
THEOREM CrashTerminal ==
  ASSUME Faults \subseteq {"crash"}
  PROVE  Spec => TerminalIsFinal
<1>1. TypeOK /\ LeaseInv /\ [Next]_vars =>
        [\A j \in Jobs : state[j] \in Terminal =>
           /\ attempt'[j] = attempt[j]
           /\ \/ state'[j] = state[j]
              \/ state[j] = "succeeded" /\ state'[j] = "swept"]_vars
  <2> SUFFICES ASSUME TypeOK, LeaseInv, Next, NEW j \in Jobs, state[j] \in Terminal
               PROVE  /\ attempt'[j] = attempt[j]
                      /\ \/ state'[j] = state[j]
                         \/ state[j] = "succeeded" /\ state'[j] = "swept"
    OBVIOUS
  <2> DEFINE Stays == /\ attempt'[j] = attempt[j]
                      /\ \/ state'[j] = state[j]
                         \/ state[j] = "succeeded" /\ state'[j] = "swept"
  <2> USE DEF TypeOK, LeaseInv, Inserted, Live, Terminal, rowVars, callVars, slotVars, loopVars
  <2>1. ASSUME NEW k \in Jobs, EnqueueInsert(k) \/ EnqueueSelect(k) \/ Sweep(k) PROVE Stays
    BY <2>1 DEF EnqueueInsert, EnqueueSelect, Sweep
  <2>2. ASSUME NEW w \in Workers, ReclaimScan(w) \/ ReclaimWrite(w) \/ Crash(w) PROVE Stays
    BY <2>2 DEF ReclaimScan, ReclaimWrite, Requeue, Reclaimed, Expired, Crash
  <2>3. ASSUME NEW s \in Slots, Claim(s) PROVE Stays
    BY <2>3, QueueAssumption DEF Claim, Claimable
  <2>4. ASSUME NEW s \in Slots, FindNothing(s) \/ Heartbeat(s) \/ Handler(s) \/ SucceedThrows(s)
        PROVE Stays
    BY <2>4 DEF FindNothing, Heartbeat, Handler, HandlerReturns, HandlerThrows, SucceedThrows
  <2>5. ASSUME NEW s \in Slots, Succeed(s) \/ SucceedLosesAck(s) \/ Fail(s) PROVE Stays
    <3>1. s \in Live /\ job[s] # j
      BY <2>5 DEF Succeed, SucceedLosesAck, Fail, LeaseProtects, Holds
    <3> QED
      BY <2>5, <3>1 DEF Succeed, SucceedLosesAck, MarkSucceeded, Fail, Retry, Release
  <2>6. ASSUME Tick PROVE Stays
    BY <2>6 DEF Tick
  <2> QED
    BY <2>1, <2>2, <2>3, <2>4, <2>5, <2>6 DEF Next, Settle
<1> QED
  BY <1>1, LeaseInvariant, TypeCorrect, PTL DEF Spec, TerminalIsFinal

-----------------------------------------------------------------------------
(* The abstract job. *)

\* When crashes are the only fault every step of the queue is a step of JobLife or leaves the
\* abstract job alone: one step per action.
LEMMA LifeStep ==
  ASSUME Faults \subseteq {"crash"}, TypeOK, LeaseInv, Next
  PROVE  Life!LifeNext \/ UNCHANGED Life!lifeVars
<1> DEFINE E == [j \in Jobs |-> ExecutionsOf(j)]
<1>x. AtMostOneExecution
  BY LeaseExcludes
<1>0. ASSUME state' = state, attempt' = attempt, E' = E PROVE UNCHANGED Life!lifeVars
  BY <1>0 DEF Life!lifeVars
<1>e. ASSUME job' = job, Live' = Live PROVE E' = E
  BY <1>e DEF ExecutionsOf
<1> USE DEF TypeOK, rowVars, callVars, slotVars, loopVars
<1>1. ASSUME NEW j \in Jobs, EnqueueInsert(j) PROVE Life!LifeNext \/ UNCHANGED Life!lifeVars
  <2>1. job' = job /\ Live' = Live /\ attempt' = attempt
    BY <1>1 DEF EnqueueInsert, Live
  <2>2. E' = E
    BY <1>e, <2>1
  <2>3. CASE SameKey(j) = {}
    <3>1. state[j] = "absent" /\ state' = [state EXCEPT ![j] = "queued"]
      BY <1>1, <2>3 DEF EnqueueInsert, LeaseInv, Inserted
    <3>2. Life!Submit(j)
      BY <2>1, <2>2, <3>1 DEF Life!Submit
    <3> QED
      BY <3>2 DEF Life!LifeNext
  <2>4. CASE SameKey(j) # {}
    BY <1>0, <1>1, <2>1, <2>2, <2>4 DEF EnqueueInsert
  <2> QED
    BY <2>3, <2>4
<1>2. ASSUME NEW j \in Jobs, Sweep(j) PROVE Life!LifeNext
  <2>1. job' = job /\ Live' = Live
    BY <1>2 DEF Sweep, Live
  <2>2. Life!Forget(j)
    BY <1>2, <1>e, <2>1 DEF Sweep, Life!Forget
  <2> QED
    BY <2>2 DEF Life!LifeNext
<1>3. ASSUME NEW w \in Workers, ReclaimWrite(w) PROVE Life!LifeNext
  <2>1. \A s \in Live : job[s] \notin Reclaimed(w)
    BY DEF Reclaimed, Expired, Lapsed, LeaseInv, LeaseProtects
  <2>2. job' = job /\ Live' = Live /\ attempt' = attempt
    BY <1>3 DEF ReclaimWrite, Requeue, Live
  <2>3. Reclaimed(w) \in SUBSET Jobs /\ \A j \in Reclaimed(w) : state[j] = "running"
    BY DEF Reclaimed, Expired
  <2>4. \A j \in Reclaimed(w) : E[j] = {}
    BY <2>1, <2>3 DEF ExecutionsOf
  <2>5. state' = [j \in Jobs |-> IF j \in Reclaimed(w) THEN "queued" ELSE state[j]]
    BY <1>3 DEF ReclaimWrite, Requeue
  <2>6. Life!Recover(Reclaimed(w))
    BY <1>e, <2>2, <2>3, <2>4, <2>5 DEF Life!Recover
  <2> QED
    BY <2>3, <2>6 DEF Life!LifeNext
<1>4. ASSUME NEW w \in Workers, Crash(w) PROVE Life!LifeNext
  <2>1. Live' = Live \ SlotsOf(w)
    BY <1>4 DEF Crash, Live, SlotsOf
  <2>2. E' = [j \in Jobs |-> E[j] \ SlotsOf(w)]
    BY <1>4, <2>1 DEF Crash, ExecutionsOf
  <2>3. Life!Die(SlotsOf(w))
    BY <1>4, <2>2 DEF Crash, Life!Die
  <2>4. SlotsOf(w) \in SUBSET Slots
    BY DEF SlotsOf
  <2> QED
    BY <2>3, <2>4 DEF Life!LifeNext
<1>5. ASSUME NEW s \in Slots, Claim(s) PROVE Life!LifeNext
  <2>1. \A j \in Claimable(Owner[s]) : j \in Jobs /\ state[j] = "queued"
    BY QueueAssumption DEF Claimable
  <2>2. PICK j \in Claimable(Owner[s]) :
          /\ state' = [state EXCEPT ![j] = "running"]
          /\ attempt' = [attempt EXCEPT ![j] = @ + 1]
          /\ job' = [job EXCEPT ![s] = j]
    BY <1>5 DEF Claim
  <2>3. s \notin Live /\ Live' = Live \cup {s}
    BY <1>5 DEF Claim, Live
  <2>4. j \in Jobs /\ state[j] = "queued"
    BY <2>1
  <2>5. \A t \in Live : job[t] # j
    BY <2>4 DEF LeaseInv, LeaseProtects, Holds
  <2>6. E[j] = {} /\ \A k \in Jobs : s \notin E[k]
    BY <2>3, <2>4, <2>5 DEF ExecutionsOf
  <2>7. E' = [E EXCEPT ![j] = {s}]
    <3>1. \A k \in Jobs : E'[k] = IF k = j THEN {s} ELSE E[k]
      BY <2>2, <2>3, <2>5 DEF ExecutionsOf, Live
    <3> QED
      BY <3>1, <2>4
  <2>8. Life!Start(j, s)
    BY <2>2, <2>4, <2>6, <2>7 DEF Life!Start
  <2> QED
    BY <2>4, <2>8 DEF Life!LifeNext
<1>6. ASSUME NEW s \in Slots, Succeed(s) \/ Fail(s) PROVE Life!LifeNext
  <2>1. s \in Live /\ Live' = Live \ {s} /\ job' = job /\ attempt' = attempt
    BY <1>6 DEF Succeed, Fail, Live
  <2>2. job[s] \in Jobs /\ state[job[s]] = "running" /\ attempt[job[s]] = token[s]
    BY <2>1 DEF LeaseInv, LeaseProtects, Holds
  <2>3. E[job[s]] = {s}
    BY <1>x, <2>1, <2>2 DEF ExecutionsOf, AtMostOneExecution
  <2>4. E' = [E EXCEPT ![job[s]] = {}]
    <3>1. \A k \in Jobs : E'[k] = IF k = job[s] THEN {} ELSE E[k]
      BY <1>x, <2>1, <2>2 DEF ExecutionsOf, AtMostOneExecution
    <3> QED
      BY <3>1, <2>2
  <2>5. \/ state' = [state EXCEPT ![job[s]] = "succeeded"]
        \/ attempt[job[s]] >= MaxAttempts[job[s]] /\ state' = [state EXCEPT ![job[s]] = "dead_lettered"]
        \/ attempt[job[s]] < MaxAttempts[job[s]] /\ state' = [state EXCEPT ![job[s]] = "queued"]
    <3>1. CASE Succeed(s)
      BY <2>2, <3>1 DEF Succeed, MarkSucceeded, Release, Present
    <3>2. CASE Fail(s)
      BY <2>2, <3>2, QueueAssumption DEF Fail, Exhausted, Retry, Release, Present
    <3> QED
      BY <1>6, <3>1, <3>2
  <2>6. Life!Settle(job[s], s)
    BY <2>1, <2>2, <2>3, <2>4, <2>5 DEF Life!Settle
  <2> QED
    BY <2>2, <2>6 DEF Life!LifeNext
<1>7. ASSUME NEW s \in Slots PROVE ~SucceedLosesAck(s)
  BY DEF SucceedLosesAck, Fault
<1>8. ASSUME \/ \E j \in Jobs : EnqueueSelect(j)
             \/ \E w \in Workers : ReclaimScan(w)
             \/ \E s \in Slots : FindNothing(s) \/ Heartbeat(s) \/ Handler(s) \/ SucceedThrows(s)
             \/ Tick
      PROVE  UNCHANGED Life!lifeVars
  <2>1. job' = job /\ Live' = Live /\ attempt' = attempt /\ state' = state
    BY <1>8 DEF EnqueueSelect, ReclaimScan, FindNothing, Heartbeat, Handler, HandlerReturns,
                HandlerThrows, SucceedThrows, Tick, Live
  <2> QED
    BY <1>0, <1>e, <2>1
<1> QED
  BY <1>1, <1>2, <1>3, <1>4, <1>5, <1>6, <1>7, <1>8 DEF Next, Settle

\* The rows, leases and statements of the queue implement the abstract job for every number of
\* jobs, processes and slots when processes only crash.
THEOREM QueueImplementsLife ==
  ASSUME Faults \subseteq {"crash"}
  PROVE  Spec => ImplementsLife
<1>1. Init => Life!LifeInit
  BY DEF Init, Life!LifeInit, ExecutionsOf, Live
<1>2. TypeOK /\ LeaseInv /\ [Next]_vars => [Life!LifeNext]_(Life!lifeVars)
  <2>1. UNCHANGED vars => UNCHANGED Life!lifeVars
    BY DEF vars, rowVars, slotVars, Life!lifeVars, ExecutionsOf, Live
  <2> QED
    BY <2>1, LifeStep
<1> QED
  BY <1>1, <1>2, LeaseInvariant, TypeCorrect, PTL DEF Spec, ImplementsLife, Life!LifeSpec

-----------------------------------------------------------------------------
(* The attempts a job costs, and the job a key names. *)

\* An execution of job j is under way.
Attended(j) == \E s \in Live : job[s] = j

\* AttemptCeiling made inductive: an attempt is paid for when its job is neither settled nor
\* attended, by the retry that is left or by the crash that lost the execution.
CeilingInv ==
  \A j \in Jobs :
    /\ attempt[j] <= MaxAttempts[j] + faults
    /\ \/ state[j] \in {"absent", "queued"}
       \/ state[j] = "running" /\ ~Attended(j)
       => attempt[j] < MaxAttempts[j] + faults

\* When crashes are the only fault, every step keeps the attempts paid for.
LEMMA CeilingStep ==
  ASSUME Faults \subseteq {"crash"}, TypeOK, LeaseInv, CeilingInv, [Next]_vars
  PROVE  CeilingInv'
<1>t. TypeOK'
  BY TypeStep
<1>x. AtMostOneExecution
  BY LeaseExcludes
<1> USE QueueAssumption DEF TypeOK, CeilingInv, Attended, Live, rowVars, callVars, slotVars, loopVars
<1>1. ASSUME NEW j \in Jobs, EnqueueInsert(j) PROVE CeilingInv'
  BY <1>1 DEF EnqueueInsert, LeaseInv, Inserted
<1>2. ASSUME NEW j \in Jobs, EnqueueSelect(j) \/ Sweep(j) PROVE CeilingInv'
  BY <1>2 DEF EnqueueSelect, Sweep
<1>3. ASSUME NEW w \in Workers, ReclaimScan(w) PROVE CeilingInv'
  BY <1>3 DEF ReclaimScan
<1>4. ASSUME NEW w \in Workers, ReclaimWrite(w) PROVE CeilingInv'
  <2>1. \A j \in Reclaimed(w) : state[j] = "running" /\ ~Attended(j)
    BY DEF Reclaimed, Expired, Lapsed, LeaseInv, LeaseProtects
  <2>2. attempt' = attempt /\ faults' = faults /\ job' = job /\ Live' = Live
    BY <1>4 DEF ReclaimWrite, Requeue
  <2>3. state' = [j \in Jobs |-> IF j \in Reclaimed(w) THEN "queued" ELSE state[j]]
    BY <1>4 DEF ReclaimWrite, Requeue
  <2> QED
    BY <2>1, <2>2, <2>3
<1>5. ASSUME NEW w \in Workers, Crash(w) PROVE CeilingInv'
  <2>1. attempt' = attempt /\ faults' = faults + 1
    BY <1>5 DEF Crash, Fault
  <2> QED
    BY <2>1
<1>6. ASSUME NEW s \in Slots, Claim(s) PROVE CeilingInv'
  <2>1. \A j \in Claimable(Owner[s]) : j \in Jobs /\ state[j] = "queued"
    BY DEF Claimable
  <2>2. PICK j \in Claimable(Owner[s]) :
          /\ state' = [state EXCEPT ![j] = "running"]
          /\ attempt' = [attempt EXCEPT ![j] = @ + 1]
          /\ job' = [job EXCEPT ![s] = j]
    BY <1>6 DEF Claim
  <2>3. faults' = faults /\ s \notin Live /\ Live' = Live \cup {s}
    BY <1>6 DEF Claim
  <2>4. j \in Jobs /\ state[j] = "queued"
    BY <2>1
  <2>5. Attended(j)'
    BY <2>2, <2>3
  <2>6. \A k \in Jobs \ {j} : Attended(k) => Attended(k)'
    BY <2>2, <2>3
  <2>7. attempt'[j] = attempt[j] + 1 /\ \A k \in Jobs \ {j} : attempt'[k] = attempt[k]
    BY <2>2, <2>4
  <2>8. state'[j] = "running" /\ \A k \in Jobs \ {j} : state'[k] = state[k]
    BY <2>2, <2>4
  <2>9. ASSUME NEW k \in Jobs
        PROVE  /\ attempt'[k] <= MaxAttempts[k] + faults'
               /\ \/ state'[k] \in {"absent", "queued"}
                  \/ state'[k] = "running" /\ ~Attended(k)'
                  => attempt'[k] < MaxAttempts[k] + faults'
    <3>1. CASE k = j
      BY <2>3, <2>4, <2>5, <2>7, <2>8, <3>1
    <3>2. CASE k # j
      BY <2>3, <2>6, <2>7, <2>8, <3>2
    <3> QED
      BY <3>1, <3>2
  <2> QED
    BY <2>9
<1>7. ASSUME NEW s \in Slots, FindNothing(s) \/ Heartbeat(s) \/ Handler(s) \/ SucceedThrows(s)
      PROVE CeilingInv'
  BY <1>7 DEF FindNothing, Heartbeat, Handler, HandlerReturns, HandlerThrows, SucceedThrows
<1>8. ASSUME NEW s \in Slots, Succeed(s) \/ Fail(s) PROVE CeilingInv'
  <2>1. s \in Live /\ Live' = Live \ {s} /\ job' = job /\ attempt' = attempt /\ faults' = faults
    BY <1>8 DEF Succeed, Fail
  <2>2. job[s] \in Jobs /\ state[job[s]] = "running" /\ attempt[job[s]] = token[s]
    BY <2>1 DEF LeaseInv, LeaseProtects, Holds
  <2>3. \/ state'[job[s]] \in {"succeeded", "dead_lettered"}
        \/ state'[job[s]] = "queued" /\ attempt[job[s]] < MaxAttempts[job[s]]
    <3>1. CASE Succeed(s)
      BY <2>2, <3>1 DEF Succeed, MarkSucceeded, Release, Present
    <3>2. CASE Fail(s)
      BY <2>2, <3>2 DEF Fail, Exhausted, Retry, Release, Present
    <3> QED
      BY <1>8, <3>1, <3>2
  <2>4. \A j \in Jobs \ {job[s]} : state'[j] = state[j]
    BY <1>8 DEF Succeed, MarkSucceeded, Fail, Retry, Release
  <2>5. \A j \in Jobs \ {job[s]} : Attended(j) => Attended(j)'
    BY <2>1
  <2>6. ASSUME NEW k \in Jobs
        PROVE  /\ attempt'[k] <= MaxAttempts[k] + faults'
               /\ \/ state'[k] \in {"absent", "queued"}
                  \/ state'[k] = "running" /\ ~Attended(k)'
                  => attempt'[k] < MaxAttempts[k] + faults'
    <3>1. CASE k = job[s]
      BY <2>1, <2>2, <2>3, <3>1
    <3>2. CASE k # job[s]
      BY <2>1, <2>4, <2>5, <3>2
    <3> QED
      BY <3>1, <3>2
  <2> QED
    BY <2>6
<1>9. ASSUME NEW s \in Slots PROVE ~SucceedLosesAck(s)
  BY DEF SucceedLosesAck, Fault
<1>10. ASSUME Tick PROVE CeilingInv'
  <2>1. faults' = faults
    BY <1>10 DEF Tick, Fault
  <2> QED
    BY <1>10, <2>1 DEF Tick
<1>11. ASSUME UNCHANGED vars PROVE CeilingInv'
  BY <1>11 DEF vars
<1> QED
  BY <1>1, <1>2, <1>3, <1>4, <1>5, <1>6, <1>7, <1>8, <1>9, <1>10, <1>11 DEF Next, Settle

\* When processes only crash, a crash costs a job at most one attempt beyond max_attempts.
THEOREM CrashCeiling ==
  ASSUME Faults \subseteq {"crash"}
  PROVE  Spec => []AttemptCeiling
<1>1. Init => CeilingInv
  BY QueueAssumption DEF Init, CeilingInv
<1>2. CeilingInv => AttemptCeiling
  BY DEF CeilingInv, AttemptCeiling
<1>3. TypeOK /\ LeaseInv /\ CeilingInv /\ [Next]_vars => CeilingInv'
  BY CeilingStep
<1> QED
  BY <1>1, <1>2, <1>3, LeaseInvariant, TypeCorrect, PTL DEF Spec

\* EnqueueAgreement made inductive: one row in the table per key, and a call that returned
\* named a row of its own key that was inserted.
KeyInv ==
  /\ Inserted
  /\ \A j, k \in Jobs : /\ state[j] \in Present /\ state[k] \in Present
                        /\ Key[j] = Key[k] /\ Key[j] # NoKey
                        => j = k
  /\ \A j \in Jobs : call[j] = "returned" =>
       /\ got[j] \in Jobs
       /\ Key[got[j]] = Key[j]
       /\ state[got[j]] # "absent"

\* No step but the insert brings a row into the table, and none takes one back to absent.
LEMMA RowsStay ==
  ASSUME TypeOK, [Next]_vars, NEW j \in Jobs
  PROVE  /\ state[j] # "absent" => state'[j] # "absent"
         /\ state'[j] \in Present => state[j] \in Present \/ EnqueueInsert(j)
<1> USE DEF TypeOK, Live, Present, RowStates, rowVars, callVars, slotVars, loopVars
<1> DEFINE Goal == /\ state[j] # "absent" => state'[j] # "absent"
                   /\ state'[j] \in Present => state[j] \in Present \/ EnqueueInsert(j)
<1>1. ASSUME NEW k \in Jobs, EnqueueInsert(k) PROVE Goal
  <2>1. CASE k = j
    BY <1>1, <2>1 DEF EnqueueInsert
  <2>2. CASE k # j
    BY <1>1, <2>2 DEF EnqueueInsert
  <2> QED
    BY <2>1, <2>2
<1>2. ASSUME NEW k \in Jobs, EnqueueSelect(k) \/ Sweep(k) PROVE Goal
  BY <1>2 DEF EnqueueSelect, Sweep
<1>3. ASSUME NEW w \in Workers, ReclaimScan(w) \/ ReclaimWrite(w) \/ Crash(w) PROVE Goal
  BY <1>3 DEF ReclaimScan, ReclaimWrite, Requeue, Reclaimed, Crash
<1>4. ASSUME NEW s \in Slots, Claim(s) \/ FindNothing(s) \/ Heartbeat(s) PROVE Goal
  BY <1>4, QueueAssumption DEF Claim, Claimable, FindNothing, Heartbeat
<1>5. ASSUME NEW s \in Slots, Handler(s) \/ SucceedThrows(s) PROVE Goal
  BY <1>5 DEF Handler, HandlerReturns, HandlerThrows, SucceedThrows
<1>6. ASSUME NEW s \in Slots, Succeed(s) \/ SucceedLosesAck(s) PROVE Goal
  BY <1>6 DEF Succeed, SucceedLosesAck, MarkSucceeded, Release
<1>7. ASSUME NEW s \in Slots, Fail(s) PROVE Goal
  BY <1>7 DEF Fail, Retry, Release
<1>8. ASSUME Tick \/ UNCHANGED vars PROVE Goal
  BY <1>8 DEF Tick, vars
<1> QED
  BY <1>1, <1>2, <1>3, <1>4, <1>5, <1>6, <1>7, <1>8 DEF Next, Settle

\* Every step keeps one row per key and every answer a row of its key.
LEMMA KeyStep == TypeOK /\ KeyInv /\ [Next]_vars => KeyInv'
<1> SUFFICES ASSUME TypeOK, KeyInv, [Next]_vars PROVE KeyInv'
  OBVIOUS
<1>t. TypeOK'
  BY TypeStep
<1>i. Inserted'
  BY InsertedStep DEF KeyInv
<1>r. \A j \in Jobs : /\ state[j] # "absent" => state'[j] # "absent"
                     /\ state'[j] \in Present => state[j] \in Present \/ EnqueueInsert(j)
  BY RowsStay
<1> USE DEF TypeOK, rowVars, callVars, slotVars, loopVars
<1>1. ASSUME NEW j \in Jobs, EnqueueInsert(j) PROVE KeyInv'
  <2>1. CASE SameKey(j) = {}
    <3>1. /\ state' = [state EXCEPT ![j] = "queued"]
          /\ call' = [call EXCEPT ![j] = "returned"]
          /\ got' = [got EXCEPT ![j] = j]
      BY <1>1, <2>1 DEF EnqueueInsert
    <3>2. \A k \in Jobs : Key[j] # NoKey /\ Key[k] = Key[j] => state[k] \notin Present
      BY <2>1 DEF SameKey
    <3> QED
      BY <1>i, <1>r, <3>1, <3>2 DEF KeyInv
  <2>2. CASE SameKey(j) # {}
    BY <1>i, <1>1, <2>2 DEF EnqueueInsert, KeyInv
  <2> QED
    BY <2>1, <2>2
<1>2. ASSUME NEW j \in Jobs, EnqueueSelect(j) PROVE KeyInv'
  <2>1. state' = state
    BY <1>2 DEF EnqueueSelect
  <2>2. CASE SameKey(j) = {}
    BY <1>i, <1>2, <2>1, <2>2 DEF EnqueueSelect, KeyInv
  <2>3. CASE SameKey(j) # {}
    <3>1. PICK k \in SameKey(j) : /\ call' = [call EXCEPT ![j] = "returned"]
                                 /\ got' = [got EXCEPT ![j] = k]
      BY <1>2, <2>3 DEF EnqueueSelect
    <3>2. k \in Jobs /\ Key[k] = Key[j] /\ state[k] # "absent"
      BY DEF SameKey, Present
    <3> QED
      BY <1>i, <2>1, <3>1, <3>2 DEF KeyInv
  <2> QED
    BY <2>2, <2>3
<1>3. ASSUME UNCHANGED callVars, \A j \in Jobs : ~EnqueueInsert(j) PROVE KeyInv'
  <2>1. ASSUME NEW j \in Jobs
        PROVE  /\ state[j] # "absent" => state'[j] # "absent"
               /\ state'[j] \in Present => state[j] \in Present
    <3>1. ~EnqueueInsert(j)
      BY <1>3
    <3> QED
      BY <3>1, RowsStay
  <2>2. call' = call /\ got' = got
    BY <1>3
  <2> QED
    BY <1>i, <2>1, <2>2 DEF KeyInv
<1>4. \/ \E j \in Jobs : EnqueueInsert(j) \/ EnqueueSelect(j)
      \/ UNCHANGED callVars
  BY DEF Next, Sweep, ReclaimScan, ReclaimWrite, Requeue, Crash, Claim, FindNothing, Heartbeat,
         Handler, HandlerReturns, HandlerThrows, Settle, Succeed, SucceedThrows,
         SucceedLosesAck, Fail, Tick, vars
<1> QED
  BY <1>1, <1>2, <1>3, <1>4

\* enqueue() is idempotent under every fault: calls that return with one key name one job until
\* retention has swept it.
THEOREM Idempotent == Spec => []EnqueueAgreement
<1>1. Init => KeyInv
  BY DEF Init, KeyInv, Inserted, Present
<1>2. TypeOK /\ KeyInv => EnqueueAgreement
  BY DEF TypeOK, KeyInv, EnqueueAgreement, RowStates, Present
<1> QED
  BY <1>1, <1>2, KeyStep, TypeCorrect, PTL DEF Spec

\* Without the window between the two halves of its statement, reclaimExpired never takes back a
\* job whose lease is running.
THEOREM ReclaimSafe ==
  ASSUME "window" \notin Faults
  PROVE  Spec => ReclaimSparesLiveLeases
<1>1. TypeOK /\ [Next]_vars =>
        [\A w \in Workers : ReclaimWrite(w) =>
           \A j \in Jobs : state[j] = "running" /\ state'[j] = "queued" => leaseIn[j] = Lapsed]_vars
  BY DEF TypeOK, ReclaimWrite, Requeue, Reclaimed, Expired
<1> QED
  BY <1>1, TypeCorrect, PTL DEF Spec, ReclaimSparesLiveLeases
=============================================================================
