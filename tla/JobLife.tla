------------------------------ MODULE JobLife ------------------------------
(***************************************************************************)
(* What the queue promises the callers of enqueue() and the authors of     *)
(* handlers, without rows, leases or clocks: a job is handed to one        *)
(* execution at a time, only the execution it was handed to settles it,    *)
(* and it goes back to the queue without one only when that execution is   *)
(* gone.  JobQueue implements it when worker processes only crash.         *)
(***************************************************************************)
EXTENDS Integers

CONSTANTS
  Jobs,
  Slots,        \* where executions happen
  MaxAttempts   \* [Jobs -> Nat \ {0}]

VARIABLES
  phase,        \* where each job is in its life
  execs,        \* the executions a job has, as the slots they are in
  tries         \* how often it has been handed out

lifeVars == <<phase, execs, tries>>

Submit(j) ==
  /\ phase[j] = "absent"
  /\ phase' = [phase EXCEPT ![j] = "queued"]
  /\ UNCHANGED <<execs, tries>>

\* A queued job is handed to a free slot.
Start(j, s) ==
  /\ phase[j] = "queued"
  /\ \A k \in Jobs : s \notin execs[k]
  /\ execs[j] = {}
  /\ phase' = [phase EXCEPT ![j] = "running"]
  /\ execs' = [execs EXCEPT ![j] = {s}]
  /\ tries' = [tries EXCEPT ![j] = @ + 1]

\* Its one execution ends it: done, or failed and tried again while tries are left.
Settle(j, s) ==
  /\ phase[j] = "running"
  /\ execs[j] = {s}
  /\ \/ phase' = [phase EXCEPT ![j] = "succeeded"]
     \/ tries[j] >= MaxAttempts[j] /\ phase' = [phase EXCEPT ![j] = "dead_lettered"]
     \/ tries[j] < MaxAttempts[j] /\ phase' = [phase EXCEPT ![j] = "queued"]
  /\ execs' = [execs EXCEPT ![j] = {}]
  /\ UNCHANGED tries

\* A process dies with the executions in its slots; their jobs still count as running.
Die(dead) ==
  /\ execs' = [j \in Jobs |-> execs[j] \ dead]
  /\ UNCHANGED <<phase, tries>>

\* Jobs whose execution is gone go back to the queue.
Recover(lost) ==
  /\ \A j \in lost : phase[j] = "running" /\ execs[j] = {}
  /\ phase' = [j \in Jobs |-> IF j \in lost THEN "queued" ELSE phase[j]]
  /\ UNCHANGED <<execs, tries>>

Forget(j) ==
  /\ phase[j] = "succeeded"
  /\ phase' = [phase EXCEPT ![j] = "swept"]
  /\ UNCHANGED <<execs, tries>>

LifeInit ==
  /\ phase = [j \in Jobs |-> "absent"]
  /\ execs = [j \in Jobs |-> {}]
  /\ tries = [j \in Jobs |-> 0]

LifeNext ==
  \/ \E j \in Jobs : Submit(j) \/ Forget(j)
  \/ \E j \in Jobs, s \in Slots : Start(j, s) \/ Settle(j, s)
  \/ \E dead \in SUBSET Slots : Die(dead)
  \/ \E lost \in SUBSET Jobs : Recover(lost)

LifeSpec == LifeInit /\ [][LifeNext]_lifeVars
=============================================================================
