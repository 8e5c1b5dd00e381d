------------------------------ MODULE Workflow ------------------------------
(***************************************************************************)
(* One run of a workflow: the graph that is saved and put into an order    *)
(* (lib/typescript/workflows/src/graph.ts), the run a person or a schedule *)
(* starts (workflows.ts of the API, workflow-schedule.ts) and the job that *)
(* executes its steps (workflow-run.ts), several attempts of it at once.   *)
(*                                                                         *)
(* Node ids are numbers in the order JavaScript sorts them; an edge drawn  *)
(* twice is one edge.  What a node does and what is billed are left out.   *)
(***************************************************************************)
EXTENDS Naturals, Sequences, FiniteSets

CONSTANTS
  Graphs,    \* the graphs considered, see GraphType
  Runnable,  \* those of them that are run
  MaxAttempts, \* maxAttempts of the job
  Sends,     \* requests the AWS client sends for one Invoke before it gives up: 3 unless configured
  Troubles,  \* which disturbances may happen: "crash", "throw", "early", "lease", "stop"
  MaxFaults  \* and how many

Attempts == 1 .. MaxAttempts

\* The nodes, the ones that are triggers, the ones that run in the project's own function (the
\* sandbox of NODE_RUNTIME), and the edges.
IsGraph(g) ==
  /\ g.nodes \subseteq Nat /\ IsFiniteSet(g.nodes)
  /\ g.triggers \subseteq g.nodes /\ g.isolated \subseteq g.nodes
  /\ g.edges \subseteq g.nodes \X g.nodes

ASSUME WorkflowAssumption ==
  /\ \A g \in Graphs : IsGraph(g)
  /\ Runnable \subseteq Graphs
  /\ MaxAttempts \in Nat \ {0} /\ Sends \in Nat \ {0} /\ MaxFaults \in Nat

-----------------------------------------------------------------------------
\* The graph.

\* adjacency
adjacency(g, n) == {m \in g.nodes : <<n, m>> \in g.edges}

\* reachableFrom, as the rounds of its queue: what is seen after k of them.
Widen(g, S) == S \cup UNION {adjacency(g, n) : n \in S}
Seen(g, start, k) ==
  LET seen[i \in 0 .. k] == IF i = 0 THEN start ELSE Widen(g, seen[i - 1])
  IN  seen[k]
reachableFrom(g, start) == Seen(g, {start}, Cardinality(g.nodes))

\* assertAcyclic: no node is reached from one that follows it.
assertAcyclic(g) == \A n \in g.nodes : \A m \in adjacency(g, n) : n \notin reachableFrom(g, m)

validateGraph(g) ==
  /\ g.nodes # {}
  /\ \A n \in g.nodes : <<n, n>> \notin g.edges
  /\ Cardinality(g.triggers) = 1
  /\ \A t \in g.triggers :
       /\ \A n \in g.nodes : <<n, t>> \notin g.edges
       /\ assertAcyclic(g)
       /\ g.nodes \subseteq reachableFrom(g, t)

First(S) == CHOOSE n \in S : \A m \in S : n <= m

\* Mutant of Pick: the last ready node instead of the first.
PickLast(ready) == CHOOSE n \in ready : \A m \in ready : m <= n

\* ready is kept sorted and its first element is taken.
Pick(ready) == First(ready)

indegree(g, n) == Cardinality({m \in g.nodes : <<m, n>> \in g.edges})

\* topologicalOrder: the state of Kahn's loop before it, after a turn and after k of them.
KahnStart(g) ==
  [order |-> << >>,
   left  |-> [n \in g.nodes |-> indegree(g, n)],
   ready |-> {n \in g.nodes : indegree(g, n) = 0}]
KahnTurn(g, s) ==
  IF s.ready = {} THEN s
  ELSE LET id   == Pick(s.ready)
           left == [n \in g.nodes |-> IF n \in adjacency(g, id) THEN s.left[n] - 1 ELSE s.left[n]]
       IN  [order |-> Append(s.order, id),
            left  |-> left,
            ready |-> (s.ready \ {id}) \cup {n \in adjacency(g, id) : left[n] = 0}]
Kahn(g, k) ==
  LET loop[i \in 0 .. k] == IF i = 0 THEN KahnStart(g) ELSE KahnTurn(g, loop[i - 1])
  IN  loop[k]
topologicalOrder(g) == Kahn(g, Cardinality(g.nodes)).order

-----------------------------------------------------------------------------
VARIABLES
  graph,    \* the saved graph
  source,   \* what started the run: "manual" or "cron"
  status,   \* workflow_run.status; "none" before there is a run
  order,    \* the step rows in the order of their ids
  step,     \* [nodes -> workflow_run_step.status]
  invoked,  \* [nodes -> [Attempts -> how often the attempt set off an execution of the node]]
  billed,   \* execution usage records in the outbox
  job,      \* the job: "none", "ready", "held" or "over"
  attempt,  \* the attempt that holds it, or did last
  pc,       \* [Attempts -> where the attempt is]
  at,       \* [Attempts -> the step it is at]
  skipped,  \* [Attempts -> its count of skipped steps is positive]
  failed,   \* [Attempts -> failedStep]
  stopped,  \* the organization is suspended or the project deleted
  faults    \* how many disturbances have happened

vars == <<graph, source, status, order, step, invoked, billed, job, attempt, pc, at, skipped, failed,
          stopped, faults>>

Terminal == {"succeeded", "failed", "cancelled"}
Done     == {"succeeded", "failed", "skipped"}

\* Statuses are words the schema permits, and an attempt is never past the end of the step rows.
TypeOK ==
  /\ graph \in Graphs /\ source \in {"manual", "cron"} /\ stopped \in BOOLEAN
  /\ status \in {"none", "queued", "running"} \cup Terminal
  /\ order \in Seq(graph.nodes)
  /\ step \in [graph.nodes -> {"queued", "running"} \cup Done]
  /\ invoked \in [graph.nodes -> [Attempts -> Nat]] /\ billed \in Nat
  /\ job \in {"none", "ready", "held", "over"} /\ attempt \in {0} \cup Attempts
  /\ pc \in [Attempts -> {"idle", "begin", "claim", "load", "loop", "busy", "finish", "caught", "over"}]
  /\ \A a \in Attempts : at[a] \in 1 .. Len(order) + 1
  /\ skipped \in [Attempts -> BOOLEAN] /\ failed \in [Attempts -> BOOLEAN] /\ faults \in 0 .. MaxFaults

Init ==
  /\ graph \in Graphs /\ source \in {"manual", "cron"}
  /\ status = "none" /\ order = << >> /\ step = [n \in graph.nodes |-> "queued"]
  /\ invoked = [n \in graph.nodes |-> [a \in Attempts |-> 0]] /\ billed = 0
  /\ job = "none" /\ attempt = 0 /\ stopped = FALSE /\ faults = 0
  /\ pc = [a \in Attempts |-> "idle"] /\ at = [a \in Attempts |-> 1]
  /\ skipped = [a \in Attempts |-> FALSE] /\ failed = [a \in Attempts |-> FALSE]

runVars == <<graph, source, order, stopped>>
mineVars == <<at, skipped, failed>>

Goto(a, p) == pc' = [pc EXCEPT ![a] = p]

\* A run is inserted with its step rows; a schedule enqueues its job in the same transaction.
CreateRun ==
  /\ status = "none" /\ graph \in Runnable /\ validateGraph(graph) /\ ~stopped
  /\ status' = "queued" /\ order' = topologicalOrder(graph)
  /\ job' = IF source = "cron" THEN "ready" ELSE "none"
  /\ UNCHANGED <<graph, source, step, invoked, billed, attempt, pc, mineVars, stopped, faults>>

\* The request enqueues it in a statement of its own.
EnqueueRun ==
  /\ source = "manual" /\ status = "queued" /\ job = "none" /\ job' = "ready"
  /\ UNCHANGED <<runVars, status, step, invoked, billed, attempt, pc, mineVars, faults>>

\* The queue hands the job to the next attempt.
Claim(a) ==
  /\ job = "ready" /\ a = attempt + 1
  /\ job' = "held" /\ attempt' = a /\ Goto(a, "begin")
  /\ UNCHANGED <<runVars, status, step, invoked, billed, mineVars, faults>>

\* The attempt returns; the job is done unless it is no longer this attempt's.
Return(a) ==
  /\ Goto(a, "over")
  /\ job' = IF job = "held" /\ attempt = a THEN "over" ELSE job

\* Mutant of Rethrow: the job stays with the attempt that is over.
RethrowNothing(a) == Goto(a, "over") /\ UNCHANGED job

\* It throws, or its worker dies: the job is run again while attempts are left.
Rethrow(a) ==
  /\ Goto(a, "over")
  /\ job' = IF job = "held" /\ attempt = a THEN (IF a + 1 \in Attempts THEN "ready" ELSE "over") ELSE job

\* The first transaction: a run of a deleted project or a suspended organization is cancelled.
Refuse(a) ==
  /\ pc[a] = "begin"
  /\ \/ ~stopped /\ Goto(a, "claim") /\ UNCHANGED <<status, step, job>>
     \/ /\ stopped /\ Return(a)
        /\ status' = IF status = "queued" THEN "cancelled" ELSE status
        /\ step' = IF status = "queued"
                   THEN [n \in graph.nodes |-> IF step[n] = "queued" THEN "skipped" ELSE step[n]]
                   ELSE step
  /\ UNCHANGED <<runVars, invoked, billed, attempt, mineVars, faults>>

\* Mutant of Claimable: a retry takes up a run that is under way.
ClaimableRunning == status \in {"queued", "running"}

\* The condition of the claim.
Claimable == status = "queued"

ClaimRun(a) ==
  /\ pc[a] = "claim"
  /\ \/ Claimable /\ status' = "running" /\ Goto(a, "load") /\ UNCHANGED job
     \/ ~Claimable /\ Return(a) /\ UNCHANGED status
  /\ UNCHANGED <<runVars, step, invoked, billed, attempt, mineVars, faults>>

\* The steps and the project are read.
Load(a) ==
  /\ pc[a] = "load" /\ Goto(a, "loop")
  /\ UNCHANGED <<runVars, status, step, invoked, billed, job, attempt, mineVars, faults>>

Node(a) == order[at[a]]

Execute(a) == invoked' = [invoked EXCEPT ![Node(a)][a] = @ + 1]

\* The row, and then the node: here, or by an Invoke of the project's function.
BeginStep(a) ==
  /\ pc[a] = "loop" /\ at[a] <= Len(order)
  /\ step' = [step EXCEPT ![Node(a)] = "running"] /\ Goto(a, "busy")
  /\ Execute(a)
  /\ UNCHANGED <<runVars, status, billed, job, attempt, mineVars, faults>>

\* How often one attempt may set off a node.
Limit(n) == IF n \in graph.isolated THEN Sends ELSE 1

\* The Invoke is a RequestResponse of a client with the default retries: when the response is lost the
\* request is sent again, and the function may run the node once for each request.
Resend(a) ==
  /\ pc[a] = "busy" /\ invoked[Node(a)][a] < Limit(Node(a)) /\ Execute(a)
  /\ UNCHANGED <<runVars, status, step, billed, job, attempt, pc, mineVars, faults>>

\* runNodeInLambda: the node ran, failed, or there is no function to run it in.  The others succeed.
Outcomes(n) == IF n \in graph.isolated THEN {"succeeded", "failed", "skipped"} ELSE {"succeeded"}

EndStep(a) ==
  /\ pc[a] = "busy"
  /\ \E r \in Outcomes(Node(a)) :
       /\ step' = [step EXCEPT ![Node(a)] = r]
       /\ skipped' = [skipped EXCEPT ![a] = @ \/ r = "skipped"]
       /\ failed' = [failed EXCEPT ![a] = @ \/ r = "failed"]
  /\ at' = [at EXCEPT ![a] = @ + 1] /\ Goto(a, "loop")
  /\ UNCHANGED <<runVars, status, invoked, billed, job, attempt, faults>>

EndLoop(a) ==
  /\ pc[a] = "loop" /\ at[a] > Len(order) /\ Goto(a, "finish")
  /\ UNCHANGED <<runVars, status, step, invoked, billed, job, attempt, mineVars, faults>>

\* Mutant of Verdict: a failed step does not fail the run.
VerdictSkippedOnly(a) == IF skipped[a] THEN "failed" ELSE "succeeded"

Verdict(a) == IF skipped[a] \/ failed[a] THEN "failed" ELSE "succeeded"

\* Mutant of finishRun: a failed run is not billed.
finishRunFreeFailure(v) ==
  IF status = "running"
  THEN status' = v /\ billed' = billed + (IF v = "succeeded" THEN 1 ELSE 0)
  ELSE UNCHANGED <<status, billed>>

\* finishRun, one transaction: a terminal row is left alone and emits nothing.
finishRun(v) ==
  IF status = "running" THEN status' = v /\ billed' = billed + 1 ELSE UNCHANGED <<status, billed>>

Finish(a) ==
  /\ pc[a] = "finish" /\ finishRun(Verdict(a)) /\ Return(a)
  /\ UNCHANGED <<runVars, step, invoked, attempt, mineVars, faults>>

\* The catch around the loop.
Caught(a) ==
  /\ pc[a] = "caught" /\ finishRun("failed") /\ Rethrow(a)
  /\ UNCHANGED <<runVars, step, invoked, attempt, mineVars, faults>>

-----------------------------------------------------------------------------
Trouble(t) == t \in Troubles /\ faults < MaxFaults /\ faults' = faults + 1
Busy(a) == pc[a] \notin {"idle", "over"}

Crash(a) ==
  /\ Busy(a) /\ Trouble("crash") /\ Rethrow(a)
  /\ UNCHANGED <<runVars, status, step, invoked, billed, attempt, mineVars>>

\* A statement inside the try fails.
Throw(a) ==
  /\ pc[a] \in {"loop", "busy"} /\ Trouble("throw") /\ Goto(a, "caught")
  /\ UNCHANGED <<runVars, status, step, invoked, billed, job, attempt, mineVars>>

\* A statement before it, or finishRun itself, fails.
ThrowOutside(a) ==
  /\ pc[a] \in {"begin", "claim", "load", "finish", "caught"} /\ Trouble("early") /\ Rethrow(a)
  /\ UNCHANGED <<runVars, status, step, invoked, billed, attempt, mineVars>>

\* The lease runs out while the attempt goes on.
LoseLease(a) ==
  /\ Busy(a) /\ job = "held" /\ attempt = a /\ a + 1 \in Attempts /\ Trouble("lease") /\ job' = "ready"
  /\ UNCHANGED <<runVars, status, step, invoked, billed, attempt, pc, mineVars>>

Stop ==
  /\ ~stopped /\ status # "none" /\ Trouble("stop") /\ stopped' = TRUE
  /\ UNCHANGED <<graph, source, order, status, step, invoked, billed, job, attempt, pc, mineVars>>

Step(a) ==
  \/ Claim(a) \/ Refuse(a) \/ ClaimRun(a) \/ Load(a) \/ BeginStep(a) \/ Resend(a) \/ EndStep(a)
  \/ EndLoop(a) \/ Finish(a) \/ Caught(a)

Disturb(a) == Crash(a) \/ Throw(a) \/ ThrowOutside(a) \/ LoseLease(a)

Next == CreateRun \/ EnqueueRun \/ Stop \/ \E a \in Attempts : Step(a) \/ Disturb(a)

\* The worker claims what is ready and runs what it claimed.
Fairness == \A a \in Attempts : WF_vars(Step(a))

Spec == Init /\ [][Next]_vars /\ Fairness

-----------------------------------------------------------------------------
\* Properties.

Position(s, n) == CHOOSE i \in DOMAIN s : s[i] = n
Permutes(s, S) == Len(s) = Cardinality(S) /\ {s[i] : i \in DOMAIN s} = S
Forward(g, s) == \A e \in g.edges : Position(s, e[1]) < Position(s, e[2])
Topological(g) == {s \in [1 .. Cardinality(g.nodes) -> g.nodes] : Permutes(s, g.nodes) /\ Forward(g, s)}
Before(s, t) ==
  s = t \/ \E i \in DOMAIN s : s[i] < t[i] /\ \A k \in 1 .. i - 1 : s[k] = t[k]

\* Kahn's loop with its sorted ready list yields, of all the orders in which no node precedes one it
\* depends on, the first by node id; it comes to a stop early exactly on the graphs with a cycle,
\* which validateGraph refuses.
OrderIsCanonical ==
  status = "none" =>
  LET o == topologicalOrder(graph)
  IN  /\ Len(o) = Cardinality(graph.nodes) <=> assertAcyclic(graph)
      /\ assertAcyclic(graph) => o \in Topological(graph) /\ \A s \in Topological(graph) : Before(o, s)

\* However the job is retried, and beside an attempt that lost its lease, one attempt alone executes
\* nodes; it sets off a node once, or as often as the AWS client resends one Invoke; and no node is begun
\* before every node it depends on has ended.
OneAttemptInOrder ==
  /\ \A m, n \in graph.nodes : \A a, b \in Attempts : invoked[m][a] > 0 /\ invoked[n][b] > 0 => a = b
  /\ \A n \in graph.nodes : \A a \in Attempts : invoked[n][a] <= Limit(n)
  /\ \A e \in graph.edges : step[e[2]] \in {"running", "succeeded", "failed"} => step[e[1]] \in Done

\* The execution is billed exactly when the run has ended after being executed, however many attempts
\* reach the end.
BilledOnce == billed = (IF status \in {"succeeded", "failed"} THEN 1 ELSE 0)

\* A run shown as succeeded did everything; one that was cancelled did nothing.
StatusIsHonest ==
  /\ status = "succeeded" => \A n \in graph.nodes : step[n] = "succeeded" /\ \E a \in Attempts : invoked[n][a] > 0
  /\ status = "cancelled" => \A n \in graph.nodes : step[n] = "skipped" /\ \A a \in Attempts : invoked[n][a] = 0

\* A queued run whose job exists is taken up or cancelled, unless every attempt was cut short.
QueuedIsTaken == (status = "queued" /\ job # "none") ~> (status # "queued" \/ job = "over")

\* A node is executed at most once, which the retries of the AWS client refute.
NodesRunOnce == \A n \in graph.nodes : \A a \in Attempts : invoked[n][a] <= 1

\* What a comment of runWorkflow says: a throw ends the run rather than leaving it `running`.
RunEnds == (status = "running") ~> (status \in Terminal)
=============================================================================
