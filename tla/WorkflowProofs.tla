--------------------------- MODULE WorkflowProofs ---------------------------
(* Theorems about Workflow, for every graph, number of attempts and disturbance. *)
EXTENDS Workflow, FiniteSetTheorems, TLAPS

Statuses == {"none", "queued", "running"} \cup Terminal

-----------------------------------------------------------------------------
(* Billing. *)

\* finishRun() and the transactions before it are the only writers of the status.
BilledInv == status \in Statuses /\ BilledOnce

\* The execution is billed exactly when the run has ended after being executed, whatever attempts
\* overlap, crash or repeat: finishRun() bills in the transaction that leaves `running`.
THEOREM BillsExactlyOnce == Spec => []BilledOnce
<1>1. Init => BilledInv
  BY DEF Init, BilledInv, BilledOnce, Statuses
<1>2. BilledInv /\ [Next]_vars => BilledInv'
  <2> SUFFICES ASSUME BilledInv, [Next]_vars PROVE BilledInv'
    OBVIOUS
  <2> USE DEF BilledInv, BilledOnce, Statuses, Terminal
  <2>1. CASE CreateRun
    BY <2>1 DEF CreateRun
  <2>2. CASE EnqueueRun \/ Stop
    BY <2>2 DEF EnqueueRun, Stop
  <2>3. ASSUME NEW a \in Attempts, Refuse(a) PROVE BilledInv'
    BY <2>3 DEF Refuse
  <2>4. ASSUME NEW a \in Attempts, ClaimRun(a) PROVE BilledInv'
    BY <2>4 DEF ClaimRun, Claimable
  <2>5. ASSUME NEW a \in Attempts, Finish(a) \/ Caught(a) PROVE BilledInv'
    BY <2>5 DEF Finish, Caught, finishRun, Verdict
  <2>6. ASSUME NEW a \in Attempts,
               Claim(a) \/ Load(a) \/ BeginStep(a) \/ Resend(a) \/ EndStep(a) \/ EndLoop(a) \/ Disturb(a)
        PROVE  BilledInv'
    BY <2>6 DEF Claim, Load, BeginStep, Resend, EndStep, EndLoop, Disturb, Crash, Throw, ThrowOutside, LoseLease
  <2>7. CASE UNCHANGED vars
    BY <2>7 DEF vars
  <2> QED
    BY <2>1, <2>2, <2>3, <2>4, <2>5, <2>6, <2>7 DEF Next, Step
<1>3. BilledInv => BilledOnce
  BY DEF BilledInv
<1> QED
  BY <1>1, <1>2, <1>3, PTL DEF Spec

-----------------------------------------------------------------------------
(* Induction, from the well-foundedness of the subset order on finite sets: the induction theorems of   *)
(* the library take an operator, which the provers cannot instantiate, this takes sets.                *)

\* A set of naturals has a least element: the strict-subset order on the intervals 1..n is well-founded.
LEMMA LeastNat ==
  ASSUME NEW B \in SUBSET Nat, B # {}
  PROVE  \E m \in B : \A n \in B : m <= n
<1> DEFINE T == {1 .. n : n \in B}
<1>1. T \subseteq FiniteSubsetsOf(Nat)
  <2> SUFFICES ASSUME NEW n \in B PROVE 1 .. n \in SUBSET Nat /\ IsFiniteSet(1 .. n)
    BY DEF FiniteSubsetsOf
  <2> QED
    BY FS_Interval
<1>2. \E x \in T : \A y \in T : ~(<<y, x>> \in StrictSubsetOrdering(Nat))
  <2>1. T # {}
    OBVIOUS
  <2> HIDE DEF T
  <2> QED
    BY <1>1, <2>1, FS_StrictSubsetOrderingWellFounded, WFMin
<1>3. PICK m \in B : \A n \in B : ~(<<1 .. n, 1 .. m>> \in StrictSubsetOrdering(Nat))
  BY <1>2
<1>4. ASSUME NEW n \in B, n < m PROVE FALSE
  <2>1. 1 .. n \subseteq 1 .. m /\ 1 .. n \in SUBSET Nat /\ 1 .. m \in SUBSET Nat
    BY <1>4
  <2>2. m \in 1 .. m /\ m \notin 1 .. n
    BY <1>4
  <2>3. <<1 .. n, 1 .. m>> \in StrictSubsetOrdering(Nat)
    BY <2>1, <2>2 DEF StrictSubsetOrdering
  <2> QED
    BY <1>3, <2>3
<1> QED
  BY <1>4

\* Turns of a loop: a function that repeats F from b on exists for any number of turns.
LEMMA Repeats ==
  ASSUME NEW X, NEW b \in X, NEW F \in [X -> X], NEW k \in Nat
  PROVE  \E f \in [0 .. k -> X] : f[0] = b /\ \A i \in 1 .. k : f[i] = F[f[i - 1]]
<1> DEFINE Run(n, f) == f[0] = b /\ \A i \in 1 .. n : f[i] = F[f[i - 1]]
           B == {n \in Nat : ~\E f \in [0 .. n -> X] : Run(n, f)}
<1> SUFFICES ASSUME B # {} PROVE FALSE
  OBVIOUS
<1>1. PICK m \in B : \A n \in B : m <= n
  BY LeastNat
<1>2. CASE m = 0
  <2>1. [i \in 0 .. 0 |-> b] \in [0 .. 0 -> X] /\ Run(0, [i \in 0 .. 0 |-> b])
    OBVIOUS
  <2> QED
    BY <1>1, <1>2, <2>1
<1>3. CASE m > 0
  <2>1. m - 1 \in Nat /\ m - 1 \notin B
    BY <1>1, <1>3
  <2>2. PICK f \in [0 .. m - 1 -> X] : Run(m - 1, f)
    BY <2>1
  <2> DEFINE h == [i \in 0 .. m |-> IF i = m THEN F[f[m - 1]] ELSE f[i]]
  <2>3. f[m - 1] \in X
    BY <2>1
  <2>4. h \in [0 .. m -> X]
    BY <1>1, <2>3
  <2>5. h[0] = b
    BY <1>3, <2>1, <2>2
  <2>6. ASSUME NEW i \in 1 .. m PROVE h[i] = F[h[i - 1]]
    <3>1. CASE i = m
      BY <1>3, <2>1, <3>1
    <3>2. CASE i # m
      BY <1>3, <2>1, <2>2, <3>2
    <3> QED
      BY <3>1, <3>2
  <2> QED
    BY <1>1, <2>4, <2>5, <2>6
<1> QED
  BY <1>1, <1>2, <1>3

-----------------------------------------------------------------------------
(* What the graph functions work on. *)

\* The states Kahn's loop can be in.
Loop(g) == [order : Seq(g.nodes), left : [g.nodes -> Int], ready : SUBSET g.nodes]

LEMMA GraphFacts ==
  ASSUME NEW g \in Graphs
  PROVE  /\ g.nodes \subseteq Nat /\ IsFiniteSet(g.nodes) /\ Cardinality(g.nodes) \in Nat
         /\ g.triggers \subseteq g.nodes /\ g.edges \subseteq g.nodes \X g.nodes
BY WorkflowAssumption, FS_CardinalityType DEF IsGraph

LEMMA PickFirst ==
  ASSUME NEW g \in Graphs, NEW S \in SUBSET g.nodes, S # {}
  PROVE  Pick(S) \in S /\ \A n \in S : Pick(S) <= n
<1>1. \E n \in S : \A m \in S : n <= m
  BY GraphFacts, LeastNat
<1> QED
  BY <1>1 DEF Pick, First

LEMMA Appended ==
  ASSUME NEW S, NEW q \in Seq(S), NEW e \in S
  PROVE  /\ Append(q, e) \in Seq(S) /\ Len(q) \in Nat /\ Len(Append(q, e)) = Len(q) + 1
         /\ Append(q, e)[Len(q) + 1] = e /\ \A i \in 1 .. Len(q) : Append(q, e)[i] = q[i]
OBVIOUS

LEMMA LoopType ==
  ASSUME NEW g \in Graphs
  PROVE  KahnStart(g) \in Loop(g) /\ \A s \in Loop(g) : KahnTurn(g, s) \in Loop(g)
<1>1. ASSUME NEW n \in g.nodes PROVE indegree(g, n) \in Int
  <2> DEFINE S == {m \in g.nodes : <<m, n>> \in g.edges}
  <2>1. S \in SUBSET g.nodes /\ IsFiniteSet(g.nodes)
    BY GraphFacts
  <2>2. IsFiniteSet(S)
    BY <2>1, FS_Subset
  <2>3. Cardinality(S) \in Nat
    BY <2>2, FS_CardinalityType
  <2> QED
    BY <2>3 DEF indegree
<1>2. KahnStart(g) \in Loop(g)
  BY <1>1 DEF KahnStart, Loop
<1>3. ASSUME NEW s \in Loop(g) PROVE KahnTurn(g, s) \in Loop(g)
  <2>1. CASE s.ready = {}
    BY <2>1 DEF KahnTurn
  <2>2. CASE s.ready # {}
    <3> DEFINE id   == Pick(s.ready)
               left == [n \in g.nodes |-> IF n \in adjacency(g, id) THEN s.left[n] - 1 ELSE s.left[n]]
               more == (s.ready \ {id}) \cup {n \in adjacency(g, id) : left[n] = 0}
    <3>1. s.ready \in SUBSET g.nodes /\ s.order \in Seq(g.nodes) /\ s.left \in [g.nodes -> Int]
      BY DEF Loop
    <3>2. id \in g.nodes
      BY <2>2, <3>1, PickFirst
    <3>3. left \in [g.nodes -> Int] /\ more \in SUBSET g.nodes
      BY <3>1 DEF adjacency
    <3>4. Append(s.order, id) \in Seq(g.nodes)
      <4> HIDE DEF id
      <4> QED
        BY <3>1, <3>2, Appended, Zenon
    <3>5. KahnTurn(g, s) = [order |-> Append(s.order, id), left |-> left, ready |-> more]
      BY <2>2 DEF KahnTurn
    <3> HIDE DEF id, left, more
    <3> QED
      BY <3>3, <3>4, <3>5 DEF Loop
  <2> QED
    BY <2>1, <2>2
<1> QED
  BY <1>2, <1>3

\* The loop as a sequence of states, each from the one before.
LEMMA KahnRuns ==
  ASSUME NEW g \in Graphs, NEW k \in Nat
  PROVE  \E f \in [0 .. k -> Loop(g)] :
           /\ f[0] = KahnStart(g) /\ \A i \in 1 .. k : f[i] = KahnTurn(g, f[i - 1])
           /\ Kahn(g, k) = f[k]
<1> DEFINE Unrolled(f) == f = [i \in 0 .. k |-> IF i = 0 THEN KahnStart(g) ELSE KahnTurn(g, f[i - 1])]
           F == [s \in Loop(g) |-> KahnTurn(g, s)]
           loop == CHOOSE f : Unrolled(f)
<1>0. KahnStart(g) \in Loop(g) /\ F \in [Loop(g) -> Loop(g)]
  BY LoopType
<1>1. PICK f \in [0 .. k -> Loop(g)] : f[0] = KahnStart(g) /\ \A i \in 1 .. k : f[i] = F[f[i - 1]]
  <2> HIDE DEF F
  <2> QED
    BY <1>0, Repeats
<1>2. ASSUME NEW i \in 1 .. k PROVE f[i] = KahnTurn(g, f[i - 1])
  <2>1. i - 1 \in 0 .. k
    OBVIOUS
  <2>2. f[i - 1] \in Loop(g)
    BY <2>1
  <2> QED
    BY <1>1, <2>2
<1>3. Unrolled(f)
  BY <1>1, <1>2
<1>4. Unrolled(loop)
  BY <1>3
<1>5. Kahn(g, k) = loop[k]
  BY DEF Kahn
<1>6. DOMAIN loop = 0 .. k /\ loop[0] = KahnStart(g) /\ \A i \in 1 .. k : loop[i] = KahnTurn(g, loop[i - 1])
  <2> HIDE DEF loop
  <2> QED
    BY <1>4
<1>7. \A i \in 0 .. k : loop[i] \in Loop(g)
  <2> HIDE DEF loop
  <2> DEFINE B == {i \in 0 .. k : loop[i] \notin Loop(g)}
  <2> SUFFICES ASSUME B # {} PROVE FALSE
    OBVIOUS
  <2>0. B \in SUBSET Nat
    OBVIOUS
  <2>1. PICK m \in B : \A n \in B : m <= n
    <3> HIDE DEF B
    <3> QED
      BY <2>0, LeastNat
  <2>2. m # 0
    BY <1>6, <2>1, LoopType
  <2>3. loop[m - 1] \in Loop(g)
    BY <2>1, <2>2
  <2> QED
    BY <1>6, <2>1, <2>2, <2>3, LoopType
<1>8. loop = [i \in 0 .. k |-> loop[i]]
  <2> HIDE DEF loop
  <2> QED
    BY <1>4
<1>9. loop \in [0 .. k -> Loop(g)]
  <2> HIDE DEF loop
  <2> QED
    BY <1>7, <1>8
<1> HIDE DEF loop
<1> QED
  BY <1>5, <1>6, <1>9

-----------------------------------------------------------------------------
(* The invariant of Kahn's loop. *)

\* The first i nodes of an order, what a node still waits for once Q is placed, and the nodes that wait
\* for nothing.
Upto(q, i) == {q[j] : j \in 1 .. i}
Awaited(g, Q, n) == {m \in g.nodes \ Q : <<m, n>> \in g.edges}
Open(g, Q) == {n \in g.nodes \ Q : Awaited(g, Q, n) = {}}

\* Every node was the first that waited for nothing when it was placed.
Greedy(g, q) ==
  \A i \in 1 .. Len(q) : q[i] \in Open(g, Upto(q, i - 1)) /\ \A n \in Open(g, Upto(q, i - 1)) : q[i] <= n

KahnInv(g, s) ==
  /\ Greedy(g, s.order)
  /\ \A n \in g.nodes : s.left[n] = Cardinality(Awaited(g, Upto(s.order, Len(s.order)), n))
  /\ s.ready = Open(g, Upto(s.order, Len(s.order)))

LEMMA AwaitedFinite ==
  ASSUME NEW g \in Graphs, NEW Q, NEW n
  PROVE  /\ IsFiniteSet(Awaited(g, Q, n)) /\ Cardinality(Awaited(g, Q, n)) \in Nat
         /\ Cardinality(Awaited(g, Q, n)) = 0 <=> Awaited(g, Q, n) = {}
<1>1. Awaited(g, Q, n) \in SUBSET g.nodes /\ IsFiniteSet(g.nodes)
  BY GraphFacts DEF Awaited
<1>2. IsFiniteSet(Awaited(g, Q, n))
  BY <1>1, FS_Subset
<1> QED
  BY <1>2, FS_CardinalityType, FS_EmptySet

\* Appending a node adds it to what is placed and leaves the earlier prefixes alone.
LEMMA UptoAppend ==
  ASSUME NEW S, NEW q \in Seq(S), NEW e \in S
  PROVE  /\ Upto(Append(q, e), Len(q) + 1) = Upto(q, Len(q)) \cup {e}
         /\ \A i \in 0 .. Len(q) : Upto(Append(q, e), i) = Upto(q, i)
<1> DEFINE r == Append(q, e)
<1>1. /\ Len(q) \in Nat /\ r[Len(q) + 1] = e /\ \A i \in 1 .. Len(q) : r[i] = q[i]
  BY Appended
<1> HIDE DEF r
<1>2. ASSUME NEW i \in 0 .. Len(q) PROVE Upto(r, i) = Upto(q, i)
  <2>1. \A j \in 1 .. i : r[j] = q[j]
    BY <1>1
  <2> QED
    BY <2>1 DEF Upto
<1>3. 1 .. Len(q) + 1 = (1 .. Len(q)) \cup {Len(q) + 1}
  BY <1>1
<1>4. Upto(r, Len(q) + 1) = Upto(q, Len(q)) \cup {e}
  BY <1>1, <1>3 DEF Upto
<1> QED
  BY <1>2, <1>4 DEF r

\* Placing an open node takes it off what the nodes behind it wait for.
LEMMA AwaitedPlaced ==
  ASSUME NEW g \in Graphs, NEW Q \in SUBSET g.nodes, NEW id \in g.nodes \ Q, NEW n \in g.nodes
  PROVE  /\ Awaited(g, Q \cup {id}, n) = Awaited(g, Q, n) \ {id}
         /\ id \in Awaited(g, Q, n) <=> n \in adjacency(g, id)
         /\ Cardinality(Awaited(g, Q \cup {id}, n)) =
              IF n \in adjacency(g, id) THEN Cardinality(Awaited(g, Q, n)) - 1 ELSE Cardinality(Awaited(g, Q, n))
<1>1. Awaited(g, Q \cup {id}, n) = Awaited(g, Q, n) \ {id}
  BY DEF Awaited
<1>2. id \in Awaited(g, Q, n) <=> n \in adjacency(g, id)
  BY DEF Awaited, adjacency
<1>3. IsFiniteSet(Awaited(g, Q, n))
  BY AwaitedFinite
<1>4. Cardinality(Awaited(g, Q, n) \ {id}) =
        IF id \in Awaited(g, Q, n) THEN Cardinality(Awaited(g, Q, n)) - 1 ELSE Cardinality(Awaited(g, Q, n))
  BY <1>3, FS_RemoveElement
<1> QED
  BY <1>1, <1>2, <1>4, Zenon

LEMMA KahnStarts ==
  ASSUME NEW g \in Graphs
  PROVE  KahnInv(g, KahnStart(g))
<1> DEFINE s == KahnStart(g)
<1>1. s.order = << >> /\ Len(s.order) = 0 /\ s.left = [n \in g.nodes |-> indegree(g, n)]
      /\ s.ready = {n \in g.nodes : indegree(g, n) = 0}
  BY DEF KahnStart
<1> HIDE DEF s
<1>2. Upto(s.order, Len(s.order)) = {}
  BY <1>1 DEF Upto
<1>3. \A n \in g.nodes : indegree(g, n) = Cardinality(Awaited(g, {}, n))
  BY DEF indegree, Awaited
<1>4. Greedy(g, s.order)
  BY <1>1 DEF Greedy
<1>5. s.ready = Open(g, {})
  BY <1>1, <1>3, AwaitedFinite DEF Open
<1> QED
  BY <1>1, <1>2, <1>3, <1>4, <1>5 DEF KahnInv, s

LEMMA KahnTurns ==
  ASSUME NEW g \in Graphs, NEW s \in Loop(g), KahnInv(g, s), s.ready # {}
  PROVE  /\ KahnInv(g, KahnTurn(g, s))
         /\ Len(KahnTurn(g, s).order) = Len(s.order) + 1
<1> DEFINE id   == Pick(s.ready)
           q    == s.order
           Q    == Upto(q, Len(q))
           left == [n \in g.nodes |-> IF n \in adjacency(g, id) THEN s.left[n] - 1 ELSE s.left[n]]
           more == (s.ready \ {id}) \cup {n \in adjacency(g, id) : left[n] = 0}
           t    == KahnTurn(g, s)
<1>1. q \in Seq(g.nodes) /\ s.left \in [g.nodes -> Int] /\ s.ready \in SUBSET g.nodes
  BY DEF Loop
<1>2. t.order = Append(q, id) /\ t.left = left /\ t.ready = more
  BY DEF KahnTurn
<1>3. id \in s.ready /\ id \in g.nodes /\ \A n \in s.ready : id <= n
  BY <1>1, PickFirst
<1>4. s.ready = Open(g, Q) /\ id \in Open(g, Q) /\ id \notin Q
  BY <1>3 DEF KahnInv, Open
<1>5. Q \in SUBSET g.nodes /\ Len(q) \in Nat
  BY <1>1 DEF Upto
<1>6. /\ Upto(t.order, Len(q) + 1) = Q \cup {id} /\ Len(t.order) = Len(q) + 1
      /\ \A i \in 0 .. Len(q) : Upto(t.order, i) = Upto(q, i)
      /\ t.order[Len(q) + 1] = id /\ \A i \in 1 .. Len(q) : t.order[i] = q[i]
  <2> HIDE DEF id, q, t
  <2>1. /\ Upto(Append(q, id), Len(q) + 1) = Upto(q, Len(q)) \cup {id}
        /\ \A i \in 0 .. Len(q) : Upto(Append(q, id), i) = Upto(q, i)
    BY <1>1, <1>3, UptoAppend
  <2>2. /\ Len(Append(q, id)) = Len(q) + 1
        /\ Append(q, id)[Len(q) + 1] = id /\ \A i \in 1 .. Len(q) : Append(q, id)[i] = q[i]
    BY <1>1, <1>3, Appended
  <2> QED
    BY <1>2, <2>1, <2>2, Zenon
<1>7. Greedy(g, t.order)
  <2> HIDE DEF t, q, id
  <2> SUFFICES ASSUME NEW i \in 1 .. Len(q) + 1
               PROVE  /\ t.order[i] \in Open(g, Upto(t.order, i - 1))
                      /\ \A n \in Open(g, Upto(t.order, i - 1)) : t.order[i] <= n
    BY <1>6 DEF Greedy
  <2>1. i - 1 \in 0 .. Len(q) /\ Upto(t.order, i - 1) = Upto(q, i - 1)
    BY <1>5, <1>6
  <2>2. CASE i \in 1 .. Len(q)
    BY <1>6, <2>1, <2>2 DEF KahnInv, Greedy, q
  <2>3. CASE i = Len(q) + 1
    <3>1. i - 1 = Len(q)
      BY <1>5, <2>3
    <3> QED
      BY <1>3, <1>4, <1>6, <2>1, <2>3, <3>1
  <2> QED
    BY <1>5, <2>2, <2>3
<1>8. ASSUME NEW n \in g.nodes PROVE t.left[n] = Cardinality(Awaited(g, Q \cup {id}, n))
  <2>1. t.left[n] = IF n \in adjacency(g, id) THEN s.left[n] - 1 ELSE s.left[n]
    BY <1>2
  <2>2. s.left[n] = Cardinality(Awaited(g, Q, n))
    BY DEF KahnInv
  <2> HIDE DEF t, id, Q
  <2>3. Cardinality(Awaited(g, Q \cup {id}, n)) =
          IF n \in adjacency(g, id) THEN Cardinality(Awaited(g, Q, n)) - 1 ELSE Cardinality(Awaited(g, Q, n))
    BY <1>3, <1>4, <1>5, AwaitedPlaced, Zenon
  <2> QED
    BY <2>1, <2>2, <2>3
<1>9. ASSUME NEW n \in Q PROVE Awaited(g, Q, n) = {}
  <2>1. PICK i \in 1 .. Len(q) : n = q[i]
    BY DEF Upto
  <2>2. Awaited(g, Upto(q, i - 1), n) = {}
    BY <2>1 DEF KahnInv, Greedy, Open
  <2>3. Upto(q, i - 1) \subseteq Q
    BY <1>5 DEF Upto
  <2> QED
    BY <2>2, <2>3 DEF Awaited
<1>10. t.ready = Open(g, Q \cup {id})
  <2>1. ASSUME NEW n \in g.nodes PROVE left[n] = 0 <=> Awaited(g, Q \cup {id}, n) = {}
    <3> HIDE DEF t, id, Q, left
    <3> QED
      BY <1>2, <1>8, AwaitedFinite
  <2>2. more \subseteq g.nodes /\ adjacency(g, id) \subseteq g.nodes
    BY <1>1 DEF adjacency
  <2> HIDE DEF t, id, Q, left
  <2>3. ASSUME NEW n \in g.nodes PROVE n \in more <=> n \in Open(g, Q \cup {id})
    <3>1. CASE n = id
      <4>1. n \notin adjacency(g, id)
        BY <1>4, <1>5, <3>1, AwaitedPlaced DEF Open
      <4> QED
        BY <3>1, <4>1 DEF Open
    <3>2. CASE n # id /\ n \in adjacency(g, id)
      <4>1. n \notin Open(g, Q) /\ n \notin Q
        <5>1. id \in Awaited(g, Q, n)
          BY <1>3, <1>4, <1>5, <3>2, AwaitedPlaced
        <5>2. n \notin Open(g, Q)
          BY <5>1 DEF Open
        <5> QED
          BY <1>9, <5>1, <5>2
      <4> QED
        BY <1>4, <2>1, <3>2, <4>1 DEF Open
    <3>3. CASE n # id /\ n \notin adjacency(g, id)
      <4>1. Awaited(g, Q \cup {id}, n) = Awaited(g, Q, n)
        <5>1. Awaited(g, Q \cup {id}, n) = Awaited(g, Q, n) \ {id}
          BY DEF Awaited
        <5>2. id \notin Awaited(g, Q, n)
          BY <1>3, <3>3 DEF Awaited, adjacency
        <5> QED
          BY <5>1, <5>2
      <4> QED
        BY <1>4, <3>3, <4>1 DEF Open
    <3> QED
      BY <3>1, <3>2, <3>3
  <2>4. Open(g, Q \cup {id}) \subseteq g.nodes
    BY DEF Open
  <2> QED
    BY <1>2, <2>2, <2>3, <2>4
<1> HIDE DEF t, id, Q
<1> QED
  BY <1>6, <1>7, <1>8, <1>10 DEF KahnInv, t

\* A greedy order repeats no node, so it has all of them when it is as long as there are.
LEMMA GreedyFills ==
  ASSUME NEW g \in Graphs, NEW q \in Seq(g.nodes), Greedy(g, q)
  PROVE  /\ \A i, j \in 1 .. Len(q) : q[i] = q[j] => i = j
         /\ Len(q) = Cardinality(g.nodes) <=> Upto(q, Len(q)) = g.nodes
<1>1. Len(q) \in Nat /\ q \in [1 .. Len(q) -> g.nodes]
  OBVIOUS
<1>2. ASSUME NEW i \in 1 .. Len(q), NEW j \in 1 .. Len(q), i < j PROVE q[i] # q[j]
  <2>1. q[j] \notin Upto(q, j - 1)
    BY DEF Greedy, Open
  <2>2. i \in 1 .. j - 1
    BY <1>1, <1>2
  <2> QED
    BY <2>1, <2>2 DEF Upto
<1>3. \A i, j \in 1 .. Len(q) : q[i] = q[j] => i = j
  <2> SUFFICES ASSUME NEW i \in 1 .. Len(q), NEW j \in 1 .. Len(q), i # j PROVE q[i] # q[j]
    OBVIOUS
  <2>1. i < j \/ j < i
    BY <1>1
  <2> QED
    BY <1>2, <2>1
<1>4. q \in Injection(1 .. Len(q), g.nodes)
  BY <1>1, <1>3 DEF Injection, IsInjective
<1>5. IsFiniteSet(1 .. Len(q)) /\ Cardinality(1 .. Len(q)) = Len(q) /\ IsFiniteSet(g.nodes)
  <2>1. IsFiniteSet(1 .. Len(q)) /\ Cardinality(1 .. Len(q)) = Len(q)
    BY <1>1, FS_Interval
  <2> QED
    BY <2>1, GraphFacts
<1>6. Len(q) = Cardinality(g.nodes) <=> q \in Surjection(1 .. Len(q), g.nodes)
  BY <1>4, <1>5, FS_Injection
<1>7. q \in Surjection(1 .. Len(q), g.nodes) <=> Upto(q, Len(q)) = g.nodes
  BY <1>1 DEF Surjection, Upto
<1> QED
  BY <1>3, <1>6, <1>7

\* The loop ends with nothing ready, and what it has placed was placed greedily.
LEMMA KahnEnds ==
  ASSUME NEW g \in Graphs
  PROVE  LET q == topologicalOrder(g)
         IN  q \in Seq(g.nodes) /\ Greedy(g, q) /\ Open(g, Upto(q, Len(q))) = {}
<1> DEFINE k == Cardinality(g.nodes)
<1>1. k \in Nat
  BY GraphFacts
<1>2. PICK f \in [0 .. k -> Loop(g)] :
        /\ f[0] = KahnStart(g) /\ \A i \in 1 .. k : f[i] = KahnTurn(g, f[i - 1])
        /\ Kahn(g, k) = f[k]
  <2> HIDE DEF k
  <2> QED
    BY <1>1, KahnRuns
<1> DEFINE Good(i) == KahnInv(g, f[i]) /\ (f[i].ready = {} \/ Len(f[i].order) = i)
           B == {i \in 0 .. k : ~Good(i)}
<1>3. ASSUME NEW i \in 0 .. k PROVE Good(i)
  <2> SUFFICES ASSUME B # {} PROVE FALSE
    OBVIOUS
  <2>1. PICK m \in B : \A n \in B : m <= n
    <3>1. B \in SUBSET Nat
      BY <1>1
    <3> HIDE DEF B
    <3> QED
      BY <3>1, LeastNat
  <2>2. m \in 0 .. k /\ ~Good(m)
    BY <2>1
  <2>3. Good(0)
    <3>1. Len(f[0].order) = 0
      BY <1>2 DEF KahnStart
    <3> QED
      BY <1>2, <3>1, KahnStarts
  <2>4. m # 0
    BY <2>2, <2>3
  <2>5. m \in 1 .. k /\ m - 1 \in 0 .. k /\ m - 1 \notin B
    BY <1>1, <2>1, <2>2, <2>4
  <2>6. Good(m - 1)
    BY <2>5
  <2>7. f[m - 1] \in Loop(g) /\ f[m] = KahnTurn(g, f[m - 1])
    BY <1>2, <2>5
  <2>8. CASE f[m - 1].ready = {}
    <3>1. f[m] = f[m - 1]
      BY <2>7, <2>8 DEF KahnTurn
    <3> QED
      BY <2>2, <2>6, <2>8, <3>1
  <2>9. CASE f[m - 1].ready # {}
    <3>1. Len(f[m].order) = (m - 1) + 1 /\ KahnInv(g, f[m])
      BY <2>6, <2>7, <2>9, KahnTurns
    <3> QED
      BY <2>2, <2>5, <3>1
  <2> QED
    BY <2>8, <2>9
<1> DEFINE q == f[k].order
           Q == Upto(q, Len(q))
<1>4. topologicalOrder(g) = q /\ f[k] \in Loop(g) /\ q \in Seq(g.nodes)
  BY <1>1, <1>2 DEF topologicalOrder, Loop
<1>5. Good(k)
  BY <1>1, <1>3
<1>6. Greedy(g, q) /\ f[k].ready = Open(g, Q)
  BY <1>5 DEF KahnInv
<1>7. Open(g, Q) = {}
  <2>1. CASE f[k].ready = {}
    BY <1>6, <2>1
  <2>2. CASE Len(q) = k
    <3>1. Q = g.nodes
      BY <1>4, <1>6, <2>2, GreedyFills
    <3> QED
      BY <3>1 DEF Open
  <2> QED
    BY <1>5, <2>1, <2>2
<1> QED
  BY <1>4, <1>6, <1>7

-----------------------------------------------------------------------------
(* Reachability. *)

Closed(g, C) == \A n \in C : adjacency(g, n) \subseteq C

LEMMA SeenRuns ==
  ASSUME NEW g \in Graphs, NEW S \in SUBSET g.nodes, NEW k \in Nat
  PROVE  \E f \in [0 .. k -> SUBSET g.nodes] :
           f[0] = S /\ (\A i \in 1 .. k : f[i] = Widen(g, f[i - 1])) /\ Seen(g, S, k) = f[k]
<1> DEFINE Unrolled(f) == f = [i \in 0 .. k |-> IF i = 0 THEN S ELSE Widen(g, f[i - 1])]
           F == [T \in SUBSET g.nodes |-> Widen(g, T)]
           seen == CHOOSE f : Unrolled(f)
<1>0. \A T \in SUBSET g.nodes : Widen(g, T) \in SUBSET g.nodes
  BY DEF Widen, adjacency
<1>1. PICK f \in [0 .. k -> SUBSET g.nodes] : f[0] = S /\ \A i \in 1 .. k : f[i] = F[f[i - 1]]
  <2>1. F \in [SUBSET g.nodes -> SUBSET g.nodes]
    BY <1>0
  <2> DEFINE X == SUBSET g.nodes
  <2>2. S \in X /\ F \in [X -> X]
    BY <2>1
  <2> HIDE DEF F, X
  <2>3. \E f \in [0 .. k -> X] : f[0] = S /\ \A i \in 1 .. k : f[i] = F[f[i - 1]]
    BY <2>2, Repeats
  <2> QED
    BY <2>3 DEF X
<1>2. ASSUME NEW i \in 1 .. k PROVE f[i] = Widen(g, f[i - 1])
  <2>1. i - 1 \in 0 .. k
    OBVIOUS
  <2>2. f[i - 1] \in SUBSET g.nodes
    BY <2>1
  <2> QED
    BY <1>1, <2>2
<1>3. Unrolled(f)
  BY <1>1, <1>2
<1>4. Unrolled(seen)
  BY <1>3
<1>5. Seen(g, S, k) = seen[k]
  BY DEF Seen
<1>6. DOMAIN seen = 0 .. k /\ seen[0] = S /\ \A i \in 1 .. k : seen[i] = Widen(g, seen[i - 1])
  <2> HIDE DEF seen
  <2> QED
    BY <1>4
<1>7. \A i \in 0 .. k : seen[i] \in SUBSET g.nodes
  <2> HIDE DEF seen
  <2> DEFINE B == {i \in 0 .. k : seen[i] \notin SUBSET g.nodes}
  <2> SUFFICES ASSUME B # {} PROVE FALSE
    OBVIOUS
  <2>0. B \in SUBSET Nat
    OBVIOUS
  <2>1. PICK m \in B : \A n \in B : m <= n
    <3> HIDE DEF B
    <3> QED
      BY <2>0, LeastNat
  <2>2. m # 0
    BY <1>6, <2>1
  <2>3. seen[m - 1] \in SUBSET g.nodes
    BY <2>1, <2>2
  <2>4. m \in 1 .. k /\ seen[m] \notin SUBSET g.nodes
    BY <2>2
  <2>5. seen[m] = Widen(g, seen[m - 1])
    BY <1>6, <2>4
  <2>6. Widen(g, seen[m - 1]) \in SUBSET g.nodes
    BY <1>0, <2>3
  <2> QED
    BY <2>4, <2>5, <2>6
<1>8. seen = [i \in 0 .. k |-> seen[i]]
  <2> HIDE DEF seen
  <2> QED
    BY <1>4
<1>9. seen \in [0 .. k -> SUBSET g.nodes]
  <2> HIDE DEF seen
  <2> QED
    BY <1>7, <1>8
<1> HIDE DEF seen
<1> QED
  BY <1>5, <1>6, <1>9

\* As many rounds as there are nodes reach a fixed point: a round that adds nothing is the last that
\* could, and one that adds something makes the set larger.  What is seen is the least closed set.
LEMMA ReachFacts ==
  ASSUME NEW g \in Graphs, NEW x \in g.nodes
  PROVE  LET R == reachableFrom(g, x)
         IN  /\ R \in SUBSET g.nodes /\ x \in R /\ Closed(g, R)
             /\ \A C \in SUBSET g.nodes : x \in C /\ Closed(g, C) => R \subseteq C
<1> DEFINE k == Cardinality(g.nodes)
<1>1. k \in Nat /\ IsFiniteSet(g.nodes)
  BY GraphFacts
<1>2. PICK f \in [0 .. k -> SUBSET g.nodes] :
        f[0] = {x} /\ (\A i \in 1 .. k : f[i] = Widen(g, f[i - 1])) /\ Seen(g, {x}, k) = f[k]
  <2>1. {x} \in SUBSET g.nodes
    OBVIOUS
  <2> HIDE DEF k
  <2> QED
    BY <1>1, <2>1, SeenRuns, Zenon
<1> DEFINE Good(i) ==
             /\ x \in f[i] /\ (Closed(g, f[i]) \/ Cardinality(f[i]) >= i + 1)
             /\ \A C \in SUBSET g.nodes : x \in C /\ Closed(g, C) => f[i] \subseteq C
           B == {i \in 0 .. k : ~Good(i)}
<1>3. ASSUME NEW i \in 0 .. k PROVE Good(i)
  <2> SUFFICES ASSUME B # {} PROVE FALSE
    OBVIOUS
  <2>1. PICK m \in B : \A n \in B : m <= n
    <3>1. B \in SUBSET Nat
      BY <1>1
    <3> HIDE DEF B
    <3> QED
      BY <3>1, LeastNat
  <2>2. m \in 0 .. k /\ ~Good(m)
    BY <2>1
  <2>3. Good(0)
    <3>1. Cardinality(f[0]) = 1
      BY <1>2, FS_Singleton
    <3> QED
      BY <1>2, <3>1
  <2>4. m # 0
    BY <2>2, <2>3
  <2>5. m \in 1 .. k /\ m - 1 \in 0 .. k /\ m - 1 \notin B
    BY <1>1, <2>1, <2>2, <2>4
  <2>6. Good(m - 1)
    BY <2>5
  <2>7. f[m - 1] \in SUBSET g.nodes /\ f[m] \in SUBSET g.nodes /\ f[m] = Widen(g, f[m - 1])
    BY <1>2, <2>5
  <2> DEFINE S == f[m - 1]
             T == f[m]
  <2>8. S \subseteq T /\ \A n \in S : adjacency(g, n) \subseteq T
    BY <2>7 DEF Widen
  <2>9. \A C \in SUBSET g.nodes : x \in C /\ Closed(g, C) => T \subseteq C
    BY <2>6, <2>7 DEF Widen, Closed
  <2>10. CASE Closed(g, S)
    <3>1. T = S
      BY <2>7, <2>10 DEF Widen, Closed
    <3> QED
      BY <2>2, <2>6, <2>9, <2>10, <3>1
  <2>11. CASE ~Closed(g, S)
    <3>1. T # S
      BY <2>8, <2>11 DEF Closed
    <3>2. IsFiniteSet(S) /\ IsFiniteSet(T)
      BY <1>1, <2>7, FS_Subset
    <3>3. Cardinality(S) \in Nat /\ Cardinality(T) \in Nat
      BY <3>2, FS_CardinalityType
    <3>4. Cardinality(S) <= Cardinality(T) /\ Cardinality(S) # Cardinality(T)
      BY <2>8, <3>1, <3>2, FS_Subset
    <3>5. Cardinality(S) >= (m - 1) + 1
      BY <2>6, <2>11
    <3>6. Cardinality(T) >= m + 1
      <4> HIDE DEF S, T
      <4> QED
        BY <2>5, <3>3, <3>4, <3>5
    <3> QED
      BY <2>2, <2>6, <2>8, <2>9, <3>6
  <2> QED
    BY <2>10, <2>11
<1>4. Good(k) /\ f[k] \in SUBSET g.nodes
  BY <1>1, <1>3
<1>5. Closed(g, f[k])
  <2> SUFFICES ASSUME Cardinality(f[k]) >= k + 1 PROVE FALSE
    BY <1>4
  <2>1. Cardinality(f[k]) <= k /\ IsFiniteSet(f[k])
    BY <1>1, <1>4, FS_Subset
  <2>2. Cardinality(f[k]) \in Nat
    BY <2>1, FS_CardinalityType
  <2> QED
    BY <1>1, <2>1, <2>2
<1>6. reachableFrom(g, x) = f[k]
  BY <1>2 DEF reachableFrom
<1> QED
  BY <1>4, <1>5, <1>6

-----------------------------------------------------------------------------
(* The order. *)

\* A graph is acyclic exactly when the loop places every node.
LEMMA AcyclicFills ==
  ASSUME NEW g \in Graphs
  PROVE  LET q == topologicalOrder(g) IN assertAcyclic(g) <=> Upto(q, Len(q)) = g.nodes
<1> DEFINE q == topologicalOrder(g)
           Q == Upto(q, Len(q))
<1>1. q \in Seq(g.nodes) /\ Greedy(g, q) /\ Open(g, Q) = {}
  BY KahnEnds
<1> HIDE DEF q
<1>2. Len(q) \in Nat /\ q \in [1 .. Len(q) -> g.nodes] /\ Q \subseteq g.nodes
  BY <1>1 DEF Upto
<1>3. ASSUME Q = g.nodes, NEW n \in g.nodes, NEW m \in adjacency(g, n) PROVE n \notin reachableFrom(g, m)
  \* Whatever is reached from m comes no earlier than m, and n comes before it.
  <2>1. m \in g.nodes /\ <<n, m>> \in g.edges
    BY DEF adjacency
  <2>2. PICK i \in 1 .. Len(q) : q[i] = m
    BY <1>3, <2>1 DEF Upto
  <2> DEFINE C == g.nodes \ Upto(q, i - 1)
  <2>3. n \in Upto(q, i - 1)
    BY <1>1, <2>1, <2>2 DEF Greedy, Open, Awaited
  <2>4. m \in C
    BY <1>1, <2>1, <2>2 DEF Greedy, Open
  <2>5. Closed(g, C)
    <3> SUFFICES ASSUME NEW a \in C, NEW b \in adjacency(g, a), b \in Upto(q, i - 1) PROVE FALSE
      BY DEF Closed, adjacency
    <3>1. PICK j \in 1 .. i - 1 : b = q[j]
      BY DEF Upto
    <3>2. j \in 1 .. Len(q)
      BY <1>2
    <3>3. a \in Upto(q, j - 1)
      BY <1>1, <3>1, <3>2 DEF Greedy, Open, Awaited, adjacency
    <3>4. a \in Upto(q, i - 1)
      BY <3>3 DEF Upto
    <3> QED
      BY <3>4
  <2> HIDE DEF C
  <2>6. C \in SUBSET g.nodes
    BY DEF C
  <2>7. reachableFrom(g, m) \subseteq C
    BY <2>1, <2>4, <2>5, <2>6, ReachFacts
  <2> QED
    BY <2>3, <2>7 DEF C
<1>4. ASSUME Q # g.nodes PROVE ~assertAcyclic(g)
  \* Every node left out waits for another one; the one that reaches most is on a cycle.
  <2> DEFINE L == g.nodes \ Q
             R(x) == reachableFrom(g, x)
             N == Cardinality(g.nodes)
  <2>1. L # {} /\ L \subseteq g.nodes
    BY <1>2, <1>4
  <2>2. ASSUME NEW x \in L PROVE \E p \in L : <<p, x>> \in g.edges
    BY <1>1 DEF Open, Awaited
  <2>3. ASSUME NEW x \in L
        PROVE  /\ R(x) \in SUBSET g.nodes /\ x \in R(x) /\ Closed(g, R(x))
               /\ \A C \in SUBSET g.nodes : x \in C /\ Closed(g, C) => R(x) \subseteq C
               /\ IsFiniteSet(R(x)) /\ Cardinality(R(x)) \in Nat /\ Cardinality(R(x)) <= N /\ N \in Nat
    <3>1. /\ R(x) \in SUBSET g.nodes /\ x \in R(x) /\ Closed(g, R(x))
          /\ \A C \in SUBSET g.nodes : x \in C /\ Closed(g, C) => R(x) \subseteq C
      BY ReachFacts
    <3> HIDE DEF R
    <3>2. IsFiniteSet(R(x)) /\ Cardinality(R(x)) <= N /\ N \in Nat
      BY <3>1, GraphFacts, FS_Subset
    <3>3. Cardinality(R(x)) \in Nat
      BY <3>2, FS_CardinalityType
    <3> QED
      BY <3>1, <3>2, <3>3
  <2> HIDE DEF R, N, L
  <2>4. PICK x \in L : \A y \in L : Cardinality(R(y)) <= Cardinality(R(x))
    <3> DEFINE B == {N - Cardinality(R(y)) : y \in L}
    <3>1. B \in SUBSET Nat /\ B # {}
      BY <2>1, <2>3
    <3>2. PICK m \in B : \A n \in B : m <= n
      <4> HIDE DEF B
      <4> QED
        BY <3>1, LeastNat
    <3>3. PICK y \in L : m = N - Cardinality(R(y))
      BY <3>2
    <3>4. ASSUME NEW z \in L PROVE Cardinality(R(z)) <= Cardinality(R(y))
      <4>1. N - Cardinality(R(y)) <= N - Cardinality(R(z))
        BY <3>2, <3>3
      <4> QED
        BY <2>3, <4>1
    <3> QED
      BY <3>4
  <2>5. PICK p \in L : <<p, x>> \in g.edges
    BY <2>2
  <2>6. p \in g.nodes /\ x \in g.nodes /\ x \in adjacency(g, p)
    BY <2>1, <2>5 DEF adjacency
  <2>7. R(x) \subseteq R(p)
    <3>1. x \in R(p) /\ R(p) \in SUBSET g.nodes /\ Closed(g, R(p))
      BY <2>3, <2>6 DEF Closed
    <3> QED
      BY <2>3, <3>1
  <2>8. R(p) = R(x)
    <3>1. IsFiniteSet(R(p)) /\ R(x) \in SUBSET R(p) /\ Cardinality(R(x)) = Cardinality(R(p))
      <4>1. IsFiniteSet(R(p)) /\ R(x) \in SUBSET R(p) /\ Cardinality(R(x)) \in Nat /\ Cardinality(R(p)) \in Nat
        BY <2>3, <2>7
      <4>2. Cardinality(R(x)) <= Cardinality(R(p)) /\ Cardinality(R(p)) <= Cardinality(R(x))
        BY <2>4, <4>1, FS_Subset
      <4> QED
        BY <4>1, <4>2
    <3> QED
      BY <3>1, FS_Subset
  <2>9. p \in R(x)
    BY <2>3, <2>8
  <2> QED
    BY <2>6, <2>9 DEF assertAcyclic, R
<1> QED
  BY <1>3, <1>4 DEF assertAcyclic, q

\* A topological order of a graph as indices: a bijection along which every edge points forward.
LEMMA OrderFacts ==
  ASSUME NEW g \in Graphs, NEW s \in Topological(g)
  PROVE  /\ Len(s) \in Nat /\ s \in [1 .. Len(s) -> g.nodes]
         /\ \A n \in g.nodes : \E i \in 1 .. Len(s) : s[i] = n
         /\ \A i, k \in 1 .. Len(s) : s[i] = s[k] => i = k
         /\ \A e \in g.edges : /\ e[1] \in g.nodes /\ e[2] \in g.nodes
                               /\ \A i, k \in 1 .. Len(s) : e[1] = s[i] /\ e[2] = s[k] => i < k
<1> DEFINE N == Cardinality(g.nodes)
<1>1. IsFiniteSet(g.nodes) /\ g.edges \subseteq g.nodes \X g.nodes
  BY WorkflowAssumption DEF IsGraph
<1>2. N \in Nat
  BY <1>1, FS_CardinalityType
<1>3. s \in [1 .. N -> g.nodes] /\ Permutes(s, g.nodes) /\ Forward(g, s)
  BY DEF Topological
<1>4. Len(s) = N
  BY <1>3 DEF Permutes
<1>5. DOMAIN s = 1 .. N
  BY <1>3
<1>6. \A n \in g.nodes : \E i \in 1 .. N : s[i] = n
  BY <1>3, <1>5 DEF Permutes
<1>7. s \in Surjection(1 .. N, g.nodes)
  BY <1>3, <1>6 DEF Surjection
<1>8. IsFiniteSet(1 .. N) /\ Cardinality(1 .. N) = N
  BY <1>2, FS_Interval
<1>9. s \in Injection(1 .. N, g.nodes)
  BY <1>1, <1>7, <1>8, FS_SurjSameCardinalityImpliesInj
<1>10. \A i, k \in 1 .. N : s[i] = s[k] => i = k
  BY <1>9 DEF Injection, IsInjective
<1>11. \A i \in 1 .. N : Position(s, s[i]) = i
  BY <1>5, <1>10 DEF Position
<1>12. \A e \in g.edges : \A i, k \in 1 .. N : e[1] = s[i] /\ e[2] = s[k] => i < k
  BY <1>3, <1>11 DEF Forward
<1> QED
  BY <1>1, <1>2, <1>3, <1>4, <1>6, <1>10, <1>12

\* A greedy order of all the nodes is a topological one, ...
LEMMA GreedyIsTopological ==
  ASSUME NEW g \in Graphs, NEW q \in Seq(g.nodes), Greedy(g, q), Upto(q, Len(q)) = g.nodes
  PROVE  q \in Topological(g)
<1>1. /\ Len(q) = Cardinality(g.nodes) /\ \A i, j \in 1 .. Len(q) : q[i] = q[j] => i = j
  BY GreedyFills
<1>2. Len(q) \in Nat /\ q \in [1 .. Len(q) -> g.nodes] /\ DOMAIN q = 1 .. Len(q)
  OBVIOUS
<1>3. Permutes(q, g.nodes)
  BY <1>1, <1>2 DEF Permutes, Upto
<1>4. \A i \in 1 .. Len(q) : Position(q, q[i]) = i
  BY <1>1, <1>2 DEF Position
<1>5. ASSUME NEW e \in g.edges PROVE Position(q, e[1]) < Position(q, e[2])
  <2>1. e[1] \in g.nodes /\ e[2] \in g.nodes /\ e = <<e[1], e[2]>>
    BY GraphFacts
  <2>2. PICK i \in 1 .. Len(q) : q[i] = e[2]
    BY <2>1 DEF Upto
  <2>3. e[1] \in Upto(q, i - 1)
    BY <2>1, <2>2 DEF Greedy, Open, Awaited
  <2>4. PICK j \in 1 .. i - 1 : q[j] = e[1]
    BY <2>3 DEF Upto
  <2>5. j \in 1 .. Len(q) /\ j < i
    BY <1>2
  <2> QED
    BY <1>4, <2>2, <2>4, <2>5
<1> QED
  BY <1>1, <1>2, <1>3, <1>5 DEF Topological, Forward

\* ... and the first of them: where another one differs from it for the first time, the node that one
\* takes waits for nothing either.
LEMMA GreedyIsFirst ==
  ASSUME NEW g \in Graphs, NEW q \in Topological(g), Greedy(g, q), NEW s \in Topological(g)
  PROVE  Before(q, s)
<1> DEFINE N == Cardinality(g.nodes)
<1>1. N \in Nat /\ g.nodes \subseteq Nat
  BY GraphFacts
<1>2. /\ Len(q) = N /\ Len(s) = N /\ q \in [1 .. N -> g.nodes] /\ s \in [1 .. N -> g.nodes]
  BY DEF Topological, Permutes
<1>3. /\ \A n \in g.nodes : \E i \in 1 .. N : s[i] = n
      /\ \A i, k \in 1 .. N : s[i] = s[k] => i = k
      /\ \A e \in g.edges : \A i, k \in 1 .. N : e[1] = s[i] /\ e[2] = s[k] => i < k
  BY <1>2, OrderFacts
<1> HIDE DEF N
<1> SUFFICES ASSUME q # s PROVE \E i \in 1 .. N : q[i] < s[i] /\ \A k \in 1 .. i - 1 : q[k] = s[k]
  BY <1>2 DEF Before
<1> DEFINE B == {i \in 1 .. N : q[i] # s[i]}
<1>4. B \in SUBSET Nat /\ B # {}
  BY <1>1, <1>2
<1>5. PICK i \in B : \A k \in B : i <= k
  <2> HIDE DEF B
  <2> QED
    BY <1>4, LeastNat
<1>6. i \in 1 .. N /\ q[i] # s[i] /\ \A k \in 1 .. i - 1 : q[k] = s[k]
  BY <1>1, <1>5
<1>7. Upto(q, i - 1) = Upto(s, i - 1)
  BY <1>6 DEF Upto
<1>8. s[i] \in g.nodes /\ s[i] \notin Upto(s, i - 1)
  BY <1>1, <1>2, <1>3, <1>6 DEF Upto
<1>9. Awaited(g, Upto(s, i - 1), s[i]) = {}
  <2> SUFFICES ASSUME NEW m \in g.nodes, <<m, s[i]>> \in g.edges PROVE m \in Upto(s, i - 1)
    BY DEF Awaited
  <2>1. PICK k \in 1 .. N : s[k] = m
    BY <1>3
  <2>2. k < i
    BY <1>3, <1>6, <2>1
  <2>3. k \in 1 .. i - 1
    BY <1>1, <1>6, <2>2
  <2> QED
    BY <2>1, <2>3 DEF Upto
<1>10. q[i] <= s[i]
  BY <1>2, <1>6, <1>7, <1>8, <1>9 DEF Greedy, Open
<1>11. q[i] \in Nat /\ s[i] \in Nat
  BY <1>1, <1>2, <1>6
<1>12. q[i] < s[i]
  BY <1>6, <1>10, <1>11
<1> QED
  BY <1>6, <1>12

\* What topologicalOrder() computes, for every graph.
LEMMA KahnSorts ==
  ASSUME NEW g \in Graphs
  PROVE  LET o == topologicalOrder(g)
         IN  /\ Len(o) = Cardinality(g.nodes) <=> assertAcyclic(g)
             /\ assertAcyclic(g) => o \in Topological(g) /\ \A s \in Topological(g) : Before(o, s)
<1> DEFINE o == topologicalOrder(g)
<1>1. o \in Seq(g.nodes) /\ Greedy(g, o)
  BY KahnEnds
<1>2. assertAcyclic(g) <=> Upto(o, Len(o)) = g.nodes
  BY AcyclicFills
<1> HIDE DEF o
<1>3. Len(o) = Cardinality(g.nodes) <=> Upto(o, Len(o)) = g.nodes
  BY <1>1, GreedyFills
<1>4. ASSUME assertAcyclic(g) PROVE o \in Topological(g) /\ \A s \in Topological(g) : Before(o, s)
  BY <1>1, <1>2, <1>4, GreedyIsTopological, GreedyIsFirst
<1> QED
  BY <1>2, <1>3, <1>4 DEF o

\* A graph that validateGraph accepts is put into topological order.
LEMMA Sorts ==
  ASSUME NEW g \in Runnable, validateGraph(g)
  PROVE  topologicalOrder(g) \in Topological(g)
<1>1. g \in Graphs
  BY WorkflowAssumption
<1>2. assertAcyclic(g)
  <2>1. g.triggers # {}
    BY FS_EmptySet DEF validateGraph
  <2> QED
    BY <2>1 DEF validateGraph
<1> QED
  BY <1>1, <1>2, KahnSorts

-----------------------------------------------------------------------------
(* Execution. *)

Past   == {"load", "loop", "busy", "finish", "caught"}
Places == {"idle", "begin", "claim", "over"} \cup Past

RunTypes ==
  /\ graph \in Graphs /\ status \in Statuses
  /\ pc \in [Attempts -> Places] /\ at \in [Attempts -> Nat \ {0}]
  /\ skipped \in [Attempts -> BOOLEAN] /\ failed \in [Attempts -> BOOLEAN]
  /\ step \in [graph.nodes -> {"queued", "running"} \cup Done]
  /\ invoked \in [graph.nodes -> [Attempts -> Nat]]

\* Only the attempt that moved the run from `queued` is past its claim, and while it is the run is
\* `running`, so that no other attempt can claim it, and nobody else has executed a node.
Alone ==
  /\ \A a \in Attempts : pc[a] \in Past => status = "running"
  /\ \A a, b \in Attempts : pc[a] \in Past /\ pc[b] \in Past => a = b
  /\ \A a, b \in Attempts : \A n \in graph.nodes : pc[a] \in Past /\ invoked[n][b] > 0 => b = a

Ordered == status # "none" => order \in Topological(graph)

Untouched(n) == \A a \in Attempts : invoked[n][a] = 0

\* Nothing has happened to a run that is not claimed, nor to the counters of an attempt before it.
Fresh ==
  /\ status \in {"none", "queued"} => \A n \in graph.nodes : step[n] = "queued" /\ Untouched(n)
  /\ \A a \in Attempts : pc[a] \in {"idle", "begin", "claim", "load"} => at[a] = 1 /\ ~skipped[a] /\ ~failed[a]

\* The steps before the one an attempt is at have ended, as its counters say, and those after it have
\* not begun.
Behind(a, i) ==
  /\ step[order[i]] \in Done /\ invoked[order[i]][a] > 0
  /\ step[order[i]] = "succeeded" \/ skipped[a] \/ failed[a]
Ahead(i) == step[order[i]] = "queued" /\ Untouched(order[i])
Here(a, i) == IF pc[a] = "busy" THEN step[order[i]] = "running" /\ invoked[order[i]][a] > 0 ELSE Ahead(i)

Progress ==
  \A a \in Attempts : pc[a] \in Past \ {"caught"} =>
    /\ pc[a] = "busy" => at[a] <= Len(order)
    /\ pc[a] = "finish" => at[a] > Len(order)
    /\ \A i \in 1 .. Len(order) :
         /\ i < at[a] => Behind(a, i)
         /\ i = at[a] => Here(a, i)
         /\ i > at[a] => Ahead(i)

RunInv == RunTypes /\ Alone /\ Ordered /\ Fresh /\ Progress /\ OneAttemptInOrder /\ StatusIsHonest

\* The queue numbers the attempts: those beyond the last one have not begun.
Numbered == attempt \in Nat /\ \A a \in Attempts : a > attempt => pc[a] = "idle"

LEMMA NumberedStep ==
  ASSUME pc \in [Attempts -> Places], Numbered, [Next]_vars
  PROVE  Numbered'
<1> USE DEF Numbered, Goto
<1>1. Attempts \subseteq Nat
  BY WorkflowAssumption DEF Attempts
<1>2. ASSUME NEW a \in Attempts, Claim(a) PROVE Numbered'
  BY <1>1, <1>2 DEF Claim
<1>3. ASSUME NEW a \in Attempts, Refuse(a) \/ ClaimRun(a) \/ Load(a) \/ BeginStep(a) \/ Resend(a) PROVE Numbered'
  BY <1>1, <1>3 DEF Refuse, ClaimRun, Load, BeginStep, Resend, Return
<1>4. ASSUME NEW a \in Attempts, EndStep(a) \/ EndLoop(a) \/ Finish(a) \/ Caught(a) PROVE Numbered'
  BY <1>1, <1>4 DEF EndStep, EndLoop, Finish, Caught, Return, Rethrow
<1>5. ASSUME NEW a \in Attempts, Disturb(a) PROVE Numbered'
  BY <1>1, <1>5 DEF Disturb, Crash, Throw, ThrowOutside, LoseLease, Busy, Rethrow
<1>6. CASE CreateRun \/ EnqueueRun \/ Stop \/ UNCHANGED vars
  BY <1>6 DEF CreateRun, EnqueueRun, Stop, vars
<1> QED
  BY <1>2, <1>3, <1>4, <1>5, <1>6 DEF Next, Step

LEMMA RunInit == Init => RunInv
<1> SUFFICES ASSUME Init PROVE RunInv
  OBVIOUS
<1>1. RunTypes
  BY DEF Init, RunTypes, Statuses, Places
<1>2. \A a \in Attempts : pc[a] = "idle" /\ at[a] = 1 /\ ~skipped[a] /\ ~failed[a]
  BY DEF Init
<1>3. \A n \in graph.nodes : step[n] = "queued" /\ Untouched(n)
  BY DEF Init, Untouched
<1>4. graph.edges \subseteq graph.nodes \X graph.nodes
  BY WorkflowAssumption DEF Init, IsGraph
<1> QED
  BY <1>1, <1>2, <1>3, <1>4, WorkflowAssumption DEF Init, RunInv, Alone, Ordered, Fresh, Progress, Past, OneAttemptInOrder, StatusIsHonest,
                                   Untouched, Limit

\* An attempt that only moves, to a place before its claim or to its end, or to the catch, keeps the
\* invariant.
LEMMA OnlyMoves ==
  ASSUME RunInv, NEW a \in Attempts, NEW p \in Places, Goto(a, p),
         UNCHANGED <<graph, status, order, step, invoked, at, skipped, failed>>,
         \/ p = "over"
         \/ p \in {"begin", "claim"} /\ pc[a] \in {"idle", "begin"}
         \/ p = "caught" /\ pc[a] \in Past
  PROVE  RunInv'
<1> USE DEF RunInv
<1>1. pc' \in [Attempts -> Places] /\ \A b \in Attempts : pc'[b] = IF b = a THEN p ELSE pc[b]
  BY DEF Goto, RunTypes
<1>2. RunTypes'
  BY <1>1 DEF RunTypes
<1>3. Alone' /\ Ordered'
  BY <1>1 DEF Alone, Ordered, Past
<1>4. Fresh'
  BY <1>1 DEF Fresh, Untouched
<1>5. Progress'
  BY <1>1 DEF Progress, Past, Behind, Here, Ahead, Untouched
<1> QED
  BY <1>2, <1>3, <1>4, <1>5 DEF OneAttemptInOrder, StatusIsHonest, Limit

\* Setting off a node counts for that node and that attempt only.
LEMMA ExecuteFacts ==
  ASSUME RunTypes, NEW a \in Attempts, Node(a) \in graph.nodes, Execute(a)
  PROVE  /\ invoked' \in [graph.nodes -> [Attempts -> Nat]]
         /\ invoked'[Node(a)][a] = invoked[Node(a)][a] + 1
         /\ \A m \in graph.nodes, b \in Attempts : m # Node(a) \/ b # a => invoked'[m][b] = invoked[m][b]
BY DEF RunTypes, Execute

\* One step of the system keeps the invariant.
LEMMA RunStep ==
  ASSUME RunInv, Numbered, [Next]_vars
  PROVE  RunInv'
<1> USE DEF RunInv
<1>1. CASE CreateRun
  <2>1. order' \in Topological(graph) /\ status = "none" /\ status' = "queued"
        /\ UNCHANGED <<graph, step, invoked, pc, at, skipped, failed>>
    BY <1>1, Sorts DEF CreateRun, mineVars
  <2>2. \A a \in Attempts : pc[a] \notin Past
    BY <2>1 DEF Alone
  <2>3. RunTypes' /\ Alone' /\ Ordered' /\ Progress'
    BY <2>1, <2>2 DEF RunTypes, Alone, Ordered, Progress, Statuses
  <2>4. Fresh' /\ OneAttemptInOrder' /\ StatusIsHonest'
    BY <2>1 DEF Fresh, OneAttemptInOrder, StatusIsHonest, Untouched, Limit
  <2> QED
    BY <2>3, <2>4
<1>2. CASE EnqueueRun \/ Stop \/ UNCHANGED vars \/ \E a \in Attempts : LoseLease(a)
  <2>1. UNCHANGED <<graph, status, order, step, invoked, pc, at, skipped, failed>>
    BY <1>2 DEF EnqueueRun, Stop, vars, LoseLease, runVars, mineVars
  <2>2. RunTypes' /\ Alone' /\ Ordered' /\ Fresh'
    BY <2>1 DEF RunTypes, Alone, Ordered, Fresh, Untouched
  <2>3. Progress'
    BY <2>1 DEF Progress, Behind, Here, Ahead, Untouched
  <2> QED
    BY <2>1, <2>2, <2>3 DEF OneAttemptInOrder, StatusIsHonest, Limit
<1>3. ASSUME NEW a \in Attempts, Claim(a) \/ Crash(a) \/ Throw(a) \/ ThrowOutside(a)
      PROVE  RunInv'
  <2>1. UNCHANGED <<graph, status, order, step, invoked, at, skipped, failed>>
    BY <1>3 DEF Claim, Crash, Throw, ThrowOutside, runVars, mineVars
  <2>2. CASE Claim(a)
    <3>1. Goto(a, "begin") /\ pc[a] = "idle"
      BY <2>2, WorkflowAssumption DEF Claim, Numbered, Attempts
    <3> QED
      BY <2>1, <3>1, OnlyMoves DEF Places
  <2>3. CASE Crash(a) \/ ThrowOutside(a)
    <3>1. Goto(a, "over")
      BY <2>3 DEF Crash, ThrowOutside, Rethrow
    <3> QED
      BY <2>1, <3>1, OnlyMoves DEF Places
  <2>4. CASE Throw(a)
    <3>1. Goto(a, "caught") /\ pc[a] \in Past
      BY <2>4 DEF Throw, Past
    <3> QED
      BY <2>1, <3>1, OnlyMoves DEF Places, Past
  <2> QED
    BY <1>3, <2>2, <2>3, <2>4
<1>4. ASSUME NEW a \in Attempts, Refuse(a)
      PROVE  RunInv'
  <2>1. UNCHANGED <<graph, order, invoked, at, skipped, failed>> /\ pc[a] = "begin"
    BY <1>4 DEF Refuse, runVars, mineVars
  <2>2. CASE UNCHANGED <<status, step>>
    <3>1. Goto(a, "claim") \/ Goto(a, "over")
      BY <1>4 DEF Refuse, Return
    <3> QED
      BY <2>1, <2>2, <3>1, OnlyMoves DEF Places
  <2>3. CASE ~UNCHANGED <<status, step>>
    <3>1. status = "queued" /\ status' = "cancelled" /\ Goto(a, "over")
          /\ step' = [n \in graph.nodes |-> IF step[n] = "queued" THEN "skipped" ELSE step[n]]
      BY <1>4, <2>3 DEF Refuse, Return
    <3>2. \A n \in graph.nodes : step'[n] = "skipped" /\ Untouched(n)'
      BY <2>1, <3>1 DEF Fresh, Untouched
    <3>3. \A b \in Attempts : pc'[b] \notin Past /\ pc'[b] = IF b = a THEN "over" ELSE pc[b]
      BY <3>1 DEF Goto, RunTypes, Alone, Past
    <3>4. RunTypes'
      BY <2>1, <3>1, <3>2 DEF RunTypes, Goto, Places, Statuses, Terminal, Done
    <3>5. Alone' /\ Ordered' /\ Progress'
      BY <2>1, <3>1, <3>3 DEF Alone, Ordered, Progress
    <3>6. Fresh'
      BY <2>1, <3>1, <3>3 DEF Fresh, Untouched
    <3>7. graph.edges \subseteq graph.nodes \X graph.nodes
      BY WorkflowAssumption DEF RunTypes, IsGraph
    <3>8. OneAttemptInOrder'
      BY <2>1, <3>2, <3>7 DEF OneAttemptInOrder, Limit
    <3>9. StatusIsHonest'
      BY <2>1, <3>1, <3>2 DEF StatusIsHonest, Untouched
    <3> QED
      BY <3>4, <3>5, <3>6, <3>8, <3>9
  <2> QED
    BY <2>2, <2>3
<1>5. ASSUME NEW a \in Attempts, ClaimRun(a)
      PROVE  RunInv'
  <2>1. UNCHANGED <<graph, order, step, invoked, at, skipped, failed>> /\ pc[a] = "claim"
    BY <1>5 DEF ClaimRun, runVars, mineVars
  <2>2. CASE UNCHANGED status
    BY <1>5, <2>1, <2>2, OnlyMoves DEF ClaimRun, Claimable, Return, Places
  <2>3. CASE ~UNCHANGED status
    <3>1. status = "queued" /\ status' = "running" /\ Goto(a, "load")
      BY <1>5, <2>3 DEF ClaimRun, Claimable
    <3>2. pc' \in [Attempts -> Places] /\ \A b \in Attempts : pc'[b] = IF b = a THEN "load" ELSE pc[b]
      BY <3>1 DEF Goto, RunTypes, Places, Past
    <3>3. \A b \in Attempts : pc[b] \notin Past
      BY <3>1 DEF Alone
    <3>4. RunTypes' /\ Alone' /\ Ordered' /\ Fresh'
      BY <2>1, <3>1, <3>2, <3>3 DEF RunTypes, Alone, Ordered, Fresh, Statuses, Past, Untouched
    <3>5. Len(order) \in Nat /\ order \in [1 .. Len(order) -> graph.nodes]
      BY <3>1, OrderFacts DEF RunTypes, Ordered
    <3>6. Progress'
      BY <2>1, <3>1, <3>2, <3>3, <3>5 DEF Progress, Fresh, Here, Ahead, Untouched
    <3> QED
      BY <2>1, <3>1, <3>4, <3>6 DEF OneAttemptInOrder, StatusIsHonest, Limit
  <2> QED
    BY <2>2, <2>3
<1>6. ASSUME NEW a \in Attempts, Load(a) \/ EndLoop(a)
      PROVE  RunInv'
  <2>1. UNCHANGED <<graph, status, order, step, invoked, at, skipped, failed>>
    BY <1>6 DEF Load, EndLoop, runVars, mineVars
  <2>2. PICK p \in {"loop", "finish"} : Goto(a, p) /\ (p = "finish" => at[a] > Len(order))
    BY <1>6 DEF Load, EndLoop
  <2>3. pc[a] \in {"load", "loop"}
    BY <1>6 DEF Load, EndLoop
  <2>4. pc' \in [Attempts -> Places] /\ \A b \in Attempts : pc'[b] = IF b = a THEN p ELSE pc[b]
    BY <2>2 DEF Goto, RunTypes, Places, Past
  <2>5. RunTypes' /\ Alone' /\ Ordered' /\ Fresh'
    BY <2>1, <2>3, <2>4 DEF RunTypes, Alone, Ordered, Fresh, Past, Untouched
  <2>6. Progress'
    BY <2>1, <2>2, <2>3, <2>4 DEF Progress, Behind, Here, Ahead, Past, Untouched
  <2> QED
    BY <2>1, <2>5, <2>6 DEF OneAttemptInOrder, StatusIsHonest, Limit
<1>7. ASSUME NEW a \in Attempts, BeginStep(a) \/ Resend(a) \/ EndStep(a)
      PROVE  RunInv'
  <2> DEFINE i == at[a]
             n == order[i]
  <2>1. UNCHANGED <<graph, status, order>> /\ pc[a] \in {"loop", "busy"} /\ status = "running"
        /\ \A b \in Attempts : pc[b] \in Past => b = a
    BY <1>7 DEF BeginStep, Resend, EndStep, runVars, Alone, Past
  <2>2. order \in Topological(graph)
    BY <2>1 DEF Ordered
  <2>3. /\ Len(order) \in Nat /\ order \in [1 .. Len(order) -> graph.nodes]
        /\ \A m \in graph.nodes : \E k \in 1 .. Len(order) : order[k] = m
        /\ \A k, l \in 1 .. Len(order) : order[k] = order[l] => k = l
    BY <2>2, OrderFacts DEF RunTypes
  <2>4. i \in 1 .. Len(order) /\ n \in graph.nodes
    BY <1>7, <2>1, <2>3 DEF BeginStep, Resend, EndStep, RunTypes, Progress, Past
  <2>5. \A e \in graph.edges : /\ e[1] \in graph.nodes /\ e[2] \in graph.nodes
                               /\ \A k, l \in 1 .. Len(order) : e[1] = order[k] /\ e[2] = order[l] => k < l
    BY <2>2, OrderFacts DEF RunTypes
  <2>6. CASE BeginStep(a)
    <3>1. /\ UNCHANGED <<at, skipped, failed>> /\ pc[a] = "loop" /\ Execute(a)
          /\ step' = [step EXCEPT ![n] = "running"] /\ pc' = [pc EXCEPT ![a] = "busy"]
      BY <2>6 DEF BeginStep, Node, Goto, mineVars
    <3>2. /\ \A k \in 1 .. Len(order) : /\ k < i => Behind(a, k)
                                        /\ k >= i => Ahead(k)
      BY <2>3, <2>4, <3>1 DEF Progress, Past, Here
    <3>0. /\ invoked' \in [graph.nodes -> [Attempts -> Nat]] /\ invoked'[n][a] = 1 /\ Untouched(n)
          /\ \A m \in graph.nodes, b \in Attempts : m # n \/ b # a => invoked'[m][b] = invoked[m][b]
      BY <2>4, <3>1, <3>2, ExecuteFacts DEF Node, Ahead, Untouched
    <3>3. RunTypes'
      BY <2>1, <2>4, <3>0, <3>1 DEF RunTypes, Places, Past
    <3>4. Alone' /\ Ordered' /\ Fresh' /\ StatusIsHonest'
      <4>1. \A b \in Attempts : pc'[b] \in Past => b = a
        BY <2>1, <3>1 DEF RunTypes
      <4>2. ASSUME NEW m \in graph.nodes, NEW b \in Attempts, invoked'[m][b] > 0 PROVE b = a
        BY <2>1, <3>0, <3>1, <4>2 DEF Alone, Past
      <4> QED
        BY <2>1, <3>1, <4>1, <4>2 DEF RunTypes, Alone, Ordered, Fresh, StatusIsHonest
    <3>5. \A k \in 1 .. Len(order) :
            /\ k = i => step'[order[k]] = "running" /\ invoked'[order[k]][a] = 1
            /\ k # i => /\ step'[order[k]] = step[order[k]]
                       /\ \A b \in Attempts : invoked'[order[k]][b] = invoked[order[k]][b]
      <4>1. step \in [graph.nodes -> {"queued", "running"} \cup Done]
        BY DEF RunTypes
      <4>2. step'[n] = "running" /\ invoked'[n][a] = 1
        BY <2>4, <3>0, <3>1, <4>1
      <4>3. ASSUME NEW k \in 1 .. Len(order), k # i
            PROVE  /\ step'[order[k]] = step[order[k]]
                   /\ \A b \in Attempts : invoked'[order[k]][b] = invoked[order[k]][b]
        <5>1. order[k] \in graph.nodes /\ order[k] # n
          BY <2>3, <2>4, <4>3
        <5> QED
          BY <3>0, <3>1, <4>1, <5>1
      <4> QED
        BY <4>2, <4>3
    <3>6. Progress'
      <4>1. \A k \in 1 .. Len(order) : /\ k < i => Behind(a, k)'
                                       /\ k > i => Ahead(k)'
        BY <2>1, <2>4, <3>1, <3>2, <3>5 DEF Behind, Ahead, Untouched
      <4>2. Here(a, i)'
        BY <2>1, <2>4, <3>1, <3>5 DEF RunTypes, Here
      <4> QED
        BY <2>1, <2>3, <2>4, <3>1, <4>1, <4>2 DEF RunTypes, Progress, Past
    <3>7. /\ \A m, l \in graph.nodes : \A b, c \in Attempts : invoked'[m][b] > 0 /\ invoked'[l][c] > 0 => b = c
          /\ \A m \in graph.nodes : \A b \in Attempts : invoked'[m][b] <= Limit(m)
      <4>1. ASSUME NEW m \in graph.nodes, NEW b \in Attempts, invoked'[m][b] > 0 PROVE b = a
        BY <2>1, <3>0, <3>1, <4>1 DEF Alone, Past
      <4>2. ASSUME NEW m \in graph.nodes, NEW b \in Attempts PROVE invoked'[m][b] <= Limit(m)
        BY <3>0, <4>2, WorkflowAssumption DEF OneAttemptInOrder, Limit
      <4> QED
        BY <4>1, <4>2
    <3>8. ASSUME NEW e \in graph.edges, step'[e[2]] \in {"running", "succeeded", "failed"}
          PROVE  step'[e[1]] \in Done
      <4>1. PICK k, l \in 1 .. Len(order) : e[1] = order[k] /\ e[2] = order[l] /\ k < l
        BY <2>3, <2>5
      <4>2. l <= i
        BY <2>4, <3>2, <3>5, <3>8, <4>1 DEF Ahead, Untouched
      <4> QED
        BY <2>4, <3>2, <3>5, <4>1, <4>2 DEF Behind
    <3> QED
      BY <2>1, <3>3, <3>4, <3>6, <3>7, <3>8 DEF OneAttemptInOrder, Limit
  <2>8. CASE Resend(a)
    <3>1. UNCHANGED <<step, pc, at, skipped, failed>> /\ pc[a] = "busy" /\ Execute(a)
          /\ invoked[n][a] < Limit(n)
      BY <2>8 DEF Resend, Node, mineVars
    <3>2. /\ invoked' \in [graph.nodes -> [Attempts -> Nat]] /\ invoked'[n][a] = invoked[n][a] + 1
          /\ \A m \in graph.nodes, b \in Attempts : m # n \/ b # a => invoked'[m][b] = invoked[m][b]
      BY <2>4, <3>1, ExecuteFacts DEF Node
    <3>3. invoked[n][a] \in Nat
      BY <2>4 DEF RunTypes
    <3>4. ASSUME NEW m \in graph.nodes, NEW b \in Attempts, invoked'[m][b] > 0 PROVE b = a
      BY <2>1, <3>1, <3>2, <3>4 DEF Alone, Past
    <3>5. RunTypes' /\ Alone' /\ Ordered' /\ Fresh' /\ StatusIsHonest'
      BY <2>1, <3>1, <3>2, <3>4 DEF RunTypes, Alone, Ordered, Fresh, StatusIsHonest
    <3>6. ASSUME NEW m \in graph.nodes, NEW b \in Attempts PROVE invoked'[m][b] <= Limit(m)
      <4>1. CASE m = n /\ b = a
        BY <3>1, <3>2, <3>3, <4>1, WorkflowAssumption DEF Limit
      <4>2. CASE m # n \/ b # a
        BY <3>2, <4>2 DEF OneAttemptInOrder
      <4> QED
        BY <4>1, <4>2
    <3>7. \A k \in 1 .. Len(order) :
            /\ k = i => invoked'[order[k]][a] > 0
            /\ k # i => \A b \in Attempts : invoked'[order[k]][b] = invoked[order[k]][b]
      BY <2>3, <2>4, <3>2, <3>3
    <3>8. \A k \in 1 .. Len(order) : /\ k < i => Behind(a, k)
                                     /\ k = i => step[order[k]] = "running"
                                     /\ k > i => Ahead(k)
      BY <2>4, <3>1 DEF Progress, Past, Here
    <3>9. Progress'
      <4>1. \A k \in 1 .. Len(order) : /\ k < i => Behind(a, k)'
                                       /\ k = i => Here(a, k)'
                                       /\ k > i => Ahead(k)'
        BY <2>1, <2>4, <3>1, <3>7, <3>8 DEF Behind, Here, Ahead, Untouched
      <4> QED
        BY <2>1, <2>3, <2>4, <3>1, <4>1 DEF RunTypes, Progress, Past
    <3> QED
      BY <2>1, <3>1, <3>4, <3>5, <3>6, <3>9 DEF OneAttemptInOrder, Limit
  <2>7. CASE EndStep(a)
    <3>1. PICK r \in Outcomes(Node(a)) :
            /\ step' = [step EXCEPT ![n] = r]
            /\ skipped' = [skipped EXCEPT ![a] = @ \/ r = "skipped"]
            /\ failed' = [failed EXCEPT ![a] = @ \/ r = "failed"]
      BY <2>7 DEF EndStep, Node
    <3>2. /\ r \in Done /\ (r = "succeeded" \/ r = "skipped" \/ r = "failed")
      BY DEF Outcomes, Done
    <3>3. UNCHANGED invoked /\ at' = [at EXCEPT ![a] = @ + 1] /\ pc' = [pc EXCEPT ![a] = "loop"] /\ pc[a] = "busy"
      BY <2>7 DEF EndStep, Goto
    <3>4. \A k \in 1 .. Len(order) : /\ k < i => Behind(a, k)
                                     /\ k = i => invoked[order[k]][a] > 0
                                     /\ k > i => Ahead(k)
      BY <2>4, <3>3 DEF Progress, Past, Here
    <3>5. /\ skipped' \in [Attempts -> BOOLEAN] /\ failed' \in [Attempts -> BOOLEAN]
          /\ skipped'[a] <=> skipped[a] \/ r = "skipped"
          /\ failed'[a] <=> failed[a] \/ r = "failed"
          /\ \A b \in Attempts : b # a => skipped'[b] = skipped[b] /\ failed'[b] = failed[b]
      BY <3>1, Zenon DEF RunTypes
    <3>6. RunTypes'
      BY <2>1, <2>4, <3>1, <3>2, <3>3, <3>5 DEF RunTypes, Places, Past
    <3>7. Alone' /\ Ordered' /\ StatusIsHonest'
      BY <2>1, <3>3 DEF RunTypes, Alone, Ordered, StatusIsHonest, Past
    <3>8. Fresh'
      BY <2>1, <3>3, <3>5 DEF RunTypes, Fresh, Untouched
    <3>9. \A k \in 1 .. Len(order) : /\ k = i => step'[order[k]] = r
                                     /\ k # i => step'[order[k]] = step[order[k]]
      BY <2>3, <2>4, <3>1 DEF RunTypes
    <3>10. \A k \in 1 .. Len(order) : /\ k <= i => Behind(a, k)'
                                      /\ k > i => Ahead(k)'
      BY <2>1, <2>4, <3>2, <3>3, <3>4, <3>5, <3>9 DEF Behind, Ahead, Untouched
    <3>11. Progress'
      BY <2>1, <2>3, <2>4, <3>3, <3>10 DEF RunTypes, Progress, Here, Past, Untouched
    <3>12. ASSUME NEW e \in graph.edges, step'[e[2]] \in {"running", "succeeded", "failed"}
          PROVE  step'[e[1]] \in Done
      <4>1. PICK k, l \in 1 .. Len(order) : e[1] = order[k] /\ e[2] = order[l] /\ k < l
        BY <2>3, <2>5
      <4>2. l <= i
        BY <2>4, <3>4, <3>9, <3>12, <4>1 DEF Ahead, Untouched
      <4> QED
        BY <2>4, <3>4, <3>9, <4>1, <4>2 DEF Behind
    <3> QED
      BY <2>1, <3>3, <3>6, <3>7, <3>8, <3>11, <3>12 DEF OneAttemptInOrder, Limit
  <2> QED
    BY <1>7, <2>6, <2>7, <2>8
<1>8. ASSUME NEW a \in Attempts, Finish(a) \/ Caught(a)
      PROVE  RunInv'
  <2>1. UNCHANGED <<graph, order, step, invoked, at, skipped, failed>> /\ pc[a] \in {"finish", "caught"}
        /\ Goto(a, "over")
    BY <1>8 DEF Finish, Caught, runVars, mineVars, Return, Rethrow
  <2>2. status = "running" /\ \A b \in Attempts : pc[b] \in Past => b = a
    BY <2>1 DEF Alone, Past
  <2>3. status' \in {"succeeded", "failed"}
        /\ (status' = "succeeded" => pc[a] = "finish" /\ ~skipped[a] /\ ~failed[a])
    BY <1>8, <2>2 DEF Finish, Caught, finishRun, Verdict
  <2>4. pc' \in [Attempts -> Places] /\ \A b \in Attempts : pc'[b] \notin Past /\ (b # a => pc'[b] = pc[b])
    BY <2>1, <2>2 DEF Goto, RunTypes, Places, Past
  <2>5. RunTypes' /\ Alone' /\ Ordered' /\ Progress'
    BY <2>1, <2>2, <2>3, <2>4 DEF RunTypes, Alone, Ordered, Progress, Statuses, Terminal
  <2>6. Fresh'
    BY <2>1, <2>3, <2>4 DEF Fresh, Goto, RunTypes, Untouched
  <2>7. StatusIsHonest'
    <3>1. ASSUME status' = "succeeded", NEW n \in graph.nodes
          PROVE  step[n] = "succeeded" /\ invoked[n][a] > 0
      <4>1. Len(order) \in Nat /\ \E i \in 1 .. Len(order) : order[i] = n
        BY <2>2, OrderFacts DEF RunTypes, Ordered
      <4>2. PICK i \in 1 .. Len(order) : order[i] = n
        BY <4>1
      <4>3. at[a] > Len(order) /\ at[a] \in Nat
        BY <2>3, <3>1 DEF RunTypes, Progress, Past
      <4>4. i < at[a]
        BY <4>1, <4>3
      <4> QED
        BY <2>3, <3>1, <4>2, <4>4 DEF Progress, Behind, Past
    <3> QED
      BY <2>1, <2>3, <3>1 DEF StatusIsHonest
  <2> QED
    BY <2>1, <2>5, <2>6, <2>7 DEF OneAttemptInOrder, Limit
<1> QED
  BY <1>1, <1>2, <1>3, <1>4, <1>5, <1>6, <1>7, <1>8 DEF Next, Step, Disturb

THEOREM RunInvariant == Spec => [](RunInv /\ Numbered)
<1>1. Init => RunInv /\ Numbered
  BY RunInit DEF Init, Numbered
<1>2. RunInv /\ Numbered /\ [Next]_vars => (RunInv /\ Numbered)'
  BY RunStep, NumberedStep DEF RunInv, RunTypes
<1> QED
  BY <1>1, <1>2, PTL DEF Spec

\* However the job is retried, and beside an attempt that lost its lease, one attempt alone executes
\* nodes: it sets off a node once, or an isolated node as often as the AWS client sends one Invoke, and
\* begins none before those it depends on have ended.  The claim of the `queued` row lets one attempt
\* through, and that one follows the order the rows were stored in.
THEOREM OneAttemptExecutes == Spec => []OneAttemptInOrder
<1>1. RunInv /\ Numbered => OneAttemptInOrder
  BY DEF RunInv
<1> QED
  BY <1>1, RunInvariant, PTL

\* A run shown as succeeded executed every node and each succeeded; one shown as cancelled executed
\* none, whatever attempts overlap or die.
THEOREM HonestStatus == Spec => []StatusIsHonest
<1>1. RunInv /\ Numbered => StatusIsHonest
  BY DEF RunInv
<1> QED
  BY <1>1, RunInvariant, PTL

-----------------------------------------------------------------------------
\* OrderIsCanonical: for every graph Kahn's loop with its sorted ready list yields the first, by node id,
\* of the orders that respect the edges, and it stops early exactly when the graph has a cycle.
THEOREM CanonicalOrder == Spec => []OrderIsCanonical
<1>1. RunInv /\ Numbered => OrderIsCanonical
  <2> SUFFICES ASSUME RunInv PROVE OrderIsCanonical
    OBVIOUS
  <2>1. graph \in Graphs
    BY DEF RunInv, RunTypes
  <2> QED
    BY <2>1, KahnSorts DEF OrderIsCanonical
<1> QED
  BY <1>1, RunInvariant, PTL
=============================================================================
