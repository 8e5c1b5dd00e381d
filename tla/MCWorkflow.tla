----------------------------- MODULE MCWorkflow -----------------------------
(* Workflow for TLC. *)
EXTENDS Workflow

Graph(N, I, E) == [nodes |-> 1 .. N, triggers |-> {1}, isolated |-> I, edges |-> E]

\* Every graph on three nodes, and on four without self-edges, is put into an order.
MCSmall  == {Graph(3, {}, E) : E \in SUBSET ((1 .. 3) \X (1 .. 3))}
MCLarger == {Graph(4, {}, E) : E \in SUBSET {e \in (1 .. 4) \X (1 .. 4) : e[1] # e[2]}}

\* A chain whose ids do not follow it, and a diamond, are run.
MCChain   == Graph(3, {2, 3}, {<<1, 3>>, <<3, 2>>})
MCDiamond == Graph(4, {3}, {<<1, 2>>, <<1, 3>>, <<2, 4>>, <<3, 4>>})

MCRunnable == {MCChain, MCDiamond}
MCGraphs   == MCSmall \cup MCLarger \cup MCRunnable
=============================================================================
