----------------------------- MODULE MCSandbox -----------------------------
(* Sandbox for TLC. *)
EXTENDS Sandbox

CONSTANTS j1, j2

Situation(n, ts, b, d) == [asks |-> n, trouble |-> ts, budget |-> b, deleter |-> d]

\* The user asks twice (start, start again or destroy) while attempts fail twice, so that a job can
\* be buried, or while the organization is suspended, and three times while the container is lost;
\* or the project is deleted.
MCSetups ==
  {Situation(2, {"crash", "throw", "problem"}, 2, "user"), Situation(3, {"loss"}, 1, "user"),
   Situation(2, {"suspend"}, 0, "user"), Situation(1, {"crash", "throw", "loss"}, 1, "project")}

\* For the refuted claims: one situation each.  In the last nothing fails: the user asks three times
\* for the sandbox and then for its deletion.
MCProblem == {Situation(2, {"problem"}, 1, "user")}
MCProject == {Situation(1, {}, 0, "project")}
MCPatient == {Situation(4, {}, 0, "user")}
=============================================================================
