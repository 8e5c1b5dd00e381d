--------------------------- MODULE MCUsageCharging ---------------------------
(***************************************************************************)
(* Instances of UsageCharging for TLC.                                     *)
(***************************************************************************)
EXTENDS UsageCharging, TLC

CONSTANTS i1, i2, c1, c2, o1, o2

\* Every hour is one organization's, or the last one is another's.
OneOrg == [g \in Grains |-> o1]
TwoOrgs == [g \in Grains |-> IF \E h \in Grains : h > g THEN o1 ELSE o2]

Jobs == Permutations(Importers) \cup Permutations(Chargers)
=============================================================================
