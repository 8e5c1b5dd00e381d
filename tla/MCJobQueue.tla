----------------------------- MODULE MCJobQueue -----------------------------
(***************************************************************************)
(* Instances of JobQueue for TLC.                                          *)
(***************************************************************************)
EXTENDS JobQueue, TLC

CONSTANTS j1, j2, w1, w2, s1, s2, k1

TwoSlotsOneEach == s1 :> w1 @@ s2 :> w2
AllKinds        == [w \in Workers |-> Jobs]
OneKey          == [j \in Jobs |-> k1]
NoKeys          == [j \in Jobs |-> NoKey]
SecondFirst     == [j \in Jobs |-> IF j = j2 THEN 1 ELSE 0]
AllZero         == [j \in Jobs |-> 0]
Twice           == [j \in Jobs |-> 2]
=============================================================================
