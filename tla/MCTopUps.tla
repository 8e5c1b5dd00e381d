------------------------------ MODULE MCTopUps ------------------------------
(***************************************************************************)
(* Instances of TopUps for TLC.                                            *)
(***************************************************************************)
EXTENDS TopUps, TLC

CONSTANTS t1, t2
=============================================================================
