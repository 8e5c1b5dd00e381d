--------------------------- MODULE MCCreditLedger ---------------------------
(***************************************************************************)
(* Instances of CreditLedger for TLC.                                      *)
(***************************************************************************)
EXTENDS CreditLedger, TLC

CONSTANTS c1, c2, h1, h2, t1, k1

OneTopUp == t1 :> 3
OneFee   == t1 :> 1
=============================================================================
