------------------------------ MODULE Account ------------------------------
(***************************************************************************)
(* What the ledger and its holds promise their callers, without locks,     *)
(* statements or transactions: a customer's credit is what is free and a   *)
(* pot for each open hold; every operation is one step that takes no more  *)
(* than is there when it happens, each key moves money once, and whatever  *)
(* is taken is earned.  CreditLedger implements it.                        *)
(***************************************************************************)
EXTENDS Integers

CONSTANTS
  Holds,
  Deposits, Credit, Fee,  \* top-ups, what each credits and its fee
  Payments,               \* keys of payments from what is free
  KeyOf                   \* [Holds -> key of the payment the hold is for]

VARIABLES
  free,    \* what can be spent or reserved
  pot,     \* [Holds -> what is set aside for the hold]
  phase,   \* [Holds -> {"none", "open", "closed"}]
  used,    \* keys that have moved money
  earned   \* what the platform has been paid

accountVars == <<free, pot, phase, used, earned>>

Deposit(k) ==
  /\ k \notin used /\ used' = used \cup {k}
  /\ free' = free + Credit[k] /\ earned' = earned + Fee[k]
  /\ UNCHANGED <<pot, phase>>

Pay(k, d) ==
  /\ k \notin used /\ used' = used \cup {k}
  /\ free' = free - d /\ earned' = earned + d
  /\ UNCHANGED <<pot, phase>>

\* A hold is for one run: it is opened once.
Open(h, a) ==
  /\ phase[h] = "none"
  /\ phase' = [phase EXCEPT ![h] = "open"]
  /\ pot' = [pot EXCEPT ![h] = a] /\ free' = free - a
  /\ UNCHANGED <<used, earned>>

Empty(h) == phase' = [phase EXCEPT ![h] = "closed"] /\ pot' = [pot EXCEPT ![h] = 0]

\* Released, expired, or settled for nothing.
GiveBack(h) ==
  /\ phase[h] = "open" /\ Empty(h)
  /\ free' = free + pot[h]
  /\ UNCHANGED <<used, earned>>

\* The run may cost more than its pot: the rest comes out of what is free, and what is not there
\* is not taken.
Settle(h, d) ==
  /\ phase[h] = "open" /\ Empty(h)
  /\ KeyOf[h] \notin used /\ used' = used \cup {KeyOf[h]}
  /\ free' = free + pot[h] - d /\ earned' = earned + d

AccountInit ==
  /\ free = 0 /\ used = {} /\ earned = 0
  /\ pot = [h \in Holds |-> 0] /\ phase = [h \in Holds |-> "none"]

\* Nothing takes more than is there.
AccountNext ==
  \/ \E k \in Deposits : Deposit(k)
  \/ \E k \in Payments, d \in 0..free : Pay(k, d)
  \/ \E h \in Holds, a \in 0..free : Open(h, a)
  \/ \E h \in Holds : GiveBack(h) \/ \E d \in 0..(free + pot[h]) : Settle(h, d)

AccountSpec == AccountInit /\ [][AccountNext]_accountVars
=============================================================================
