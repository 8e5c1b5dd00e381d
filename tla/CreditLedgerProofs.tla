------------------------- MODULE CreditLedgerProofs -------------------------
(***************************************************************************)
(* Theorems about CreditLedger, for every set of clients, holds and keys   *)
(* and every amount.                                                       *)
(***************************************************************************)
EXTENDS CreditLedger, FiniteSetTheorems, TLAPS

\* A transaction carries the arguments its operation needs.
Args ==
  \A c \in Clients :
    /\ op[c] \in {"place", "settle"} => hold[c] \in Holds
    /\ op[c] = "settle" => key[c] = HoldKey(hold[c])
    /\ op[c] \in {"spend", "charge"} => key[c] \in Debits

Typed == TypeOK /\ Args

\* What a transaction's end does to the variables it writes.
LEMMA EndType ==
  ASSUME Typed, NEW c \in Clients, End(c)
  PROVE  /\ accountLock' \in Clients \cup {NULL}
         /\ holdLock' \in [Holds -> Clients \cup {NULL}]
         /\ pc' \in [Clients -> {"idle", "lock", "readPosted", "readHeld", "write"}]
         /\ op' \in [Clients -> {"none", "place", "settle", "spend", "charge"}]
         /\ hold' \in [Clients -> Holds \cup {NULL}]
         /\ key' \in [Clients -> Debits \cup {NULL} \cup {HoldKey(h) : h \in Holds}]
         /\ usage' \in [Clients -> Nat] /\ fee' \in [Clients -> Nat] /\ storage' \in [Clients -> Nat]
         /\ seenPosted' \in [Clients -> Int] /\ seenHeld' \in [Clients -> Int]
         /\ Args'
<1> USE DEF Typed, TypeOK, End, Forget
<1>1. accountLock' \in Clients \cup {NULL} /\ holdLock' \in [Holds -> Clients \cup {NULL}]
  OBVIOUS
<1>2. /\ pc' \in [Clients -> {"idle", "lock", "readPosted", "readHeld", "write"}]
      /\ op' \in [Clients -> {"none", "place", "settle", "spend", "charge"}]
      /\ hold' \in [Clients -> Holds \cup {NULL}]
  OBVIOUS
<1>3. key' \in [Clients -> Debits \cup {NULL} \cup {HoldKey(h) : h \in Holds}]
  OBVIOUS
<1>4. /\ usage' \in [Clients -> Nat] /\ fee' \in [Clients -> Nat] /\ storage' \in [Clients -> Nat]
      /\ seenPosted' \in [Clients -> Int] /\ seenHeld' \in [Clients -> Int]
  OBVIOUS
<1>5. Args'
  BY DEF Args
<1> QED
  BY <1>1, <1>2, <1>3, <1>4, <1>5

\* What a transaction's start does to the variables it writes.
LEMMA StartType ==
  ASSUME Typed, NEW c \in Clients,
         NEW o \in {"place", "settle", "spend", "charge"}, NEW h \in Holds \cup {NULL},
         NEW k \in Debits \cup {NULL} \cup {HoldKey(x) : x \in Holds},
         NEW u \in Nat, NEW f \in Nat, NEW g \in Nat,
         o \in {"place", "settle"} => h \in Holds,
         o = "settle" => k = HoldKey(h),
         o \in {"spend", "charge"} => k \in Debits,
         Start(c, o, h, k, u, f, g)
  PROVE  /\ pc' \in [Clients -> {"idle", "lock", "readPosted", "readHeld", "write"}]
         /\ op' \in [Clients -> {"none", "place", "settle", "spend", "charge"}]
         /\ hold' \in [Clients -> Holds \cup {NULL}]
         /\ key' \in [Clients -> Debits \cup {NULL} \cup {HoldKey(x) : x \in Holds}]
         /\ usage' \in [Clients -> Nat] /\ fee' \in [Clients -> Nat] /\ storage' \in [Clients -> Nat]
         /\ Args'
<1> USE DEF Typed, TypeOK, Start
<1>1. /\ pc' \in [Clients -> {"idle", "lock", "readPosted", "readHeld", "write"}]
      /\ op' \in [Clients -> {"none", "place", "settle", "spend", "charge"}]
      /\ hold' \in [Clients -> Holds \cup {NULL}]
  OBVIOUS
<1>2. key' \in [Clients -> Debits \cup {NULL} \cup {HoldKey(x) : x \in Holds}]
  OBVIOUS
<1>3. usage' \in [Clients -> Nat] /\ fee' \in [Clients -> Nat] /\ storage' \in [Clients -> Nat]
  OBVIOUS
<1>4. Args'
  <2> SUFFICES ASSUME NEW d \in Clients
               PROVE  /\ op'[d] \in {"place", "settle"} => hold'[d] \in Holds
                      /\ op'[d] = "settle" => key'[d] = HoldKey(hold'[d])
                      /\ op'[d] \in {"spend", "charge"} => key'[d] \in Debits
    BY DEF Args
  <2>1. CASE d = c
    BY <2>1
  <2>2. CASE d # c
    <3>1. op'[d] = op[d] /\ hold'[d] = hold[d] /\ key'[d] = key[d]
      BY <2>2
    <3> QED
      BY <3>1 DEF Args
  <2> QED
    BY <2>1, <2>2
<1> QED
  BY <1>1, <1>2, <1>3, <1>4

\* The debits are natural numbers, and the parts a debit pays add up to it.
LEMMA SettleDebitType ==
  ASSUME Typed, NEW c \in Clients, op[c] = "settle"
  PROVE  /\ SettleDebit(c) \in Nat
         /\ SettleDebit(c) <= Most(Available(c) + amount[hold[c]], 0)
BY DEF Typed, TypeOK, Args, SettleDebit, Least, Most, Available

LEMMA ChargeDebitType ==
  ASSUME Typed, NEW c \in Clients
  PROVE  /\ ChargeDebit(c) \in Nat
         /\ ChargeDebit(c) <= Most(Available(c), 0)
         /\ ChargeDebit(c) <= Most(Available(c) - Reserve, 0) + storage[c]
BY LedgerAssumption DEF Typed, TypeOK, ChargeDebit, ProtectedUsageDebit, Least, Most, Available

LEMMA PaidParts ==
  ASSUME Typed, NEW c \in Clients, NEW d \in Nat
  PROVE  /\ PaidUsage(c, d) \in Nat /\ PaidOverhead(c, d) \in Nat
         /\ PaidUsage(c, d) + PaidOverhead(c, d) = d
BY DEF Typed, TypeOK, PaidUsage, PaidOverhead, Least

\* A posting either is skipped, because its key is known, or takes d from the customer and
\* gives the two parts to the platform.
LEMMA DebitEffect ==
  ASSUME Typed, NEW k, k \in Debits \/ \E h \in Holds : k = HoldKey(h),
         NEW pu \in Int, NEW po \in Int, NEW d \in Int, Debit(k, pu, po, d)
  PROVE  /\ posted' \in Int /\ revenue' \in Int /\ clearing' \in Int
         /\ keys' \subseteq TopUps \cup Debits \cup {HoldKey(h) : h \in Holds}
         /\ \/ posted' = posted /\ revenue' = revenue /\ clearing' = clearing
            \/ posted' = posted - d /\ revenue' = revenue + pu + po /\ clearing' = clearing
<1> USE DEF Typed, TypeOK
<1>1. CASE k \in keys
  BY <1>1 DEF Debit, ledgerVars
<1>2. CASE k \notin keys
  <2>1. /\ keys' = keys \cup {k} /\ posted' = posted - d
        /\ revenue' = revenue + pu + po /\ clearing' = clearing
    BY <1>2 DEF Debit
  <2> QED
    BY <2>1
<1> QED
  BY <1>1, <1>2

\* The next-state relation preserves the types and the arguments: one step per action.
LEMMA TypeStep == Typed /\ [Next]_vars => Typed'
<1> SUFFICES ASSUME Typed, [Next]_vars PROVE Typed'
  OBVIOUS
<1> USE LedgerAssumption DEF Typed, TypeOK, Statuses, ledgerVars, holdVars, lockVars, argVars, seenVars
<1>1. ASSUME NEW c \in Clients, NEW h \in Holds, NEW a \in Amounts, StartPlace(c, h, a) PROVE Typed'
  BY <1>1, StartType DEF StartPlace
<1>2. ASSUME NEW c \in Clients, NEW h \in Holds, NEW u \in Costs, NEW f \in Costs, StartSettle(c, h, u, f)
      PROVE Typed'
  BY <1>2, StartType DEF StartSettle
<1>3. ASSUME NEW c \in Clients, NEW k \in Debits, NEW a \in Amounts, StartSpend(c, k, a) PROVE Typed'
  BY <1>3, StartType DEF StartSpend
<1>4. ASSUME NEW c \in Clients, NEW k \in Debits, NEW u \in Costs, NEW f \in Costs, NEW g \in Costs,
             StartCharge(c, k, u, f, g)
      PROVE Typed'
  BY <1>4, StartType DEF StartCharge
<1>5. ASSUME NEW c \in Clients, SettleFree(c) PROVE Typed'
  <2>1. hold[c] \in Holds
    BY <1>5 DEF SettleFree, Args
  <2> QED
    BY <1>5, <2>1, EndType DEF SettleFree, Close
<1>6. ASSUME NEW c \in Clients, LockAccount(c) PROVE Typed'
  BY <1>6 DEF LockAccount, Args
<1>7. ASSUME NEW c \in Clients, ReadPosted(c) PROVE Typed'
  BY <1>7 DEF ReadPosted, Args
<1>8. ASSUME NEW c \in Clients, ReadHeld(c) PROVE Typed'
  BY <1>8 DEF ReadHeld, Args
<1>9. ASSUME NEW c \in Clients, CommitPlace(c) PROVE Typed'
  <2>1. hold[c] \in Holds /\ usage[c] \in Nat
    BY <1>9 DEF CommitPlace, Args
  <2>2. status' \in [Holds -> Statuses]
    BY <1>9, <2>1 DEF CommitPlace
  <2>3. held' \in Int /\ amount' \in [Holds -> Nat]
    BY <1>9, <2>1 DEF CommitPlace
  <2> QED
    BY <1>9, <2>2, <2>3, EndType DEF CommitPlace
<1>10. ASSUME NEW c \in Clients, CommitSpend(c) PROVE Typed'
  <2>1. key[c] \in Debits
    BY <1>10 DEF CommitSpend, Args
  <2>2. /\ posted' \in Int /\ revenue' \in Int /\ clearing' \in Int
        /\ keys' \subseteq TopUps \cup Debits \cup {HoldKey(h) : h \in Holds}
    BY <1>10, <2>1, DebitEffect DEF CommitSpend
  <2> QED
    BY <1>10, <2>2, EndType DEF CommitSpend
<1>11. ASSUME NEW c \in Clients, Refuse(c) PROVE Typed'
  BY <1>11, EndType DEF Refuse
<1>12. ASSUME NEW c \in Clients, CommitSettle(c) PROVE Typed'
  <2>1. op[c] = "settle" /\ hold[c] \in Holds /\ \E h \in Holds : key[c] = HoldKey(h)
    BY <1>12 DEF CommitSettle, Args
  <2>2. SettleDebit(c) \in Nat
    BY <2>1, SettleDebitType
  <2>3. /\ PaidUsage(c, SettleDebit(c)) \in Int /\ PaidOverhead(c, SettleDebit(c)) \in Int
    BY <2>2, PaidParts
  <2>4. \/ UNCHANGED ledgerVars
        \/ Debit(key[c], PaidUsage(c, SettleDebit(c)), PaidOverhead(c, SettleDebit(c)), SettleDebit(c))
    BY <1>12 DEF CommitSettle
  <2>5. /\ posted' \in Int /\ revenue' \in Int /\ clearing' \in Int
        /\ keys' \subseteq TopUps \cup Debits \cup {HoldKey(h) : h \in Holds}
    <3>1. CASE UNCHANGED ledgerVars
      BY <3>1
    <3>2. CASE Debit(key[c], PaidUsage(c, SettleDebit(c)), PaidOverhead(c, SettleDebit(c)), SettleDebit(c))
      <4>1. SettleDebit(c) \in Int
        BY <2>2
      <4> HIDE DEF Typed
      <4> QED
        BY <2>1, <2>3, <3>2, <4>1, DebitEffect
    <3> QED
      BY <2>4, <3>1, <3>2
  <2>6. held' \in Int /\ status' \in [Holds -> Statuses]
    BY <1>12, <2>1 DEF CommitSettle, Close
  <2> QED
    BY <1>12, <2>5, <2>6, EndType DEF CommitSettle
<1>13. ASSUME NEW c \in Clients, CommitCharge(c) PROVE Typed'
  <2>1. key[c] \in Debits
    BY <1>13 DEF CommitCharge, Args
  <2>2. ChargeDebit(c) \in Nat
    BY ChargeDebitType
  <2>3. /\ PaidUsage(c, ChargeDebit(c)) \in Int /\ PaidOverhead(c, ChargeDebit(c)) \in Int
    BY <2>2, PaidParts
  <2>4. \/ UNCHANGED ledgerVars
        \/ Debit(key[c], PaidUsage(c, ChargeDebit(c)), PaidOverhead(c, ChargeDebit(c)), ChargeDebit(c))
    BY <1>13 DEF CommitCharge
  <2>5. /\ posted' \in Int /\ revenue' \in Int /\ clearing' \in Int
        /\ keys' \subseteq TopUps \cup Debits \cup {HoldKey(h) : h \in Holds}
    <3>1. CASE UNCHANGED ledgerVars
      BY <3>1
    <3>2. CASE ~UNCHANGED ledgerVars
      BY <2>1, <2>2, <2>3, <2>4, <3>2, DebitEffect
    <3> QED
      BY <3>1, <3>2
  <2> QED
    BY <1>13, <2>5, EndType DEF CommitCharge
<1>14. ASSUME NEW c \in Clients, Abort(c) PROVE Typed'
  BY <1>14, EndType DEF Abort
<1>15. ASSUME NEW h \in Holds, SettleTooLate(h) PROVE Typed'
  BY <1>15 DEF SettleTooLate, Args
<1>16. ASSUME NEW h \in Holds, ReleaseHold(h) PROVE Typed'
  BY <1>16 DEF ReleaseHold, Close, Args
<1>17. ASSUME NEW h \in Holds, Lapse(h) PROVE Typed'
  BY <1>17 DEF Lapse, Args
<1>18. ASSUME NEW h \in Holds, ExpireHold(h) PROVE Typed'
  BY <1>18 DEF ExpireHold, Close, Args
<1>19. ASSUME NEW k \in TopUps, TopUp(k) PROVE Typed'
  BY <1>19 DEF TopUp, Args
<1>20. CASE UNCHANGED vars
  BY <1>20 DEF vars, Args
<1> QED
  BY <1>1, <1>2, <1>3, <1>4, <1>5, <1>6, <1>7, <1>8, <1>9, <1>10, <1>11, <1>12, <1>13, <1>14,
     <1>15, <1>16, <1>17, <1>18, <1>19, <1>20 DEF Next, StartAny, Continue

\* Every reachable state of the ledger is well typed, whatever the constants: no hold leaves
\* the statuses of the database constraint and no balance stops being an integer.
THEOREM TypeCorrect == Spec => []TypeOK
<1>1. Init => Typed
  BY LedgerAssumption DEF Init, Typed, TypeOK, Args, Statuses
<1>2. Typed /\ [Next]_vars => Typed'
  BY TypeStep
<1>3. Typed => TypeOK
  BY DEF Typed
<1> QED
  BY <1>1, <1>2, <1>3, PTL DEF Spec

-----------------------------------------------------------------------------
(* Prepaid is a hard floor. *)

\* The account lock serializes the readers: what a transaction read under it is a lower bound
\* of the posted balance and an upper bound of the held total, until it commits.
Serial ==
  \A c \in Clients :
    /\ pc[c] \in {"readPosted", "readHeld", "write"} => accountLock = c
    /\ pc[c] \in {"readHeld", "write"} => seenPosted[c] <= posted
    /\ pc[c] = "write" => held <= seenHeld[c]

Funded == Typed /\ Serial /\ NeverOverdrawn

\* A transaction that ends keeps the others' reads valid: it held the lock they need, or it
\* only raised the balance.
LEMMA EndSerial ==
  ASSUME Typed, Serial, NEW c \in Clients, End(c), posted' \in Int, held' \in Int,
         accountLock = c \/ (posted <= posted' /\ held' <= held)
  PROVE  Serial'
<1> SUFFICES ASSUME NEW d \in Clients
             PROVE  /\ pc'[d] \in {"readPosted", "readHeld", "write"} => accountLock' = d
                    /\ pc'[d] \in {"readHeld", "write"} => seenPosted'[d] <= posted'
                    /\ pc'[d] = "write" => held' <= seenHeld'[d]
  BY DEF Serial
<1> USE DEF Typed, TypeOK
<1>1. CASE d = c
  BY <1>1 DEF End, Forget
<1>2. CASE d # c
  <2>1. /\ pc'[d] = pc[d] /\ seenPosted'[d] = seenPosted[d] /\ seenHeld'[d] = seenHeld[d]
        /\ accountLock = d => accountLock' = d
    BY <1>2 DEF End, Forget
  <2>2. CASE accountLock = c
    BY <1>2, <2>1, <2>2 DEF Serial
  <2>3. CASE posted <= posted' /\ held' <= held
    <3>1. /\ posted \in Int /\ held \in Int /\ seenPosted[d] \in Int /\ seenHeld[d] \in Int
      OBVIOUS
    <3>2. /\ pc[d] \in {"readPosted", "readHeld", "write"} => accountLock = d
          /\ pc[d] \in {"readHeld", "write"} => seenPosted[d] <= posted
          /\ pc[d] = "write" => held <= seenHeld[d]
      BY DEF Serial
    <3> QED
      BY <2>1, <2>3, <3>1, <3>2
  <2> QED
    BY <2>2, <2>3
<1> QED
  BY <1>1, <1>2

\* A transaction that starts has read nothing yet.
LEMMA StartSerial ==
  ASSUME Typed, Serial, NEW c \in Clients, pc' = [pc EXCEPT ![c] = "lock"],
         UNCHANGED <<posted, held, accountLock, seenPosted, seenHeld>>
  PROVE  Serial'
BY DEF Typed, TypeOK, Serial

\* The step every operation takes preserves the floor: one step per action.
LEMMA FundedStep == Funded /\ [Next]_vars => Funded'
<1> SUFFICES ASSUME Funded, [Next]_vars PROVE Serial' /\ NeverOverdrawn'
  BY TypeStep DEF Funded
<1>a. Typed /\ Serial /\ NeverOverdrawn /\ Typed'
  BY TypeStep DEF Funded
<1>b. /\ posted \in Int /\ held \in Int /\ posted' \in Int /\ held' \in Int
      /\ amount \in [Holds -> Nat]
  BY <1>a DEF Typed, TypeOK
<1> USE <1>a, <1>b DEF NeverOverdrawn
<1>1. ASSUME NEW c \in Clients, StartAny(c) PROVE Serial' /\ NeverOverdrawn'
  <2>1. /\ pc' = [pc EXCEPT ![c] = "lock"]
        /\ UNCHANGED <<posted, held, accountLock, seenPosted, seenHeld>>
    BY <1>1 DEF StartAny, StartPlace, StartSettle, StartSpend, StartCharge, Start, ledgerVars,
                holdVars, lockVars, seenVars
  <2> QED
    BY <2>1, StartSerial
<1>2. ASSUME NEW c \in Clients, SettleFree(c) PROVE Serial' /\ NeverOverdrawn'
  <2>1. hold[c] \in Holds /\ posted' = posted /\ held' = held - amount[hold[c]] /\ End(c)
    BY <1>2 DEF SettleFree, Close, Typed, Args, ledgerVars
  <2> QED
    BY <2>1, EndSerial
<1>3. ASSUME NEW c \in Clients, LockAccount(c) PROVE Serial' /\ NeverOverdrawn'
  <2>1. /\ pc' = [pc EXCEPT ![c] = "readPosted"] 
        /\ pc \in [Clients -> {"idle", "lock", "readPosted", "readHeld", "write"}]
        /\ accountLock = NULL /\ accountLock' = c
        /\ UNCHANGED <<posted, held, seenPosted, seenHeld>>
    BY <1>3 DEF LockAccount, Typed, TypeOK, ledgerVars, holdVars, seenVars
  <2>2. \A d \in Clients : pc[d] \notin {"readPosted", "readHeld", "write"}
    BY <2>1, LedgerAssumption DEF Serial
  <2> QED
    BY <2>1, <2>2 DEF Serial
<1>4. ASSUME NEW c \in Clients, ReadPosted(c) PROVE Serial' /\ NeverOverdrawn'
  BY <1>4 DEF ReadPosted, Serial, Typed, TypeOK, ledgerVars, holdVars, lockVars
<1>5. ASSUME NEW c \in Clients, ReadHeld(c) PROVE Serial' /\ NeverOverdrawn'
  BY <1>5 DEF ReadHeld, Serial, Typed, TypeOK, ledgerVars, holdVars, lockVars
<1>6. ASSUME NEW c \in Clients, pc[c] = "write"
      PROVE  accountLock = c /\ Available(c) \in Int /\ Available(c) <= posted - held
  BY <1>6 DEF Serial, Available, Typed, TypeOK
<1>7. ASSUME NEW c \in Clients, CommitPlace(c) PROVE Serial' /\ NeverOverdrawn'
  <2>1. /\ pc[c] = "write" /\ posted' = posted /\ held' = held + usage[c] /\ End(c)
        /\ usage[c] \in Nat /\ usage[c] <= Available(c)
    BY <1>7 DEF CommitPlace, ledgerVars, Typed, TypeOK
  <2> QED
    BY <2>1, <1>6, EndSerial
<1>8. ASSUME NEW c \in Clients, CommitSpend(c) PROVE Serial' /\ NeverOverdrawn'
  <2>1. /\ pc[c] = "write" /\ held' = held /\ End(c) /\ usage[c] \in Nat
        /\ usage[c] <= Available(c) /\ key[c] \in Debits /\ Debit(key[c], usage[c], 0, usage[c])
    BY <1>8 DEF CommitSpend, holdVars, Typed, TypeOK, Args
  <2>2. posted' = posted \/ posted' = posted - usage[c]
    BY <2>1, DebitEffect
  <2> QED
    BY <2>1, <2>2, <1>6, EndSerial
<1>9. ASSUME NEW c \in Clients, Refuse(c) PROVE Serial' /\ NeverOverdrawn'
  <2>1. posted' = posted /\ held' = held /\ End(c)
    BY <1>9 DEF Refuse, ledgerVars, holdVars
  <2> QED
    BY <2>1, EndSerial
<1>10. ASSUME NEW c \in Clients, CommitSettle(c) PROVE Serial' /\ NeverOverdrawn'
  <2> DEFINE d == SettleDebit(c)
  <2>1. /\ pc[c] = "write" /\ op[c] = "settle" /\ hold[c] \in Holds /\ End(c)
        /\ held' = held - amount[hold[c]] /\ \E h \in Holds : key[c] = HoldKey(h)
    BY <1>10 DEF CommitSettle, Close, Typed, Args
  <2>2. d \in Nat /\ d <= Most(Available(c) + amount[hold[c]], 0)
    BY <2>1, SettleDebitType
  <2>3. PaidUsage(c, d) \in Int /\ PaidOverhead(c, d) \in Int
    BY <2>2, PaidParts
  <2>4. UNCHANGED ledgerVars \/ Debit(key[c], PaidUsage(c, d), PaidOverhead(c, d), d)
    BY <1>10 DEF CommitSettle
  <2> HIDE DEF d
  <2>5. posted' = posted \/ posted' = posted - d
    <3>1. CASE UNCHANGED ledgerVars
      BY <3>1 DEF ledgerVars
    <3>2. CASE Debit(key[c], PaidUsage(c, d), PaidOverhead(c, d), d)
      BY <2>1, <2>2, <2>3, <3>2, DebitEffect
    <3> QED
      BY <2>4, <3>1, <3>2
  <2> QED
    BY <2>1, <2>2, <2>5, <1>6, EndSerial DEF Most
<1>11. ASSUME NEW c \in Clients, CommitCharge(c) PROVE Serial' /\ NeverOverdrawn'
  <2> DEFINE d == ChargeDebit(c)
  <2>1. pc[c] = "write" /\ key[c] \in Debits /\ End(c) /\ held' = held
    BY <1>11 DEF CommitCharge, holdVars, Typed, Args
  <2>2. d \in Nat /\ d <= Most(Available(c), 0)
    BY <2>1, ChargeDebitType
  <2>3. PaidUsage(c, d) \in Int /\ PaidOverhead(c, d) \in Int
    BY <2>2, PaidParts
  <2>4. UNCHANGED ledgerVars \/ Debit(key[c], PaidUsage(c, d), PaidOverhead(c, d), d)
    BY <1>11 DEF CommitCharge
  <2> HIDE DEF d
  <2>5. posted' = posted \/ posted' = posted - d
    <3>1. CASE UNCHANGED ledgerVars
      BY <3>1 DEF ledgerVars
    <3>2. CASE Debit(key[c], PaidUsage(c, d), PaidOverhead(c, d), d)
      BY <2>1, <2>2, <2>3, <3>2, DebitEffect
    <3> QED
      BY <2>4, <3>1, <3>2
  <2> QED
    BY <2>1, <2>2, <2>5, <1>6, EndSerial DEF Most
<1>12. ASSUME NEW c \in Clients, Abort(c) PROVE Serial' /\ NeverOverdrawn'
  <2>1. posted' = posted /\ held' = held /\ End(c)
    BY <1>12 DEF Abort, ledgerVars, holdVars
  <2> QED
    BY <2>1, EndSerial
<1>13. ASSUME UNCHANGED <<accountLock, pc, seenVars>>, posted <= posted', held' <= held,
              posted' - held' >= 0
       PROVE  Serial' /\ NeverOverdrawn'
  <2>1. UNCHANGED <<accountLock, pc, seenPosted, seenHeld>>
    BY <1>13 DEF seenVars
  <2>2. \A c \in Clients : seenPosted[c] \in Int /\ seenHeld[c] \in Int
    BY DEF Typed, TypeOK
  <2> QED
    BY <1>13, <2>1, <2>2 DEF Serial
<1>14. ASSUME NEW h \in Holds, SettleTooLate(h) \/ ReleaseHold(h) \/ Lapse(h) \/ ExpireHold(h)
       PROVE  Serial' /\ NeverOverdrawn'
  <2>1. /\ UNCHANGED <<accountLock, pc, seenVars>> /\ posted' = posted
        /\ (held' = held \/ held' = held - amount[h])
    BY <1>14 DEF SettleTooLate, ReleaseHold, Lapse, ExpireHold, Close, lockVars, ledgerVars
  <2>2. amount[h] \in Nat
    OBVIOUS
  <2>3. posted <= posted' /\ held' <= held /\ posted' - held' >= 0
    <3>1. CASE held' = held
      BY <2>1, <3>1
    <3>2. CASE held' = held - amount[h]
      BY <2>1, <2>2, <3>2
    <3> QED
      BY <2>1, <3>1, <3>2
  <2> QED
    BY <2>1, <2>3, <1>13
<1>15. ASSUME NEW k \in TopUps, TopUp(k) PROVE Serial' /\ NeverOverdrawn'
  <2>1. /\ UNCHANGED <<accountLock, pc, seenVars>> /\ posted' = posted + Credit[k] /\ held' = held
        /\ Credit[k] \in Nat
    BY <1>15, LedgerAssumption DEF TopUp, lockVars, holdVars
  <2> QED
    BY <2>1, <1>13
<1>16. CASE UNCHANGED vars
  <2>1. UNCHANGED <<accountLock, pc, seenVars>> /\ posted' = posted /\ held' = held
    BY <1>16 DEF vars, lockVars, ledgerVars, holdVars
  <2> QED
    BY <2>1, <1>13
<1> QED
  BY <1>1, <1>2, <1>3, <1>4, <1>5, <1>7, <1>8, <1>9, <1>10, <1>11, <1>12, <1>14, <1>15, <1>16
  DEF Next, Continue

\* Prepaid is a hard floor for every number of concurrent transactions, holds and amounts: the
\* FOR UPDATE on the account row is enough, although the balance is read by two statements and
\* expiry, release and top-ups do not take that lock.
THEOREM HardFloor == Spec => []NeverOverdrawn
<1>1. Init => Funded
  BY LedgerAssumption DEF Init, Funded, Typed, TypeOK, Args, Statuses, Serial, NeverOverdrawn
<1>2. Funded /\ [Next]_vars => Funded'
  BY FundedStep
<1>3. Funded => NeverOverdrawn
  BY DEF Funded
<1> QED
  BY <1>1, <1>2, <1>3, PTL DEF Spec

\* A charge spends the storage reserve on storage only, for every reserve and every cost split.
THEOREM ReserveSafe == Spec => ReserveKept
<1>1. Init => Funded
  BY LedgerAssumption DEF Init, Funded, Typed, TypeOK, Args, Statuses, Serial, NeverOverdrawn
<1>2. Funded /\ [Next]_vars => Funded'
  BY FundedStep
<1>3. ASSUME Funded, [Next]_vars
      PROVE  [\A c \in Clients : CommitCharge(c) =>
                posted' - held' >= Least(posted - held, Reserve) - storage[c]]_vars
  <2> SUFFICES ASSUME NEW c \in Clients, CommitCharge(c)
               PROVE  posted' - held' >= Least(posted - held, Reserve) - storage[c]
    OBVIOUS
  <2> DEFINE d == ChargeDebit(c)
  <2>1. Typed /\ Serial /\ pc[c] = "write" /\ key[c] \in Debits /\ held' = held
    BY <1>3 DEF CommitCharge, holdVars, Funded, Typed, Args
  <2>2. /\ posted \in Int /\ held \in Int /\ storage[c] \in Nat /\ Available(c) \in Int
        /\ Available(c) <= posted - held /\ posted - held >= 0 /\ Reserve \in Nat
    BY <1>3, <2>1, LedgerAssumption DEF Funded, NeverOverdrawn, Typed, TypeOK, Serial, Available
  <2>3. d \in Nat /\ d <= Most(Available(c), 0) /\ d <= Most(Available(c) - Reserve, 0) + storage[c]
    BY <2>1, ChargeDebitType
  <2>4. PaidUsage(c, d) \in Int /\ PaidOverhead(c, d) \in Int
    BY <2>1, <2>3, PaidParts
  <2>5. UNCHANGED ledgerVars \/ Debit(key[c], PaidUsage(c, d), PaidOverhead(c, d), d)
    BY DEF CommitCharge
  <2> HIDE DEF d
  <2>6. posted' = posted \/ posted' = posted - d
    <3>1. CASE UNCHANGED ledgerVars
      BY <3>1 DEF ledgerVars
    <3>2. CASE Debit(key[c], PaidUsage(c, d), PaidOverhead(c, d), d)
      BY <2>1, <2>3, <2>4, <3>2, DebitEffect
    <3> QED
      BY <2>5, <3>1, <3>2
  <2> QED
    BY <2>1, <2>2, <2>3, <2>6 DEF Least, Most
<1> QED
  BY <1>1, <1>2, <1>3, PTL DEF Spec, ReserveKept

-----------------------------------------------------------------------------
(* The books balance. *)

\* A debit whose parts add up keeps the books balanced, posted or skipped.
LEMMA DebitBalanced ==
  ASSUME Typed, Balanced, NEW k, NEW pu \in Int, NEW po \in Int, NEW d \in Int, pu + po = d,
         Debit(k, pu, po, d)
  PROVE  Balanced'
<1> USE DEF Typed, TypeOK, Balanced, Debit, ledgerVars
<1>1. CASE k \in keys
  BY <1>1
<1>2. CASE k \notin keys
  <2>1. posted' = posted - d /\ revenue' = revenue + pu + po /\ clearing' = clearing
    BY <1>2
  <2> QED
    BY <2>1
<1> QED
  BY <1>1, <1>2

\* Every operation posts amounts that sum to zero.
LEMMA BalancedStep == Typed /\ Balanced /\ [Next]_vars => Balanced'
<1> SUFFICES ASSUME Typed, Balanced, [Next]_vars PROVE Balanced'
  OBVIOUS
<1>a. posted \in Int /\ revenue \in Int /\ clearing \in Int
  BY DEF Typed, TypeOK
<1> USE <1>a DEF Balanced
<1>1. ASSUME UNCHANGED <<posted, revenue, clearing>> PROVE Balanced'
  BY <1>1
<1>2. ASSUME NEW c \in Clients, CommitSpend(c) PROVE Balanced'
  <2>1. usage[c] \in Nat /\ key[c] \in Debits /\ Debit(key[c], usage[c], 0, usage[c])
    BY <1>2 DEF CommitSpend, Typed, TypeOK, Args
  <2>2. usage[c] \in Int /\ 0 \in Int /\ usage[c] + 0 = usage[c]
    BY <2>1
  <2> HIDE DEF Balanced
  <2> QED
    BY <2>1, <2>2, DebitBalanced
<1>3. ASSUME NEW c \in Clients, CommitSettle(c) PROVE Balanced'
  <2> DEFINE d == SettleDebit(c)
  <2>1. op[c] = "settle" /\ \E h \in Holds : key[c] = HoldKey(h)
    BY <1>3 DEF CommitSettle, Typed, Args
  <2>2. d \in Nat
    BY <2>1, SettleDebitType
  <2>3. /\ PaidUsage(c, d) \in Nat /\ PaidOverhead(c, d) \in Nat
        /\ PaidUsage(c, d) + PaidOverhead(c, d) = d
    BY <2>2, PaidParts
  <2>4. UNCHANGED ledgerVars \/ Debit(key[c], PaidUsage(c, d), PaidOverhead(c, d), d)
    BY <1>3 DEF CommitSettle
  <2> HIDE DEF d
  <2>5. CASE UNCHANGED ledgerVars
    BY <2>5 DEF ledgerVars
  <2>6. CASE Debit(key[c], PaidUsage(c, d), PaidOverhead(c, d), d)
    <3>1. PaidUsage(c, d) \in Int /\ PaidOverhead(c, d) \in Int /\ d \in Int
      BY <2>2, <2>3
    <3> HIDE DEF Balanced
    <3> QED
      BY <2>3, <2>6, <3>1, DebitBalanced
  <2> QED
    BY <2>4, <2>5, <2>6
<1>4. ASSUME NEW c \in Clients, CommitCharge(c) PROVE Balanced'
  <2> DEFINE d == ChargeDebit(c)
  <2>1. key[c] \in Debits
    BY <1>4 DEF CommitCharge, Typed, Args
  <2>2. d \in Nat
    BY ChargeDebitType
  <2>3. /\ PaidUsage(c, d) \in Nat /\ PaidOverhead(c, d) \in Nat
        /\ PaidUsage(c, d) + PaidOverhead(c, d) = d
    BY <2>2, PaidParts
  <2>4. UNCHANGED ledgerVars \/ Debit(key[c], PaidUsage(c, d), PaidOverhead(c, d), d)
    BY <1>4 DEF CommitCharge
  <2> HIDE DEF d
  <2>5. CASE UNCHANGED ledgerVars
    BY <2>5 DEF ledgerVars
  <2>6. CASE Debit(key[c], PaidUsage(c, d), PaidOverhead(c, d), d)
    <3>1. PaidUsage(c, d) \in Int /\ PaidOverhead(c, d) \in Int /\ d \in Int
      BY <2>2, <2>3
    <3> HIDE DEF Balanced
    <3> QED
      BY <2>3, <2>6, <3>1, DebitBalanced
  <2> QED
    BY <2>4, <2>5, <2>6
<1>5. ASSUME NEW k \in TopUps, TopUp(k) PROVE Balanced'
  BY <1>5, LedgerAssumption DEF TopUp
<1>6. ASSUME NEW c \in Clients,
             StartAny(c) \/ SettleFree(c) \/ LockAccount(c) \/ ReadPosted(c) \/ ReadHeld(c)
               \/ CommitPlace(c) \/ Refuse(c) \/ Abort(c)
      PROVE  Balanced'
  BY <1>1, <1>6 DEF StartAny, StartPlace, StartSettle, StartSpend, StartCharge, SettleFree,
                    LockAccount, ReadPosted, ReadHeld, CommitPlace, Refuse, Abort, ledgerVars
<1>7. ASSUME NEW h \in Holds, SettleTooLate(h) \/ ReleaseHold(h) \/ Lapse(h) \/ ExpireHold(h)
      PROVE  Balanced'
  BY <1>1, <1>7 DEF SettleTooLate, ReleaseHold, Lapse, ExpireHold, ledgerVars
<1>8. CASE UNCHANGED vars
  BY <1>1, <1>8 DEF vars, ledgerVars
<1> QED
  BY <1>2, <1>3, <1>4, <1>5, <1>6, <1>7, <1>8 DEF Next, Continue

\* Money is neither created nor destroyed by a capped settlement, a partly paid charge, a
\* repeated key or a top-up: the deferred constraint trigger never has anything to refuse.
THEOREM DoubleEntry == Spec => []Balanced
<1>1. Init => Typed /\ Balanced
  BY LedgerAssumption DEF Init, Typed, TypeOK, Args, Statuses, Balanced
<1>2. Typed /\ Balanced /\ [Next]_vars => (Typed /\ Balanced)'
  BY TypeStep, BalancedStep
<1> QED
  BY <1>1, <1>2, PTL DEF Spec

-----------------------------------------------------------------------------
(* A hold closes once. *)

\* A settling transaction has its hold's row locked and the hold is active; a placing one is
\* about to insert a row nobody has seen.
Owned ==
  \A c \in Clients :
    /\ pc[c] # "idle" /\ op[c] = "settle" => holdLock[hold[c]] = c /\ status[hold[c]] = "active"
    /\ pc[c] # "idle" /\ op[c] = "place" =>
         /\ status[hold[c]] = "none"
         /\ \A d \in Clients : pc[d] # "idle" /\ op[d] = "place" /\ hold[d] = hold[c] => d = c

\* What a step may do to the status of a hold.
StatusMoves(h) ==
  \/ status'[h] = status[h]
  \/ status[h] = "none" /\ status'[h] = "active"
  \/ status[h] = "active" /\ status'[h] # "none"

\* A transaction that ends leaves the others their holds, when it changed none of them.
LEMMA EndOwned ==
  ASSUME Typed, Owned, NEW c \in Clients, End(c),
         \A d \in Clients : d # c /\ pc[d] # "idle" /\ op[d] \in {"place", "settle"} =>
           status'[hold[d]] = status[hold[d]]
  PROVE  Owned'
<1>1. ASSUME NEW d \in Clients, d # c
      PROVE  pc'[d] = pc[d] /\ op'[d] = op[d] /\ hold'[d] = hold[d]
  BY <1>1 DEF End, Forget, Typed, TypeOK
<1>2. pc'[c] = "idle"
  BY DEF End, Forget, Typed, TypeOK
<1>3. ASSUME NEW d \in Clients, d # c, pc[d] # "idle", op[d] = "settle"
      PROVE  holdLock'[hold[d]] = d
  BY <1>3 DEF End, Typed, TypeOK, Args, Owned
<1> QED
  BY <1>1, <1>2, <1>3 DEF Owned

\* The lock discipline, and with it the life of a hold: one step per action.
LEMMA OwnedStep ==
  ASSUME Typed, Owned, [Next]_vars
  PROVE  Owned' /\ \A h \in Holds : StatusMoves(h)
<1> DEFINE Goal == Owned' /\ \A h \in Holds : StatusMoves(h)
<1>a. /\ status \in [Holds -> Statuses] /\ hold \in [Clients -> Holds \cup {NULL}]
      /\ pc \in [Clients -> {"idle", "lock", "readPosted", "readHeld", "write"}]
      /\ op \in [Clients -> {"none", "place", "settle", "spend", "charge"}]
      /\ holdLock \in [Holds -> Clients \cup {NULL}] /\ NULL \notin Clients
      /\ \A c \in Clients : op[c] \in {"place", "settle"} => hold[c] \in Holds
  BY LedgerAssumption DEF Typed, TypeOK, Args
<1> USE <1>a DEF StatusMoves
<1>1. ASSUME NEW c \in Clients, NEW h \in Holds, NEW a \in Amounts, StartPlace(c, h, a) PROVE Goal
  BY <1>1 DEF StartPlace, Start, Owned, holdVars, lockVars
<1>2. ASSUME NEW c \in Clients, NEW h \in Holds, NEW u \in Costs, NEW f \in Costs, StartSettle(c, h, u, f)
      PROVE  Goal
  BY <1>2 DEF StartSettle, Start, LockActive, Owned
<1>3. ASSUME NEW c \in Clients, NEW k \in Debits, NEW a \in Amounts, StartSpend(c, k, a) PROVE Goal
  BY <1>3 DEF StartSpend, Start, Owned, holdVars, lockVars
<1>4. ASSUME NEW c \in Clients, NEW k \in Debits, NEW u \in Costs, NEW f \in Costs, NEW g \in Costs,
             StartCharge(c, k, u, f, g)
      PROVE  Goal
  BY <1>4 DEF StartCharge, Start, Owned, holdVars, lockVars
<1>5. ASSUME NEW c \in Clients, NEW st \in {"settled", "released"}, pc[c] # "idle", op[c] = "settle",
             Close(hold[c], st), End(c)
      PROVE  Goal
  <2>1. hold[c] \in Holds /\ status[hold[c]] = "active" /\ holdLock[hold[c]] = c
    BY <1>5 DEF Owned
  <2>2. status' = [status EXCEPT ![hold[c]] = st]
    BY <1>5 DEF Close
  <2>3. \A d \in Clients : d # c /\ pc[d] # "idle" /\ op[d] \in {"place", "settle"} =>
          status'[hold[d]] = status[hold[d]]
    BY <2>1, <2>2 DEF Owned
  <2> QED
    BY <1>5, <2>1, <2>2, <2>3, EndOwned
<1>6. ASSUME NEW c \in Clients, SettleFree(c) \/ CommitSettle(c) PROVE Goal
  BY <1>5, <1>6 DEF SettleFree, CommitSettle
<1>7. ASSUME NEW c \in Clients, LockAccount(c) \/ ReadPosted(c) \/ ReadHeld(c) PROVE Goal
  <2>1. /\ UNCHANGED <<status, holdLock, op, hold>> /\ pc[c] # "idle"
        /\ \E x \in {"readPosted", "readHeld", "write"} : pc' = [pc EXCEPT ![c] = x]
    BY <1>7 DEF LockAccount, ReadPosted, ReadHeld, holdVars, lockVars, argVars
  <2> QED
    BY <2>1 DEF Owned
<1>8. ASSUME NEW c \in Clients, CommitPlace(c) PROVE Goal
  <2>1. /\ hold[c] \in Holds /\ status[hold[c]] = "none" /\ End(c)
        /\ status' = [status EXCEPT ![hold[c]] = "active"]
    BY <1>8 DEF CommitPlace, Owned
  <2>2. \A d \in Clients : d # c /\ pc[d] # "idle" /\ op[d] \in {"place", "settle"} =>
          status'[hold[d]] = status[hold[d]]
    BY <1>8, <2>1 DEF CommitPlace, Owned
  <2> QED
    BY <2>1, <2>2, EndOwned
<1>9. ASSUME NEW c \in Clients, CommitSpend(c) \/ Refuse(c) \/ CommitCharge(c) \/ Abort(c) PROVE Goal
  <2>1. status' = status /\ End(c)
    BY <1>9 DEF CommitSpend, Refuse, CommitCharge, Abort, holdVars
  <2> QED
    BY <2>1, EndOwned
<1>10. ASSUME NEW h \in Holds, SettleTooLate(h) \/ Lapse(h) PROVE Goal
  BY <1>10 DEF SettleTooLate, Lapse, lockVars, argVars, Owned
<1>11. ASSUME NEW h \in Holds, ReleaseHold(h) \/ ExpireHold(h) PROVE Goal
  <2>1. /\ holdLock[h] = NULL /\ status[h] = "active" /\ UNCHANGED <<holdLock, pc, op, hold>>
        /\ \E st \in {"released", "expired"} : status' = [status EXCEPT ![h] = st]
    BY <1>11 DEF ReleaseHold, ExpireHold, LockActive, Close, lockVars, argVars
  <2> QED
    BY <2>1 DEF Owned
<1>12. ASSUME NEW k \in TopUps, TopUp(k) PROVE Goal
  BY <1>12 DEF TopUp, holdVars, lockVars, argVars, Owned
<1>13. CASE UNCHANGED vars
  BY <1>13 DEF vars, holdVars, lockVars, argVars, Owned
<1> QED
  BY <1>1, <1>2, <1>3, <1>4, <1>6, <1>7, <1>8, <1>9, <1>10, <1>11, <1>12, <1>13
  DEF Next, StartAny, Continue

\* Settlement, release and expiry exclude one another for every number of concurrent
\* transactions: a run is never charged after its hold expired, nor twice.
THEOREM ClosesOnce == Spec => HoldClosesOnce
<1>1. Init => Typed /\ Owned
  BY LedgerAssumption DEF Init, Typed, TypeOK, Args, Statuses, Owned
<1>2. Typed /\ Owned /\ [Next]_vars => (Typed /\ Owned)'
  BY TypeStep, OwnedStep
<1>3. Typed /\ Owned /\ [Next]_vars =>
        [\A h \in Holds : status'[h] # status[h] =>
           \/ status[h] = "none" /\ status'[h] = "active"
           \/ status[h] = "active" /\ status'[h] # "none"]_vars
  BY OwnedStep DEF StatusMoves
<1> QED
  BY <1>1, <1>2, <1>3, PTL DEF Spec, HoldClosesOnce

-----------------------------------------------------------------------------
(* The held total is the sum over the active holds. *)

\* What hold h reserves, or would, with amount a.
Units(h, a) == {h} \X (1..a)

LEMMA UnitsCount ==
  ASSUME NEW h, NEW a \in Nat
  PROVE  IsFiniteSet(Units(h, a)) /\ Cardinality(Units(h, a)) = a
<1>1. IsFiniteSet({h}) /\ Cardinality({h}) = 1
  BY FS_Singleton
<1>2. IsFiniteSet(1..a) /\ Cardinality(1..a) = a
  BY FS_Interval
<1>3. IsFiniteSet({h} \X (1..a)) /\ Cardinality({h} \X (1..a)) = Cardinality({h}) * Cardinality(1..a)
  BY <1>1, <1>2, FS_Product, Zenon
<1>4. 1 * a = a
  OBVIOUS
<1> QED
  BY <1>1, <1>2, <1>3, <1>4, Zenon DEF Units

LEMMA ReservedParts ==
  ASSUME NEW x
  PROVE  x \in Reserved <=> \E h \in Holds : status[h] = "active" /\ x \in Units(h, amount[h])
BY DEF Reserved, Units

Summed == IsFiniteSet(Reserved) /\ HeldIsSum

\* A hold that becomes active adds its units, ...
LEMMA SumPlaced ==
  ASSUME Typed, Summed, NEW h \in Holds, NEW a \in Nat, status[h] = "none",
         status' = [status EXCEPT ![h] = "active"], amount' = [amount EXCEPT ![h] = a], held' = held + a
  PROVE  Summed'
<1>1. \A x : x \in Reserved' <=> \E g \in Holds : status'[g] = "active" /\ x \in Units(g, amount'[g])
  BY ReservedParts DEF Reserved, Units
<1>2. /\ status'[h] = "active" /\ amount'[h] = a
      /\ \A g \in Holds \ {h} : status'[g] = status[g] /\ amount'[g] = amount[g]
  BY DEF Typed, TypeOK
<1>3. Reserved' = Reserved \cup Units(h, a)
  BY <1>1, <1>2, ReservedParts
<1>4. Reserved \cap Units(h, a) = {}
  <2> SUFFICES ASSUME NEW x \in Reserved, x \in Units(h, a) PROVE FALSE
    OBVIOUS
  <2>1. PICK g \in Holds : status[g] = "active" /\ x \in Units(g, amount[g])
    BY ReservedParts
  <2> QED
    BY <2>1 DEF Units
<1>5. IsFiniteSet(Units(h, a)) /\ Cardinality(Units(h, a)) = a
  BY UnitsCount
<1>6. /\ IsFiniteSet(Reserved')
      /\ Cardinality(Reserved') = Cardinality(Reserved) + a - Cardinality({})
  BY <1>3, <1>4, <1>5, FS_Union DEF Summed
<1>7. Cardinality({}) = 0 /\ Cardinality(Reserved) \in Nat
  BY FS_EmptySet, FS_CardinalityType DEF Summed
<1> QED
  BY <1>6, <1>7 DEF Summed, HeldIsSum

\* ... and one that is closed takes them away.
LEMMA SumClosed ==
  ASSUME Typed, Summed, NEW h \in Holds, NEW st \in Statuses \ {"active"}, status[h] = "active",
         Close(h, st), UNCHANGED amount
  PROVE  Summed'
<1>1. \A x : x \in Reserved' <=> \E g \in Holds : status'[g] = "active" /\ x \in Units(g, amount'[g])
  BY ReservedParts DEF Reserved, Units
<1>2. /\ status'[h] # "active" /\ amount[h] \in Nat /\ held' = held - amount[h]
      /\ \A g \in Holds \ {h} : status'[g] = status[g]
  BY DEF Typed, TypeOK, Close
<1>3. Reserved' = Reserved \ Units(h, amount[h])
  <2>1. ASSUME NEW x \in Reserved' PROVE x \in Reserved /\ x \notin Units(h, amount[h])
    <3>1. PICK g \in Holds : status'[g] = "active" /\ x \in Units(g, amount[g])
      BY <1>1
    <3>2. g # h /\ x \notin Units(h, amount[h])
      BY <1>2, <3>1 DEF Units
    <3> QED
      BY <1>2, <3>1, <3>2, ReservedParts
  <2>2. ASSUME NEW x \in Reserved, x \notin Units(h, amount[h]) PROVE x \in Reserved'
    BY <1>1, <1>2, <2>2, ReservedParts
  <2> QED
    BY <2>1, <2>2
<1>4. Reserved \cap Units(h, amount[h]) = Units(h, amount[h])
  BY ReservedParts
<1>5. IsFiniteSet(Units(h, amount[h])) /\ Cardinality(Units(h, amount[h])) = amount[h]
  BY <1>2, UnitsCount
<1>6. IsFiniteSet(Reserved') /\ Cardinality(Reserved') = Cardinality(Reserved) - amount[h]
  <2>1. /\ IsFiniteSet(Reserved \ Units(h, amount[h]))
        /\ Cardinality(Reserved \ Units(h, amount[h])) =
             Cardinality(Reserved) - Cardinality(Reserved \cap Units(h, amount[h]))
    BY FS_Difference, Zenon DEF Summed
  <2> QED
    BY <1>3, <1>4, <1>5, <2>1, Zenon
<1> QED
  BY <1>2, <1>6 DEF Summed, HeldIsSum

LEMMA SummedStep ==
  ASSUME Typed, Owned, Summed, [Next]_vars
  PROVE  Summed'
<1> USE DEF Typed, TypeOK, Args, Statuses
<1>1. CASE UNCHANGED <<status, amount, held>>
  BY <1>1 DEF Summed, HeldIsSum, Reserved
<1>2. ASSUME NEW c \in Clients, CommitPlace(c) PROVE Summed'
  <2>1. hold[c] \in Holds /\ status[hold[c]] = "none" /\ usage[c] \in Nat
    BY <1>2 DEF CommitPlace, Owned
  <2> QED
    BY <1>2, <2>1, SumPlaced DEF CommitPlace
<1>3. ASSUME NEW c \in Clients, SettleFree(c) \/ CommitSettle(c) PROVE Summed'
  <2>1. hold[c] \in Holds /\ status[hold[c]] = "active"
    BY <1>3 DEF SettleFree, CommitSettle, Owned
  <2> QED
    BY <1>3, <2>1, SumClosed DEF SettleFree, CommitSettle
<1>4. ASSUME NEW h \in Holds, ReleaseHold(h) \/ ExpireHold(h) PROVE Summed'
  BY <1>4, SumClosed DEF ReleaseHold, ExpireHold, LockActive
<1>5. ASSUME NEW c \in Clients, StartAny(c) PROVE UNCHANGED <<status, amount, held>>
  BY <1>5 DEF StartAny, StartPlace, StartSettle, StartSpend, StartCharge, holdVars
<1>6. ASSUME NEW c \in Clients,
             LockAccount(c) \/ ReadPosted(c) \/ ReadHeld(c) \/ CommitSpend(c) \/ Refuse(c) \/ CommitCharge(c) \/ Abort(c)
      PROVE  UNCHANGED <<status, amount, held>>
  BY <1>6 DEF LockAccount, ReadPosted, ReadHeld, CommitSpend, Refuse, CommitCharge, Abort, holdVars
<1>7. ASSUME NEW h \in Holds, SettleTooLate(h) \/ Lapse(h) PROVE UNCHANGED <<status, amount, held>>
  BY <1>7 DEF SettleTooLate, Lapse
<1>8. ASSUME NEW k \in TopUps, TopUp(k) PROVE UNCHANGED <<status, amount, held>>
  BY <1>8 DEF TopUp, holdVars
<1>9. CASE UNCHANGED vars
  BY <1>1, <1>9 DEF vars, holdVars
<1> QED
  BY <1>1, <1>2, <1>3, <1>4, <1>5, <1>6, <1>7, <1>8, <1>9 DEF Next, Continue

\* HeldIsSum: what balances() subtracts is what the active holds reserve, for any number of holds and
\* whoever closes them, since nobody closes a hold that somebody else has closed.
THEOREM HeldCountsActive == Spec => []HeldIsSum
<1>1. Init => Typed /\ Owned /\ Summed
  <2> SUFFICES ASSUME Init PROVE Typed /\ Owned /\ Summed
    OBVIOUS
  <2>1. Reserved = {}
    BY DEF Init, Reserved
  <2> QED
    BY <2>1, LedgerAssumption, FS_EmptySet DEF Init, Typed, TypeOK, Args, Statuses, Owned, Summed, HeldIsSum
<1>2. Typed /\ Owned /\ Summed /\ [Next]_vars => (Typed /\ Owned /\ Summed)'
  BY TypeStep, OwnedStep, SummedStep
<1>3. Summed => HeldIsSum
  BY DEF Summed
<1> QED
  BY <1>1, <1>2, <1>3, PTL DEF Spec

-----------------------------------------------------------------------------
(* The ledger implements Account. *)

Pot   == [h \in Holds |-> IF status[h] = "active" THEN amount[h] ELSE 0]
Phases == [h \in Holds |-> Phase(h)]

\* What the mapping does not see.
LEMMA AccountKept ==
  ASSUME UNCHANGED <<posted, held, keys, revenue, status, amount>>
  PROVE  UNCHANGED Acct!accountVars
BY DEF Acct!accountVars, Phase

\* A hold that is closed, however it is, empties its pot.
LEMMA PotEmptied ==
  ASSUME Typed, NEW h \in Holds, NEW st \in {"settled", "released", "expired"}, status[h] = "active",
         Close(h, st), UNCHANGED amount
  PROVE  /\ Phases[h] = "open" /\ Acct!Empty(h)
         /\ Pot[h] = amount[h] /\ held' = held - Pot[h] /\ Pot[h] \in Nat
<1> USE DEF Typed, TypeOK, Statuses
<1>1. status' = [status EXCEPT ![h] = st] /\ held' = held - amount[h] /\ amount[h] \in Nat
  BY DEF Close
<1>2. Phases[h] = "open" /\ Pot[h] = amount[h]
  BY DEF Phases, Pot, Phase
<1>3. \A g \in Holds : Phases'[g] = [Phases EXCEPT ![h] = "closed"][g]
  BY <1>1 DEF Phases, Phase
<1>4. \A g \in Holds : Pot'[g] = [Pot EXCEPT ![h] = 0][g]
  BY <1>1 DEF Pot
<1>5. Phases' = [Phases EXCEPT ![h] = "closed"] /\ Pot' = [Pot EXCEPT ![h] = 0]
  BY <1>3, <1>4 DEF Phases, Pot
<1> QED
  BY <1>1, <1>2, <1>5 DEF Acct!Empty, Phases, Pot

\* Closing a hold without taking anything.
LEMMA AccountGivenBack ==
  ASSUME Typed, NEW h \in Holds, NEW st \in {"settled", "released", "expired"}, status[h] = "active",
         Close(h, st), UNCHANGED <<amount, posted, revenue, keys>>
  PROVE  Acct!AccountNext
<1>1. /\ Phases[h] = "open" /\ Acct!Empty(h)
      /\ posted' - held' = (posted - held) + Pot[h]
  BY PotEmptied DEF Typed, TypeOK
<1>2. Acct!GiveBack(h)
  BY <1>1 DEF Acct!GiveBack, Phases, Pot
<1> QED
  BY <1>2 DEF Acct!AccountNext

\* What a transaction at its commit has read is no more than is there.
LEMMA ReadsAreSafe ==
  ASSUME Funded, NEW c \in Clients, pc[c] = "write"
  PROVE  Available(c) \in Int /\ posted - held \in Nat /\ Available(c) <= posted - held
BY DEF Funded, Typed, TypeOK, Serial, NeverOverdrawn, Available

\* A debit from what is free is a payment, or nothing when its key has been posted.
LEMMA AccountPaid ==
  ASSUME Funded, NEW c \in Clients, NEW k \in Debits, NEW d \in Nat, d <= posted - held,
         NEW pu \in Int, NEW po \in Int, pu + po = d, Debit(k, pu, po, d), UNCHANGED holdVars
  PROVE  Acct!AccountNext \/ UNCHANGED Acct!accountVars
<1>1. CASE k \in keys
  BY <1>1, AccountKept DEF Debit, ledgerVars, holdVars
<1>2. CASE k \notin keys
  <2>1. keys' = keys \cup {k} /\ posted' - held' = (posted - held) - d /\ revenue' = revenue + d
    BY <1>2 DEF Debit, holdVars, Funded, Typed, TypeOK
  <2>2. Acct!Pay(k, d)
    BY <1>2, <2>1 DEF Acct!Pay, holdVars, Phase
  <2>3. d \in 0..(posted - held)
    BY DEF Funded, Typed, TypeOK
  <2> QED
    BY <2>2, <2>3 DEF Acct!AccountNext
<1> QED
  BY <1>1, <1>2

\* Settlement: its debit comes out of the hold's pot and of what is free.
LEMMA AccountSettled ==
  ASSUME Funded, Owned, NEW c \in Clients, CommitSettle(c)
  PROVE  Acct!AccountNext
<1> SUFFICES ASSUME NEW h \in Holds, h = hold[c], NEW d \in Nat, d = SettleDebit(c) PROVE Acct!AccountNext
  BY SettleDebitType DEF CommitSettle, Funded, Typed, Args
<1>1. h \in Holds /\ status[h] = "active" /\ Close(h, "settled") /\ UNCHANGED amount /\ pc[c] = "write"
      /\ op[c] = "settle" /\ key[c] = HoldKey(h)
  BY DEF CommitSettle, Owned, Funded, Typed, Args
<1>2. d \in Nat /\ d <= Most(Available(c) + amount[h], 0)
  BY <1>1, SettleDebitType DEF Funded
<1>3. /\ Phases[h] = "open" /\ Acct!Empty(h)
      /\ Pot[h] = amount[h] /\ held' = held - Pot[h] /\ Pot[h] \in Nat
  BY <1>1, PotEmptied DEF Funded
<1>4. d \in 0..((posted - held) + Pot[h])
  BY <1>1, <1>2, <1>3, ReadsAreSafe DEF Most
<1>5. CASE d = 0 \/ key[c] \in keys
  <2>1. UNCHANGED <<posted, revenue, keys>>
    BY <1>5 DEF CommitSettle, Debit, ledgerVars
  <2> QED
    BY <1>1, <2>1, AccountGivenBack DEF Funded
<1>6. CASE d # 0 /\ key[c] \notin keys
  <2>1. Debit(key[c], PaidUsage(c, d), PaidOverhead(c, d), d)
    BY <1>6 DEF CommitSettle
  <2>2. /\ PaidUsage(c, d) \in Nat /\ PaidOverhead(c, d) \in Nat /\ PaidUsage(c, d) + PaidOverhead(c, d) = d
    BY <1>2, PaidParts DEF Funded
  <2>3. /\ keys' = keys \cup {HoldKey(h)} /\ posted' = posted - d
        /\ revenue' = revenue + PaidUsage(c, d) + PaidOverhead(c, d)
    BY <1>1, <1>6, <2>1 DEF Debit
  <2>4. posted \in Int /\ held \in Int /\ revenue \in Int
    BY DEF Funded, Typed, TypeOK
  <2>5. posted' - held' = (posted - held) + Pot[h] - d /\ revenue' = revenue + d
    BY <1>2, <1>3, <2>2, <2>3, <2>4
  <2>6. HoldKey(h) \notin keys
    BY <1>1, <1>6
  <2>7. Acct!Settle(h, d)
    BY <1>1, <1>3, <2>3, <2>5, <2>6 DEF Acct!Settle, Phases, Pot
  <2> QED
    BY <1>4, <2>7 DEF Acct!AccountNext, Pot
<1> QED
  BY <1>5, <1>6

\* Placing a hold.
LEMMA AccountOpened ==
  ASSUME Funded, Owned, NEW c \in Clients, CommitPlace(c)
  PROVE  Acct!AccountNext
<1> SUFFICES ASSUME NEW h \in Holds, h = hold[c], NEW a \in Nat, a = usage[c] PROVE Acct!AccountNext
  BY DEF CommitPlace, Funded, Typed, TypeOK, Args
<1>1. /\ h \in Holds /\ status[h] = "none" /\ a \in Nat /\ a <= Available(c) /\ pc[c] = "write"
      /\ status' = [status EXCEPT ![h] = "active"] /\ amount' = [amount EXCEPT ![h] = a]
      /\ held' = held + a /\ UNCHANGED ledgerVars
  BY DEF CommitPlace, Owned, Funded, Typed, TypeOK, Args
<1>2. status \in [Holds -> Statuses] /\ amount \in [Holds -> Nat] /\ posted \in Int /\ held \in Int
  BY DEF Funded, Typed, TypeOK
<1>3. a \in 0..(posted - held) /\ posted' - held' = (posted - held) - a
  BY <1>1, <1>2, ReadsAreSafe DEF ledgerVars
<1>4. \A g \in Holds : Phases'[g] = [Phases EXCEPT ![h] = "open"][g] /\ Pot'[g] = [Pot EXCEPT ![h] = a][g]
  BY <1>1, <1>2 DEF Phases, Phase, Pot, Statuses
<1>5. Phases' = [Phases EXCEPT ![h] = "open"] /\ Pot' = [Pot EXCEPT ![h] = a] /\ Phases[h] = "none"
  BY <1>1, <1>4 DEF Phases, Phase, Pot
<1>6. Acct!Open(h, a)
  BY <1>1, <1>3, <1>5 DEF Acct!Open, Phases, Pot, ledgerVars
<1> QED
  BY <1>3, <1>6 DEF Acct!AccountNext

\* Every step of the ledger is a step of Account or none: one step per action.
LEMMA AccountStep ==
  ASSUME Funded, Owned, [Next]_vars
  PROVE  Acct!AccountNext \/ UNCHANGED Acct!accountVars
<1> DEFINE Goal == Acct!AccountNext \/ UNCHANGED Acct!accountVars
<1>1. ASSUME NEW c \in Clients, StartAny(c) PROVE Goal
  BY <1>1, AccountKept DEF StartAny, StartPlace, StartSettle, StartSpend, StartCharge, holdVars, ledgerVars
<1>2. ASSUME NEW c \in Clients, LockAccount(c) \/ ReadPosted(c) \/ ReadHeld(c) \/ Refuse(c) \/ Abort(c) PROVE Goal
  BY <1>2, AccountKept DEF LockAccount, ReadPosted, ReadHeld, Refuse, Abort, holdVars, ledgerVars
<1>3. ASSUME NEW h \in Holds, SettleTooLate(h) \/ Lapse(h) PROVE Goal
  BY <1>3, AccountKept DEF SettleTooLate, Lapse, ledgerVars
<1>4. CASE UNCHANGED vars
  BY <1>4, AccountKept DEF vars, holdVars, ledgerVars
<1>5. ASSUME NEW c \in Clients, SettleFree(c) PROVE Goal
  <2>1. hold[c] \in Holds /\ status[hold[c]] = "active"
    BY <1>5 DEF SettleFree, Owned, Funded, Typed, Args
  <2> QED
    BY <1>5, <2>1, AccountGivenBack DEF SettleFree, Funded, ledgerVars
<1>6. ASSUME NEW h \in Holds, ReleaseHold(h) \/ ExpireHold(h) PROVE Goal
  BY <1>6, AccountGivenBack DEF ReleaseHold, ExpireHold, LockActive, Funded, ledgerVars
<1>7. ASSUME NEW c \in Clients, CommitSpend(c) PROVE Goal
  <2>1. /\ usage[c] \in Nat /\ key[c] \in Debits /\ Debit(key[c], usage[c], 0, usage[c])
        /\ usage[c] <= Available(c) /\ pc[c] = "write" /\ UNCHANGED holdVars
    BY <1>7 DEF CommitSpend, Funded, Typed, TypeOK, Args
  <2>2. usage[c] <= posted - held
    BY <2>1, ReadsAreSafe
  <2>3. usage[c] \in Int /\ usage[c] + 0 = usage[c]
    BY <2>1
  <2> QED
    BY <2>1, <2>2, <2>3, AccountPaid
<1>8. ASSUME NEW c \in Clients, CommitCharge(c) PROVE Goal
  <2> DEFINE d == ChargeDebit(c)
  <2>1. d \in Nat /\ d <= Most(Available(c), 0) /\ pc[c] = "write" /\ key[c] \in Debits /\ UNCHANGED holdVars
    BY <1>8, ChargeDebitType DEF CommitCharge, Funded, Typed, Args
  <2>2. d <= posted - held
    BY <2>1, ReadsAreSafe DEF Most
  <2>3. CASE d = 0
    BY <1>8, <2>3, AccountKept DEF CommitCharge, holdVars, ledgerVars
  <2>4. CASE d # 0
    <3>1. Debit(key[c], PaidUsage(c, d), PaidOverhead(c, d), d)
      BY <1>8, <2>4 DEF CommitCharge
    <3>2. PaidUsage(c, d) \in Int /\ PaidOverhead(c, d) \in Int /\ PaidUsage(c, d) + PaidOverhead(c, d) = d
      BY <2>1, PaidParts DEF Funded
    <3> QED
      BY <2>1, <2>2, <3>1, <3>2, AccountPaid
  <2> QED
    BY <2>3, <2>4
<1>9. ASSUME NEW k \in TopUps, TopUp(k) PROVE Goal
  <2>1. /\ posted' - held' = (posted - held) + Credit[k] /\ revenue' = revenue + Fee[k]
        /\ k \notin keys /\ keys' = keys \cup {k} /\ UNCHANGED holdVars
    BY <1>9, LedgerAssumption DEF TopUp, holdVars, Funded, Typed, TypeOK
  <2>2. Acct!Deposit(k)
    BY <2>1 DEF Acct!Deposit, holdVars, Phase
  <2> QED
    BY <2>2 DEF Acct!AccountNext
<1> QED
  BY <1>1, <1>2, <1>3, <1>4, <1>5, <1>6, <1>7, <1>8, <1>9, AccountOpened, AccountSettled DEF Next, Continue

\* For any number of concurrent transactions, holds and keys the ledger is an account whose operations
\* are single steps: none takes more than is there when it commits, although the balance was read in
\* earlier statements while holds close and top-ups arrive; a key moves money once; what the customer
\* loses the platform earns.
THEOREM LedgerImplementsAccount == Spec => ImplementsAccount
<1>1. Init => Funded /\ Owned /\ Acct!AccountInit
  BY LedgerAssumption DEF Init, Funded, Typed, TypeOK, Args, Statuses, Serial, NeverOverdrawn, Owned, Acct!AccountInit, Phase
<1>2. Funded /\ Owned /\ [Next]_vars => (Funded /\ Owned)'
  BY FundedStep, OwnedStep DEF Funded
<1>3. Funded /\ Owned /\ [Next]_vars => [Acct!AccountNext]_(Acct!accountVars)
  BY AccountStep
<1> QED
  BY <1>1, <1>2, <1>3, PTL DEF Spec, ImplementsAccount, Acct!AccountSpec
=============================================================================
