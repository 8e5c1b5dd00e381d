------------------------- MODULE UsageChargingProofs -------------------------
(***************************************************************************)
(* Theorems about UsageCharging, for every set of rows, organizations,     *)
(* importers and chargers, every kind of correction and every delay.       *)
(***************************************************************************)
EXTENDS UsageCharging, TLAPS

-----------------------------------------------------------------------------
(* The inductive invariant. *)

\* Versions on their way into ClickHouse are events.
Arriving == inserting \subseteq Grains \X Nat \X Changes

\* What metering reports is at most its peak, and external usage is part of the total.
Reported ==
  \A g \in Grains : external[g] <= total[g] /\ total[g] - external[g] <= peak[g]

\* So is what an importer has read, however long ago.
Snapshots ==
  \A i \in Importers, g \in Grains :
    readExt[i][g] <= readTotal[i][g] /\ readTotal[i][g] - readExt[i][g] <= peak[g]

\* A row never settles more than the peak, and what is billed or forgiven is settled.
Settled ==
  \A g \in Grains :
    /\ extCharged[g] <= quantity[g] /\ quantity[g] - extCharged[g] <= peak[g]
    /\ extCharged[g] <= charged[g] /\ charged[g] - extCharged[g] <= peak[g]
    /\ covered[g] + forgiven[g] <= charged[g] - extCharged[g]

\* A row a transaction has locked has something to charge, and no other has it locked.
Locked ==
  \A c \in Chargers :
    /\ \A g \in batch[c] : quantity[g] > charged[g]
    /\ \A d \in Chargers \ {c} : batch[c] \cap batch[d] = {}

ChargeInv == TypeOK /\ Arriving /\ Reported /\ Snapshots /\ Settled /\ Locked

-----------------------------------------------------------------------------
LEMMA ChangesAreIntegers ==
  ASSUME NEW d \in Changes
  PROVE  d[1] \in Int /\ d[2] \in Int
BY DEF Changes

\* An event or a correction changes one grain, keeps it consistent and never lowers its peak.
LEMMA ApplyStep ==
  ASSUME TypeOK, Reported, NEW g \in Grains, NEW dt \in Int, NEW de \in Int, Apply(g, dt, de)
  PROVE  /\ total' \in [Grains -> Nat] /\ external' \in [Grains -> Nat] /\ peak' \in [Grains -> Nat]
         /\ Reported'
         /\ \A h \in Grains : peak[h] <= peak'[h]
<1>1. /\ total[g] + dt \in Nat /\ external[g] + de \in Nat
      /\ Most(peak[g], total[g] + dt - (external[g] + de)) \in Nat
  BY DEF TypeOK, Apply, Most
<1>2. total' \in [Grains -> Nat] /\ external' \in [Grains -> Nat] /\ peak' \in [Grains -> Nat]
  BY <1>1 DEF TypeOK, Apply
<1>3. \A h \in Grains : peak[h] <= peak'[h]
  BY <1>1 DEF TypeOK, Apply, Most
<1>4. Reported'
  BY <1>1 DEF TypeOK, Apply, Most, Reported
<1> QED
  BY <1>2, <1>3, <1>4

\* Raising the peak disturbs none of the bounds on what Postgres and the importers hold.
LEMMA PeakRises ==
  ASSUME TypeOK, Snapshots, Settled, peak' \in [Grains -> Nat], \A h \in Grains : peak[h] <= peak'[h],
         UNCHANGED <<readTotal, readExt, rollupVars, covered, forgiven>>
  PROVE  Snapshots' /\ Settled'
BY DEF TypeOK, Snapshots, Settled, rollupVars

LEMMA InvInit == Init => ChargeInv
BY ChargingAssumption DEF Init, ChargeInv, TypeOK, Arriving, Reported, Snapshots, Settled, Locked

LEMMA InvStep == ChargeInv /\ [Next]_vars => ChargeInv'
<1> SUFFICES ASSUME ChargeInv, [Next]_vars PROVE ChargeInv'
  OBVIOUS
<1> USE DEF ChargeInv, clickhouse, rollupVars, importVars, billVars
<1>1. ASSUME NEW g \in Grains, NEW d \in Changes, Insert(g, d) PROVE ChargeInv'
  <2>1. CASE Late
    <3>1. inserting' = inserting \cup {<<g, clock + 1, d>>} /\ UNCHANGED <<total, external, peak, stored>>
      BY <1>1, <2>1 DEF Insert
    <3>2. Arriving'
      BY <3>1 DEF Arriving, TypeOK, Changes
    <3>3. TypeOK'
      BY <1>1, <3>1 DEF Insert, TypeOK
    <3> QED
      BY <1>1, <3>1, <3>2, <3>3 DEF Insert, Reported, Snapshots, Settled, Locked
  <2>2. CASE ~Late
    <3>1. Apply(g, d[1], d[2]) /\ inserting' = inserting
      BY <1>1, <2>2 DEF Insert
    <3>2. /\ total' \in [Grains -> Nat] /\ external' \in [Grains -> Nat] /\ peak' \in [Grains -> Nat]
          /\ Reported' /\ \A h \in Grains : peak[h] <= peak'[h]
      BY <3>1, ApplyStep, ChangesAreIntegers
    <3>3. Snapshots' /\ Settled'
      BY <1>1, <3>2, PeakRises DEF Insert
    <3>4. TypeOK' /\ Arriving' /\ Locked'
      BY <1>1, <3>1, <3>2 DEF Insert, TypeOK, Arriving, Changes, Locked
    <3> QED
      BY <3>2, <3>3, <3>4
  <2> QED
    BY <2>1, <2>2
<1>2. ASSUME NEW p \in inserting, Land(p) PROVE ChargeInv'
  <2>1. p[1] \in Grains /\ p[3] \in Changes
    BY DEF Arriving
  <2>2. /\ total' \in [Grains -> Nat] /\ external' \in [Grains -> Nat] /\ peak' \in [Grains -> Nat]
        /\ Reported' /\ \A h \in Grains : peak[h] <= peak'[h]
    BY <1>2, <2>1, ApplyStep, ChangesAreIntegers DEF Land
  <2>3. Snapshots' /\ Settled'
    BY <1>2, <2>2, PeakRises DEF Land
  <2>4. TypeOK' /\ Arriving' /\ Locked'
    BY <1>2, <2>2 DEF Land, TypeOK, Arriving, Changes, Locked
  <2> QED
    BY <2>2, <2>3, <2>4
<1>3. ASSUME NEW i \in Importers, ReadCursor(i) \/ ReadWatermark(i) PROVE ChargeInv'
  <2>1. TypeOK'
    <3>1. CASE ReadCursor(i)
      BY <3>1 DEF ReadCursor, TypeOK
    <3>2. CASE ReadWatermark(i)
      BY <3>2 DEF ReadWatermark, TypeOK
    <3> QED
      BY <1>3, <3>1, <3>2
  <2>2. Arriving' /\ Reported' /\ Snapshots'
    BY <1>3 DEF ReadCursor, ReadWatermark, Arriving, Changes, Reported, Snapshots
  <2>3. Settled' /\ Locked'
    BY <1>3 DEF ReadCursor, ReadWatermark, Settled, Locked
  <2> QED
    BY <2>1, <2>2, <2>3
<1>4. ASSUME NEW i \in Importers, Query(i) PROVE ChargeInv'
  <2>1. Touched(since[i], until[i]) \subseteq Grains
    BY DEF Touched
  <2>2. TypeOK'
    BY <1>4, <2>1 DEF Query, TypeOK
  <2>3. Snapshots'
    <3> SUFFICES ASSUME NEW j \in Importers, NEW g \in Grains
                 PROVE  readExt'[j][g] <= readTotal'[j][g] /\ readTotal'[j][g] - readExt'[j][g] <= peak'[g]
      BY DEF Snapshots
    <3>1. CASE j # i
      BY <1>4, <3>1 DEF Query, TypeOK, Snapshots
    <3>2. CASE j = i /\ g \in Touched(since[i], until[i])
      <4>1. readTotal'[j][g] = total[g] /\ readExt'[j][g] = external[g] /\ peak' = peak
        BY <1>4, <3>2 DEF Query, TypeOK
      <4> QED
        BY <4>1 DEF Reported
    <3>3. CASE j = i /\ g \notin Touched(since[i], until[i])
      <4>1. readTotal'[j][g] = 0 /\ readExt'[j][g] = 0 /\ peak' = peak
        BY <1>4, <3>3 DEF Query, TypeOK
      <4> QED
        BY <4>1 DEF TypeOK
    <3> QED
      BY <3>1, <3>2, <3>3
  <2>4. Arriving' /\ Reported' /\ Settled' /\ Locked'
    BY <1>4 DEF Query, Arriving, Changes, Reported, Settled, Locked
  <2> QED
    BY <2>2, <2>3, <2>4
<1>5. ASSUME NEW i \in Importers, ApplyRollups(i) PROVE ChargeInv'
  <2>1. ASSUME NEW g \in Grains, NEW e \in Nat PROVE Imported(g, e) = charged[g] - extCharged[g] + e
    <3>1. charged[g] \in Nat /\ extCharged[g] \in Nat /\ extCharged[g] <= charged[g]
      BY DEF TypeOK, Settled
    <3> QED
      BY <3>1 DEF Imported, Most
  <2>2. quantity' \in [Grains -> Nat] /\ charged' \in [Grains -> Nat] /\ extCharged' \in [Grains -> Nat]
    BY <1>5, <2>1 DEF ApplyRollups, TypeOK, Settled
  <2>3. TypeOK'
    BY <1>5, <2>2 DEF ApplyRollups, NewCursor, Forget, TypeOK
  <2>4. Settled'
    BY <1>5, <2>1 DEF ApplyRollups, TypeOK, Settled, Snapshots
  <2>5. Locked'
    BY <1>5 DEF ApplyRollups, Locked, TypeOK
  <2>6. Snapshots'
    BY <1>5 DEF ApplyRollups, Forget, Snapshots, TypeOK
  <2>7. Arriving' /\ Reported'
    BY <1>5 DEF ApplyRollups, Arriving, Changes, Reported
  <2> QED
    BY <2>3, <2>4, <2>5, <2>6, <2>7
<1>6. ASSUME NEW i \in Importers, ImportDies(i) PROVE ChargeInv'
  <2>1. TypeOK'
    BY <1>6 DEF ImportDies, Fault, Forget, TypeOK
  <2>2. Snapshots'
    BY <1>6 DEF ImportDies, Forget, Snapshots, TypeOK
  <2>3. Arriving' /\ Reported' /\ Settled' /\ Locked'
    BY <1>6 DEF ImportDies, Arriving, Changes, Reported, Settled, Locked
  <2> QED
    BY <2>1, <2>2, <2>3
<1>7. ASSUME NEW c \in Chargers, Claim(c) PROVE ChargeInv'
  <2>1. First(Chargeable) \subseteq {g \in Free : quantity[g] > charged[g]}
    BY DEF First, Chargeable
  <2>2. TypeOK'
    BY <1>7, <2>1 DEF Claim, TypeOK, Free
  <2>3. Locked'
    BY <1>7, <2>1 DEF Claim, TypeOK, Locked, Free
  <2>4. Arriving' /\ Reported' /\ Snapshots' /\ Settled'
    BY <1>7 DEF Claim, Arriving, Changes, Reported, Snapshots, Settled
  <2> QED
    BY <2>2, <2>3, <2>4
<1>8. ASSUME NEW c \in Chargers, NEW F \in SUBSET Orgs, Charge(c, F) PROVE ChargeInv'
  <2>1. \A g \in batch[c] : g \in Grains /\ Uncharged(g) \in Nat /\ quantity[g] > charged[g]
    BY DEF Uncharged, TypeOK, Locked
  <2>2. /\ covered' \in [Grains -> Nat] /\ forgiven' \in [Grains -> Nat] /\ charged' \in [Grains -> Nat]
    BY <1>8, <2>1 DEF Charge, TypeOK
  <2>3. TypeOK'
    BY <1>8, <2>2 DEF Charge, TypeOK
  <2>4. \A g \in Grains : covered'[g] + forgiven'[g] <=
          covered[g] + forgiven[g] + (IF g \in batch[c] THEN Uncharged(g) ELSE 0)
    BY <1>8, <2>1 DEF Charge, TypeOK
  <2>5. Settled'
    <3> SUFFICES ASSUME NEW g \in Grains
                 PROVE  /\ extCharged'[g] <= quantity'[g] /\ quantity'[g] - extCharged'[g] <= peak'[g]
                        /\ extCharged'[g] <= charged'[g] /\ charged'[g] - extCharged'[g] <= peak'[g]
                        /\ covered'[g] + forgiven'[g] <= charged'[g] - extCharged'[g]
      BY DEF Settled
    <3>1. quantity' = quantity /\ extCharged' = extCharged /\ peak' = peak
      BY <1>8 DEF Charge
    <3>2. CASE g \in batch[c]
      <4>1. charged'[g] = quantity[g]
        BY <1>8, <3>2 DEF Charge
      <4>2. covered'[g] + forgiven'[g] <= covered[g] + forgiven[g] + (quantity[g] - charged[g])
        BY <2>4, <3>2 DEF Uncharged
      <4> QED
        BY <2>2, <3>1, <4>1, <4>2 DEF Settled, TypeOK
    <3>3. CASE g \notin batch[c]
      <4>1. charged'[g] = charged[g] /\ covered'[g] = covered[g] /\ forgiven'[g] = forgiven[g]
        BY <1>8, <3>3 DEF Charge
      <4> QED
        BY <3>1, <4>1 DEF Settled
    <3> QED
      BY <3>2, <3>3
  <2>6. Locked'
    <3>1. \A d \in Chargers \ {c} : batch'[d] = batch[d] /\ batch[d] \cap batch[c] = {}
      BY <1>8 DEF Charge, Locked, TypeOK
    <3>2. batch'[c] = {} /\ batch' \in [Chargers -> SUBSET Grains]
      BY <1>8, <2>3 DEF Charge, TypeOK
    <3>3. \A g \in Grains \ batch[c] : quantity'[g] = quantity[g] /\ charged'[g] = charged[g]
      BY <1>8 DEF Charge
    <3> QED
      BY <3>1, <3>2, <3>3 DEF Locked, TypeOK
  <2>7. Arriving' /\ Reported' /\ Snapshots'
    BY <1>8 DEF Charge, Arriving, Changes, Reported, Snapshots
  <2> QED
    BY <2>3, <2>5, <2>6, <2>7
<1>9. ASSUME NEW c \in Chargers, ChargeDies(c) PROVE ChargeInv'
  <2>1. TypeOK'
    BY <1>9 DEF ChargeDies, Fault, TypeOK
  <2>2. Locked'
    BY <1>9 DEF ChargeDies, Locked, TypeOK
  <2>3. Arriving' /\ Reported' /\ Snapshots' /\ Settled'
    BY <1>9 DEF ChargeDies, Arriving, Changes, Reported, Snapshots, Settled
  <2> QED
    BY <2>1, <2>2, <2>3
<1>10. CASE UNCHANGED vars
  BY <1>10 DEF vars, TypeOK, Arriving, Changes, Reported, Snapshots, Settled, Locked
<1> QED
  BY <1>1, <1>2, <1>3, <1>4, <1>5, <1>6, <1>7, <1>8, <1>9, <1>10 DEF Next, Import, ChargeAny

LEMMA Invariant == Spec => []ChargeInv
BY InvInit, InvStep, PTL DEF Spec

\* Type correctness of importing and charging.
THEOREM TypeCorrect == Spec => []TypeOK
<1>1. ChargeInv => TypeOK
  BY DEF ChargeInv
<1> QED
  BY <1>1, Invariant, PTL

\* chargeUsage() never bills a unit twice, whatever overlaps, fails, arrives late or is corrected.
THEOREM BillsAtMostOnce == Spec => []NeverOverbilled
<1>1. ChargeInv => NeverOverbilled
  BY DEF ChargeInv, TypeOK, Settled, NeverOverbilled
<1> QED
  BY <1>1, Invariant, PTL

-----------------------------------------------------------------------------
(* Nothing is settled without a posting, while metering only reports new usage. *)

\* Of two readings of a grain, total t of which e is external comes before total u of which f is.
Before(t, e, u, f) == e <= f /\ t - e <= u - f

\* The row and every reading not yet applied was what ClickHouse said at some time before now, ...
Past ==
  \A g \in Grains :
    /\ Before(quantity[g], extCharged[g], total[g], external[g])
    /\ \A i \in Importers : Before(readTotal[i][g], readExt[i][g], total[g], external[g])

\* ... so that of any two of them one comes before the other, whichever is applied first.
Comparable(t, e, u, f) == Before(t, e, u, f) \/ Before(u, f, t, e)

Chain ==
  \A g \in Grains, i \in Importers :
    /\ Comparable(readTotal[i][g], readExt[i][g], quantity[g], extCharged[g])
    /\ \A j \in Importers : Comparable(readTotal[i][g], readExt[i][g], readTotal[j][g], readExt[j][g])

\* Total t of which e is external is settled in grain g, if a key was posted at a total of q.
Paid(g, q, t, e) == t <= q => t - e <= charged[g] - extCharged[g]

\* A key is posted for quantities the rows have had; nothing that was or will be read up to such a
\* quantity has anything left to charge.
Posted ==
  \A k \in keys : \A x \in k :
    /\ x[1] \in Grains /\ x[2] \in Nat /\ x[2] <= total[x[1]]
    /\ Paid(x[1], x[2], total[x[1]], external[x[1]])
    /\ Paid(x[1], x[2], quantity[x[1]], extCharged[x[1]])
    /\ \A i \in Importers : Paid(x[1], x[2], readTotal[i][x[1]], readExt[i][x[1]])

BilledInv == ChargeInv /\ Past /\ Chain /\ Posted /\ SettledIsBilled

\* Without corrections an event adds a unit, of one kind or the other.
LEMMA OnlyGrows ==
  ASSUME Corrections = {}, NEW d \in Changes
  PROVE  d[1] = 1 /\ d[2] \in {0, 1}
BY DEF Changes

\* New usage is beyond everything that was read, and beyond every posted quantity.
LEMMA UsageArrives ==
  ASSUME BilledInv, NEW g \in Grains, NEW de \in {0, 1}, Apply(g, 1, de),
         UNCHANGED <<rollupVars, importVars, billVars>>
  PROVE  Past' /\ Chain' /\ Posted' /\ SettledIsBilled'
<1> USE DEF BilledInv, ChargeInv, TypeOK, rollupVars, importVars, billVars
<1>1. /\ total'[g] = total[g] + 1 /\ external'[g] = external[g] + de
      /\ \A h \in Grains \ {g} : total'[h] = total[h] /\ external'[h] = external[h]
  BY DEF Apply
<1>2. Past'
  <2> SUFFICES ASSUME NEW h \in Grains, NEW i \in Importers \cup {0}
               PROVE  /\ Before(quantity[h], extCharged[h], total'[h], external'[h])
                      /\ i \in Importers => Before(readTotal[i][h], readExt[i][h], total'[h], external'[h])
    BY DEF Past
  <2>1. /\ total[h] \in Nat /\ external[h] \in Nat /\ quantity[h] \in Nat /\ extCharged[h] \in Nat
        /\ i \in Importers => readTotal[i][h] \in Nat /\ readExt[i][h] \in Nat
    OBVIOUS
  <2>2. /\ external[h] <= external'[h] /\ total[h] - external[h] <= total'[h] - external'[h]
        /\ external'[h] \in Nat /\ total'[h] \in Nat
    <3>1. CASE h = g
      BY <1>1, <2>1, <3>1
    <3>2. CASE h # g
      BY <1>1, <2>1, <3>2
    <3> QED
      BY <3>1, <3>2
  <2> QED
    BY <2>1, <2>2 DEF Past, Before
<1>3. Chain' /\ SettledIsBilled'
  BY DEF Chain, Comparable, Before, SettledIsBilled
<1>4. Posted'
  <2> SUFFICES ASSUME NEW k \in keys, NEW x \in k
               PROVE  /\ x[2] <= total'[x[1]]
                      /\ Paid(x[1], x[2], total[x[1]], external[x[1]])'
    BY DEF Posted, Paid
  <2>1. /\ x[1] \in Grains /\ x[2] \in Nat /\ x[2] <= total[x[1]] /\ total[x[1]] \in Nat
        /\ Paid(x[1], x[2], total[x[1]], external[x[1]])
    BY DEF Posted
  <2>2. CASE x[1] = g
    BY <1>1, <2>1, <2>2 DEF Paid
  <2>3. CASE x[1] # g
    BY <1>1, <2>1, <2>3 DEF Paid
  <2> QED
    BY <2>2, <2>3
<1> QED
  BY <1>2, <1>3, <1>4

\* Settling what is uncharged and booking it, either way, keeps the two sides equal.
LEMMA SettleOne ==
  ASSUME NEW q \in Nat, NEW c \in Nat, NEW e \in Nat, NEW a \in Nat, NEW b \in Nat, c - e = a + b
  PROVE  q - e = (a + (q - c)) + b /\ q - e = a + (b + (q - c))
OBVIOUS

LEMMA BilledInit == Init => BilledInv
<1> SUFFICES ASSUME Init PROVE BilledInv
  OBVIOUS
<1> QED
  BY InvInit DEF Init, BilledInv, Past, Chain, Comparable, Before, Posted, SettledIsBilled

\* A query reads what ClickHouse says now, or nothing: both are in order with everything read before.
LEMMA BilledQuery ==
  ASSUME BilledInv, NEW i \in Importers, Query(i)
  PROVE  Past' /\ Chain' /\ Posted' /\ SettledIsBilled'
<1> USE DEF BilledInv, ChargeInv, TypeOK, clickhouse, rollupVars, billVars
<1>1. \A g \in Grains :
        \/ readTotal'[i][g] = total[g] /\ readExt'[i][g] = external[g]
        \/ readTotal'[i][g] = 0 /\ readExt'[i][g] = 0
  BY DEF Query
<1>2. \A j \in Importers \ {i} : readTotal'[j] = readTotal[j] /\ readExt'[j] = readExt[j]
  BY DEF Query
<1>3. UNCHANGED <<total, external, quantity, charged, extCharged, keys, covered, forgiven>>
  BY DEF Query
<1>4. Past'
  <2> SUFFICES ASSUME NEW g \in Grains, NEW j \in Importers
               PROVE  Before(readTotal'[j][g], readExt'[j][g], total[g], external[g])
    BY <1>3 DEF Past
  <2>1. total[g] \in Nat /\ external[g] \in Nat /\ external[g] <= total[g]
    BY DEF Reported
  <2>2. CASE j = i
    BY <1>1, <2>1, <2>2 DEF Before
  <2>3. CASE j # i
    BY <1>2, <2>3 DEF Past
  <2> QED
    BY <2>2, <2>3
<1>5. Chain'
  <2> SUFFICES ASSUME NEW g \in Grains, NEW j \in Importers, NEW k \in Importers
               PROVE  /\ Comparable(readTotal'[j][g], readExt'[j][g], quantity'[g], extCharged'[g])
                      /\ Comparable(readTotal'[j][g], readExt'[j][g], readTotal'[k][g], readExt'[k][g])
    BY DEF Chain
  <2>1. \A h \in Importers : /\ readTotal[h][g] \in Nat /\ readExt[h][g] \in Nat
                             /\ readExt[h][g] <= readTotal[h][g]
    BY DEF Snapshots
  <2>2. /\ total[g] \in Nat /\ external[g] \in Nat /\ external[g] <= total[g]
        /\ quantity[g] \in Nat /\ extCharged[g] \in Nat /\ extCharged[g] <= quantity[g]
    BY DEF Reported, Settled
  <2> DEFINE New(t, e) == (t = total[g] /\ e = external[g]) \/ (t = 0 /\ e = 0)
             Old(t, e) == e <= t /\ Before(t, e, total[g], external[g])
  <2>3. ASSUME NEW t \in Nat, NEW e \in Nat, NEW u \in Nat, NEW f \in Nat, New(t, e), Old(u, f)
        PROVE  Comparable(t, e, u, f) /\ Comparable(u, f, t, e)
    BY <2>2, <2>3 DEF Comparable, Before
  <2>4. /\ New(readTotal'[i][g], readExt'[i][g]) /\ Old(readTotal'[i][g], readExt'[i][g])
        /\ readTotal'[i][g] \in Nat /\ readExt'[i][g] \in Nat
    <3>0. Old(total[g], external[g]) /\ Old(0, 0)
      BY <2>2 DEF Before
    <3>1. CASE readTotal'[i][g] = total[g] /\ readExt'[i][g] = external[g]
      <4> HIDE DEF Old, BilledInv, ChargeInv, TypeOK
      <4>1. New(readTotal'[i][g], readExt'[i][g])
        BY <3>1
      <4> HIDE DEF New
      <4>2. readTotal'[i][g] \in Nat /\ readExt'[i][g] \in Nat
        BY <2>2, <3>1
      <4>3. Old(readTotal'[i][g], readExt'[i][g])
        BY <3>0, <3>1, Zenon
      <4> QED
        BY <4>1, <4>2, <4>3
    <3>2. CASE readTotal'[i][g] = 0 /\ readExt'[i][g] = 0
      BY <3>0, <3>2
    <3> QED
      BY <1>1, <3>1, <3>2
  <2>5. \A h \in Importers : Old(readTotal[h][g], readExt[h][g])
    BY <2>1 DEF Past
  <2>6. Old(quantity[g], extCharged[g])
    BY <2>2 DEF Past
  <2> HIDE DEF New, Old
  <2>7. CASE j = i
    BY <1>2, <1>3, <2>1, <2>2, <2>3, <2>4, <2>5, <2>6, <2>7
  <2>8. CASE j # i /\ k = i
    BY <1>2, <1>3, <2>1, <2>3, <2>4, <2>5, <2>8 DEF Chain
  <2>9. CASE j # i /\ k # i
    BY <1>2, <1>3, <2>9 DEF Chain
  <2> QED
    BY <2>7, <2>8, <2>9
<1>6. Posted'
  <2> SUFFICES ASSUME NEW k \in keys, NEW x \in k, NEW j \in Importers
               PROVE  Paid(x[1], x[2], readTotal[j][x[1]], readExt[j][x[1]])'
    BY <1>3 DEF Posted, Paid
  <2>1. x[1] \in Grains /\ x[2] \in Nat
    BY DEF Posted
  <2>2. 0 <= charged[x[1]] - extCharged[x[1]]
    BY <2>1 DEF Settled
  <2>3. CASE j = i
    <3>1. \/ readTotal'[j][x[1]] = total[x[1]] /\ readExt'[j][x[1]] = external[x[1]]
          \/ readTotal'[j][x[1]] = 0 /\ readExt'[j][x[1]] = 0
      BY <1>1, <2>1, <2>3
    <3>2. Paid(x[1], x[2], total[x[1]], external[x[1]])
      BY DEF Posted
    <3> QED
      BY <1>3, <2>1, <2>2, <3>1, <3>2 DEF Paid
  <2>4. CASE j # i
    BY <1>2, <1>3, <2>4 DEF Posted, Paid
  <2> QED
    BY <2>3, <2>4
<1>7. SettledIsBilled'
  BY <1>3 DEF SettledIsBilled
<1> QED
  BY <1>4, <1>5, <1>6, <1>7

\* An importer that is done, or has died, has read nothing.
LEMMA BilledForget ==
  ASSUME BilledInv, NEW i \in Importers, Forget(i),
         UNCHANGED <<total, external, quantity, charged, extCharged, billVars>>
  PROVE  Past' /\ Chain' /\ Posted' /\ SettledIsBilled'
<1> USE DEF BilledInv, ChargeInv, TypeOK, billVars
<1>1. \A g \in Grains : readTotal'[i][g] = 0 /\ readExt'[i][g] = 0
  BY DEF Forget
<1>2. \A j \in Importers \ {i} : readTotal'[j] = readTotal[j] /\ readExt'[j] = readExt[j]
  BY DEF Forget
<1>3. Past'
  BY <1>1, <1>2 DEF Past, Before, Reported
<1>4. Chain'
  <2> SUFFICES ASSUME NEW g \in Grains, NEW j \in Importers, NEW k \in Importers
               PROVE  /\ Comparable(readTotal'[j][g], readExt'[j][g], quantity'[g], extCharged'[g])
                      /\ Comparable(readTotal'[j][g], readExt'[j][g], readTotal'[k][g], readExt'[k][g])
    BY DEF Chain
  <2>1. \A h \in Importers : /\ readTotal[h][g] \in Nat /\ readExt[h][g] \in Nat
                             /\ readExt[h][g] <= readTotal[h][g]
    BY DEF Snapshots
  <2>2. quantity[g] \in Nat /\ extCharged[g] \in Nat /\ extCharged[g] <= quantity[g]
    BY DEF Settled
  <2>3. CASE j = i \/ k = i
    BY <1>1, <1>2, <2>1, <2>2, <2>3 DEF Chain, Comparable, Before
  <2>4. CASE j # i /\ k # i
    BY <1>2, <2>4 DEF Chain
  <2> QED
    BY <2>3, <2>4
<1>5. Posted'
  <2> SUFFICES ASSUME NEW k \in keys, NEW x \in k, NEW j \in Importers
               PROVE  Paid(x[1], x[2], readTotal[j][x[1]], readExt[j][x[1]])'
    BY DEF Posted, Paid
  <2>1. x[1] \in Grains /\ 0 <= charged[x[1]] - extCharged[x[1]]
    BY DEF Posted, Settled
  <2>2. CASE j = i
    BY <1>1, <2>1, <2>2 DEF Posted, Paid
  <2>3. CASE j # i
    BY <1>2, <2>3 DEF Posted, Paid
  <2> QED
    BY <2>2, <2>3
<1>6. SettledIsBilled'
  BY DEF SettledIsBilled
<1> QED
  BY <1>3, <1>4, <1>5, <1>6

\* An import replaces the row by what was read: both were in order with everything else.
LEMMA BilledApply ==
  ASSUME BilledInv, NEW i \in Importers, ApplyRollups(i)
  PROVE  Past' /\ Chain' /\ Posted' /\ SettledIsBilled'
<1> USE DEF BilledInv, ChargeInv, TypeOK
<1>1. ASSUME NEW g \in Grains
      PROVE  /\ \/ quantity'[g] = quantity[g] /\ extCharged'[g] = extCharged[g]
                \/ quantity'[g] = readTotal[i][g] /\ extCharged'[g] = readExt[i][g]
             /\ charged'[g] - extCharged'[g] = charged[g] - extCharged[g]
  <2>1. CASE g \in readRows[i]
    <3>1. /\ quantity'[g] = readTotal[i][g] /\ extCharged'[g] = readExt[i][g]
          /\ charged'[g] = Imported(g, readExt[i][g])
      BY <2>1 DEF ApplyRollups
    <3>2. /\ charged[g] \in Nat /\ extCharged[g] \in Nat /\ extCharged[g] <= charged[g]
          /\ readExt[i][g] \in Nat
      BY DEF Settled
    <3> QED
      BY <3>1, <3>2 DEF Imported, Most
  <2>2. CASE g \notin readRows[i]
    BY <2>2 DEF ApplyRollups
  <2> QED
    BY <2>1, <2>2
<1>2. \A j \in Importers, g \in Grains :
        \/ readTotal'[j][g] = readTotal[j][g] /\ readExt'[j][g] = readExt[j][g]
        \/ readTotal'[j][g] = 0 /\ readExt'[j][g] = 0
  BY DEF ApplyRollups, Forget
<1>3. UNCHANGED <<total, external, keys, covered, forgiven>>
  BY DEF ApplyRollups, clickhouse, billVars
<1>4. ASSUME NEW g \in Grains
      PROVE  /\ quantity[g] \in Nat /\ extCharged[g] \in Nat /\ extCharged[g] <= quantity[g]
             /\ charged[g] \in Nat /\ extCharged[g] <= charged[g]
             /\ total[g] \in Nat /\ external[g] \in Nat /\ external[g] <= total[g]
             /\ \A j \in Importers : /\ readTotal[j][g] \in Nat /\ readExt[j][g] \in Nat
                                     /\ readExt[j][g] <= readTotal[j][g]
  BY DEF Settled, Snapshots, Reported
<1>5. Past'
  <2> SUFFICES ASSUME NEW g \in Grains
               PROVE  /\ Before(quantity'[g], extCharged'[g], total[g], external[g])
                      /\ \A j \in Importers : Before(readTotal'[j][g], readExt'[j][g], total[g], external[g])
    BY <1>3 DEF Past
  <2>1. Before(quantity'[g], extCharged'[g], total[g], external[g])
    BY <1>1 DEF Past
  <2>2. Before(0, 0, total[g], external[g])
    BY <1>4 DEF Before
  <2> QED
    BY <1>2, <2>1, <2>2 DEF Past
<1>6. Chain'
  <2> SUFFICES ASSUME NEW g \in Grains, NEW j \in Importers, NEW k \in Importers
               PROVE  /\ Comparable(readTotal'[j][g], readExt'[j][g], quantity'[g], extCharged'[g])
                      /\ Comparable(readTotal'[j][g], readExt'[j][g], readTotal'[k][g], readExt'[k][g])
    BY DEF Chain
  <2>1. ASSUME NEW t \in Nat, NEW e \in Nat, e <= t
        PROVE  Comparable(0, 0, t, e) /\ Comparable(t, e, 0, 0)
    BY <2>1 DEF Comparable, Before
  <2>2. Comparable(readTotal[j][g], readExt[j][g], quantity'[g], extCharged'[g])
    BY <1>1 DEF Chain
  <2>3. Comparable(0, 0, quantity'[g], extCharged'[g])
    BY <1>1, <1>4, <2>1
  <2>4. \/ readTotal'[j][g] = readTotal[j][g] /\ readExt'[j][g] = readExt[j][g]
        \/ readTotal'[j][g] = 0 /\ readExt'[j][g] = 0
    BY <1>2
  <2>5. \/ readTotal'[k][g] = readTotal[k][g] /\ readExt'[k][g] = readExt[k][g]
        \/ readTotal'[k][g] = 0 /\ readExt'[k][g] = 0
    BY <1>2
  <2>6. /\ Comparable(readTotal[j][g], readExt[j][g], readTotal[k][g], readExt[k][g])
        /\ Comparable(0, 0, readTotal[k][g], readExt[k][g])
        /\ Comparable(readTotal[j][g], readExt[j][g], 0, 0)
        /\ Comparable(0, 0, 0, 0)
    BY <1>4, <2>1 DEF Chain
  <2> QED
    BY <2>2, <2>3, <2>4, <2>5, <2>6
<1>7. Posted'
  <2> SUFFICES ASSUME NEW k \in keys, NEW x \in k
               PROVE  /\ Paid(x[1], x[2], total[x[1]], external[x[1]])'
                      /\ Paid(x[1], x[2], quantity[x[1]], extCharged[x[1]])'
                      /\ \A j \in Importers : Paid(x[1], x[2], readTotal[j][x[1]], readExt[j][x[1]])'
    BY <1>3 DEF Posted
  <2>1. x[1] \in Grains /\ x[2] \in Nat /\ 0 <= charged[x[1]] - extCharged[x[1]]
    BY <1>4 DEF Posted
  <2>2. /\ Paid(x[1], x[2], total[x[1]], external[x[1]])
        /\ Paid(x[1], x[2], quantity[x[1]], extCharged[x[1]])
        /\ \A j \in Importers : Paid(x[1], x[2], readTotal[j][x[1]], readExt[j][x[1]])
    BY DEF Posted
  <2>3. charged'[x[1]] - extCharged'[x[1]] = charged[x[1]] - extCharged[x[1]]
    BY <1>1, <2>1
  <2>4. Paid(x[1], x[2], total[x[1]], external[x[1]])'
    BY <1>3, <2>2, <2>3 DEF Paid
  <2>5. Paid(x[1], x[2], quantity[x[1]], extCharged[x[1]])'
    BY <1>1, <2>1, <2>2, <2>3 DEF Paid
  <2>6. ASSUME NEW j \in Importers PROVE Paid(x[1], x[2], readTotal[j][x[1]], readExt[j][x[1]])'
    <3>1. \/ readTotal'[j][x[1]] = readTotal[j][x[1]] /\ readExt'[j][x[1]] = readExt[j][x[1]]
          \/ readTotal'[j][x[1]] = 0 /\ readExt'[j][x[1]] = 0
      BY <1>2, <2>1
    <3>2. CASE readTotal'[j][x[1]] = readTotal[j][x[1]] /\ readExt'[j][x[1]] = readExt[j][x[1]]
      BY <2>2, <2>3, <3>2 DEF Paid
    <3>3. CASE readTotal'[j][x[1]] = 0 /\ readExt'[j][x[1]] = 0
      BY <2>1, <2>3, <3>3 DEF Paid
    <3> QED
      BY <3>1, <3>2, <3>3
  <2> QED
    BY <2>4, <2>5, <2>6
<1>8. SettledIsBilled'
  BY <1>1, <1>3 DEF SettledIsBilled
<1> QED
  BY <1>5, <1>6, <1>7, <1>8

\* A charge posts a key nobody has posted: up to a posted quantity there is nothing left to charge.
LEMMA BilledCharge ==
  ASSUME BilledInv, NEW c \in Chargers, NEW F \in SUBSET Orgs, Charge(c, F)
  PROVE  Past' /\ Chain' /\ Posted' /\ SettledIsBilled'
<1> USE DEF BilledInv, ChargeInv, TypeOK
<1>1. UNCHANGED <<total, external, quantity, extCharged, readTotal, readExt>>
  BY DEF Charge, clickhouse, importVars
<1>2. Past' /\ Chain'
  BY <1>1 DEF Past, Chain
<1>3. ASSUME NEW g \in batch[c]
      PROVE  /\ g \in Grains /\ quantity[g] > charged[g] /\ charged'[g] = quantity[g]
             /\ quantity[g] \in Nat /\ charged[g] \in Nat /\ extCharged[g] \in Nat
  BY DEF Charge, Locked
<1>4. \A g \in Grains \ batch[c] :
        charged'[g] = charged[g] /\ covered'[g] = covered[g] /\ forgiven'[g] = forgiven[g]
  BY DEF Charge
<1>5. ASSUME NEW g \in batch[c] PROVE ChargeKey(c, Org[g]) \notin keys
  <2> SUFFICES ASSUME ChargeKey(c, Org[g]) \in keys PROVE FALSE
    OBVIOUS
  <2>1. <<g, quantity[g]>> \in ChargeKey(c, Org[g])
    BY DEF ChargeKey
  <2>2. Paid(g, quantity[g], quantity[g], extCharged[g])
    BY <2>1 DEF Posted
  <2> QED
    BY <1>3, <2>2 DEF Paid
<1>6. SettledIsBilled'
  <2> SUFFICES ASSUME NEW g \in Grains
               PROVE  charged'[g] - extCharged'[g] = covered'[g] + forgiven'[g]
    BY DEF SettledIsBilled
  <2>0. /\ charged[g] - extCharged[g] = covered[g] + forgiven[g]
        /\ covered[g] \in Nat /\ forgiven[g] \in Nat
        /\ quantity[g] \in Nat /\ charged[g] \in Nat /\ extCharged[g] \in Nat
        /\ extCharged'[g] = extCharged[g]
    BY <1>1 DEF SettledIsBilled
  <2>4. /\ quantity[g] - extCharged[g] = (covered[g] + (quantity[g] - charged[g])) + forgiven[g]
        /\ quantity[g] - extCharged[g] = covered[g] + (forgiven[g] + (quantity[g] - charged[g]))
    <3> HIDE DEF BilledInv, ChargeInv, TypeOK
    <3> QED
      BY <2>0, SettleOne
  <2>1. CASE g \in batch[c] /\ Org[g] \in F
    <3>1. covered'[g] = covered[g] + (quantity[g] - charged[g]) /\ forgiven'[g] = forgiven[g]
      BY <1>5, <2>1 DEF Charge, Uncharged
    <3>2. charged'[g] = quantity[g]
      BY <1>3, <2>1
    <3> HIDE DEF BilledInv, TypeOK
    <3> QED
      BY <2>0, <2>4, <3>1, <3>2
  <2>2. CASE g \in batch[c] /\ Org[g] \notin F
    <3>1. covered'[g] = covered[g] /\ forgiven'[g] = forgiven[g] + (quantity[g] - charged[g])
      BY <2>2 DEF Charge, Uncharged
    <3>2. charged'[g] = quantity[g]
      BY <1>3, <2>2
    <3> HIDE DEF BilledInv, TypeOK
    <3> QED
      BY <2>0, <2>4, <3>1, <3>2
  <2>3. CASE g \notin batch[c]
    BY <1>1, <1>4, <2>0, <2>3
  <2> QED
    BY <2>1, <2>2, <2>3
<1>7. ASSUME NEW g \in Grains
      PROVE  /\ charged[g] - extCharged[g] <= charged'[g] - extCharged'[g]
             /\ charged'[g] - extCharged'[g] \in Int
  <2>1. CASE g \in batch[c]
    BY <1>1, <1>3, <2>1
  <2>2. CASE g \notin batch[c]
    BY <1>1, <1>4, <2>2
  <2> QED
    BY <2>1, <2>2
<1>8. Posted'
  <2> SUFFICES ASSUME NEW k \in keys', NEW x \in k
               PROVE  /\ x[1] \in Grains /\ x[2] \in Nat /\ x[2] <= total[x[1]]
                      /\ Paid(x[1], x[2], total[x[1]], external[x[1]])'
                      /\ Paid(x[1], x[2], quantity[x[1]], extCharged[x[1]])'
                      /\ \A i \in Importers : Paid(x[1], x[2], readTotal[i][x[1]], readExt[i][x[1]])'
    BY <1>1 DEF Posted
  <2>1. CASE k \in keys
    <3>1. /\ x[1] \in Grains /\ x[2] \in Nat /\ x[2] <= total[x[1]]
          /\ Paid(x[1], x[2], total[x[1]], external[x[1]])
          /\ Paid(x[1], x[2], quantity[x[1]], extCharged[x[1]])
          /\ \A i \in Importers : Paid(x[1], x[2], readTotal[i][x[1]], readExt[i][x[1]])
      BY <2>1 DEF Posted
    <3>2. /\ charged[x[1]] - extCharged[x[1]] <= charged'[x[1]] - extCharged'[x[1]]
          /\ charged'[x[1]] - extCharged'[x[1]] \in Int /\ charged[x[1]] - extCharged[x[1]] \in Int
      BY <1>7, <3>1
    <3>3. ASSUME NEW t \in Nat, NEW e \in Nat, t <= x[2] => t - e <= charged[x[1]] - extCharged[x[1]]
          PROVE  t <= x[2] => t - e <= charged'[x[1]] - extCharged'[x[1]]
      BY <3>1, <3>2, <3>3
    <3>4. /\ total[x[1]] \in Nat /\ external[x[1]] \in Nat /\ quantity[x[1]] \in Nat /\ extCharged[x[1]] \in Nat
          /\ \A i \in Importers : readTotal[i][x[1]] \in Nat /\ readExt[i][x[1]] \in Nat
      BY <3>1
    <3> QED
      BY <1>1, <3>1, <3>3, <3>4 DEF Paid
  <2>2. CASE k \notin keys
    <3>1. PICK g \in batch[c] : x = <<g, quantity[g]>>
      BY <2>2 DEF Charge, ChargeKey
    <3>2. /\ g \in Grains /\ x[1] = g /\ x[2] = quantity[g] /\ charged'[g] = quantity[g]
          /\ quantity[g] \in Nat /\ extCharged[g] \in Nat
      BY <1>3, <3>1
    <3>3. total[g] \in Nat /\ external[g] \in Nat /\ Before(quantity[g], extCharged[g], total[g], external[g])
      BY <3>2 DEF Past
    <3>4. quantity[g] <= total[g]
      BY <3>2, <3>3 DEF Before
    <3>5. ASSUME NEW t \in Nat, NEW e \in Nat, Comparable(t, e, quantity[g], extCharged[g])
          PROVE  t <= quantity[g] => t - e <= quantity[g] - extCharged[g]
      BY <3>2, <3>5 DEF Comparable, Before
    <3>6. ASSUME NEW i \in Importers
          PROVE  /\ readTotal[i][g] \in Nat /\ readExt[i][g] \in Nat
                 /\ Comparable(readTotal[i][g], readExt[i][g], quantity[g], extCharged[g])
      BY <3>2 DEF Chain
    <3>7. Comparable(total[g], external[g], quantity[g], extCharged[g])
      BY <3>3 DEF Comparable
    <3>8. Comparable(quantity[g], extCharged[g], quantity[g], extCharged[g])
      BY <3>2 DEF Comparable, Before
    <3> QED
      BY <1>1, <3>2, <3>3, <3>4, <3>5, <3>6, <3>7, <3>8 DEF Paid
  <2> QED
    BY <2>1, <2>2
<1> QED
  BY <1>2, <1>6, <1>8

LEMMA BilledStep ==
  ASSUME Corrections = {}, BilledInv, [Next]_vars
  PROVE  BilledInv'
<1> SUFFICES Past' /\ Chain' /\ Posted' /\ SettledIsBilled'
  BY InvStep DEF BilledInv
<1>1. ASSUME NEW g \in Grains, NEW d \in Changes, Insert(g, d)
      PROVE  Past' /\ Chain' /\ Posted' /\ SettledIsBilled'
  <2>1. CASE Late
    BY <1>1, <2>1 DEF Insert, BilledInv, Past, Chain, Posted, Paid, SettledIsBilled, rollupVars, importVars, billVars
  <2>2. CASE ~Late
    BY <1>1, <2>2, OnlyGrows, UsageArrives DEF Insert
  <2> QED
    BY <2>1, <2>2
<1>2. ASSUME NEW p \in inserting, Land(p)
      PROVE  Past' /\ Chain' /\ Posted' /\ SettledIsBilled'
  <2>1. p[1] \in Grains /\ p[3] \in Changes
    BY DEF BilledInv, ChargeInv, Arriving
  <2> QED
    BY <1>2, <2>1, OnlyGrows, UsageArrives DEF Land
<1>3. ASSUME NEW i \in Importers, ReadCursor(i) \/ ReadWatermark(i)
      PROVE  Past' /\ Chain' /\ Posted' /\ SettledIsBilled'
  BY <1>3 DEF ReadCursor, ReadWatermark, clickhouse, rollupVars, billVars, BilledInv, Past, Chain,
     Posted, Paid, SettledIsBilled
<1>4. ASSUME NEW i \in Importers, ImportDies(i)
      PROVE  Past' /\ Chain' /\ Posted' /\ SettledIsBilled'
  BY <1>4, BilledForget DEF ImportDies, clickhouse, rollupVars
<1>5. ASSUME NEW c \in Chargers, Claim(c) \/ ChargeDies(c)
      PROVE  Past' /\ Chain' /\ Posted' /\ SettledIsBilled'
  BY <1>5 DEF Claim, ChargeDies, clickhouse, rollupVars, importVars, billVars, BilledInv, Past, Chain,
     Posted, Paid, SettledIsBilled
<1>6. CASE UNCHANGED vars
  BY <1>6 DEF vars, clickhouse, rollupVars, importVars, billVars, BilledInv, Past, Chain,
     Posted, Paid, SettledIsBilled
<1> QED
  BY <1>1, <1>2, <1>3, <1>4, <1>5, <1>6, BilledQuery, BilledApply, BilledCharge DEF Next, Import, ChargeAny

\* chargeUsage() stamps a platform-funded unit as charged only with a posting that bills it or when
\* nothing could be debited, however many imports and charges overlap, apply what they read late, fail
\* or repeat: while metering corrects nothing, chargeKey() never names a key again.
THEOREM SettlesOnlyBilled ==
  ASSUME Corrections = {}
  PROVE  Spec => []SettledIsBilled
<1>1. Init => BilledInv
  BY BilledInit
<1>2. BilledInv /\ [Next]_vars => BilledInv'
  BY BilledStep
<1>3. BilledInv => SettledIsBilled
  BY DEF BilledInv
<1> QED
  BY <1>1, <1>2, <1>3, PTL DEF Spec
=============================================================================
