---------------------------- MODULE UsageCharging ----------------------------
(***************************************************************************)
(* Metered usage on its way to the ledger: importUsageJob of               *)
(* lib/typescript/jobs/src/handlers.ts copies ClickHouse's absolute totals *)
(* into usage_rollup (billing/src/import-rollups.ts), and chargeUsage      *)
(* (billing/src/charge.ts) bills what a row holds beyond charged_quantity. *)
(*                                                                         *)
(* Both jobs recur, may run twice at once and may die anywhere.  Money is  *)
(* CreditLedger's subject; here a posting covers the units it was rated    *)
(* from, and units settled without one, because nothing could be debited,  *)
(* are forgiven.                                                           *)
(***************************************************************************)
EXTENDS Integers, FiniteSets

CONSTANTS
  Grains,      \* hourly rollup rows, numbered in the order of bucket_start
  Orgs,
  Org,         \* [Grains -> Orgs]: whose usage it is
  BatchSize,   \* CHARGE_BATCH_SIZE
  Importers,   \* executions of importUsageJob in flight
  Chargers,    \* executions of chargeUsageJob in flight
  Corrections, \* how metering corrects an event afterwards
  Late,        \* does ClickHouse show a row only some time after stamping it?
  MaxEvents,   \* bound: usage events and corrections
  MaxFaults    \* bound: executions that fail

ASSUME ChargingAssumption ==
  /\ Grains \subseteq Nat
  /\ Org \in [Grains -> Orgs]
  /\ BatchSize \in Nat \ {0}
  /\ Corrections \subseteq {"reduce", "removeByo", "fundByo"}
  /\ Late \in BOOLEAN
  /\ MaxEvents \in Nat /\ MaxFaults \in Nat

VARIABLES
  total,       \* [Grains -> ClickHouse's deduplicated sum]
  external,    \* [Grains -> the part of it marked charged_externally]
  clock,       \* ClickHouse's clock: stored_at of the newest row
  stored,      \* <<grain, stored_at>> of every version of every event that can be read
  inserting,   \* versions stamped but not yet readable
  quantity,    \* [Grains -> usage_rollup.quantity, 0 without a row]
  charged,     \* [Grains -> charged_quantity]
  extCharged,  \* [Grains -> externally_charged_quantity]
  cursor,      \* metering_import_state.cursor
  at,          \* [Importers -> the statement importUsageJob is at]
  since,       \* [Importers -> the cursor it read]
  until,       \* [Importers -> ClickHouse's watermark]
  readRows,    \* [Importers -> the grains its query returned]
  readTotal,   \* [Importers -> [Grains -> their quantity]]
  readExt,     \* [Importers -> [Grains -> their externally charged quantity]]
  batch,       \* [Chargers -> the rows its transaction holds FOR UPDATE]
  keys,        \* idempotency keys of usage postings
  covered,     \* [Grains -> units billed by a posting]
  forgiven,    \* [Grains -> units settled although nothing could be debited]
  peak,        \* [Grains -> the most platform-funded usage metering ever reported]
  faults

clickhouse == <<total, external, clock, stored, inserting, peak>>
rollupVars == <<quantity, charged, extCharged>>
importVars == <<at, since, until, readRows, readTotal, readExt>>
billVars   == <<keys, covered, forgiven>>
vars       == <<clickhouse, rollupVars, cursor, importVars, batch, billVars, faults>>

Most(a, b) == IF a > b THEN a ELSE b
Fault == faults < MaxFaults /\ faults' = faults + 1

-----------------------------------------------------------------------------
(* ClickHouse: one event or correction adds dt to a grain and de to its external part. *)

Apply(g, dt, de) ==
  /\ total[g] + dt >= external[g] + de /\ external[g] + de >= 0
  /\ total' = [total EXCEPT ![g] = @ + dt]
  /\ external' = [external EXCEPT ![g] = @ + de]
  /\ peak' = [peak EXCEPT ![g] = Most(@, total[g] + dt - (external[g] + de))]

\* New usage, platform-funded or on the customer's own key, or a later correction of it.
Changes ==
  {<<1, 0>>, <<1, 1>>}
    \cup (IF "reduce" \in Corrections THEN {<<-1, 0>>} ELSE {})
    \cup (IF "removeByo" \in Corrections THEN {<<-1, -1>>} ELSE {})
    \cup (IF "fundByo" \in Corrections THEN {<<0, -1>>} ELSE {})

Insert(g, d) ==
  /\ clock < MaxEvents
  /\ clock' = clock + 1
  /\ IF Late
     THEN inserting' = inserting \cup {<<g, clock + 1, d>>} /\ UNCHANGED <<total, external, peak, stored>>
     ELSE Apply(g, d[1], d[2]) /\ stored' = stored \cup {<<g, clock + 1>>} /\ UNCHANGED inserting
  /\ UNCHANGED <<rollupVars, cursor, importVars, batch, billVars, faults>>

Land(p) ==
  /\ p \in inserting
  /\ Apply(p[1], p[3][1], p[3][2])
  /\ inserting' = inserting \ {p}
  /\ stored' = stored \cup {<<p[1], p[2]>>}
  /\ UNCHANGED <<clock, rollupVars, cursor, importVars, batch, billVars, faults>>

-----------------------------------------------------------------------------
(* importUsageJob, a statement at a time. *)

ReadCursor(i) ==
  /\ at[i] = "idle"
  /\ at' = [at EXCEPT ![i] = "watermark"]
  /\ since' = [since EXCEPT ![i] = cursor]
  /\ UNCHANGED <<clickhouse, rollupVars, cursor, until, readRows, readTotal, readExt, batch, billVars, faults>>

ReadWatermark(i) ==
  /\ at[i] = "watermark"
  /\ at' = [at EXCEPT ![i] = "query"]
  /\ until' = [until EXCEPT ![i] = clock]
  /\ UNCHANGED <<clickhouse, rollupVars, cursor, since, readRows, readTotal, readExt, batch, billVars, faults>>

\* The grains with an event stored after a and not after b.
Touched(a, b) == {g \in Grains : \E s \in stored : s[1] = g /\ a < s[2] /\ s[2] <= b}

\* They are read with the totals they have now.
Query(i) ==
  /\ at[i] = "query"
  /\ at' = [at EXCEPT ![i] = "apply"]
  /\ readRows' = [readRows EXCEPT ![i] = Touched(since[i], until[i])]
  /\ readTotal' = [readTotal EXCEPT ![i] =
       [g \in Grains |-> IF g \in Touched(since[i], until[i]) THEN total[g] ELSE 0]]
  /\ readExt' = [readExt EXCEPT ![i] =
       [g \in Grains |-> IF g \in Touched(since[i], until[i]) THEN external[g] ELSE 0]]
  /\ UNCHANGED <<clickhouse, rollupVars, cursor, since, until, batch, billVars, faults>>

\* Mutant of Imported: what is already settled stays where it is.
ImportedKeeps(g, e) == Most(charged[g], e)

\* charged_quantity of a row whose external part becomes e: platform charges stay.
Imported(g, e) == Most(charged[g] - extCharged[g], 0) + e

Forget(i) ==
  /\ at' = [at EXCEPT ![i] = "idle"]
  /\ since' = [since EXCEPT ![i] = 0]
  /\ until' = [until EXCEPT ![i] = 0]
  /\ readRows' = [readRows EXCEPT ![i] = {}]
  /\ readTotal' = [readTotal EXCEPT ![i] = [g \in Grains |-> 0]]
  /\ readExt' = [readExt EXCEPT ![i] = [g \in Grains |-> 0]]

\* Mutant of NewCursor: where the next query starts is read when the rollups are written.
NewCursorNow(i) == clock

NewCursor(i) == until[i]

\* applyImportedUsageRollups(): one transaction, which waits for rows a charger has locked.
ApplyRollups(i) ==
  /\ at[i] = "apply"
  /\ \A c \in Chargers : batch[c] \cap readRows[i] = {}
  /\ quantity' = [g \in Grains |-> IF g \in readRows[i] THEN readTotal[i][g] ELSE quantity[g]]
  /\ charged' = [g \in Grains |-> IF g \in readRows[i] THEN Imported(g, readExt[i][g]) ELSE charged[g]]
  /\ extCharged' = [g \in Grains |-> IF g \in readRows[i] THEN readExt[i][g] ELSE extCharged[g]]
  /\ cursor' = NewCursor(i)
  /\ Forget(i)
  /\ UNCHANGED <<clickhouse, batch, billVars, faults>>

ImportDies(i) ==
  /\ at[i] # "idle"
  /\ Fault
  /\ Forget(i)
  /\ UNCHANGED <<clickhouse, rollupVars, cursor, batch, billVars>>

-----------------------------------------------------------------------------
(* chargeUsage(): claim, then charge each organization, in one transaction. *)

\* FOR UPDATE SKIP LOCKED
Free == {g \in Grains : \A c \in Chargers : g \notin batch[c]}

\* Mutant of Chargeable: a row that was charged once is done.
ChargeableOnce == {g \in Free : quantity[g] > 0 /\ charged[g] = 0}

Chargeable == {g \in Free : quantity[g] > charged[g]}

\* The first rows in the order of bucket_start.
First(S) == {g \in S : Cardinality({h \in S : h < g}) < BatchSize}

Claim(c) ==
  /\ batch[c] = {} /\ Chargeable # {}
  /\ batch' = [batch EXCEPT ![c] = First(Chargeable)]
  /\ UNCHANGED <<clickhouse, rollupVars, cursor, importVars, billVars, faults>>

Billed(c) == {Org[g] : g \in batch[c]}

\* chargeKey(): the rows and the quantities they stand at.
ChargeKey(c, o) == {<<g, quantity[g]>> : g \in {h \in batch[c] : Org[h] = o}}

\* Mutant of Uncharged: the grain's whole quantity.
UnchargedAll(g) == quantity[g]

Uncharged(g) == quantity[g] - charged[g]

\* What an organization owes is posted unless nothing can be debited (those not in F), or the
\* key has been posted already; the rows are stamped either way.
Charge(c, F) ==
  /\ batch[c] # {} /\ F \subseteq Billed(c)
  /\ keys' = keys \cup {ChargeKey(c, o) : o \in F}
  /\ covered' = [g \in Grains |->
       IF g \in batch[c] /\ Org[g] \in F /\ ChargeKey(c, Org[g]) \notin keys
       THEN covered[g] + Uncharged(g) ELSE covered[g]]
  /\ forgiven' = [g \in Grains |->
       IF g \in batch[c] /\ Org[g] \notin F THEN forgiven[g] + Uncharged(g) ELSE forgiven[g]]
  /\ charged' = [g \in Grains |-> IF g \in batch[c] THEN quantity[g] ELSE charged[g]]
  /\ batch' = [batch EXCEPT ![c] = {}]
  /\ UNCHANGED <<clickhouse, quantity, extCharged, cursor, importVars, faults>>

\* Rolled back: no price, an allocation error, a deadlock of two batches or a dead process.
ChargeDies(c) ==
  /\ batch[c] # {}
  /\ Fault
  /\ batch' = [batch EXCEPT ![c] = {}]
  /\ UNCHANGED <<clickhouse, rollupVars, cursor, importVars, billVars>>

-----------------------------------------------------------------------------
Init ==
  /\ total = [g \in Grains |-> 0] /\ external = [g \in Grains |-> 0] /\ peak = [g \in Grains |-> 0]
  /\ clock = 0 /\ stored = {} /\ inserting = {}
  /\ quantity = [g \in Grains |-> 0] /\ charged = [g \in Grains |-> 0] /\ extCharged = [g \in Grains |-> 0]
  /\ cursor = 0
  /\ at = [i \in Importers |-> "idle"]
  /\ since = [i \in Importers |-> 0] /\ until = [i \in Importers |-> 0]
  /\ readRows = [i \in Importers |-> {}]
  /\ readTotal = [i \in Importers |-> [g \in Grains |-> 0]]
  /\ readExt = [i \in Importers |-> [g \in Grains |-> 0]]
  /\ batch = [c \in Chargers |-> {}]
  /\ keys = {} /\ covered = [g \in Grains |-> 0] /\ forgiven = [g \in Grains |-> 0]
  /\ faults = 0

Import(i) == ReadCursor(i) \/ ReadWatermark(i) \/ Query(i) \/ ApplyRollups(i)
ChargeAny(c) == \E F \in SUBSET Orgs : Charge(c, F)

Next ==
  \/ \E g \in Grains, d \in Changes : Insert(g, d)
  \/ \E p \in inserting : Land(p)
  \/ \E i \in Importers : Import(i) \/ ImportDies(i)
  \/ \E c \in Chargers : Claim(c) \/ ChargeAny(c) \/ ChargeDies(c)

Spec == Init /\ [][Next]_vars

\* Both jobs are scheduled every ten minutes and retried, PostgreSQL queues an import behind the
\* rows it waits for, and ClickHouse shows what it has stamped.  Usage and faults owe nothing.
Fairness ==
  /\ \A i \in Importers : WF_vars(Import(i)) /\ SF_vars(ApplyRollups(i))
  /\ \A c \in Chargers : WF_vars(Claim(c)) /\ WF_vars(ChargeAny(c))
  /\ WF_vars(\E p \in inserting : Land(p))

FairSpec == Spec /\ Fairness

-----------------------------------------------------------------------------
(* Properties *)

\* Type invariant.
TypeOK ==
  /\ total \in [Grains -> Nat] /\ external \in [Grains -> Nat] /\ peak \in [Grains -> Nat]
  /\ clock \in Nat
  /\ quantity \in [Grains -> Nat] /\ charged \in [Grains -> Nat] /\ extCharged \in [Grains -> Nat]
  /\ cursor \in Nat
  /\ at \in [Importers -> {"idle", "watermark", "query", "apply"}]
  /\ since \in [Importers -> Nat] /\ until \in [Importers -> Nat]
  /\ readRows \in [Importers -> SUBSET Grains]
  /\ readTotal \in [Importers -> [Grains -> Nat]] /\ readExt \in [Importers -> [Grains -> Nat]]
  /\ batch \in [Chargers -> SUBSET Grains]
  /\ covered \in [Grains -> Nat] /\ forgiven \in [Grains -> Nat]
  /\ faults \in Nat

\* Nobody pays twice for the same usage: however imports and charges overlap, repeat, arrive
\* late or are corrected, the units billed and forgiven never exceed the platform-funded usage
\* metering has reported for the hour.
NeverOverbilled == \A g \in Grains : covered[g] + forgiven[g] <= peak[g]

\* Usage is not given away silently: a platform-funded unit recorded as charged was billed by a
\* posting, or could not be debited.
SettledIsBilled ==
  \A g \in Grains : charged[g] - extCharged[g] = covered[g] + forgiven[g]

\* Every event that metering reported reaches the rollup it is billed from.
ImportsConverge ==
  <>[](\A g \in Grains : quantity[g] = total[g] /\ extCharged[g] = external[g])

\* ... and is charged.
UsageIsCharged == <>[](\A g \in Grains : quantity[g] <= charged[g])
=============================================================================
