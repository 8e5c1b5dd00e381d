---------------------------- MODULE CreditLedger ----------------------------
(***************************************************************************)
(* One organization's prepaid credit: the double-entry ledger of           *)
(* lib/typescript/billing/src/ledger.ts, the holds of holds.ts, the debit  *)
(* of chargeUsage (charge.ts) and the metered run of agent/src/run.ts,     *)
(* which reserves before it works and settles afterwards.                  *)
(*                                                                         *)
(* Every operation is a READ COMMITTED transaction of several statements.  *)
(* The model keeps the statements that interact: the row locks, the two    *)
(* reads of balances() (posted entries, then active holds) and the commit. *)
(* The sums SQL computes over entries and holds are kept as running totals *)
(* (posted, held); HeldIsSum compares the second with the rows.            *)
(***************************************************************************)
EXTENDS Integers, FiniteSets

CONSTANTS
  Clients,     \* database transactions in flight: API handlers, jobs, agent runs
  Holds,       \* hold ids; each is one metered run
  Amounts,     \* what a hold may reserve
  Costs,       \* what usage and overhead may turn out to cost
  TopUps,      \* idempotency keys of top-up postings
  Credit,      \* [TopUps -> Nat]: what a top-up credits
  Fee,         \* [TopUps -> Nat]: its processing fee
  Debits,      \* idempotency keys of spend() and of usage charges
  Reserve,     \* credit_retention_state.reserve_micro_usd
  NULL

ASSUME LedgerAssumption ==
  /\ Amounts \subseteq Nat \ {0}
  /\ Costs \subseteq Nat
  /\ Credit \in [TopUps -> Nat]
  /\ Fee \in [TopUps -> Nat]
  /\ Reserve \in Nat
  /\ NULL \notin Clients
  /\ NULL \notin Holds
  /\ NULL \notin Debits

VARIABLES
  posted,      \* sum of the user_credit entries
  revenue,     \* sum of the platform_revenue entries
  clearing,    \* sum of the stripe_clearing entries
  held,        \* sum of the active holds
  keys,        \* idempotency keys in credit_transaction
  status,      \* [Holds -> hold status, "none" before placeHold]
  amount,      \* [Holds -> reserved amount]
  lapsed,      \* holds whose expires_at has passed
  attempted,   \* holds whose run has called settle, which it does once
  accountLock, \* client holding FOR UPDATE on the user_credit account row
  holdLock,    \* [Holds -> client holding FOR UPDATE on the hold row]
  pc,          \* [Clients -> statement the transaction is at]
  op,          \* [Clients -> the operation]
  hold,        \* [Clients -> its hold]
  key,         \* [Clients -> its idempotency key]
  usage,       \* [Clients -> usage cost; the amount, for placeHold and spend]
  fee,         \* [Clients -> overhead]
  storage,     \* [Clients -> how much of a charge's usage is object storage]
  seenPosted,  \* [Clients -> the posted balance balances() read]
  seenHeld     \* [Clients -> the held total it read next]

ledgerVars == <<posted, revenue, clearing, keys>>
holdVars   == <<held, status, amount, lapsed, attempted>>
lockVars   == <<accountLock, holdLock>>
argVars    == <<op, hold, key, usage, fee, storage>>
seenVars   == <<seenPosted, seenHeld>>
vars       == <<ledgerVars, holdVars, lockVars, pc, argVars, seenVars>>

Least(a, b) == IF a < b THEN a ELSE b
Most(a, b)  == IF a > b THEN a ELSE b

\* Key of the posting that settles hold h.
HoldKey(h) == <<"hold", h>>

Available(c) == seenPosted[c] - seenHeld[c]

-----------------------------------------------------------------------------
(* Starting a transaction. *)

Start(c, o, h, k, u, f, g) ==
  /\ pc[c] = "idle"
  /\ pc' = [pc EXCEPT ![c] = "lock"]
  /\ op' = [op EXCEPT ![c] = o]
  /\ hold' = [hold EXCEPT ![c] = h]
  /\ key' = [key EXCEPT ![c] = k]
  /\ usage' = [usage EXCEPT ![c] = u]
  /\ fee' = [fee EXCEPT ![c] = f]
  /\ storage' = [storage EXCEPT ![c] = g]

\* placeHold(): the reservation a metered run makes before it spends.
StartPlace(c, h, a) ==
  /\ status[h] = "none"
  /\ \A d \in Clients : pc[d] # "idle" /\ op[d] = "place" => hold[d] # h
  /\ Start(c, "place", h, NULL, a, 0, 0)
  /\ UNCHANGED <<ledgerVars, holdVars, lockVars, seenVars>>

\* spend() with an idempotency key the caller may use again.
StartSpend(c, k, a) ==
  /\ Start(c, "spend", NULL, k, a, 0, 0)
  /\ UNCHANGED <<ledgerVars, holdVars, lockVars, seenVars>>

\* The debit chargeUsage makes for one organization: g of the usage is object storage.
StartCharge(c, k, u, f, g) ==
  /\ g <= u
  /\ Start(c, "charge", NULL, k, u, f, g)
  /\ UNCHANGED <<ledgerVars, holdVars, lockVars, seenVars>>

\* Mutant of LockActive: the status is not looked at.
LockAny(c, h) == status[h] # "none" /\ holdLock[h] = NULL

\* lockActiveHold(): select ... for update, which waits for the row, and refuses a closed hold.
LockActive(c, h) == status[h] = "active" /\ holdLock[h] = NULL

\* settleHoldWithin(): the run is over, its hold row is locked first.
StartSettle(c, h, u, f) ==
  /\ h \notin attempted
  /\ LockActive(c, h)
  /\ attempted' = attempted \cup {h}
  /\ holdLock' = [holdLock EXCEPT ![h] = c]
  /\ Start(c, "settle", h, HoldKey(h), u, f, 0)
  /\ UNCHANGED <<ledgerVars, held, status, amount, lapsed, accountLock, seenVars>>

\* A run that outlived its hold: settling throws HoldNotActiveError and charges nothing.
SettleTooLate(h) ==
  /\ h \notin attempted
  /\ status[h] \notin {"none", "active"}
  /\ attempted' = attempted \cup {h}
  /\ UNCHANGED <<ledgerVars, held, status, amount, lapsed, lockVars, pc, argVars, seenVars>>

-----------------------------------------------------------------------------
(* The statements in between. *)

\* closeHold(), or the update of expireHolds(): the reservation counts only while active.
Close(h, st) ==
  /\ status' = [status EXCEPT ![h] = st]
  /\ held' = held - amount[h]

\* The local state of a finished transaction.
Forget(c) ==
  /\ pc' = [pc EXCEPT ![c] = "idle"]
  /\ op' = [op EXCEPT ![c] = "none"]
  /\ hold' = [hold EXCEPT ![c] = NULL]
  /\ key' = [key EXCEPT ![c] = NULL]
  /\ usage' = [usage EXCEPT ![c] = 0]
  /\ fee' = [fee EXCEPT ![c] = 0]
  /\ storage' = [storage EXCEPT ![c] = 0]
  /\ seenPosted' = [seenPosted EXCEPT ![c] = 0]
  /\ seenHeld' = [seenHeld EXCEPT ![c] = 0]

\* Mutant of End: the connection goes back to the pool with its transaction open.
EndKeepsLocks(c) == Forget(c) /\ UNCHANGED lockVars

\* A transaction ends, by commit or rollback: its row locks go, and its local state with it.
End(c) ==
  /\ Forget(c)
  /\ accountLock' = IF accountLock = c THEN NULL ELSE accountLock
  /\ holdLock' = [h \in Holds |-> IF holdLock[h] = c THEN NULL ELSE holdLock[h]]

\* A run that cost nothing closes its hold before the account is locked.
SettleFree(c) ==
  /\ pc[c] = "lock" /\ op[c] = "settle" /\ usage[c] + fee[c] = 0
  /\ Close(hold[c], "released")
  /\ End(c)
  /\ UNCHANGED <<ledgerVars, amount, lapsed, attempted>>

\* Mutant of LockAccount: the balance is read without FOR UPDATE.
LockNothing(c) ==
  /\ pc[c] = "lock" /\ (op[c] = "settle" => usage[c] + fee[c] > 0)
  /\ pc' = [pc EXCEPT ![c] = "readPosted"]
  /\ UNCHANGED <<ledgerVars, holdVars, lockVars, argVars, seenVars>>

LockAccount(c) ==
  /\ pc[c] = "lock" /\ (op[c] = "settle" => usage[c] + fee[c] > 0)
  /\ accountLock = NULL
  /\ accountLock' = c
  /\ pc' = [pc EXCEPT ![c] = "readPosted"]
  /\ UNCHANGED <<ledgerVars, holdVars, holdLock, argVars, seenVars>>

\* balances(): the entries, then, in a statement of its own, the active holds.
ReadPosted(c) ==
  /\ pc[c] = "readPosted"
  /\ seenPosted' = [seenPosted EXCEPT ![c] = posted]
  /\ pc' = [pc EXCEPT ![c] = "readHeld"]
  /\ UNCHANGED <<ledgerVars, holdVars, lockVars, argVars, seenHeld>>

ReadHeld(c) ==
  /\ pc[c] = "readHeld"
  /\ seenHeld' = [seenHeld EXCEPT ![c] = held]
  /\ pc' = [pc EXCEPT ![c] = "write"]
  /\ UNCHANGED <<ledgerVars, holdVars, lockVars, argVars, seenPosted>>

-----------------------------------------------------------------------------
(* The decision, the writes and the commit. *)

\* Mutant of Debit: the key is recorded and not looked up.
DebitRepeats(k, paidUsage, paidOverhead, d) ==
  /\ keys' = keys \cup {k}
  /\ posted' = posted - d
  /\ revenue' = revenue + paidUsage + paidOverhead
  /\ UNCHANGED clearing

\* postWithin(): debit d from user_credit under key k, paid into revenue as usage and
\* overhead; nothing when the key has been posted.
Debit(k, paidUsage, paidOverhead, d) ==
  IF k \in keys THEN UNCHANGED ledgerVars
  ELSE /\ keys' = keys \cup {k}
       /\ posted' = posted - d
       /\ revenue' = revenue + paidUsage + paidOverhead
       /\ UNCHANGED clearing

CommitPlace(c) ==
  /\ pc[c] = "write" /\ op[c] = "place"
  /\ usage[c] <= Available(c)
  /\ status' = [status EXCEPT ![hold[c]] = "active"]
  /\ amount' = [amount EXCEPT ![hold[c]] = usage[c]]
  /\ held' = held + usage[c]
  /\ End(c)
  /\ UNCHANGED <<ledgerVars, lapsed, attempted>>

CommitSpend(c) ==
  /\ pc[c] = "write" /\ op[c] = "spend"
  /\ usage[c] <= Available(c)
  /\ Debit(key[c], usage[c], 0, usage[c])
  /\ End(c)
  /\ UNCHANGED holdVars

\* InsufficientBalanceError: placeHold and spend roll back.
Refuse(c) ==
  /\ pc[c] = "write" /\ op[c] \in {"place", "spend"}
  /\ usage[c] > Available(c)
  /\ End(c)
  /\ UNCHANGED <<ledgerVars, holdVars>>

\* What settlement may take: this hold's reservation is spendable again, the others are not.
SettleDebit(c) ==
  LET spendable == Available(c) + amount[hold[c]]
  IN  IF spendable <= 0 THEN 0 ELSE Least(usage[c] + fee[c], spendable)

\* Usage is paid before overhead.
PaidUsage(c, d)    == Least(usage[c], d)
PaidOverhead(c, d) == d - PaidUsage(c, d)

CommitSettle(c) ==
  LET d == SettleDebit(c) IN
  /\ pc[c] = "write" /\ op[c] = "settle"
  /\ Close(hold[c], "settled")
  /\ IF d = 0 THEN UNCHANGED ledgerVars ELSE Debit(key[c], PaidUsage(c, d), PaidOverhead(c, d), d)
  /\ End(c)
  /\ UNCHANGED <<amount, lapsed, attempted>>

\* Mutant of ProtectedUsageDebit: capped by the balance alone.
CappedUsageDebit(available, total, store, reserve) ==
  IF available <= 0 \/ total <= 0 THEN 0 ELSE Least(total, available)

\* protectedUsageDebit(): only storage may eat into the reserve.
ProtectedUsageDebit(available, total, store, reserve) ==
  IF available <= 0 \/ total <= 0 THEN 0
  ELSE LET payable == Most(available - reserve, 0) + store
       IN  Least(Least(total, available), payable)

ChargeDebit(c) == ProtectedUsageDebit(Available(c), usage[c] + fee[c], storage[c], Reserve)

\* The unpaid tail of a charge is forgiven, not owed.
CommitCharge(c) ==
  LET d == ChargeDebit(c) IN
  /\ pc[c] = "write" /\ op[c] = "charge"
  /\ IF d = 0 THEN UNCHANGED ledgerVars ELSE Debit(key[c], PaidUsage(c, d), PaidOverhead(c, d), d)
  /\ End(c)
  /\ UNCHANGED holdVars

\* The transaction rolls back: an error, a lost connection or a dead process.
Abort(c) ==
  /\ pc[c] # "idle"
  /\ End(c)
  /\ UNCHANGED <<ledgerVars, holdVars>>

-----------------------------------------------------------------------------
(* Operations that take no account lock. *)

\* releaseHold(): closes an active hold without charging.
ReleaseHold(h) ==
  /\ h \notin attempted
  /\ LockActive(NULL, h)
  /\ Close(h, "released")
  /\ attempted' = attempted \cup {h}
  /\ UNCHANGED <<ledgerVars, amount, lapsed, lockVars, pc, argVars, seenVars>>

\* expires_at passes.
Lapse(h) ==
  /\ status[h] = "active"
  /\ h \notin lapsed
  /\ lapsed' = lapsed \cup {h}
  /\ UNCHANGED <<ledgerVars, held, status, amount, attempted, lockVars, pc, argVars, seenVars>>

\* Mutant of ExpireHold: a hold whose run came back is left to that run.
ExpireHoldUnattempted(h) ==
  /\ h \in lapsed /\ h \notin attempted
  /\ LockActive(NULL, h)
  /\ Close(h, "expired")
  /\ UNCHANGED <<ledgerVars, amount, lapsed, attempted, lockVars, pc, argVars, seenVars>>

\* expireHolds(), row by row: it waits for the row lock and then checks the row again.
ExpireHold(h) ==
  /\ h \in lapsed
  /\ LockActive(NULL, h)
  /\ Close(h, "expired")
  /\ UNCHANGED <<ledgerVars, amount, lapsed, attempted, lockVars, pc, argVars, seenVars>>

\* settle() of topup.ts: post() with the key of the payment intent.  It does not lock the
\* account; that the foreign key of its entries makes it wait for one who does is left out,
\* which only adds interleavings.
TopUp(k) ==
  /\ k \notin keys
  /\ keys' = keys \cup {k}
  /\ posted' = posted + Credit[k]
  /\ revenue' = revenue + Fee[k]
  /\ clearing' = clearing - (Credit[k] + Fee[k])
  /\ UNCHANGED <<holdVars, lockVars, pc, argVars, seenVars>>

-----------------------------------------------------------------------------
Init ==
  /\ posted = 0 /\ revenue = 0 /\ clearing = 0 /\ held = 0
  /\ keys = {} /\ lapsed = {} /\ attempted = {}
  /\ status = [h \in Holds |-> "none"]
  /\ amount = [h \in Holds |-> 0]
  /\ accountLock = NULL
  /\ holdLock = [h \in Holds |-> NULL]
  /\ pc = [c \in Clients |-> "idle"]
  /\ op = [c \in Clients |-> "none"]
  /\ hold = [c \in Clients |-> NULL]
  /\ key = [c \in Clients |-> NULL]
  /\ usage = [c \in Clients |-> 0]
  /\ fee = [c \in Clients |-> 0]
  /\ storage = [c \in Clients |-> 0]
  /\ seenPosted = [c \in Clients |-> 0]
  /\ seenHeld = [c \in Clients |-> 0]

StartAny(c) ==
  \/ \E h \in Holds, a \in Amounts : StartPlace(c, h, a)
  \/ \E h \in Holds, u, f \in Costs : StartSettle(c, h, u, f)
  \/ \E k \in Debits, a \in Amounts : StartSpend(c, k, a)
  \/ \E k \in Debits, u, f, g \in Costs : StartCharge(c, k, u, f, g)

Continue(c) ==
  \/ SettleFree(c) \/ LockAccount(c) \/ ReadPosted(c) \/ ReadHeld(c)
  \/ CommitPlace(c) \/ CommitSpend(c) \/ Refuse(c) \/ CommitSettle(c) \/ CommitCharge(c)

Next ==
  \/ \E c \in Clients : StartAny(c) \/ Continue(c) \/ Abort(c)
  \/ \E h \in Holds : SettleTooLate(h) \/ ReleaseHold(h) \/ Lapse(h) \/ ExpireHold(h)
  \/ \E k \in TopUps : TopUp(k)

Spec == Init /\ [][Next]_vars

\* A transaction's statements get executed, PostgreSQL queues the waiters of a row lock, time
\* passes, and the sweep of holds recurs.  Runs, top-ups and aborts are up to the world.
Fairness ==
  /\ \A c \in Clients : WF_vars(Continue(c)) /\ SF_vars(LockAccount(c))
  /\ \A h \in Holds : WF_vars(Lapse(h)) /\ WF_vars(ExpireHold(h))

FairSpec == Spec /\ Fairness

-----------------------------------------------------------------------------
(* Properties *)

Statuses == {"none", "active", "settled", "released", "expired"}

\* Type invariant.
TypeOK ==
  /\ posted \in Int /\ revenue \in Int /\ clearing \in Int /\ held \in Int
  /\ keys \subseteq TopUps \cup Debits \cup {HoldKey(h) : h \in Holds}
  /\ status \in [Holds -> Statuses]
  /\ amount \in [Holds -> Nat]
  /\ lapsed \subseteq Holds /\ attempted \subseteq Holds
  /\ accountLock \in Clients \cup {NULL}
  /\ holdLock \in [Holds -> Clients \cup {NULL}]
  /\ pc \in [Clients -> {"idle", "lock", "readPosted", "readHeld", "write"}]
  /\ op \in [Clients -> {"none", "place", "settle", "spend", "charge"}]
  /\ hold \in [Clients -> Holds \cup {NULL}]
  /\ key \in [Clients -> Debits \cup {NULL} \cup {HoldKey(h) : h \in Holds}]
  /\ usage \in [Clients -> Nat] /\ fee \in [Clients -> Nat] /\ storage \in [Clients -> Nat]
  /\ seenPosted \in [Clients -> Int] /\ seenHeld \in [Clients -> Int]

\* Prepaid is a hard floor: the spendable balance, posted entries minus active holds, is never
\* negative, however placeHold, settle, spend, charges, expiry and top-ups interleave.
NeverOverdrawn == posted - held >= 0

\* One element for each unit that an active hold reserves: their number is the sum over the rows.
Reserved == UNION {{h} \X (1..amount[h]) : h \in {g \in Holds : status[g] = "active"}}

\* The running total that balances() compares with is the sum over the active holds, so a
\* reservation counts exactly while its hold is active.
HeldIsSum == held = Cardinality(Reserved)

\* Every posting is balanced: the accounts sum to zero in every committed state, capped
\* settlements and partly paid charges included.
Balanced == posted + revenue + clearing = 0

\* A hold is closed once: a settled, released or expired hold never changes again, and only
\* the transaction that locked its row settles it.
HoldClosesOnce ==
  [][\A h \in Holds : status'[h] # status[h] =>
       \/ status[h] = "none" /\ status'[h] = "active"
       \/ status[h] = "active" /\ status'[h] # "none"]_vars

\* A usage charge leaves the storage reserve alone: after it the balance is at least what the
\* reserve was worth before, less the storage the charge itself bills.
ReserveKept ==
  [][\A c \in Clients : CommitCharge(c) =>
       posted' - held' >= Least(posted - held, Reserve) - storage[c]]_vars

\* The account as the callers of the ledger see it.
Phase(h) == CASE status[h] = "none" -> "none" [] status[h] = "active" -> "open" [] OTHER -> "closed"

Acct == INSTANCE Account WITH
          Deposits <- TopUps, Payments <- Debits, KeyOf <- [h \in Holds |-> HoldKey(h)],
          free <- posted - held, used <- keys, earned <- revenue,
          pot <- [h \in Holds |-> IF status[h] = "active" THEN amount[h] ELSE 0],
          phase <- [h \in Holds |-> Phase(h)]

\* The ledger implements Account: transactions of several statements behave as single steps that
\* never take more than is there when they commit, whatever balance they read before, and a key that
\* is used again moves no money.
ImplementsAccount == Acct!AccountSpec

\* A run that dies holding a reservation does not strand the customer's balance: every active
\* hold is eventually closed.
HoldsEnd ==
  \A h \in Holds : status[h] = "active" ~> status[h] # "active"

\* No transaction waits for ever on the row locks.
TransactionsEnd ==
  \A c \in Clients : pc[c] # "idle" ~> pc[c] = "idle"
=============================================================================
