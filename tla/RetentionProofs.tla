--------------------------- MODULE RetentionProofs ---------------------------
(***************************************************************************)
(* Theorems about Retention, for every number of top-ups, workers,         *)
(* generations and faults.  What TopUpsProofs shows of the top-ups is      *)
(* carried over: the deletion job and the refresh only begin top-ups, cut  *)
(* a begin() short and spend the balance.                                  *)
(***************************************************************************)
EXTENDS Retention, TopUpsProofs

-----------------------------------------------------------------------------
(* The type invariant. *)

States == {"active", "suspended", "deleting", "data_deleted"}

\* A refresh has read a state there was, and an execution that runs has a generation.
Read ==
  /\ seen[1] \in BOOLEAN /\ seen[2] \in States /\ seen[3] \in 0..minted
  /\ \A w \in Workers : pc[w] # "idle" => mine[w] \in 1..MaxGen

RetentionInv == TopUpInv /\ TypeOK /\ Read

\* What the deletion job and the refresh do to the top-ups keeps what is known of those.
LEMMA TopUpsKept ==
  ASSUME RetentionInv, [Next]_vars
  PROVE  TopUpInv'
<1> USE DEF RetentionInv
<1>1. CASE TopUpStep
  BY <1>1, InvStep DEF TopUpStep, TopUpNext
<1>2. CASE UNCHANGED topupVars
  BY <1>2, InvStep
<1>3. ASSUME NEW w \in Workers, NEW t \in TopUps, AttemptBegin(w, t)
      PROVE  TopUpInv'
  BY <1>3, InvStep DEF AttemptBegin, TopUpNext
<1>4. CASE Spend
  <2>1. balance' \in Int /\ UNCHANGED <<row, linked, step, intent, declines, sent, claimed, processed, handler, keys, credits, faults>>
    BY <1>4 DEF Spend, rowVars, stripeVars, webhookVars, TopUpInv, TopUpTypeOK
  <2> QED
    BY <2>1 DEF TopUpInv, TopUpTypeOK, Declines, Linking, Handling, Keyed
<1>5. ASSUME NEW w \in Workers, WorkerDies(w)
      PROVE  TopUpInv'
  <2>1. UNCHANGED <<row, linked, intent, declines, sent, claimed, processed, handler, keys, credits, balance>>
    BY <1>5 DEF WorkerDies, stripeVars, webhookVars, creditVars
  <2>2. faults' \in 0..MaxFaults
    BY <1>5, TopUpAssumption DEF WorkerDies, Fault, TopUpInv, TopUpTypeOK
  <2>3. /\ step' \in [TopUps -> {"idle", "inserted", "created", "returned", "threw"}]
        /\ \A t \in TopUps : step'[t] = step[t] \/ step'[t] = "threw"
    BY <1>5 DEF WorkerDies, TopUpInv, TopUpTypeOK
  <2> QED
    BY <2>1, <2>2, <2>3 DEF TopUpInv, TopUpTypeOK, Declines, Linking, Handling, Keyed
<1>6. ASSUME NEW r \in Workers \cup {"sweep"}, RefreshRead(r) \/ RefreshRest(r)
      PROVE  UNCHANGED topupVars
  BY <1>6 DEF RefreshRead, RefreshRest, RefreshSkip, RefreshSuspends, RefreshActivates, RefreshDone
<1>7. ASSUME NEW w \in Workers, Delete(w)
      PROVE  UNCHANGED topupVars \/ \E t \in TopUps : AttemptBegin(w, t)
  BY <1>7 DEF Delete, Decide, AttemptKnown, AttemptEnds, Reread, Reprieve, Announce, CheckPending, Final, Teardown,
              FinishDelete
<1> QED
  BY <1>1, <1>2, <1>3, <1>4, <1>5, <1>6, <1>7 DEF Next, vars, Tick, Scan, StartDelete, Reconcile

\* The refresh writes a generation it read or has just minted.
LEMMA MintedStep ==
  ASSUME RetentionInv, NEW g \in 1..MaxGen, KeepOrMint(g)
  PROVE  minted' \in 0..MaxGen /\ minted <= minted' /\ g \in 0..minted'
BY RetentionAssumption DEF RetentionInv, TypeOK, Read, KeepOrMint

\* A static reconciliation job has a generation and the state it is for.
LEMMA JobMade ==
  ASSUME NEW g \in 1..MaxGen, NEW b \in BOOLEAN
  PROVE  <<g, b>> \in (1..MaxGen) \X BOOLEAN
OBVIOUS

LEMMA DoneTypes ==
  ASSUME RetentionInv, NEW r \in Workers \cup {"sweep"}, RefreshDone(r)
  PROVE  /\ refresher' = NULL
         /\ jobs' \in [1..MaxGen -> {"none", "queued", "running", "done"}]
         /\ pc' \in [Workers -> {"idle", "decide", "attempt", "begin", "reread", "reprieve", "announce",
                                 "refresh", "claim", "final", "teardown", "finish"}]
         /\ \A w \in Workers : pc'[w] = pc[w] \/ pc'[w] = "idle"
         /\ UNCHANGED <<topupVars, seen, mine, saw, since, charge, stateLock, reconciled, served>>
<1>1. CASE r \in Workers
  BY <1>1 DEF RetentionInv, TypeOK, RefreshDone
<1>2. CASE r \notin Workers
  BY <1>2 DEF RetentionInv, TypeOK, RefreshDone
<1> QED
  BY <1>1, <1>2

LEMMA RefreshTypes ==
  ASSUME RetentionInv, NEW r \in Workers \cup {"sweep"}, RefreshRest(r), TopUpTypeOK'
  PROVE  TypeOK' /\ Read'
<1> USE DEF RetentionInv
<1>0. RefreshDone(r)
  BY DEF RefreshRest, RefreshSkip, RefreshSuspends, RefreshActivates
<1> HIDE DEF RetentionInv
<1>1. CASE RefreshSkip(r)
  BY <1>0, <1>1, DoneTypes DEF RetentionInv, RefreshSkip, stateVars, TypeOK, Read
<1>2. CASE RefreshSuspends(r)
  <2>1. PICK g \in 1..MaxGen :
          KeepOrMint(g) /\ gen' = g /\ access' = IF seen[2] = "suspended" THEN access ELSE access \cup {<<g, TRUE>>}
    BY <1>2 DEF RefreshSuspends
  <2>2. minted' \in 0..MaxGen /\ minted <= minted' /\ gen' \in 0..minted'
    BY <2>1, MintedStep
  <2>3. reconciled' \subseteq access' /\ access' \subseteq (1..MaxGen) \X BOOLEAN
    <3>1. access' = access \/ access' = access \cup {<<g, TRUE>>}
      BY <2>1
    <3>2. reconciled' = reconciled /\ reconciled \subseteq access /\ access \subseteq (1..MaxGen) \X BOOLEAN
      BY <1>0, DoneTypes DEF RetentionInv, TypeOK
    <3> QED
      BY <3>1, <3>2, JobMade
  <2>4. Read'
    BY <1>0, <2>2, DoneTypes DEF RetentionInv, TypeOK, Read
  <2>5. /\ status' = "suspended" /\ deadline' \in {"none", "future", "past"}
        /\ {attempt', before'} \subseteq AutoReloads \cup {NULL}
    BY <1>2 DEF RefreshSuspends, RetentionInv, TypeOK
  <2> QED
    BY <1>0, <2>2, <2>3, <2>4, <2>5, DoneTypes DEF RetentionInv, TypeOK
<1>3. CASE RefreshActivates(r)
  <2>1. minted' \in 0..MaxGen /\ minted <= minted' /\ gen' \in 0..minted'
    <3>1. CASE gen' = 0 /\ UNCHANGED minted
      BY <3>1, RetentionAssumption DEF RetentionInv, TypeOK
    <3>2. CASE \E g \in 1..MaxGen : KeepOrMint(g) /\ gen' = g
      BY <3>2, MintedStep
    <3> QED
      BY <1>3, <3>1, <3>2 DEF RefreshActivates
  <2>2. seen[3] # 0 => seen[3] \in 1..MaxGen
    BY RetentionAssumption DEF RetentionInv, TypeOK, Read
  <2>3. reconciled' \subseteq access' /\ access' \subseteq (1..MaxGen) \X BOOLEAN
    <3>1. access' = access \/ (seen[3] \in 1..MaxGen /\ access' = access \cup {<<seen[3], FALSE>>})
      BY <1>3, <2>2 DEF RefreshActivates
    <3>2. reconciled' = reconciled /\ reconciled \subseteq access /\ access \subseteq (1..MaxGen) \X BOOLEAN
      BY <1>0, DoneTypes DEF RetentionInv, TypeOK
    <3> QED
      BY <3>1, <3>2, JobMade
  <2>4. Read'
    BY <1>0, <2>1, DoneTypes DEF RetentionInv, TypeOK, Read
  <2> QED
    BY <1>0, <1>3, <2>1, <2>3, <2>4, DoneTypes DEF RefreshActivates, RetentionInv, TypeOK
<1> QED
  BY <1>1, <1>2, <1>3 DEF RefreshRest

LEMMA DeleteTypes ==
  ASSUME RetentionInv, NEW w \in Workers, Delete(w), TopUpTypeOK'
  PROVE  TypeOK' /\ Read'
<1> USE DEF RetentionInv, TypeOK, Read, stateVars, refreshVars, accessVars, Goto, Leave, Return, Throw
<1>1. CASE Decide(w)
  BY <1>1 DEF Decide
<1>2. CASE AttemptKnown(w)
  BY <1>2 DEF AttemptKnown
<1>3. ASSUME NEW t \in TopUps, AttemptBegin(w, t) PROVE TypeOK' /\ Read'
  BY <1>3 DEF AttemptBegin
<1>4. CASE AttemptEnds(w)
  BY <1>4 DEF AttemptEnds
<1>5. CASE Reread(w)
  BY <1>5 DEF Reread
<1>6. CASE Reprieve(w)
  BY <1>6 DEF Reprieve
<1>7. CASE Announce(w)
  <2>1. mine[w] \in 1..MaxGen
    BY <1>7 DEF Announce
  <2> QED
    BY <1>7, <2>1, JobMade DEF Announce
<1>8. CASE CheckPending(w)
  BY <1>8 DEF CheckPending
<1>9. CASE Final(w)
  BY <1>9 DEF Final
<1>10. CASE Teardown(w)
  BY <1>10 DEF Teardown
<1>11. CASE FinishDelete(w)
  BY <1>11 DEF FinishDelete
<1> QED
  BY <1>1, <1>2, <1>3, <1>4, <1>5, <1>6, <1>7, <1>8, <1>9, <1>10, <1>11 DEF Delete

LEMMA RetentionInit == Init => RetentionInv
<1> SUFFICES ASSUME Init PROVE RetentionInv
  OBVIOUS
<1>1. TopUpInv
  BY InvInit DEF Init
<1> QED
  BY <1>1, RetentionAssumption DEF Init, RetentionInv, TopUpInv, TypeOK, Read, States

LEMMA RetentionStep == RetentionInv /\ [Next]_vars => RetentionInv'
<1> SUFFICES ASSUME RetentionInv, [Next]_vars PROVE TypeOK' /\ Read'
  BY TopUpsKept DEF RetentionInv
<1>0. TopUpTypeOK'
  BY TopUpsKept DEF TopUpInv
<1> USE DEF RetentionInv, TypeOK, Read, States
<1>1. CASE TopUpStep
  BY <1>0, <1>1 DEF TopUpStep, retVars, stateVars, refreshVars, jobVars, accessVars
<1>2. ASSUME NEW r \in Workers \cup {"sweep"}, RefreshRead(r) PROVE TypeOK' /\ Read'
  BY <1>0, <1>2, RetentionAssumption DEF RefreshRead, Exhausted, stateVars, jobVars, accessVars
<1>3. ASSUME NEW r \in Workers \cup {"sweep"}, RefreshRest(r) PROVE TypeOK' /\ Read'
  BY <1>0, <1>3, RefreshTypes
<1>4. CASE Tick
  BY <1>0, <1>4 DEF Tick, refreshVars, jobVars, accessVars
<1>5. CASE Scan
  BY <1>0, <1>5 DEF Scan, stateVars, refreshVars, accessVars
<1>6. CASE Spend
  BY <1>0, <1>6 DEF Spend, stateVars, refreshVars, jobVars, accessVars
<1>7. ASSUME NEW w \in Workers, NEW g \in 1..MaxGen, StartDelete(w, g) PROVE TypeOK' /\ Read'
  <2>1. Begins(g) \in {"done", "teardown", "decide"}
    BY DEF Begins
  <2>2. /\ mine' \in [Workers -> 0..MaxGen] /\ mine'[w] = g
        /\ \A v \in Workers \ {w} : mine'[v] = mine[v] /\ pc'[v] = pc[v]
        /\ saw' \in [Workers -> States] /\ since' \in [Workers -> AutoReloads \cup {NULL}]
    BY <1>7, RetentionAssumption DEF StartDelete
  <2>3. /\ jobs' \in [1..MaxGen -> {"none", "queued", "running", "done"}]
        /\ pc' \in [Workers -> {"idle", "decide", "attempt", "begin", "reread", "reprieve", "announce",
                                "refresh", "claim", "final", "teardown", "finish"}]
    <3>1. CASE Begins(g) = "done"
      BY <1>7, <3>1 DEF StartDelete
    <3>2. CASE Begins(g) # "done"
      BY <1>7, <2>1, <3>2 DEF StartDelete
    <3> QED
      BY <3>1, <3>2
  <2>4. UNCHANGED <<stateVars, refreshVars, charge, stateLock, accessVars>>
    BY <1>7 DEF StartDelete
  <2> QED
    BY <1>0, <2>2, <2>3, <2>4 DEF stateVars, refreshVars, accessVars
<1>8. ASSUME NEW w \in Workers, Delete(w) PROVE TypeOK' /\ Read'
  BY <1>0, <1>8, DeleteTypes
<1>9. ASSUME NEW w \in Workers, WorkerDies(w) PROVE TypeOK' /\ Read'
  BY <1>0, <1>9, RetentionAssumption DEF WorkerDies, Throw, Leave, stateVars, refreshVars, accessVars
<1>10. ASSUME NEW a \in (1..MaxGen) \X BOOLEAN, Reconcile(a) PROVE TypeOK' /\ Read'
  BY <1>0, <1>10 DEF Reconcile, stateVars, refreshVars, jobVars
<1>11. CASE UNCHANGED vars
  BY <1>0, <1>11 DEF vars, retVars, stateVars, refreshVars, jobVars, accessVars
<1> QED
  BY <1>1, <1>2, <1>3, <1>4, <1>5, <1>6, <1>7, <1>8, <1>9, <1>10, <1>11 DEF Next

\* The variables of the retention lifecycle keep their types, and top-ups theirs beside them.
THEOREM RetentionTypes == Spec => []TypeOK
<1>1. RetentionInv => TypeOK
  BY DEF RetentionInv
<1> QED
  BY <1>1, RetentionInit, RetentionStep, PTL DEF Spec

\* CreditedOnce also holds beside the deletion job and the refresh: an auto-reload that a deletion
\* begins, or that its worker's death cuts short, is credited at most once and only when paid.
THEOREM ReloadsCreditOnce == Spec => []CreditedOnce
<1>1. RetentionInv => CreditedOnce
  BY DEF RetentionInv, TopUpInv, TopUpTypeOK, Keyed, CreditedOnce
<1> QED
  BY <1>1, RetentionInit, RetentionStep, PTL DEF Spec

-----------------------------------------------------------------------------
(* Nobody who has paid loses data, while a declined intent stays declined. *)

\* A row is there before its intent is, and a row that failed, or will once a payment_failed event
\* is handled, is of an intent that was declined.
Refusals ==
  /\ \A t \in TopUps :
       /\ row[t] = "none" => step[t] = "idle"
       /\ intent[t] = "declined" => declines[t] > 0
       /\ row[t] = "failed" => intent[t] = "declined"
  /\ \A e \in Events : e[2] = "payment_failed" /\ (e \in sent \/ e \in claimed) => intent[e[1]] = "declined"

\* What the latest claim saw paid is in the ledger.
Checked == paidAtCheck \subseteq keys

PayerInv == RetentionInv /\ Refusals /\ Checked

\* No step of the top-up path loses a payment out of sight or takes a credit back.
LEMMA RefusalsStep ==
  ASSUME Retries = 0, TopUpInv, Refusals, [TopUpNext]_topupVars
  PROVE  Refusals' /\ keys \subseteq keys'
<1> USE DEF TopUpInv, TopUpTypeOK, rowVars, stripeVars, webhookVars, creditVars
<1>1. ASSUME NEW t \in TopUps, BeginInsert(t) PROVE Refusals' /\ keys \subseteq keys'
  BY <1>1, EventParts DEF BeginInsert, Refusals
<1>2. ASSUME NEW t \in TopUps, CreateIntent(t) PROVE Refusals' /\ keys \subseteq keys'
  <2>1. intent[t] = "none"
    BY <1>2 DEF CreateIntent, Declines
  <2>2. CASE intent' = [intent EXCEPT ![t] = "open"] /\ UNCHANGED <<sent, declines>>
    BY <1>2, <2>1, <2>2, EventParts DEF CreateIntent, Refusals
  <2>3. CASE Paid(t)
    <3>1. \A e \in Events : e[2] = "payment_failed" /\ e \in sent' => e \in sent
      BY <2>3, PaidStep
    <3> QED
      BY <1>2, <2>1, <2>3, <3>1, PaidStep, EventParts DEF CreateIntent, Refusals
  <2> QED
    BY <1>2, <2>2, <2>3 DEF CreateIntent
<1>3. ASSUME NEW t \in TopUps, Declined(t), declines[t] \in 0..(Copies - 1), UNCHANGED <<row, claimed, keys>>,
             \A u \in TopUps : row'[u] = "none" => step'[u] = "idle"
      PROVE  Refusals' /\ keys \subseteq keys'
  <2>1. declines'[t] > 0 /\ \A u \in TopUps \ {t} : declines'[u] = declines[u]
    BY <1>3 DEF Declined
  <2> QED
    BY <1>3, <2>1, DeclinedStep, EventParts DEF Refusals
<1>4. ASSUME NEW t \in TopUps, CreateDeclined(t) PROVE Refusals' /\ keys \subseteq keys'
  <2>1. declines[t] \in 0..(Copies - 1)
    BY <1>4, TopUpAssumption DEF CreateDeclined, Declines
  <2>2. \A u \in TopUps : row'[u] = "none" => step'[u] = "idle"
    BY <1>4 DEF CreateDeclined, Refusals
  <2> QED
    BY <1>3, <1>4, <2>1, <2>2 DEF CreateDeclined
<1>5. ASSUME NEW t \in TopUps, BeginLink(t) PROVE Refusals' /\ keys \subseteq keys'
  BY <1>5, EventParts DEF BeginLink, Refusals
<1>6. ASSUME NEW t \in TopUps, BeginDies(t) PROVE Refusals' /\ keys \subseteq keys'
  BY <1>6, EventParts DEF BeginDies, Refusals
<1>7. ASSUME NEW t \in TopUps, Payable(t) PROVE intent[t] = "open"
  BY <1>7 DEF Payable, Refusals
<1>8. ASSUME NEW t \in TopUps, CustomerPays(t) PROVE Refusals' /\ keys \subseteq keys'
  <2>1. \A e \in Events : e[2] = "payment_failed" /\ e \in sent' => e \in sent
    BY <1>8, PaidStep DEF CustomerPays
  <2> QED
    BY <1>7, <1>8, <2>1, PaidStep, EventParts DEF CustomerPays, Refusals
<1>9. ASSUME NEW t \in TopUps, CardDeclined(t) PROVE Refusals' /\ keys \subseteq keys'
  <2>1. declines[t] \in 0..(Copies - 1)
    BY <1>7, <1>9, TopUpAssumption DEF CardDeclined, Declines
  <2>2. \A u \in TopUps : row'[u] = "none" => step'[u] = "idle"
    BY <1>9 DEF CardDeclined, Refusals
  <2> QED
    BY <1>3, <1>9, <2>1, <2>2 DEF CardDeclined
<1>10. ASSUME NEW e \in Events, Deliver(e) PROVE Refusals' /\ keys \subseteq keys'
  BY <1>10, EventParts DEF Deliver, ClaimEvent, Swallow, Refusals
<1>11. ASSUME NEW e \in Events, Handle(e) PROVE Refusals' /\ keys \subseteq keys'
  <2>1. CASE LookUp(e)
    BY <2>1 DEF LookUp, Refusals
  <2>2. CASE Post(e)
    BY <2>2 DEF Post, Refusals
  <2>3. CASE MarkSucceeded(e)
    BY <2>3, EventParts DEF MarkSucceeded, Refusals
  <2>4. CASE MarkFailed(e)
    <3>1. e[1] \in TopUps /\ intent[e[1]] = "declined"
      BY <2>4, EventParts DEF MarkFailed, Handling, Refusals
    <3> QED
      BY <2>4, <3>1 DEF MarkFailed, Refusals
  <2>5. CASE Finish(e)
    BY <2>5, EventParts DEF Finish, Refusals
  <2> QED
    BY <1>11, <2>1, <2>2, <2>3, <2>4, <2>5 DEF Handle
<1>12. ASSUME NEW e \in Events, HandlerFails(e) PROVE Refusals' /\ keys \subseteq keys'
  BY <1>12 DEF HandlerFails, Refusals
<1>13. CASE UNCHANGED topupVars
  BY <1>13 DEF topupVars, Refusals
<1> QED
  BY <1>1, <1>2, <1>4, <1>5, <1>6, <1>8, <1>9, <1>10, <1>11, <1>12, <1>13 DEF TopUpNext, BeginRest

\* Whoever has paid has a row in flight or a credit.
LEMMA PaidIsInSight ==
  ASSUME PayerInv, NEW t \in TopUps, intent[t] = "paid", t \notin InFlight
  PROVE  t \in keys
<1> USE DEF PayerInv, RetentionInv, TopUpInv, TopUpTypeOK
<1>1. row[t] # "none" /\ row[t] # "failed"
  BY DEF Refusals, Declines
<1> QED
  BY <1>1 DEF InFlight, Linking

LEMMA PayerInit == Init => PayerInv
<1> SUFFICES ASSUME Init PROVE PayerInv
  OBVIOUS
<1> QED
  BY RetentionInit DEF Init, TopUpInit, PayerInv, Refusals, Checked

LEMMA PayerStep ==
  ASSUME Retries = 0, PayerInv, [Next]_vars
  PROVE  PayerInv'
<1> USE DEF PayerInv
<1>0. RetentionInv' /\ TopUpInv
  BY RetentionStep DEF RetentionInv
<1>1. CASE [TopUpNext]_topupVars /\ UNCHANGED paidAtCheck
  BY <1>0, <1>1, RefusalsStep DEF Checked
<1>2. ASSUME NEW w \in Workers, CheckPending(w) PROVE PayerInv'
  <2>1. Refusals' /\ UNCHANGED keys
    BY <1>0, <1>2, RefusalsStep DEF CheckPending, topupVars, creditVars
  <2>2. CASE UNCHANGED paidAtCheck
    BY <1>0, <2>1, <2>2 DEF Checked
  <2>3. CASE InFlight = {} /\ paidAtCheck' = {t \in TopUps : intent[t] = "paid"}
    BY <1>0, <2>1, <2>3, PaidIsInSight DEF Checked
  <2> QED
    BY <1>2, <2>2, <2>3 DEF CheckPending
<1>3. CASE Spend
  BY <1>0, <1>3 DEF Spend, Refusals, Checked, rowVars, stripeVars, webhookVars, jobVars
<1>4. ASSUME NEW w \in Workers, WorkerDies(w) PROVE PayerInv'
  <2>1. \A t \in TopUps : step[t] = "idle" => step'[t] = "idle"
    BY <1>4 DEF WorkerDies
  <2> QED
    BY <1>0, <1>4, <2>1 DEF WorkerDies, Refusals, Checked, stripeVars, webhookVars, creditVars
<1>5. ASSUME NEW w \in Workers, NEW t \in TopUps, AttemptBegin(w, t)
      PROVE  [TopUpNext]_topupVars /\ UNCHANGED paidAtCheck
  BY <1>5 DEF AttemptBegin, TopUpNext
<1>6. ASSUME NEW r \in Workers \cup {"sweep"}, RefreshRead(r) \/ RefreshRest(r)
      PROVE  UNCHANGED <<topupVars, paidAtCheck>>
  BY <1>6 DEF RefreshRead, RefreshRest, RefreshSkip, RefreshSuspends, RefreshActivates, RefreshDone, jobVars
<1>7. ASSUME NEW w \in Workers, Delete(w)
      PROVE  \/ UNCHANGED <<topupVars, paidAtCheck>>
             \/ CheckPending(w) \/ \E t \in TopUps : AttemptBegin(w, t)
  BY <1>7 DEF Delete, Decide, AttemptKnown, AttemptEnds, Reread, Reprieve, Announce, Final, Teardown, FinishDelete
<1>8. CASE TopUpStep
  BY <1>1, <1>8 DEF TopUpStep, TopUpNext, retVars, jobVars
<1> QED
  BY <1>1, <1>2, <1>3, <1>4, <1>5, <1>6, <1>7, <1>8
  DEF Next, vars, retVars, jobVars, Tick, Scan, StartDelete, Reconcile

\* A deletion is claimed by the second half of a claim, and only on an exhausted balance.
LEMMA OnlyFinalClaims ==
  ASSUME RetentionInv, [Next]_vars, status # "deleting", status' = "deleting"
  PROVE  balance <= Reserve /\ \E w \in Workers : Final(w)
<1>1. ASSUME NEW r \in Workers \cup {"sweep"}, RefreshRead(r) \/ RefreshRest(r) PROVE FALSE
  BY <1>1 DEF RefreshRead, RefreshRest, RefreshSkip, RefreshSuspends, RefreshActivates, stateVars
<1>2. ASSUME NEW w \in Workers, Delete(w) PROVE Final(w)
  BY <1>2 DEF Delete, Decide, AttemptKnown, AttemptBegin, AttemptEnds, Reread, Reprieve, Announce, CheckPending,
              Teardown, FinishDelete, stateVars
<1>3. PICK w \in Workers : Final(w)
  BY <1>1, <1>2 DEF Next, vars, retVars, stateVars, TopUpStep, Tick, Scan, Spend, StartDelete, WorkerDies, Reconcile
<1> QED
  BY <1>3 DEF Final, Exhausted

\* DeletionSparesPayers, however many executions of the deletion job, refreshes, handlers and faults
\* interleave, while a declined intent is not paid later (Retries = 0; the README has the instance
\* in which it is, and the property fails).
THEOREM PayersAreSpared == ASSUME Retries = 0 PROVE Spec => DeletionSparesPayers
<1>1. PayerInv /\ [Next]_vars =>
        [status # "deleting" /\ status' = "deleting" =>
           /\ balance <= Reserve
           /\ \A t \in paidAtCheck : credits[t] = 1]_vars
  <2> SUFFICES ASSUME PayerInv, [Next]_vars, status # "deleting", status' = "deleting"
               PROVE  balance <= Reserve /\ \A t \in paidAtCheck : credits[t] = 1
    OBVIOUS
  <2> QED
    BY OnlyFinalClaims DEF PayerInv, RetentionInv, TopUpInv, TopUpTypeOK, Keyed, Checked
<1>2. PayerInv /\ [Next]_vars => PayerInv'
  BY PayerStep
<1> QED
  BY <1>1, <1>2, PayerInit, PTL DEF Spec, DeletionSparesPayers

-----------------------------------------------------------------------------
(* Who moves the lifecycle. *)

\* The claim transaction holds the state row from its check to its commit: between the two nobody
\* else claims, the generation stays the one in the job's payload and nobody reprieves, so what the
\* check saw is what the commit acts on.
ClaimHoldsRow ==
  \A w \in Workers :
    /\ pc[w] = "final" => stateLock = w
    /\ stateLock = w => pc[w] = "final" /\ gen = mine[w] /\ status # "active"

\* A worker refreshes after a reprieve only.
Refreshing == \A w \in Workers : refresher = w => pc[w] = "refresh"

HoldInv == RetentionInv /\ ClaimHoldsRow /\ Refreshing

LEMMA HoldInit == Init => HoldInv
<1> SUFFICES ASSUME Init PROVE HoldInv
  OBVIOUS
<1> QED
  BY RetentionInit, RetentionAssumption DEF Init, HoldInv, ClaimHoldsRow, Refreshing

LEMMA HoldRefresh ==
  ASSUME HoldInv, NEW r \in Workers \cup {"sweep"}, RefreshRest(r)
  PROVE  ClaimHoldsRow' /\ Refreshing'
<1> USE DEF HoldInv
<1>1. RefreshDone(r) /\ refresher = r /\ (stateLock # NULL => UNCHANGED <<gen, status>>)
  BY DEF RefreshRest, RefreshSkip, RefreshSuspends, RefreshActivates, stateVars
<1>2. /\ refresher' = NULL /\ UNCHANGED <<mine, stateLock>>
      /\ \A w \in Workers : pc'[w] = pc[w] \/ pc'[w] = "idle"
  BY <1>1, DoneTypes
<1>3. ASSUME NEW w \in Workers, pc[w] = "final" PROVE pc'[w] = "final"
  BY <1>1, <1>3 DEF RefreshDone, Refreshing, RetentionInv, TypeOK
<1> QED
  BY <1>1, <1>2, <1>3, RetentionAssumption DEF ClaimHoldsRow, Refreshing

LEMMA HoldDelete ==
  ASSUME HoldInv, NEW w \in Workers, Delete(w)
  PROVE  ClaimHoldsRow' /\ Refreshing'
<1> USE DEF HoldInv, RetentionInv, TypeOK, stateVars, refreshVars, Goto, Leave, Return, Throw
<1>1. CASE \/ Decide(w) \/ AttemptKnown(w) \/ AttemptEnds(w) \/ Reread(w) \/ Announce(w) \/ Teardown(w)
           \/ \E t \in TopUps : AttemptBegin(w, t)
  <2>1. UNCHANGED <<gen, status, mine, stateLock, refresher>>
    BY <1>1 DEF Decide, AttemptKnown, AttemptBegin, AttemptEnds, Reread, Announce, Teardown
  <2>2. \A v \in Workers \ {w} : pc'[v] = pc[v]
    BY <1>1 DEF Decide, AttemptKnown, AttemptBegin, AttemptEnds, Reread, Announce, Teardown
  <2>3. pc[w] \notin {"final", "refresh"} /\ pc'[w] # "final"
    BY <1>1 DEF Decide, AttemptKnown, AttemptBegin, AttemptEnds, Reread, Announce, Teardown
  <2> QED
    BY <2>1, <2>2, <2>3 DEF ClaimHoldsRow, Refreshing
<1>2. CASE Reprieve(w)
  BY <1>2, RetentionAssumption DEF Reprieve, ClaimHoldsRow, Refreshing
<1>3. CASE CheckPending(w)
  BY <1>3, RetentionAssumption DEF CheckPending, ClaimHoldsRow, Refreshing
<1>4. CASE Final(w)
  BY <1>4, RetentionAssumption DEF Final, ClaimHoldsRow, Refreshing
<1>5. CASE FinishDelete(w)
  BY <1>5, RetentionAssumption DEF FinishDelete, ClaimHoldsRow, Refreshing
<1> QED
  BY <1>1, <1>2, <1>3, <1>4, <1>5 DEF Delete

LEMMA HoldStep == HoldInv /\ [Next]_vars => HoldInv'
<1> SUFFICES ASSUME HoldInv, [Next]_vars PROVE ClaimHoldsRow' /\ Refreshing'
  BY RetentionStep DEF HoldInv
<1> USE DEF HoldInv, RetentionInv, TypeOK, stateVars, refreshVars
<1>1. CASE UNCHANGED <<pc, mine, stateLock, gen, status, refresher>>
  BY <1>1 DEF ClaimHoldsRow, Refreshing
<1>2. ASSUME NEW r \in Workers \cup {"sweep"}, RefreshRead(r) PROVE ClaimHoldsRow' /\ Refreshing'
  BY <1>2 DEF RefreshRead, jobVars, ClaimHoldsRow, Refreshing
<1>3. ASSUME NEW r \in Workers \cup {"sweep"}, RefreshRest(r) PROVE ClaimHoldsRow' /\ Refreshing'
  BY <1>3, HoldRefresh
<1>4. ASSUME NEW w \in Workers, NEW g \in 1..MaxGen, StartDelete(w, g) PROVE ClaimHoldsRow' /\ Refreshing'
  <2>1. Begins(g) \in {"done", "teardown", "decide"}
    BY DEF Begins
  <2>2. pc[w] = "idle" /\ pc'[w] # "final" /\ UNCHANGED <<stateLock, gen, status, refresher>>
    BY <1>4, <2>1 DEF StartDelete
  <2>3. \A v \in Workers \ {w} : pc'[v] = pc[v] /\ mine'[v] = mine[v]
    BY <1>4 DEF StartDelete
  <2> QED
    BY <2>2, <2>3 DEF ClaimHoldsRow, Refreshing
<1>5. ASSUME NEW w \in Workers, Delete(w) PROVE ClaimHoldsRow' /\ Refreshing'
  BY <1>5, HoldDelete
<1>6. ASSUME NEW w \in Workers, WorkerDies(w) PROVE ClaimHoldsRow' /\ Refreshing'
  BY <1>6, RetentionAssumption DEF WorkerDies, Throw, Leave, ClaimHoldsRow, Refreshing
<1>7. CASE TopUpStep \/ Tick \/ Scan \/ Spend \/ UNCHANGED vars
  BY <1>1, <1>7 DEF TopUpStep, Tick, Scan, Spend, vars, retVars, jobVars
<1>8. ASSUME NEW a \in (1..MaxGen) \X BOOLEAN, Reconcile(a) PROVE ClaimHoldsRow' /\ Refreshing'
  BY <1>1, <1>8 DEF Reconcile, jobVars
<1> QED
  BY <1>2, <1>3, <1>4, <1>5, <1>6, <1>7, <1>8 DEF Next

\* The row lock of the claim works with any number of executions, refreshes and deaths.
THEOREM ClaimIsExclusive == Spec => []ClaimHoldsRow
<1>1. HoldInv => ClaimHoldsRow
  BY DEF HoldInv
<1> QED
  BY <1>1, HoldInit, HoldStep, PTL DEF Spec

-----------------------------------------------------------------------------
(* Who undoes a claim. *)

\* An execution on its way to a reprieve or a claim of its own read the state before it was claimed.
Undecided == \A w \in Workers : pc[w] \notin {"idle", "teardown", "finish"} => ~Claimed(saw[w])

LEMMA UndecidedStep ==
  ASSUME RetentionInv, Undecided, [Next]_vars
  PROVE  Undecided'
<1> USE DEF RetentionInv, TypeOK
<1>1. CASE UNCHANGED <<pc, saw>>
  BY <1>1 DEF Undecided
<1>2. ASSUME NEW r \in Workers \cup {"sweep"}, RefreshRest(r) PROVE Undecided'
  <2>1. RefreshDone(r)
    BY <1>2 DEF RefreshRest, RefreshSkip, RefreshSuspends, RefreshActivates
  <2>2. UNCHANGED saw /\ \A w \in Workers : pc'[w] = pc[w] \/ pc'[w] = "idle"
    BY <2>1, DoneTypes DEF RefreshDone
  <2> QED
    BY <2>2 DEF Undecided
<1>3. ASSUME NEW w \in Workers, NEW g \in 1..MaxGen, StartDelete(w, g) PROVE Undecided'
  <2>1. /\ saw' = [saw EXCEPT ![w] = status]
        /\ \A v \in Workers \ {w} : pc'[v] = pc[v]
        /\ pc'[w] = "idle" \/ pc'[w] = Begins(g)
    BY <1>3 DEF StartDelete
  <2>2. Begins(g) \in {"done", "teardown", "decide"} /\ (Begins(g) = "decide" => ~Claimed(status))
    BY DEF Begins, Claimed
  <2>3. Begins(g) = "done" => pc'[w] = "idle"
    BY <1>3 DEF StartDelete
  <2> QED
    BY <2>1, <2>2, <2>3 DEF Undecided
<1>4. ASSUME NEW w \in Workers, Delete(w) PROVE Undecided'
  <2>1. UNCHANGED saw /\ \A v \in Workers \ {w} : pc'[v] = pc[v]
    BY <1>4 DEF Delete, Decide, AttemptKnown, AttemptBegin, AttemptEnds, Reread, Reprieve, Announce, CheckPending,
                Final, Teardown, FinishDelete, Goto, Leave, Return, Throw
  <2>2. pc[w] \in {"idle", "teardown", "finish"} => pc'[w] \in {"idle", "teardown", "finish"}
    BY <1>4 DEF Delete, Decide, AttemptKnown, AttemptBegin, AttemptEnds, Reread, Reprieve, Announce, CheckPending,
                Final, Teardown, FinishDelete, Goto, Leave, Return, Throw
  <2> QED
    BY <2>1, <2>2 DEF Undecided
<1>5. ASSUME NEW w \in Workers, WorkerDies(w) PROVE Undecided'
  BY <1>5 DEF WorkerDies, Throw, Leave, Undecided
<1> QED
  BY <1>1, <1>2, <1>3, <1>4, <1>5
  DEF Next, vars, retVars, jobVars, TopUpStep, RefreshRead, Tick, Scan, Spend, Reconcile

\* A claim is undone by the write of a refresh, a reprieve or the second half of another claim.
LEMMA WhoRevives ==
  ASSUME RetentionInv, [Next]_vars, Claimed(status), ~Claimed(status')
  PROVE  \/ \E r \in Workers \cup {"sweep"} : RefreshSuspends(r) \/ RefreshActivates(r)
         \/ \E w \in Workers : Reprieve(w) \/ Final(w)
<1> USE DEF stateVars, refreshVars
<1>1. ASSUME NEW r \in Workers \cup {"sweep"}, RefreshRead(r) \/ RefreshRest(r)
      PROVE  RefreshSuspends(r) \/ RefreshActivates(r)
  BY <1>1 DEF RefreshRead, RefreshRest, RefreshSkip
<1>2. ASSUME NEW w \in Workers, Delete(w) PROVE Reprieve(w) \/ Final(w)
  BY <1>2 DEF Delete, Decide, AttemptKnown, AttemptBegin, AttemptEnds, Reread, Announce, CheckPending, Teardown,
              FinishDelete, Claimed
<1> QED
  BY <1>1, <1>2 DEF Next, vars, retVars, TopUpStep, Tick, Scan, Spend, StartDelete, WorkerDies, Reconcile

\* OnlyStaleReadsRevive, for any number of executions of the deletion job, refreshes and faults, and
\* with nothing between a refresh and a claim but the locks the code takes: a claim is undone only by
\* someone who had read the organization before it, never by a retry of the claimed cleanup.
THEOREM ClaimsAreUndoneByStaleReads == Spec => OnlyStaleReadsRevive
<1>1. RetentionInv /\ Undecided /\ [Next]_vars =>
        [Claimed(status) /\ ~Claimed(status') =>
           \/ refresher # NULL /\ refresher' = NULL /\ ~Claimed(seen[2])
           \/ \E w \in Workers : pc[w] # pc'[w] /\ ~Claimed(saw[w])]_vars
  <2> SUFFICES ASSUME RetentionInv, Undecided, [Next]_vars, Claimed(status), ~Claimed(status')
               PROVE  \/ refresher # NULL /\ refresher' = NULL /\ ~Claimed(seen[2])
                      \/ \E w \in Workers : pc[w] # pc'[w] /\ ~Claimed(saw[w])
    OBVIOUS
  <2>1. ASSUME NEW r \in Workers \cup {"sweep"}, RefreshSuspends(r) \/ RefreshActivates(r)
        PROVE  refresher # NULL /\ refresher' = NULL /\ ~Claimed(seen[2])
    BY <2>1, RetentionAssumption DEF RefreshSuspends, RefreshActivates, RefreshDone
  <2>2. ASSUME NEW w \in Workers, Reprieve(w) \/ Final(w)
        PROVE  pc[w] # pc'[w] /\ ~Claimed(saw[w])
    BY <2>2 DEF Reprieve, Final, Goto, Undecided, RetentionInv, TypeOK
  <2> QED
    BY <2>1, <2>2, WhoRevives
<1>2. RetentionInv /\ Undecided /\ [Next]_vars => (RetentionInv /\ Undecided)'
  BY UndecidedStep, RetentionStep
<1>3. Init => RetentionInv /\ Undecided
  BY RetentionInit DEF Init, Undecided
<1> QED
  BY <1>1, <1>2, <1>3, PTL DEF Spec, OnlyStaleReadsRevive

=============================================================================
