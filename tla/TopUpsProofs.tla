---------------------------- MODULE TopUpsProofs ----------------------------
(***************************************************************************)
(* Theorems about TopUps, for every set of top-ups and every number of     *)
(* events, retries and faults.                                             *)
(***************************************************************************)
EXTENDS TopUps, TLAPS

\* An event has a top-up, an outcome and a number.
LEMMA EventParts ==
  ASSUME NEW e \in Events
  PROVE  e[1] \in TopUps /\ e[2] \in {"succeeded", "payment_failed"} /\ e[3] \in 1..Copies
BY DEF Events

LEMMA EventMade ==
  ASSUME NEW t \in TopUps, NEW k \in {"succeeded", "payment_failed"}, NEW i \in 1..Copies
  PROVE  <<t, k, i>> \in Events /\ <<t, k, i>>[1] = t /\ <<t, k, i>>[2] = k
BY DEF Events

-----------------------------------------------------------------------------
(* The inductive invariant. *)

\* A card is declined only after the intent exists, and no more often than there are events.
Declines ==
  \A t \in TopUps :
    /\ intent[t] \in {"none", "open"} => declines[t] = 0
    /\ step[t] \in {"idle", "inserted"} => intent[t] = "none"

\* A row gets its intent's id in the last step of begin(), and is settled only after that.
Linking ==
  \A t \in TopUps :
    /\ step[t] \in {"idle", "inserted", "created"} => t \notin linked
    /\ row[t] = "succeeded" => t \in linked /\ t \in keys

\* The event a handler works on was claimed and says what Stripe did.
Handling ==
  \A e \in Events :
    /\ handler[e] # "idle" => e \in claimed
    /\ handler[e] \in {"post", "mark"} => e[2] = "succeeded" /\ e[1] \in linked
    /\ handler[e] = "mark" => e[1] \in keys
    /\ e[2] = "succeeded" /\ (e \in sent \/ e \in claimed) => intent[e[1]] = "paid"

\* The idempotency keys record exactly the credits, and only of payments made.
Keyed ==
  \A t \in TopUps :
    /\ credits[t] = IF t \in keys THEN 1 ELSE 0
    /\ t \in keys => intent[t] = "paid"

TopUpInv == TopUpTypeOK /\ Declines /\ Linking /\ Handling /\ Keyed

-----------------------------------------------------------------------------
\* What Stripe's report of a payment does to the variables it writes.
LEMMA PaidStep ==
  ASSUME TopUpInv, NEW t \in TopUps, Paid(t)
  PROVE  /\ intent' \in [TopUps -> {"none", "open", "declined", "paid"}]
         /\ intent'[t] = "paid" /\ \A u \in TopUps \ {t} : intent'[u] = intent[u]
         /\ declines' = declines
         /\ sent \subseteq sent' /\ sent' \subseteq Events
         /\ \A e \in sent' \ sent : e[1] = t /\ e[2] = "succeeded"
<1>1. PICK n \in 1..Copies : sent' = sent \cup {<<t, "succeeded", i>> : i \in 1..n}
  BY DEF Paid
<1>2. \A e \in sent' \ sent : \E i \in 1..Copies : e = <<t, "succeeded", i>>
  BY <1>1, TopUpAssumption
<1>3. \A e \in sent' \ sent : e \in Events /\ e[1] = t /\ e[2] = "succeeded"
  BY <1>2, EventMade
<1>4. sent \subseteq sent' /\ sent' \subseteq Events
  BY <1>1, <1>3 DEF TopUpInv, TopUpTypeOK
<1> QED
  BY <1>3, <1>4 DEF Paid, TopUpInv, TopUpTypeOK

LEMMA DeclinedStep ==
  ASSUME TopUpInv, NEW t \in TopUps, Declined(t), declines[t] \in 0..(Copies - 1)
  PROVE  /\ intent' \in [TopUps -> {"none", "open", "declined", "paid"}]
         /\ intent'[t] = "declined" /\ \A u \in TopUps \ {t} : intent'[u] = intent[u]
         /\ declines' \in [TopUps -> Nat]
         /\ \A u \in TopUps \ {t} : declines'[u] = declines[u]
         /\ sent \subseteq sent' /\ sent' \subseteq Events
         /\ \A e \in sent' \ sent : e[1] = t /\ e[2] = "payment_failed"
<1>1. declines[t] + 1 \in 1..Copies
  BY TopUpAssumption
<1>2. <<t, "payment_failed", declines[t] + 1>> \in Events
      /\ <<t, "payment_failed", declines[t] + 1>>[1] = t
      /\ <<t, "payment_failed", declines[t] + 1>>[2] = "payment_failed"
  BY <1>1, EventMade
<1> QED
  BY <1>2 DEF Declined, TopUpInv, TopUpTypeOK

-----------------------------------------------------------------------------
LEMMA InvInit == TopUpInit => TopUpInv
BY TopUpAssumption, EventParts
DEF TopUpInit, TopUpInv, TopUpTypeOK, Declines, Linking, Handling, Keyed

LEMMA InvStep == TopUpInv /\ [TopUpNext]_topupVars => TopUpInv'
<1> SUFFICES ASSUME TopUpInv, [TopUpNext]_topupVars PROVE TopUpInv'
  OBVIOUS
<1> USE DEF TopUpInv, TopUpTypeOK, rowVars, stripeVars, webhookVars, creditVars
<1>1. ASSUME NEW t \in TopUps, BeginInsert(t) PROVE TopUpInv'
  BY <1>1, EventParts DEF BeginInsert, Declines, Linking, Handling, Keyed
<1>2. ASSUME NEW t \in TopUps, CreateIntent(t) PROVE TopUpInv'
  <2>1. CASE intent' = [intent EXCEPT ![t] = "open"] /\ UNCHANGED <<sent, declines>>
    BY <1>2, <2>1, EventParts DEF CreateIntent, Declines, Linking, Handling, Keyed
  <2>2. CASE Paid(t)
    <3>1. TopUpTypeOK'
      BY <1>2, <2>2, PaidStep DEF CreateIntent
    <3>2. Declines' /\ Linking' /\ Keyed'
      BY <1>2, <2>2, PaidStep DEF CreateIntent, Declines, Linking, Keyed
    <3>3. Handling'
      BY <1>2, <2>2, PaidStep, EventParts DEF CreateIntent, Handling
    <3> QED
      BY <3>1, <3>2, <3>3
  <2> QED
    BY <1>2, <2>1, <2>2 DEF CreateIntent
<1>3. ASSUME NEW t \in TopUps, CreateDeclined(t) PROVE TopUpInv'
  <2>1. declines[t] \in 0..(Copies - 1) /\ intent[t] = "none"
    BY <1>3, TopUpAssumption DEF CreateDeclined, Declines
  <2>2. TopUpTypeOK'
    BY <1>3, <2>1, DeclinedStep DEF CreateDeclined
  <2>3. Declines' /\ Linking' /\ Keyed'
    BY <1>3, <2>1, DeclinedStep DEF CreateDeclined, Declines, Linking, Keyed
  <2>4. Handling'
    BY <1>3, <2>1, DeclinedStep, EventParts DEF CreateDeclined, Handling
  <2> QED
    BY <2>2, <2>3, <2>4
<1>4. ASSUME NEW t \in TopUps, BeginLink(t) PROVE TopUpInv'
  BY <1>4, EventParts DEF BeginLink, Declines, Linking, Handling, Keyed
<1>5. ASSUME NEW t \in TopUps, BeginDies(t) PROVE TopUpInv'
  BY <1>5, EventParts, TopUpAssumption DEF BeginDies, Fault, Declines, Linking, Handling, Keyed
<1>6. ASSUME NEW t \in TopUps, CustomerPays(t) PROVE TopUpInv'
  <2>1. intent[t] \in {"open", "declined"}
    BY <1>6 DEF CustomerPays, Payable
  <2>2. TopUpTypeOK'
    BY <1>6, PaidStep DEF CustomerPays
  <2>3. Declines' /\ Linking' /\ Keyed'
    BY <1>6, <2>1, PaidStep DEF CustomerPays, Declines, Linking, Keyed
  <2>4. Handling'
    BY <1>6, PaidStep, EventParts DEF CustomerPays, Handling
  <2> QED
    BY <2>2, <2>3, <2>4
<1>7. ASSUME NEW t \in TopUps, CardDeclined(t) PROVE TopUpInv'
  <2>1. intent[t] \in {"open", "declined"} /\ declines[t] \in 0..(Copies - 1)
    BY <1>7, TopUpAssumption DEF CardDeclined, Payable, Declines
  <2>2. TopUpTypeOK'
    BY <1>7, <2>1, DeclinedStep DEF CardDeclined
  <2>3. Declines' /\ Linking' /\ Keyed'
    BY <1>7, <2>1, DeclinedStep DEF CardDeclined, Declines, Linking, Keyed
  <2>4. Handling'
    BY <1>7, <2>1, DeclinedStep, EventParts DEF CardDeclined, Handling
  <2> QED
    BY <2>2, <2>3, <2>4
<1>8. ASSUME NEW e \in Events, Deliver(e) PROVE TopUpInv'
  BY <1>8, EventParts DEF Deliver, ClaimEvent, Swallow, Declines, Linking, Handling, Keyed
<1>9. ASSUME NEW e \in Events, LookUp(e) PROVE TopUpInv'
  BY <1>9, EventParts DEF LookUp, Declines, Linking, Handling, Keyed
<1>10. ASSUME NEW e \in Events, Post(e) PROVE TopUpInv'
  <2>1. e[1] \in TopUps /\ intent[e[1]] = "paid"
    BY <1>10, EventParts DEF Post, Handling
  <2>2. CASE e[1] \in keys
    BY <1>10, <2>1, <2>2, EventParts DEF Post, Declines, Linking, Handling, Keyed
  <2>3. CASE e[1] \notin keys
    <3>1. /\ keys' = keys \cup {e[1]}
          /\ credits' = [credits EXCEPT ![e[1]] = credits[e[1]] + 1]
          /\ balance' = balance + Credit
      BY <1>10, <2>3 DEF Post
    <3>2. TopUpTypeOK'
      BY <1>10, <2>1, <3>1, TopUpAssumption DEF Post
    <3>3. Declines' /\ Linking' /\ Keyed'
      BY <1>10, <2>1, <2>3, <3>1 DEF Post, Declines, Linking, Keyed
    <3>4. Handling'
      BY <1>10, <2>1, <3>1, EventParts DEF Post, Handling
    <3> QED
      BY <3>2, <3>3, <3>4
  <2> QED
    BY <2>2, <2>3
<1>11. ASSUME NEW e \in Events, MarkSucceeded(e) PROVE TopUpInv'
  BY <1>11, EventParts DEF MarkSucceeded, Declines, Linking, Handling, Keyed
<1>12. ASSUME NEW e \in Events, MarkFailed(e) PROVE TopUpInv'
  BY <1>12, EventParts DEF MarkFailed, Declines, Linking, Handling, Keyed
<1>13. ASSUME NEW e \in Events, Finish(e) PROVE TopUpInv'
  BY <1>13, EventParts, TopUpAssumption DEF Finish, Fault, Declines, Linking, Handling, Keyed
<1>14. ASSUME NEW e \in Events, HandlerFails(e) PROVE TopUpInv'
  BY <1>14, EventParts, TopUpAssumption DEF HandlerFails, Fault, Declines, Linking, Handling, Keyed
<1>15. CASE UNCHANGED topupVars
  BY <1>15 DEF topupVars, Declines, Linking, Handling, Keyed
<1> QED
  BY <1>1, <1>2, <1>3, <1>4, <1>5, <1>6, <1>7, <1>8, <1>9, <1>10, <1>11, <1>12, <1>13, <1>14, <1>15
  DEF TopUpNext, BeginRest, Handle

\* The inductive invariant holds in every reachable state.
LEMMA Invariant == TopUpSpec => []TopUpInv
BY InvInit, InvStep, PTL DEF TopUpSpec

\* Type correctness of the top-up path.
THEOREM TypeCorrect == TopUpSpec => []TopUpTypeOK
<1>1. TopUpInv => TopUpTypeOK
  BY DEF TopUpInv
<1> QED
  BY <1>1, Invariant, PTL

\* settle() behind the webhook credits only money that moved, and at most once, however often
\* events are duplicated or redelivered and wherever begin() or a handler dies.
THEOREM CreditsAtMostOnce == TopUpSpec => []CreditedOnce
<1>1. TopUpInv => CreditedOnce
  BY DEF TopUpInv, Keyed, CreditedOnce
<1> QED
  BY <1>1, Invariant, PTL

\* A top-up row that says succeeded has its credit in the ledger, although settle() writes the
\* two in separate transactions.
THEOREM SettledOnlyIfCredited == TopUpSpec => []SettledIsCredited
<1>1. TopUpInv => SettledIsCredited
  BY DEF TopUpInv, Linking, Keyed, SettledIsCredited
<1> QED
  BY <1>1, Invariant, PTL

\* Neither a late payment_failed nor the last write of begin() undoes a settled top-up.
THEOREM SettledForGood == TopUpSpec => SucceededIsFinal
<1> DEFINE Keeps == \A t \in TopUps : row[t] = "succeeded" => row'[t] = "succeeded"
<1>1. TopUpInv /\ TopUpInv' /\ [TopUpNext]_topupVars => [Keeps]_topupVars
  <2> SUFFICES ASSUME TopUpInv, TopUpNext, NEW t \in TopUps, row[t] = "succeeded"
               PROVE  row'[t] = "succeeded"
    OBVIOUS
  <2> USE DEF TopUpInv, TopUpTypeOK, rowVars
  <2>1. ASSUME NEW u \in TopUps, BeginInsert(u) \/ BeginRest(u) \/ BeginDies(u) PROVE row'[t] = "succeeded"
    BY <2>1 DEF BeginInsert, BeginRest, CreateIntent, CreateDeclined, BeginLink, BeginDies, Linking
  <2>2. ASSUME NEW u \in TopUps, CustomerPays(u) \/ CardDeclined(u) PROVE row'[t] = "succeeded"
    BY <2>2 DEF CustomerPays, CardDeclined
  <2>3. ASSUME NEW e \in Events, Deliver(e) \/ Handle(e) \/ HandlerFails(e) PROVE row'[t] = "succeeded"
    BY <2>3, EventParts
    DEF Deliver, ClaimEvent, Swallow, Handle, LookUp, Post, MarkSucceeded, MarkFailed, Finish, HandlerFails
  <2> QED
    BY <2>1, <2>2, <2>3 DEF TopUpNext
<1> QED
  BY <1>1, Invariant, PTL DEF TopUpSpec, SucceededIsFinal
=============================================================================
