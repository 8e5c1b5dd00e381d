------------------------------- MODULE TopUps -------------------------------
(***************************************************************************)
(* The Stripe top-up path: begin(), settle() and fail() of                 *)
(* lib/typescript/billing/src/topup.ts and the webhook route of            *)
(* apps/internal-api/src/v1/stripe-webhooks.ts.                            *)
(*                                                                         *)
(* begin() writes a row, creates a PaymentIntent and stores its id in      *)
(* three steps; Stripe moves the money on its own and reports it with      *)
(* events it redelivers until it gets a 2xx, in any order and perhaps as   *)
(* two events about one payment.  Each statement outside a transaction is  *)
(* a step of its own.                                                      *)
(***************************************************************************)
EXTENDS Integers, FiniteSets

CONSTANTS
  TopUps,      \* topup ids, each with its PaymentIntent
  AutoReloads, \* those of the auto-reload: confirmed off-session by begin() itself
  Credit,      \* creditedMicroUsd of a top-up
  Copies,      \* bound: events Stripe generates about one outcome
  Retries,     \* bound: times a customer tries again on a declined intent
  MaxFaults    \* bound: errors, crashes and lost responses

ASSUME TopUpAssumption ==
  /\ AutoReloads \subseteq TopUps
  /\ Credit \in Nat \ {0}
  /\ Copies \in Nat \ {0}
  /\ Retries \in 0..(Copies - 1)
  /\ MaxFaults \in Nat

VARIABLES
  row,         \* [TopUps -> topup.status, "none" before the insert]
  linked,      \* top-ups whose row has its stripePaymentIntentId
  step,        \* [TopUps -> where begin() is]
  intent,      \* [TopUps -> the PaymentIntent at Stripe]
  declines,    \* [TopUps -> times the card was declined]
  sent,        \* events Stripe still wants a 2xx for
  claimed,     \* stripe_webhook_event rows
  processed,   \* those with processedAt
  handler,     \* [Events -> where handle(event) is]
  keys,        \* intents whose `stripe:pi:` key is in credit_transaction
  credits,     \* [TopUps -> times it was credited]
  balance,     \* the organization's spendable balance
  faults

Events == TopUps \X {"succeeded", "payment_failed"} \X (1..Copies)

rowVars     == <<row, linked, step>>
stripeVars  == <<intent, declines>>
webhookVars == <<claimed, processed, handler>>
creditVars  == <<keys, credits, balance>>
topupVars   == <<rowVars, stripeVars, sent, webhookVars, creditVars, faults>>

Fault == faults < MaxFaults /\ faults' = faults + 1

-----------------------------------------------------------------------------
(* begin() *)

BeginInsert(t) ==
  /\ step[t] = "idle"
  /\ step' = [step EXCEPT ![t] = "inserted"]
  /\ row' = [row EXCEPT ![t] = "pending"]
  /\ UNCHANGED <<linked, stripeVars, sent, webhookVars, creditVars, faults>>

\* Stripe reports that the payment went through, in one event or in several.
Paid(t) ==
  /\ intent' = [intent EXCEPT ![t] = "paid"]
  /\ \E n \in 1..Copies : sent' = sent \cup {<<t, "succeeded", i>> : i \in 1..n}
  /\ UNCHANGED declines

Declined(t) ==
  /\ intent' = [intent EXCEPT ![t] = "declined"]
  /\ declines' = [declines EXCEPT ![t] = @ + 1]
  /\ sent' = sent \cup {<<t, "payment_failed", declines[t] + 1>>}

\* paymentIntents.create() returns: the payment is still open, or, off-session, already made.
CreateIntent(t) ==
  /\ step[t] = "inserted"
  /\ step' = [step EXCEPT ![t] = "created"]
  /\ \/ intent' = [intent EXCEPT ![t] = "open"] /\ UNCHANGED <<sent, declines>>
     \/ t \in AutoReloads /\ Paid(t)
  /\ UNCHANGED <<row, linked, webhookVars, creditVars, faults>>

\* It throws: the off-session card was declined, so begin() ends with its row as it was.
CreateDeclined(t) ==
  /\ step[t] = "inserted" /\ t \in AutoReloads
  /\ step' = [step EXCEPT ![t] = "threw"]
  /\ Declined(t)
  /\ UNCHANGED <<row, linked, webhookVars, creditVars, faults>>

BeginLink(t) ==
  /\ step[t] = "created"
  /\ step' = [step EXCEPT ![t] = "returned"]
  /\ linked' = linked \cup {t}
  /\ row' = [row EXCEPT ![t] = "processing"]
  /\ UNCHANGED <<stripeVars, sent, webhookVars, creditVars, faults>>

\* A crash or an error of Stripe's or of the database, between two steps.
BeginDies(t) ==
  /\ step[t] \in {"inserted", "created"}
  /\ Fault
  /\ step' = [step EXCEPT ![t] = "threw"]
  /\ UNCHANGED <<row, linked, stripeVars, sent, webhookVars, creditVars>>

-----------------------------------------------------------------------------
(* Stripe and the customer, who holds the client secret once begin() has returned. *)

Payable(t) ==
  \/ intent[t] = "open" /\ (t \in AutoReloads \/ step[t] = "returned")
  \/ intent[t] = "declined" /\ t \notin AutoReloads /\ declines[t] <= Retries

CustomerPays(t) ==
  /\ Payable(t)
  /\ Paid(t)
  /\ UNCHANGED <<rowVars, webhookVars, creditVars, faults>>

CardDeclined(t) ==
  /\ Payable(t)
  /\ Declined(t)
  /\ UNCHANGED <<rowVars, webhookVars, creditVars, faults>>

-----------------------------------------------------------------------------
(* The webhook route.  A response of 2xx takes the event off Stripe's list. *)

\* The insert into stripe_webhook_event ... on conflict do nothing returns the row.
ClaimEvent(e) ==
  /\ e \in sent /\ e \notin claimed
  /\ claimed' = claimed \cup {e}
  /\ handler' = [handler EXCEPT ![e] = "lookup"]
  /\ UNCHANGED <<rowVars, stripeVars, sent, processed, creditVars, faults>>

\* It returns nothing: the delivery is answered 200 at once.
Swallow(e) ==
  /\ e \in sent /\ e \in claimed
  /\ sent' = sent \ {e}
  /\ UNCHANGED <<rowVars, stripeVars, webhookVars, creditVars, faults>>

\* Mutant of LookUp: a top-up that failed once is taken for final.
LookUpFinal(e) ==
  /\ handler[e] = "lookup" /\ e[2] = "succeeded"
  /\ handler' = [handler EXCEPT ![e] =
       IF e[1] \notin linked \/ row[e[1]] \in {"succeeded", "failed"} THEN "finish" ELSE "post"]
  /\ UNCHANGED <<rowVars, stripeVars, sent, claimed, processed, creditVars, faults>>

\* settle(): the row is looked up by the intent's id.
LookUp(e) ==
  /\ handler[e] = "lookup" /\ e[2] = "succeeded"
  /\ handler' = [handler EXCEPT ![e] =
       IF e[1] \notin linked \/ row[e[1]] = "succeeded" THEN "finish" ELSE "post"]
  /\ UNCHANGED <<rowVars, stripeVars, sent, claimed, processed, creditVars, faults>>

\* Mutant of Post: the posting has no idempotency key.
PostAgain(e) ==
  /\ handler[e] = "post"
  /\ handler' = [handler EXCEPT ![e] = "mark"]
  /\ keys' = keys \cup {e[1]}
  /\ credits' = [credits EXCEPT ![e[1]] = @ + 1]
  /\ balance' = balance + Credit
  /\ UNCHANGED <<rowVars, stripeVars, sent, claimed, processed, faults>>

\* settle(): post() with the key of the intent, in a transaction of its own.
Post(e) ==
  /\ handler[e] = "post"
  /\ handler' = [handler EXCEPT ![e] = "mark"]
  /\ IF e[1] \in keys THEN UNCHANGED creditVars
     ELSE /\ keys' = keys \cup {e[1]}
          /\ credits' = [credits EXCEPT ![e[1]] = @ + 1]
          /\ balance' = balance + Credit
  /\ UNCHANGED <<rowVars, stripeVars, sent, claimed, processed, faults>>

\* settle(): the status, afterwards.
MarkSucceeded(e) ==
  /\ handler[e] = "mark"
  /\ handler' = [handler EXCEPT ![e] = "finish"]
  /\ row' = [row EXCEPT ![e[1]] = "succeeded"]
  /\ UNCHANGED <<linked, step, stripeVars, sent, claimed, processed, creditVars, faults>>

\* Mutant of MarkFailed: the update has no condition on the status.
MarkFailedAlways(e) ==
  /\ handler[e] = "lookup" /\ e[2] = "payment_failed"
  /\ handler' = [handler EXCEPT ![e] = "finish"]
  /\ row' = [row EXCEPT ![e[1]] = IF e[1] \in linked THEN "failed" ELSE @]
  /\ UNCHANGED <<linked, step, stripeVars, sent, claimed, processed, creditVars, faults>>

\* fail()
MarkFailed(e) ==
  /\ handler[e] = "lookup" /\ e[2] = "payment_failed"
  /\ handler' = [handler EXCEPT ![e] = "finish"]
  /\ row' = [row EXCEPT ![e[1]] =
       IF e[1] \in linked /\ @ # "succeeded" THEN "failed" ELSE @]
  /\ UNCHANGED <<linked, step, stripeVars, sent, claimed, processed, creditVars, faults>>

\* processedAt, and the 200, which Stripe may not get.
Finish(e) ==
  /\ handler[e] = "finish"
  /\ handler' = [handler EXCEPT ![e] = "idle"]
  /\ processed' = processed \cup {e}
  /\ \/ sent' = sent \ {e} /\ UNCHANGED faults
     \/ Fault /\ UNCHANGED sent
  /\ UNCHANGED <<rowVars, stripeVars, claimed, creditVars>>

\* handle() throws, or the process dies: no 2xx, and the claim row stays.
HandlerFails(e) ==
  /\ handler[e] # "idle"
  /\ Fault
  /\ handler' = [handler EXCEPT ![e] = "idle"]
  /\ UNCHANGED <<rowVars, stripeVars, sent, claimed, processed, creditVars>>

-----------------------------------------------------------------------------
TopUpInit ==
  /\ row = [t \in TopUps |-> "none"]
  /\ linked = {}
  /\ step = [t \in TopUps |-> "idle"]
  /\ intent = [t \in TopUps |-> "none"]
  /\ declines = [t \in TopUps |-> 0]
  /\ sent = {} /\ claimed = {} /\ processed = {}
  /\ handler = [e \in Events |-> "idle"]
  /\ keys = {}
  /\ credits = [t \in TopUps |-> 0]
  /\ balance = 0
  /\ faults = 0

BeginRest(t) == CreateIntent(t) \/ CreateDeclined(t) \/ BeginLink(t)

Handle(e) == LookUp(e) \/ Post(e) \/ MarkSucceeded(e) \/ MarkFailed(e) \/ Finish(e)

Deliver(e) == ClaimEvent(e) \/ Swallow(e)

TopUpNext ==
  \/ \E t \in TopUps : BeginInsert(t) \/ BeginRest(t) \/ BeginDies(t) \/ CustomerPays(t) \/ CardDeclined(t)
  \/ \E e \in Events : Deliver(e) \/ Handle(e) \/ HandlerFails(e)

TopUpSpec == TopUpInit /\ [][TopUpNext]_topupVars

\* begin() goes on, and so do Stripe's redeliveries and the handlers: a delivery is consumed and a
\* handler advances, so it is enough that one of them moves.  What customers and cards do, and
\* faults, are up to the world.
TopUpFairness ==
  /\ WF_topupVars(\E t \in TopUps : BeginRest(t))
  /\ WF_topupVars(\E e \in Events : Deliver(e) \/ Handle(e))

TopUpFairSpec == TopUpSpec /\ TopUpFairness

-----------------------------------------------------------------------------
(* Properties *)

\* Type invariant.
TopUpTypeOK ==
  /\ row \in [TopUps -> {"none", "pending", "processing", "succeeded", "failed"}]
  /\ linked \subseteq TopUps
  /\ step \in [TopUps -> {"idle", "inserted", "created", "returned", "threw"}]
  /\ intent \in [TopUps -> {"none", "open", "declined", "paid"}]
  /\ declines \in [TopUps -> Nat]
  /\ sent \subseteq Events /\ claimed \subseteq Events /\ processed \subseteq claimed
  /\ handler \in [Events -> {"idle", "lookup", "post", "mark", "finish"}]
  /\ keys \subseteq TopUps
  /\ credits \in [TopUps -> Nat]
  /\ balance \in Int
  /\ faults \in 0..MaxFaults

\* Only money that moved is credited, and once: whatever Stripe duplicates or redelivers and
\* wherever a handler dies, a top-up is credited at most once and never before it was paid.
CreditedOnce ==
  \A t \in TopUps : credits[t] <= 1 /\ (credits[t] = 1 => intent[t] = "paid")

\* A row says succeeded only when its credit is in the ledger, although settle() posts and
\* marks in two transactions.
SettledIsCredited ==
  \A t \in TopUps : row[t] = "succeeded" => credits[t] = 1

\* A late payment_failed, delivered after the success, does not undo a settled top-up.
SucceededIsFinal ==
  [][\A t \in TopUps : row[t] = "succeeded" => row'[t] = "succeeded"]_topupVars

\* What a customer pays is credited in the end, however its events are duplicated and reordered,
\* unless a delivery failed.
CustomersAreCredited ==
  \A t \in TopUps \ AutoReloads : intent[t] = "paid" ~> credits[t] = 1 \/ faults > 0

-----------------------------------------------------------------------------
(* What comments and tests of the code say and the model refutes: the README gives the instances. *)

\* A succeeded payment is eventually credited, an automatic one too.
PaidIsCredited ==
  \A t \in TopUps : intent[t] = "paid" ~> credits[t] = 1

\* A delivery that failed half-way is processed by a retry.
EventsGetProcessed ==
  \A e \in Events : e \in claimed ~> e \in processed
=============================================================================
