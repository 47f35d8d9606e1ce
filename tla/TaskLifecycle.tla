---------------------------- MODULE TaskLifecycle ----------------------------
(***************************************************************************)
(* One task that an agent or a user sends to an agent, with its payment held *)
(* in escrow: services/tasks.ts, services/task-forwarding.ts, the payment     *)
(* part of services/stripe-connect.ts, routes/v1/tasks.ts and the task part   *)
(* of the Stripe webhook.  Requests are slots; each action is one statement,  *)
(* one transaction or one Stripe call of a request's handler.                 *)
(***************************************************************************)
EXTENDS Naturals, FiniteSets

CONSTANTS
  Requests,          \* slots of requests served at the same time
  TrustEligible      \* the sender is neither the recipient nor of its lineage

ASSUME TrustAssumption == TrustEligible \in BOOLEAN

VARIABLES
  rows,         \* tasks inserted under the client's idempotency key
  delivery,     \* deliveryStatus
  receipts,     \* delivery receipts, by status
  business,     \* businessStatus
  completedAt,  \* whether completedAt is set; nothing clears it
  escrow,       \* escrowStatus; stripePaymentIntentId is set with it
  payment,      \* paymentStatus; paymentIntentId is set with it
  received,     \* the agent's tasksReceived
  credits,      \* the agent's tasksCompleted
  intents,      \* PaymentIntents Stripe made for the task
  pi,           \* status of the (first) PaymentIntent
  secret,       \* the client has the PaymentIntent's secret
  event,        \* the amount_capturable_updated event in webhook_events
  pc, job       \* where each request is, and what it was asked to do

taskVars   == <<rows, delivery, receipts, received>>
statusVars == <<business, completedAt, credits>>
moneyVars  == <<escrow, payment, intents, pi, secret, event>>
vars == <<taskVars, statusVars, moneyVars, pc, job>>

Statuses == {"pending", "accepted", "rejected", "in_progress", "completed", "failed",
             "cancelled"}

\* A request: the status it asks for ("dispute" for a dispute), and whether it came
\* through the route of its own or through PATCH business-status.
NoJob == [to |-> "none", via |-> "route"]
Jobs  == [to : Statuses \union {"none", "dispute"}, via : {"route", "patch"}]

Points == {"idle", "insert", "count", "queue", "receipt", "deliver", "undeliverable",
           "intent", "intent_write", "escrow_write", "respond", "ack", "update", "credit",
           "release_read", "release", "capture_read", "capture", "capture_write",
           "dispute", "void_read", "void", "void_write", "refund"}

TypeOK ==
  /\ rows \in Nat /\ received \in Nat /\ credits \in Nat /\ intents \in Nat
  /\ delivery \in {"pending", "queued", "delivered", "acknowledged", "failed"}
  /\ receipts \subseteq {"delivered", "failed"}
  /\ business \in Statuses /\ completedAt \in BOOLEAN
  /\ escrow \in {"none", "payment_pending", "held", "released", "disputed", "refunded"}
  /\ payment \in {"none", "pending", "captured", "cancelled"}
  /\ pi \in {"none", "requires_payment_method", "requires_capture", "succeeded", "canceled"}
  /\ secret \in BOOLEAN /\ event \in {"none", "sent", "done"}
  /\ pc \in [Requests -> Points] /\ job \in [Requests -> Jobs]

Init ==
  /\ rows = 0 /\ received = 0 /\ credits = 0 /\ intents = 0
  /\ delivery = "pending" /\ receipts = {} /\ business = "pending" /\ completedAt = FALSE
  /\ escrow = "none" /\ payment = "none"
  /\ pi = "none" /\ secret = FALSE /\ event = "none"
  /\ pc = [r \in Requests |-> "idle"] /\ job = [r \in Requests |-> NoJob]

\* Request r goes from one point of its handler to the next.
Goto(r, from, to) == pc[r] = from /\ pc' = [pc EXCEPT ![r] = to]

\* The server dies, the database or Stripe fails, or (at "intent") the client asked for
\* no escrow or the recipient's account is not active: nothing more is written.
Abandon(r) ==
  /\ pc[r] # "idle"
  /\ pc' = [pc EXCEPT ![r] = "idle"]
  /\ UNCHANGED <<taskVars, statusVars, moneyVars, job>>

-----------------------------------------------------------------------------
(* POST /tasks *)

\* No task of the idempotency key is found, and the recipient is active.
SubmitTask(r) ==
  /\ rows = 0
  /\ Goto(r, "idle", "insert")
  /\ job' = [job EXCEPT ![r] = NoJob]
  /\ UNCHANGED <<taskVars, statusVars, moneyVars>>

\* Seeded fault: the table has no unique index on the idempotency key.
InsertTaskTwice(r) ==
  /\ Goto(r, "insert", "count")
  /\ rows' = rows + 1
  /\ UNCHANGED <<delivery, receipts, received, statusVars, moneyVars, job>>

\* The insert; the unique index on the idempotency key refuses a second one.
InsertTask(r) ==
  /\ rows = 0
  /\ Goto(r, "insert", "count")
  /\ rows' = 1
  /\ UNCHANGED <<delivery, receipts, received, statusVars, moneyVars, job>>

CountReceived(r) ==
  /\ Goto(r, "count", "queue")
  /\ received' = received + 1
  /\ UNCHANGED <<rows, delivery, receipts, statusVars, moneyVars, job>>

\* forwardTask to an agent with an endpoint: queued, a receipt, delivered.
ForwardQueue(r) ==
  /\ Goto(r, "queue", "receipt")
  /\ delivery' = "queued"
  /\ UNCHANGED <<rows, receipts, received, statusVars, moneyVars, job>>

ForwardReceipt(r) ==
  /\ Goto(r, "receipt", "deliver")
  /\ receipts' = receipts \union {"delivered"}
  /\ UNCHANGED <<rows, delivery, received, statusVars, moneyVars, job>>

ForwardDeliver(r) ==
  /\ Goto(r, "deliver", "intent")
  /\ delivery' = "delivered"
  /\ UNCHANGED <<rows, receipts, received, statusVars, moneyVars, job>>

\* forwardTask to an agent that has no endpoint (any more).
ForwardNoEndpoint(r) ==
  /\ Goto(r, "queue", "undeliverable")
  /\ receipts' = receipts \union {"failed"}
  /\ UNCHANGED <<rows, delivery, received, statusVars, moneyVars, job>>

ForwardFail(r) ==
  /\ Goto(r, "undeliverable", "intent")
  /\ delivery' = "failed"
  /\ UNCHANGED <<rows, receipts, received, statusVars, moneyVars, job>>

\* createTaskPaymentIntent: Stripe makes a manual-capture PaymentIntent; it carries no
\* idempotency key.
CreateIntent(r) ==
  /\ Goto(r, "intent", "intent_write")
  /\ intents' = intents + 1
  /\ pi' = IF pi = "none" THEN "requires_payment_method" ELSE pi
  /\ UNCHANGED <<taskVars, statusVars, escrow, payment, secret, event, job>>

CreateIntentWrite(r) ==
  /\ Goto(r, "intent_write", "escrow_write")
  /\ payment' = "pending"
  /\ UNCHANGED <<taskVars, statusVars, escrow, intents, pi, secret, event, job>>

SubmitEscrowWrite(r) ==
  /\ Goto(r, "escrow_write", "respond")
  /\ escrow' = "payment_pending"
  /\ UNCHANGED <<taskVars, statusVars, payment, intents, pi, secret, event, job>>

\* The response carries the secret with which the client confirms the PaymentIntent.
SubmitRespond(r) ==
  /\ Goto(r, "respond", "idle")
  /\ secret' = TRUE
  /\ UNCHANGED <<taskVars, statusVars, escrow, payment, intents, pi, event, job>>

Submit(r) ==
  \/ SubmitTask(r) \/ InsertTask(r) \/ CountReceived(r)
  \/ ForwardQueue(r) \/ ForwardReceipt(r) \/ ForwardDeliver(r)
  \/ ForwardNoEndpoint(r) \/ ForwardFail(r)
  \/ CreateIntent(r) \/ CreateIntentWrite(r) \/ SubmitEscrowWrite(r) \/ SubmitRespond(r)

-----------------------------------------------------------------------------
(* The recipient: acknowledge, and the business status *)

AcknowledgeTask(r) ==
  /\ rows > 0 /\ delivery = "delivered"
  /\ Goto(r, "idle", "ack")
  /\ job' = [job EXCEPT ![r] = NoJob]
  /\ UNCHANGED <<taskVars, statusVars, moneyVars>>

AcknowledgeWrite(r) ==
  /\ Goto(r, "ack", "idle")
  /\ delivery' = "acknowledged"
  /\ UNCHANGED <<rows, receipts, received, statusVars, moneyVars, job>>

VALID_BUSINESS_TRANSITIONS ==
  [s \in Statuses |->
     CASE s = "pending"     -> {"accepted", "rejected"}
       [] s = "accepted"    -> {"in_progress", "completed", "failed", "cancelled"}
       [] s = "in_progress" -> {"completed", "failed", "cancelled"}
       [] OTHER             -> {}]

\* Routes of their own: accept, start, complete, reject, fail.
\* PATCH accepts the other statuses, without in_progress.
Requested(via) ==
  IF via = "route" THEN {"accepted", "in_progress", "completed", "rejected", "failed"}
                   ELSE {"accepted", "rejected", "completed", "failed", "cancelled"}

\* updateBusinessStatus reads the task and checks the transition ...
UpdateStatus(r, via, to) ==
  /\ rows > 0
  /\ to \in VALID_BUSINESS_TRANSITIONS[business]
  /\ Goto(r, "idle", "update")
  /\ job' = [job EXCEPT ![r] = [to |-> to, via |-> via]]
  /\ UNCHANGED <<taskVars, statusVars, moneyVars>>

\* Seeded fault: PATCH captures the payment of a failed or cancelled task too.
AfterStatusCaptures(j) ==
  CASE j.to = "completed" -> IF j.via = "route" THEN "release_read" ELSE "capture_read"
    [] j.to \in {"failed", "cancelled"} /\ j.via = "patch" -> "capture_read"
    [] OTHER -> "idle"

\* What a handler does once the status is written.  The reject and fail routes, and
\* acceptance, leave the payment alone.
AfterStatus(j) ==
  CASE j.to = "completed" -> IF j.via = "route" THEN "release_read" ELSE "capture_read"
    [] j.to \in {"failed", "cancelled"} /\ j.via = "patch" -> "void_read"
    [] OTHER -> "idle"

\* ... and writes the new status by the task's id.
UpdateStatusWrite(r) ==
  LET credit == job[r].to = "completed" /\ TrustEligible
  IN /\ Goto(r, "update", IF credit THEN "credit" ELSE AfterStatus(job[r]))
     /\ business' = job[r].to
     /\ completedAt' = (completedAt \/ job[r].to = "completed")
     /\ UNCHANGED <<taskVars, credits, moneyVars, job>>

UpdateStatusCredit(r) ==
  /\ Goto(r, "credit", AfterStatus(job[r]))
  /\ credits' = credits + 1
  /\ UNCHANGED <<taskVars, business, completedAt, moneyVars, job>>

\* The recipient shuts itself down: its pending tasks are cancelled, and their payment is
\* left alone.
ShutdownCancels ==
  /\ rows > 0 /\ business = "pending"
  /\ business' = "cancelled"
  /\ UNCHANGED <<taskVars, completedAt, credits, moneyVars, pc, job>>

-----------------------------------------------------------------------------
(* The escrow of a completed task, and captureTaskPayment *)

\* Seeded fault: the complete route releases the escrow whatever it reads.
CompleteReadsNothing(r) ==
  /\ Goto(r, "release_read", "release")
  /\ UNCHANGED <<taskVars, statusVars, moneyVars, job>>

\* The complete route reads the escrow; only a held one is released.
CompleteReadEscrow(r) ==
  /\ Goto(r, "release_read", IF escrow = "held" THEN "release" ELSE "idle")
  /\ UNCHANGED <<taskVars, statusVars, moneyVars, job>>

CompleteRelease(r) ==
  /\ Goto(r, "release", "capture_read")
  /\ escrow' = "released"
  /\ UNCHANGED <<taskVars, statusVars, payment, intents, pi, secret, event, job>>

\* Seeded fault: the capture is recorded without asking Stripe.
CaptureReadRecords(r) ==
  /\ Goto(r, "capture_read", IF payment \in {"none", "captured"} THEN "idle" ELSE "capture_write")
  /\ UNCHANGED <<taskVars, statusVars, moneyVars, job>>

CaptureRead(r) ==
  /\ Goto(r, "capture_read", IF payment \in {"none", "captured"} THEN "idle" ELSE "capture")
  /\ UNCHANGED <<taskVars, statusVars, moneyVars, job>>

\* Stripe captures an authorized PaymentIntent and refuses any other; the refusal ends
\* the request.
CaptureCall(r) ==
  /\ Goto(r, "capture", IF pi = "requires_capture" THEN "capture_write" ELSE "idle")
  /\ pi' = IF pi = "requires_capture" THEN "succeeded" ELSE pi
  /\ UNCHANGED <<taskVars, statusVars, escrow, payment, intents, secret, event, job>>

CaptureWrite(r) ==
  /\ Goto(r, "capture_write", "idle")
  /\ payment' = "captured"
  /\ UNCHANGED <<taskVars, statusVars, escrow, intents, pi, secret, event, job>>

-----------------------------------------------------------------------------
(* Disputes, and cancelTaskPayment *)

DisputeTask(r) ==
  /\ escrow \in {"held", "released", "payment_pending"}
  /\ Goto(r, "idle", "dispute")
  /\ job' = [job EXCEPT ![r] = [to |-> "dispute", via |-> "route"]]
  /\ UNCHANGED <<taskVars, statusVars, moneyVars>>

DisputeWrite(r) ==
  /\ Goto(r, "dispute", "void_read")
  /\ escrow' = "disputed"
  /\ UNCHANGED <<taskVars, statusVars, payment, intents, pi, secret, event, job>>

AfterVoid(j) == IF j.to = "dispute" THEN "refund" ELSE "idle"

\* cancelTaskPayment returns without a word when the payment is already captured.
VoidRead(r) ==
  /\ Goto(r, "void_read", IF payment = "pending" THEN "void" ELSE AfterVoid(job[r]))
  /\ UNCHANGED <<taskVars, statusVars, moneyVars, job>>

\* Seeded fault: the refusal of the cancellation by Stripe is swallowed.
VoidCallSwallows(r) ==
  LET cancelable == pi \in {"requires_payment_method", "requires_capture"}
  IN /\ Goto(r, "void", "void_write")
     /\ pi' = IF cancelable THEN "canceled" ELSE pi
     /\ UNCHANGED <<taskVars, statusVars, escrow, payment, intents, secret, event, job>>

\* Stripe cancels a PaymentIntent that is neither captured nor canceled.
VoidCall(r) ==
  LET cancelable == pi \in {"requires_payment_method", "requires_capture"}
  IN /\ Goto(r, "void", IF cancelable THEN "void_write" ELSE "idle")
     /\ pi' = IF cancelable THEN "canceled" ELSE pi
     /\ UNCHANGED <<taskVars, statusVars, escrow, payment, intents, secret, event, job>>

VoidWrite(r) ==
  /\ Goto(r, "void_write", AfterVoid(job[r]))
  /\ payment' = "cancelled"
  /\ UNCHANGED <<taskVars, statusVars, escrow, intents, pi, secret, event, job>>

\* Seeded fault: the refund is written with a status of paymentStatus.
DisputeRefundCancelled(r) ==
  /\ Goto(r, "refund", "idle")
  /\ escrow' = "cancelled"
  /\ UNCHANGED <<taskVars, statusVars, payment, intents, pi, secret, event, job>>

DisputeRefund(r) ==
  /\ Goto(r, "refund", "idle")
  /\ escrow' = "refunded"
  /\ UNCHANGED <<taskVars, statusVars, payment, intents, pi, secret, event, job>>

Recipient(r) ==
  \/ AcknowledgeTask(r) \/ AcknowledgeWrite(r)
  \/ \E via \in {"route", "patch"} : \E to \in Requested(via) : UpdateStatus(r, via, to)
  \/ UpdateStatusWrite(r) \/ UpdateStatusCredit(r)
  \/ CompleteReadEscrow(r) \/ CompleteRelease(r)
  \/ CaptureRead(r) \/ CaptureCall(r) \/ CaptureWrite(r)

Dispute(r) ==
  \/ DisputeTask(r) \/ DisputeWrite(r)
  \/ VoidRead(r) \/ VoidCall(r) \/ VoidWrite(r) \/ DisputeRefund(r)

-----------------------------------------------------------------------------
(* Stripe and its webhook *)

\* The client confirms the PaymentIntent and the card is authorized.
Authorize ==
  /\ secret /\ pi = "requires_payment_method"
  /\ pi' = "requires_capture" /\ event' = "sent"
  /\ UNCHANGED <<taskVars, statusVars, escrow, payment, intents, secret, pc, job>>

\* An authorization that nobody captures lapses after about seven days.
Lapse ==
  /\ pi = "requires_capture"
  /\ pi' = "canceled"
  /\ UNCHANGED <<taskVars, statusVars, escrow, payment, intents, secret, event, pc, job>>

\* Seeded fault: the handler's UPDATE does not test escrowStatus.
CapturableUpdatedBlind ==
  /\ event = "sent"
  /\ escrow' = "held"
  /\ event' \in {"sent", "done"}
  /\ UNCHANGED <<taskVars, statusVars, payment, intents, pi, secret, pc, job>>

\* handlePaymentIntentCapturableUpdated; an event whose handler died is delivered again.
CapturableUpdated ==
  /\ event = "sent"
  /\ escrow' = IF escrow = "payment_pending" THEN "held" ELSE escrow
  /\ event' \in {"sent", "done"}
  /\ UNCHANGED <<taskVars, statusVars, payment, intents, pi, secret, pc, job>>

RequestNext(r) == Submit(r) \/ Recipient(r) \/ Dispute(r) \/ Abandon(r)

Next ==
  \/ \E r \in Requests : RequestNext(r)
  \/ ShutdownCancels \/ Authorize \/ Lapse \/ CapturableUpdated

Spec == Init /\ [][Next]_vars
-----------------------------------------------------------------------------
(* What the escrow promises, whoever races or dies *)

\* The task never records money that did not move: "captured" is written only after
\* Stripe captured the PaymentIntent and "cancelled" only after Stripe voided it.
PaymentRecordTrue ==
  /\ payment = "captured" => pi = "succeeded"
  /\ payment = "cancelled" => pi = "canceled"

\* The recipient is paid only for a task that was completed, also when a completion
\* races a failure, a cancellation or a dispute.
PaidForCompleted == pi = "succeeded" => completedAt

\* A refunded task leaves no live hold on the buyer's card: the hold is void, or a
\* completion captured it before the dispute looked.
RefundVoidsHold ==
  escrow = "refunded" =>
    \/ pi = "canceled"
    \/ pi = "succeeded" /\ payment = "captured" /\ completedAt

\* Retries and concurrent POSTs with one idempotency key make one task, and one hold
\* on the buyer's card, although createTaskPaymentIntent gives Stripe no key.
OneHoldPerKey == rows <= 1 /\ intents <= 1

\* An escrow is released only for a completed task whose card was authorized.
ReleasedWasEarned == escrow = "released" => completedAt /\ event # "none"

Settled == {"released", "disputed", "refunded"}

\* An escrow that left payment_pending and held never returns there: not by an event
\* that is delivered late or twice, nor by a POST that is still running.
SettledEscrowStays ==
  [][(escrow \in Settled) => (escrow' \in Settled)]_vars

\* The hold on the card, seen through Stripe and the task's columns.
Money    == CASE pi = "succeeded" -> "seller" [] pi = "canceled" -> "buyer"
              [] pi = "requires_capture" -> "held" [] OTHER -> "none"
Recorded == CASE payment = "captured" -> "seller" [] payment = "cancelled" -> "buyer"
              [] OTHER -> "none"

Hold == INSTANCE EscrowHold WITH money <- Money, earned <- completedAt, record <- Recorded

\* Submission, completion, dispute and Stripe together implement a hold that is
\* placed once, goes to the seller only when earned, and is recorded afterwards.
HoldSpec == Hold!Spec

-----------------------------------------------------------------------------
(* What a reader may expect and the code does not do *)

\* A task whose payment was captured does not say that it was refunded.
RefundedNotCaptured == escrow = "refunded" => pi # "succeeded"

\* "completed: []": a task is credited to its agent once.
CreditedOnce == credits <= 1
=============================================================================
