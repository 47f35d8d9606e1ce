------------------------------ MODULE TaskProofs ------------------------------
(***************************************************************************)
(* What TaskLifecycle's run checks, for any number of concurrent requests:   *)
(* type correctness, the invariants, the action property, and that the task  *)
(* implements EscrowHold.                                                     *)
(***************************************************************************)
EXTENDS TaskLifecycle, TLAPS

-----------------------------------------------------------------------------
(* Type correctness *)

\* Where a request goes when a status is written or a hold is void is a point.
LEMMA NextPoints ==
  ASSUME NEW j \in Jobs
  PROVE  /\ AfterStatus(j) \in Points \ {"update"}
         /\ AfterVoid(j) \in Points \ {"update"}
  BY DEF Jobs, AfterStatus, AfterVoid, Points

\* A request that is about to write a status was asked for one.
Asked == \A r \in Requests : pc[r] = "update" => job[r].to \in Statuses

TypeInv == TypeOK /\ Asked

LEMMA TypeStep == TypeInv /\ [Next]_vars => TypeInv'
<1> SUFFICES ASSUME TypeInv, [Next]_vars PROVE TypeInv'
  OBVIOUS
<1> USE DEF TypeInv, TypeOK, Asked, Goto, Points, Jobs, NoJob, Statuses, taskVars, statusVars, moneyVars
<1>1. ASSUME NEW r \in Requests, Submit(r) PROVE TypeInv'
  <2>1. CASE SubmitTask(r)
    BY <2>1 DEF SubmitTask
  <2>2. CASE InsertTask(r)
    BY <2>2 DEF InsertTask
  <2>3. CASE CountReceived(r)
    BY <2>3 DEF CountReceived
  <2>4. CASE ForwardQueue(r)
    BY <2>4 DEF ForwardQueue
  <2>5. CASE ForwardReceipt(r)
    BY <2>5 DEF ForwardReceipt
  <2>6. CASE ForwardDeliver(r)
    BY <2>6 DEF ForwardDeliver
  <2>7. CASE ForwardNoEndpoint(r)
    BY <2>7 DEF ForwardNoEndpoint
  <2>8. CASE ForwardFail(r)
    BY <2>8 DEF ForwardFail
  <2>9. CASE CreateIntent(r)
    BY <2>9 DEF CreateIntent
  <2>10. CASE CreateIntentWrite(r)
    BY <2>10 DEF CreateIntentWrite
  <2>11. CASE SubmitEscrowWrite(r)
    BY <2>11 DEF SubmitEscrowWrite
  <2>12. CASE SubmitRespond(r)
    BY <2>12 DEF SubmitRespond
  <2> QED BY <1>1, <2>1, <2>2, <2>3, <2>4, <2>5, <2>6, <2>7, <2>8, <2>9, <2>10, <2>11, <2>12 DEF Submit
<1>2. ASSUME NEW r \in Requests, Recipient(r) PROVE TypeInv'
  <2>1. CASE AcknowledgeTask(r)
    BY <2>1 DEF AcknowledgeTask
  <2>2. CASE AcknowledgeWrite(r)
    BY <2>2 DEF AcknowledgeWrite
  <2>3. CASE UpdateStatusWrite(r)
    BY <2>3, NextPoints DEF UpdateStatusWrite
  <2>4. CASE UpdateStatusCredit(r)
    BY <2>4, NextPoints DEF UpdateStatusCredit
  <2>5. CASE CompleteReadEscrow(r)
    BY <2>5 DEF CompleteReadEscrow
  <2>6. CASE CompleteRelease(r)
    BY <2>6 DEF CompleteRelease
  <2>7. CASE CaptureRead(r)
    BY <2>7 DEF CaptureRead
  <2>8. CASE CaptureCall(r)
    BY <2>8 DEF CaptureCall
  <2>9. CASE CaptureWrite(r)
    BY <2>9 DEF CaptureWrite
  <2>10. ASSUME NEW via \in {"route", "patch"}, NEW to \in Requested(via),
                UpdateStatus(r, via, to)
         PROVE  TypeInv'
    <3>1. [to |-> to, via |-> via] \in Jobs
      BY DEF Requested
    <3>2. to \in Statuses
      BY DEF Requested
    <3> QED BY <2>10, <3>1, <3>2 DEF UpdateStatus
  <2> QED BY <1>2, <2>1, <2>2, <2>3, <2>4, <2>5, <2>6, <2>7, <2>8, <2>9, <2>10 DEF Recipient
<1>3. ASSUME NEW r \in Requests, Dispute(r) PROVE TypeInv'
  <2>1. CASE DisputeTask(r)
    BY <2>1 DEF DisputeTask
  <2>2. CASE DisputeWrite(r)
    BY <2>2 DEF DisputeWrite
  <2>3. CASE VoidRead(r)
    BY <2>3, NextPoints DEF VoidRead
  <2>4. CASE VoidCall(r)
    BY <2>4 DEF VoidCall
  <2>5. CASE VoidWrite(r)
    BY <2>5, NextPoints DEF VoidWrite
  <2>6. CASE DisputeRefund(r)
    BY <2>6 DEF DisputeRefund
  <2> QED BY <1>3, <2>1, <2>2, <2>3, <2>4, <2>5, <2>6 DEF Dispute
<1>4. ASSUME NEW r \in Requests, Abandon(r) PROVE TypeInv'
  BY <1>4 DEF Abandon
<1>5. CASE Authorize
  BY <1>5 DEF Authorize
<1>6. CASE Lapse
  BY <1>6 DEF Lapse
<1>7. CASE CapturableUpdated
  BY <1>7 DEF CapturableUpdated
<1>8. CASE UNCHANGED vars
  BY <1>8 DEF vars
<1>9. CASE ShutdownCancels
  BY <1>9 DEF ShutdownCancels
<1> QED BY <1>1, <1>2, <1>3, <1>4, <1>5, <1>6, <1>7, <1>8, <1>9 DEF Next, RequestNext

LEMMA TypeInit == Init => TypeInv
<1>1. NoJob \in Jobs
  BY DEF NoJob, Jobs
<1> SUFFICES ASSUME Init PROVE TypeInv
  OBVIOUS
<1>2. completedAt \in BOOLEAN /\ secret \in BOOLEAN /\ receipts \subseteq {"delivered", "failed"}
  BY Zenon DEF Init
<1>3. pc \in [Requests -> Points] /\ job \in [Requests -> Jobs] /\ Asked
  BY <1>1 DEF Init, Points, Asked
<1> QED BY <1>2, <1>3 DEF Init, TypeInv, TypeOK, Statuses

\* Every column, receipt and request of a task keeps its type.
THEOREM TypeCorrect == Spec => []TypeOK
<1>1. Init => TypeInv
  BY TypeInit
<1>2. TypeInv => TypeOK
  BY DEF TypeInv
<1> QED BY <1>1, <1>2, TypeStep, PTL DEF Spec

-----------------------------------------------------------------------------
(* The invariant of the money.  The unique index leaves one request past the  *)
(* insert, and nothing is paid or held before its PaymentIntent exists; from  *)
(* there on each point knows what was written before it.                      *)

Unpaid  == {"count", "queue", "receipt", "deliver", "undeliverable", "intent"}
Placing == Unpaid \union {"intent_write", "escrow_write", "respond"}
Earning == {"credit", "release_read", "release", "capture_read", "capture", "capture_write"}
Voiding == {"void_read", "void", "void_write", "refund"}

\* The hold of a refunded task is gone.
HoldSettled ==
  \/ pi = "canceled"
  \/ pi = "succeeded" /\ payment = "captured" /\ completedAt

RequestInv(r) ==
  /\ pc[r] \in Placing => rows = 1
  /\ pc[r] \in Unpaid => intents = 0
  /\ pc[r] \in Unpaid \union {"intent_write"} => payment = "none"
  /\ pc[r] \in Unpaid \union {"intent_write", "escrow_write"} => escrow = "none"
  /\ pc[r] \in {"escrow_write", "respond", "capture", "void"} => payment # "none"
  /\ pc[r] \in Earning => completedAt
  /\ pc[r] = "credit" => job[r].to = "completed"
  /\ pc[r] = "release" => escrow # "none" /\ event # "none"
  /\ pc[r] = "capture_write" => pi = "succeeded" /\ payment # "none"
  /\ pc[r] = "void_write" => pi = "canceled" /\ payment # "none"
  /\ pc[r] = "dispute" => escrow # "none"
  /\ pc[r] \in Voiding /\ job[r].to = "dispute" => escrow # "none"
  /\ pc[r] = "refund" => escrow # "none" /\ HoldSettled

RowInv ==
  /\ rows \in {0, 1} /\ intents \in {0, 1}
  /\ rows = 0 => intents = 0 /\ payment = "none" /\ escrow = "none"
  /\ intents = 0 => pi = "none"
  /\ escrow # "none" => payment # "none"
  /\ escrow = "held" => event # "none"

EscrowInv ==
  /\ RowInv /\ \A r \in Requests : RequestInv(r)
  /\ \A q, r \in Requests : pc[q] \in Placing /\ pc[r] \in Placing => q = r
  /\ PaymentRecordTrue /\ PaidForCompleted /\ RefundVoidsHold /\ ReleasedWasEarned

\* Only a completion goes on to the release or the capture, only a failure or a
\* cancellation to the void.
LEMMA AfterStatusEarned ==
  ASSUME NEW j \in Jobs
  PROVE  /\ AfterStatus(j) \in {"idle", "release_read", "capture_read", "void_read"}
         /\ AfterStatus(j) \in {"release_read", "capture_read"} => j.to = "completed"
         /\ AfterStatus(j) = "void_read" => j.to # "dispute"
  BY DEF AfterStatus

\* Whatever a request, Stripe or its webhook does next keeps the invariant.
LEMMA EscrowStep == TypeInv /\ TypeInv' /\ EscrowInv /\ [Next]_vars => EscrowInv'
<1> SUFFICES ASSUME TypeInv, TypeInv', EscrowInv, [Next]_vars PROVE EscrowInv'
  OBVIOUS
<1> USE DEF TypeInv, TypeOK, Goto, Points, Unpaid, Placing, Earning, Voiding, HoldSettled,
            RequestInv, RowInv, EscrowInv, PaymentRecordTrue, PaidForCompleted,
            RefundVoidsHold, ReleasedWasEarned, taskVars, statusVars, moneyVars
<1>1. ASSUME NEW r \in Requests, Submit(r) PROVE EscrowInv'
  <2>1. CASE SubmitTask(r)
    BY <2>1 DEF SubmitTask, NoJob
  <2>2. CASE InsertTask(r)
    BY <2>2 DEF InsertTask
  <2>3. CASE CountReceived(r)
    BY <2>3 DEF CountReceived
  <2>4. CASE ForwardQueue(r)
    BY <2>4 DEF ForwardQueue
  <2>5. CASE ForwardReceipt(r)
    BY <2>5 DEF ForwardReceipt
  <2>6. CASE ForwardDeliver(r)
    BY <2>6 DEF ForwardDeliver
  <2>7. CASE ForwardNoEndpoint(r)
    BY <2>7 DEF ForwardNoEndpoint
  <2>8. CASE ForwardFail(r)
    BY <2>8 DEF ForwardFail
  <2>9. CASE CreateIntent(r)
    BY <2>9 DEF CreateIntent
  <2>10. CASE CreateIntentWrite(r)
    BY <2>10 DEF CreateIntentWrite
  <2>11. CASE SubmitEscrowWrite(r)
    BY <2>11 DEF SubmitEscrowWrite
  <2>12. CASE SubmitRespond(r)
    BY <2>12 DEF SubmitRespond
  <2> QED BY <1>1, <2>1, <2>2, <2>3, <2>4, <2>5, <2>6, <2>7, <2>8, <2>9, <2>10, <2>11, <2>12 DEF Submit
<1>2. ASSUME NEW r \in Requests, Recipient(r) PROVE EscrowInv'
  <2>1. CASE AcknowledgeTask(r)
    BY <2>1 DEF AcknowledgeTask, NoJob
  <2>2. CASE AcknowledgeWrite(r)
    BY <2>2 DEF AcknowledgeWrite
  <2>3. CASE UpdateStatusWrite(r)
    <3>1. job[r] \in Jobs /\ job' = job
      BY <2>3 DEF UpdateStatusWrite
    <3>2. completedAt => completedAt'
      BY <2>3, Zenon DEF UpdateStatusWrite
    <3>3. job[r].to = "completed" => completedAt'
      BY <2>3, Zenon DEF UpdateStatusWrite
    <3>4. PICK to : /\ pc' = [pc EXCEPT ![r] = to]
                    /\ to \in {"credit", AfterStatus(job[r])}
                    /\ to = "credit" => job[r].to = "completed"
      BY <2>3, <3>1, AfterStatusEarned DEF UpdateStatusWrite
    <3> QED BY <2>3, <3>1, <3>2, <3>3, <3>4, AfterStatusEarned DEF UpdateStatusWrite
  <2>4. CASE UpdateStatusCredit(r)
    BY <2>4 DEF UpdateStatusCredit, AfterStatus
  <2>5. CASE CompleteReadEscrow(r)
    BY <2>5 DEF CompleteReadEscrow
  <2>6. CASE CompleteRelease(r)
    BY <2>6 DEF CompleteRelease
  <2>7. CASE CaptureRead(r)
    BY <2>7 DEF CaptureRead
  <2>8. CASE CaptureCall(r)
    BY <2>8 DEF CaptureCall
  <2>9. CASE CaptureWrite(r)
    BY <2>9 DEF CaptureWrite
  <2>10. ASSUME NEW via \in {"route", "patch"}, NEW to \in Requested(via),
                UpdateStatus(r, via, to)
         PROVE  EscrowInv'
    BY <2>10 DEF UpdateStatus
  <2> QED BY <1>2, <2>1, <2>2, <2>3, <2>4, <2>5, <2>6, <2>7, <2>8, <2>9, <2>10 DEF Recipient
<1>3. ASSUME NEW r \in Requests, Dispute(r) PROVE EscrowInv'
  <2>1. CASE DisputeTask(r)
    BY <2>1 DEF DisputeTask
  <2>2. CASE DisputeWrite(r)
    BY <2>2 DEF DisputeWrite
  <2>3. CASE VoidRead(r)
    BY <2>3 DEF VoidRead, AfterVoid
  <2>4. CASE VoidCall(r)
    BY <2>4 DEF VoidCall
  <2>5. CASE VoidWrite(r)
    BY <2>5 DEF VoidWrite, AfterVoid
  <2>6. CASE DisputeRefund(r)
    BY <2>6 DEF DisputeRefund
  <2> QED BY <1>3, <2>1, <2>2, <2>3, <2>4, <2>5, <2>6 DEF Dispute
<1>4. ASSUME NEW r \in Requests, Abandon(r) PROVE EscrowInv'
  BY <1>4 DEF Abandon
<1>5. CASE Authorize
  BY <1>5 DEF Authorize
<1>6. CASE Lapse
  BY <1>6 DEF Lapse
<1>7. CASE CapturableUpdated
  BY <1>7 DEF CapturableUpdated
<1>8. CASE UNCHANGED vars
  BY <1>8 DEF vars
<1>9. CASE ShutdownCancels
  BY <1>9 DEF ShutdownCancels
<1> QED BY <1>1, <1>2, <1>3, <1>4, <1>5, <1>6, <1>7, <1>8, <1>9 DEF Next, RequestNext
LEMMA EscrowInit == Init => EscrowInv
  BY DEF Init, EscrowInv, RowInv, RequestInv, Unpaid, Placing, Earning, Voiding,
         PaymentRecordTrue, PaidForCompleted, RefundVoidsHold, ReleasedWasEarned

LEMMA EscrowInvariant == Spec => [](TypeInv /\ EscrowInv)
<1>1. Init => TypeInv
  BY TypeInit
<1>2. Init => EscrowInv
  BY EscrowInit
<1> QED BY <1>1, <1>2, TypeStep, EscrowStep, PTL DEF Spec

\* The payment a task records moved, in every interleaving of completions, disputes,
\* cancellations, lapses and crashes.
THEOREM RecordsTrue == Spec => []PaymentRecordTrue
<1>1. EscrowInv => PaymentRecordTrue
  BY DEF EscrowInv
<1> QED BY <1>1, EscrowInvariant, PTL

\* The recipient is paid only for a completed task.
THEOREM PaidOnlyForCompleted == Spec => []PaidForCompleted
<1>1. EscrowInv => PaidForCompleted
  BY DEF EscrowInv
<1> QED BY <1>1, EscrowInvariant, PTL

\* A refunded task leaves no live hold.
THEOREM RefundsVoid == Spec => []RefundVoidsHold
<1>1. EscrowInv => RefundVoidsHold
  BY DEF EscrowInv
<1> QED BY <1>1, EscrowInvariant, PTL

\* One idempotency key makes one task and one PaymentIntent, for any number of POSTs.
THEOREM OneHold == Spec => []OneHoldPerKey
<1>1. EscrowInv => OneHoldPerKey
  BY DEF EscrowInv, RowInv, OneHoldPerKey
<1> QED BY <1>1, EscrowInvariant, PTL

\* A released escrow was earned and its card authorized.
THEOREM ReleasesEarned == Spec => []ReleasedWasEarned
<1>1. EscrowInv => ReleasedWasEarned
  BY DEF EscrowInv
<1> QED BY <1>1, EscrowInvariant, PTL

-----------------------------------------------------------------------------
(* Steps *)

\* A settled escrow is written by a release, a dispute and a refund only: the POST that
\* writes payment_pending found no escrow, and the event tests for it.
LEMMA SettledStep ==
  TypeInv /\ EscrowInv /\ [Next]_vars => (escrow \in Settled => escrow' \in Settled)
<1> SUFFICES ASSUME TypeInv, EscrowInv, [Next]_vars, escrow \in Settled
             PROVE  escrow' \in Settled
  OBVIOUS
<1> USE DEF Settled, taskVars, statusVars, moneyVars
<1>1. ASSUME NEW r \in Requests, Submit(r) PROVE escrow' \in Settled
  <2>1. pc[r] # "escrow_write"
    BY DEF EscrowInv, RequestInv
  <2> QED BY <1>1, <2>1 DEF Submit, SubmitTask, InsertTask, CountReceived, ForwardQueue,
             ForwardReceipt, ForwardDeliver, ForwardNoEndpoint, ForwardFail, CreateIntent,
             CreateIntentWrite, SubmitEscrowWrite, SubmitRespond, Goto
<1>2. ASSUME NEW r \in Requests, Recipient(r) PROVE escrow' \in Settled
  BY <1>2 DEF Recipient, AcknowledgeTask, AcknowledgeWrite, UpdateStatus, UpdateStatusWrite,
     UpdateStatusCredit, CompleteReadEscrow, CompleteRelease, CaptureRead, CaptureCall,
     CaptureWrite
<1>3. ASSUME NEW r \in Requests, Dispute(r) PROVE escrow' \in Settled
  BY <1>3 DEF Dispute, DisputeTask, DisputeWrite, VoidRead, VoidCall, VoidWrite, DisputeRefund
<1>4. ASSUME NEW r \in Requests, Abandon(r) PROVE escrow' \in Settled
  BY <1>4 DEF Abandon
<1>5. CASE ShutdownCancels \/ Authorize \/ Lapse \/ CapturableUpdated
  BY <1>5 DEF ShutdownCancels, Authorize, Lapse, CapturableUpdated
<1>6. CASE UNCHANGED vars
  BY <1>6 DEF vars
<1> QED BY <1>1, <1>2, <1>3, <1>4, <1>5, <1>6 DEF Next, RequestNext

\* An escrow that was settled never returns to payment_pending or held.
THEOREM SettledStays == Spec => SettledEscrowStays
<1>1. TypeInv /\ EscrowInv /\ [Next]_vars => [(escrow \in Settled) => (escrow' \in Settled)]_vars
  BY SettledStep
<1> QED BY <1>1, EscrowInvariant, PTL DEF Spec, SettledEscrowStays
-----------------------------------------------------------------------------
(* The refinement *)

\* A step moves the hold as EscrowHold does, or leaves it: the columns change one at a
\* time, and never together with the PaymentIntent.
HoldMoves ==
  \/ UNCHANGED <<pi, completedAt>> /\ payment' = "captured" /\ pi = "succeeded"
  \/ UNCHANGED <<pi, completedAt>> /\ payment' = "cancelled" /\ pi = "canceled"
  \/ UNCHANGED <<pi, completedAt>> /\ payment \in {"none", "pending"} /\ payment' = "pending"
  \/ UNCHANGED <<payment, completedAt>> /\ pi = "none" /\ pi' = "requires_payment_method"
  \/ UNCHANGED <<payment, completedAt>> /\ pi = "requires_payment_method" /\ pi' = "requires_capture"
  \/ UNCHANGED <<payment, completedAt>> /\ completedAt /\ pi = "requires_capture" /\ pi' = "succeeded"
  \/ UNCHANGED <<payment, completedAt>> /\ pi' = "canceled"
     /\ pi \in {"requires_payment_method", "requires_capture"}
  \/ UNCHANGED <<payment, pi>> /\ completedAt' = TRUE
  \/ UNCHANGED <<payment, pi, completedAt>>

LEMMA HoldStep == TypeInv /\ EscrowInv /\ [Next]_vars => HoldMoves
<1> SUFFICES ASSUME TypeInv, EscrowInv, [Next]_vars PROVE HoldMoves
  OBVIOUS
<1> USE DEF HoldMoves, taskVars, statusVars, moneyVars
<1>1. ASSUME NEW r \in Requests, Submit(r) PROVE HoldMoves
  <2>1. RequestInv(r) /\ RowInv
    BY DEF EscrowInv
  <2>2. CASE CreateIntent(r)
    BY <2>1, <2>2 DEF CreateIntent, RequestInv, RowInv, Unpaid, Goto
  <2>3. CASE CreateIntentWrite(r)
    BY <2>1, <2>3 DEF CreateIntentWrite, RequestInv, Goto
  <2> QED BY <1>1, <2>2, <2>3 DEF Submit, SubmitTask, InsertTask, CountReceived, ForwardQueue,
             ForwardReceipt, ForwardDeliver, ForwardNoEndpoint, ForwardFail,
             SubmitEscrowWrite, SubmitRespond
<1>2. ASSUME NEW r \in Requests, Recipient(r) PROVE HoldMoves
  <2>1. RequestInv(r)
    BY DEF EscrowInv
  <2>2. CASE UpdateStatusWrite(r)
    <3>1. completedAt \in BOOLEAN /\ (completedAt => completedAt') /\ completedAt' \in BOOLEAN
      BY <2>2, Zenon DEF UpdateStatusWrite, TypeInv, TypeOK
    <3>2. completedAt' = TRUE \/ completedAt' = completedAt
      BY <3>1, Zenon
    <3> QED BY <2>2, <3>2 DEF UpdateStatusWrite
  <2>3. CASE CaptureCall(r)
    BY <2>1, <2>3 DEF CaptureCall, RequestInv, Earning, Goto
  <2>4. CASE CaptureWrite(r)
    BY <2>1, <2>4 DEF CaptureWrite, RequestInv, Goto
  <2> QED BY <1>2, <2>2, <2>3, <2>4 DEF Recipient, AcknowledgeTask, AcknowledgeWrite,
             UpdateStatus, UpdateStatusCredit, CompleteReadEscrow, CompleteRelease, CaptureRead
<1>3. ASSUME NEW r \in Requests, Dispute(r) PROVE HoldMoves
  <2>1. RequestInv(r)
    BY DEF EscrowInv
  <2>2. CASE VoidWrite(r)
    BY <2>1, <2>2 DEF VoidWrite, RequestInv, Goto
  <2> QED BY <1>3, <2>2 DEF Dispute, DisputeTask, DisputeWrite, VoidRead, VoidCall, DisputeRefund
<1>4. ASSUME NEW r \in Requests, Abandon(r) PROVE HoldMoves
  BY <1>4 DEF Abandon
<1>5. CASE ShutdownCancels \/ Authorize \/ Lapse \/ CapturableUpdated
  BY <1>5 DEF ShutdownCancels, Authorize, Lapse, CapturableUpdated
<1>6. CASE UNCHANGED vars
  BY <1>6 DEF vars
<1> QED BY <1>1, <1>2, <1>3, <1>4, <1>5, <1>6 DEF Next, RequestNext

\* The task implements the hold: placed once, paid out only when earned, and recorded
\* only after it ended.
THEOREM ImplementsHold == Spec => HoldSpec
<1>1. Init => Hold!Init
  BY DEF Init, Hold!Init, Money, Recorded
<1>2. ASSUME TypeInv, HoldMoves PROVE [Hold!Next]_(<<Money, completedAt, Recorded>>)
  <2>1. CASE UNCHANGED <<pi, completedAt>> /\ payment' = "captured" /\ pi = "succeeded"
    <3>1. Money = "seller" /\ Money' = Money /\ Recorded' = "seller"
      BY <2>1 DEF Money, Recorded
    <3> QED BY <2>1, <3>1 DEF Hold!Next, Hold!Record
  <2>2. CASE UNCHANGED <<pi, completedAt>> /\ payment' = "cancelled" /\ pi = "canceled"
    <3>1. Money = "buyer" /\ Money' = Money /\ Recorded' = "buyer"
      BY <2>2 DEF Money, Recorded
    <3> QED BY <2>2, <3>1 DEF Hold!Next, Hold!Record
  <2>3. CASE UNCHANGED <<payment, completedAt>> /\ pi = "requires_payment_method"
             /\ pi' = "requires_capture"
    <3>1. Money = "none" /\ Money' = "held" /\ Recorded' = Recorded
      BY <2>3 DEF Money, Recorded
    <3> QED BY <2>3, <3>1 DEF Hold!Next, Hold!Place
  <2>4. CASE UNCHANGED <<payment, completedAt>> /\ completedAt /\ pi = "requires_capture"
             /\ pi' = "succeeded"
    <3>1. Money = "held" /\ Money' = "seller" /\ Recorded' = Recorded
      BY <2>4 DEF Money, Recorded
    <3> QED BY <2>4, <3>1 DEF Hold!Next, Hold!Pay
  <2>5. CASE UNCHANGED <<payment, completedAt>> /\ pi' = "canceled"
             /\ pi \in {"requires_payment_method", "requires_capture"}
    <3>1. Money \in {"none", "held"} /\ Money' = "buyer" /\ Recorded' = Recorded
      BY <2>5 DEF Money, Recorded
    <3> QED BY <2>5, <3>1 DEF Hold!Next, Hold!Return
  <2>6. CASE UNCHANGED <<payment, pi>> /\ completedAt' = TRUE
    <3>1. Money' = Money /\ Recorded' = Recorded
      BY <2>6 DEF Money, Recorded
    <3> QED BY <2>6, <3>1, Zenon DEF Hold!Next, Hold!Earn
  <2>7. CASE \/ UNCHANGED <<pi, completedAt>> /\ payment \in {"none", "pending"}
                /\ payment' = "pending"
             \/ UNCHANGED <<payment, completedAt>> /\ pi = "none"
                /\ pi' = "requires_payment_method"
             \/ UNCHANGED <<payment, pi, completedAt>>
    BY <2>7 DEF Money, Recorded
  <2> QED BY <1>2, <2>1, <2>2, <2>3, <2>4, <2>5, <2>6, <2>7 DEF HoldMoves
<1> QED BY <1>1, <1>2, EscrowInvariant, HoldStep, PTL DEF Spec, HoldSpec, Hold!Spec
=============================================================================
