------------------------------ MODULE Marketplace ------------------------------
(***************************************************************************)
(* One marketplace order with every service that writes it: the order saga,  *)
(* the dispute saga, the milestone saga and the Stripe webhook, whose        *)
(* requests interleave freely, and Stripe itself.                            *)
(***************************************************************************)
EXTENDS OrderSaga, PaymentEvents, DisputeSaga, MilestoneSaga, FiniteSets

RequestNext(r) ==
  OrderNext(r) \/ EventNext(r) \/ DisputeNext(r) \/ MilestoneNext(r) \/ Abandon(r)

Next == (\E r \in Requests : RequestNext(r)) \/ StripeNext

Spec == Init /\ [][Next]_vars

-----------------------------------------------------------------------------
(* Money and records, in every mix of requests *)

\* No money moves without a durable trace: a transfer Stripe executed has a payout
\* row, a refund it executed has a refund entry, written before the call.  ("we
\* cannot crash with money moved at Stripe but no audit trail in the ledger")
IntentBeforeMoney ==
  /\ \A s \in transfers : \E i \in 1..Len(payouts) : payouts[i].for = s
  /\ \A k \in refundKeys : \E i \in 1..Len(refunds) : refunds[i].for = k[1]

\* The ledger never records money that did not move: a payout row that names a
\* transfer names one Stripe executed, and a finalized refund entry stands for a
\* refund Stripe executed for the same cancellation or dispute.
RecordedMoneyMoved ==
  /\ \A i \in 1..Len(payouts) : payouts[i].transfer # "none"
                                => payouts[i].transfer \in transfers
  /\ \A i \in 1..Len(refunds) : refunds[i].stage = "finalized"
                                => \E k \in refundKeys : k[1] = refunds[i].for

-----------------------------------------------------------------------------
(* The order's outcome *)

\* Completed and cancelled are final: no request, however old the status it read,
\* changes them.  It holds of the requests whose last UPDATE of the status repeats
\* the test they read (confirmOrder's claim and rollback, completeOrder, cancelOrder,
\* the capturable webhook), in every interleaving and after every crash; a request of
\* the other kinds can undo the outcome.
OutcomeIsFinal ==
  [][(status \in {"completed", "cancelled"}) => UNCHANGED status]_vars

\* The order's decision and its money, seen through the statuses and the ledgers.
Settled == INSTANCE Settlement WITH
  outcome <- CASE status = "completed" -> "seller" [] status = "cancelled" -> "buyer"
               [] OTHER -> "open",
  owed    <- PendingPayouts # {} \/ PendingRefunds(0) # {},
  moved   <- "order" \in transfers \/ refunded > 0

\* The sagas of completeOrder and cancelOrder, with their crashes, races and
\* retries, implement the settlement of an order.
SettlementSpec == Settled!Spec

\* The order's payment, in halves, leaves the platform at most once: what the
\* seller was paid and kept plus what the buyer got back never exceeds what was
\* captured.
PaidOnce ==
  (IF "order" \in transfers \ reversed THEN 2 ELSE 0) + refunded
    <= (IF pi = "succeeded" THEN 2 ELSE 0)

\* Completion is booked exactly once, whatever is retried: one payout row of the
\* order, one entry triple, one hire, and they exist iff the order is completed.
CompletionBookedOnce ==
  LET booked == IF status = "completed" THEN 1 ELSE 0
  IN /\ Cardinality({i \in 1..Len(payouts) : payouts[i].for = "order"}) = booked
     /\ Len(entries) = booked /\ hires = booked

\* "The atomic claim above guarantees only one caller will ever reach this point
\* for the pending -> confirmed transition": two confirmOrder requests are never
\* both about to capture.
SingleCapturer ==
  \A r1, r2 \in Requests :
    pc[r1] = "confirm_capture" /\ pc[r2] = "confirm_capture" => r1 = r2

\* A cancelled order whose payment was captured has a refund entry: the buyer's
\* money is on its way back or is owed on record.
CancelledCaptureOwesRefund ==
  status = "cancelled" /\ pi = "succeeded" => refunds # <<>>

-----------------------------------------------------------------------------
(* Retries.  Nothing in the code replays a saga by itself.  These assume that    *)
(* every request ends (the server answers, dies or times out), that the party    *)
(* who is owed the money keeps retrying while the status allows it, that a       *)
(* server does not die, and Stripe does not fail, at the same step forever, and  *)
(* that the seller's connected account ends up enabled.                          *)

RequestsEnd == \A r \in Requests : WF_vars(pc[r] # "idle" /\ RequestNext(r))

BuyerRetries ==
  /\ <>[]connect
  /\ SF_vars(\E r \in Requests : CompleteOrder(r))
  /\ SF_vars(\E r \in Requests : CompleteOrderClaim(r))
  /\ SF_vars(\E r \in Requests : CompleteOrderCapture(r))
  /\ SF_vars(\E r \in Requests : CompleteOrderTransfer(r))
  /\ SF_vars(\E r \in Requests : CompleteOrderFinalize(r))
  /\ SF_vars(\E r \in Requests : CompleteOrderEntry(r))

CancellerRetries ==
  /\ SF_vars(\E r \in Requests : CancelOrder(r))
  /\ SF_vars(\E r \in Requests : CancelOrderClaim(r))
  /\ SF_vars(\E r \in Requests : CancelOrderRefund(r))
  /\ SF_vars(\E r \in Requests : CancelOrderReverse(r))
  /\ SF_vars(\E r \in Requests : CancelOrderFinalize(r))

RetriesSpec == Spec /\ RequestsEnd /\ BuyerRetries /\ CancellerRetries

\* A payout that was recorded as intended is eventually transferred and finalized,
\* across crashes, unless the authorization it would have captured lapsed.
PayoutIntentSettles ==
  PendingPayouts # {} ~> (PendingPayouts = {} \/ pi = "canceled")

\* A refund that was recorded as intended is eventually executed and finalized when
\* the payment it returns was in fact captured.
CapturedRefundSettles ==
  (PendingRefunds(0) # {} /\ pi = "succeeded") ~> PendingRefunds(0) = {}

-----------------------------------------------------------------------------
(* Disputes *)

\* "The first concurrent operator wins": two operators never move money for
\* different resolutions of the same dispute.
OneResolution ==
  \A r1, r2 \in Requests :
    /\ pc[r1] \in {"resolve_money", "resolve_finalize"}
    /\ pc[r2] \in {"resolve_money", "resolve_finalize"}
    /\ dispute[r1] = dispute[r2]
    => seen[r1] = seen[r2]

\* A resolved dispute names the resolution whose money moved: the payment was
\* captured for the seller, or the refund with this dispute's key was executed.
ResolutionPaid ==
  HasPaymentRef =>
    \A d \in 1..Len(disputes) :
      disputes[d].status = "resolved" =>
        \/ disputes[d].resolution = "release_seller" /\ pi = "succeeded"
        \/ <<d, disputes[d].resolution>> \in refundKeys

-----------------------------------------------------------------------------
(* Milestones *)

\* The order is credited once for every milestone that is released, and a release
\* has paid the seller out of that milestone's own captured payment.
MilestonesSettleOnce ==
  /\ released = Cardinality({m \in Milestones : milestone[m] = "released"})
  /\ \A m \in Milestones : /\ milestone[m] = "released" => m \in transfers
                           /\ m \in transfers => mpi[m] = "succeeded"

\* "reuse the row instead of creating a duplicate": a milestone never has two
\* payout rows, however many releases crash or race.
OnePayoutPerMilestone ==
  \A m \in Milestones : Cardinality({i \in 1..Len(payouts) : payouts[i].for = m}) <= 1

\* An order that an accepted proposal created has no payment of its own: completeOrder
\* books it only after some milestone's payment was transferred to the seller, never
\* for nothing.
NoFreeCompletion ==
  ~HasPaymentRef /\ hires > 0 => transfers # {}

-----------------------------------------------------------------------------
(* What a reader may expect and the code does not do *)

\* "Completed orders cannot be cancelled here": an order that was completed gets
\* no cancellation refund.
CompletedNotRefunded ==
  hires > 0 => \A i \in 1..Len(refunds) : refunds[i].for # 0

\* The seller_payout entries eventually agree with the finalized payout row.
EntriesSettle ==
  (\E i \in 1..Len(payouts) : payouts[i].stage = "completed")
    ~> (\A i \in 1..Len(entries) : entries[i] = "completed")

\* A refund that was recorded as intended is eventually executed and finalized.
RefundIntentSettles == PendingRefunds(0) # {} ~> PendingRefunds(0) = {}

BuyerReports ==
  /\ SF_vars(\E r \in Requests : ConfirmPayment(r))
  /\ SF_vars(\E r \in Requests : ConfirmPaymentVerify(r))
  /\ SF_vars(\E r \in Requests : ConfirmPaymentWrite(r))
  /\ SF_vars(\E r \in Requests : ConfirmPaymentTask(r))

BuyerReportsSpec == Spec /\ RequestsEnd /\ BuyerReports

\* An authorized payment ends in a task for the seller's agent, if the buyer's client
\* keeps reporting the payment.
AuthorizedOrderGetsTask == status = "pending" ~> tasks > 0
=============================================================================
