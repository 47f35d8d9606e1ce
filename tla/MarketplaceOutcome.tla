-------------------------- MODULE MarketplaceOutcome --------------------------
(***************************************************************************)
(* The order's outcome and its money for every value of the constants under  *)
(* which no request ends in an UPDATE that repeats no test of the status:    *)
(* OutcomeIsFinal, SingleCapturer, PaidOnce, CompletionBookedOnce and, when   *)
(* the order has no milestones, the refinement of Settlement.                *)
(***************************************************************************)
EXTENDS MarketplaceTypes, FiniteSetTheorems

\* The kinds whose last UPDATE of the status names only the order.
StatusOverwriters == {"confirmPayment", "succeeded", "payment_failed", "openDispute",
                      "resolveDispute"}

\* The points of a request that only those kinds reach.
BlindLabels == {"pay_verify", "pay_write", "pay_task", "event_write", "open_write",
                "resolve_claim", "resolve_money", "resolve_finalize"}

Guarded == Kinds \intersect StatusOverwriters = {}

-----------------------------------------------------------------------------
(* The invariant.  A request that is about to insert the order is alone at it *)
(* and there is no order yet; a request between its claim of the confirmation *)
(* and the end of its capture is alone there, and the order has left the      *)
(* statuses from which it can be claimed.                                     *)

Capturing == {"confirm_capture", "confirm_rollback"}
Early == {"none", "payment_pending", "pending"}
Decided == {"completed", "cancelled"}

\* Labels at which a request carries an obligation.
BoundLabels == BlindLabels \union Capturing
               \union {"event_handle", "create_insert", "accept_commit", "cancel_flip",
                       "cancel_claim"}

RequestGuard(r) ==
  /\ pc[r] \notin BlindLabels
  /\ pc[r] = "event_handle" => seen[r] \in Kinds
  /\ pc[r] = "create_insert" => status = "none" /\ pi # "none" /\ HasPaymentRef
  /\ pc[r] = "accept_commit" => ~HasPaymentRef
  /\ pc[r] \in {"cancel_flip", "cancel_claim"} => status # "none"
  /\ pc[r] \in Capturing => status \notin Early

GuardInv ==
  /\ \A r \in Requests : RequestGuard(r)
  /\ \A q, r \in Requests :
       \/ pc[q] = "create_insert" /\ pc[r] = "create_insert"
       \/ pc[q] \in Capturing /\ pc[r] \in Capturing
       => q = r

\* A decided order keeps its status in this step.
StatusFinal == status \in Decided => UNCHANGED status

\* What a step of r has to show for the other requests.
LEMMA GuardStep ==
  ASSUME GuardInv, NEW r \in Requests, Moves(r), RequestGuard(r)',
         pi # "none" => pi' # "none", status # "none" => status' # "none",
         status = "none" /\ status' # "none" =>
           \A q \in Requests \ {r} : pc[q] # "create_insert",
         status \notin Early /\ status' \in Early =>
           \A q \in Requests \ {r} : pc[q] \notin Capturing,
         pc'[r] = "create_insert" => \A q \in Requests \ {r} : pc[q] # "create_insert",
         pc'[r] \in Capturing => \A q \in Requests \ {r} : pc[q] \notin Capturing
  PROVE  GuardInv'
  <1>1. ASSUME NEW q \in Requests
        PROVE  RequestGuard(q)'
    <2>1. CASE q = r
      BY <2>1
    <2>2. CASE q # r
      <3>1. pc'[q] = pc[q] /\ seen'[q] = seen[q]
        BY <2>2 DEF Moves
      <3> QED BY <2>2, <3>1 DEF GuardInv, RequestGuard
    <2> QED BY <2>1, <2>2
  <1>2. ASSUME NEW p \in Requests, NEW q \in Requests, p # q
        PROVE  /\ ~(pc'[p] = "create_insert" /\ pc'[q] = "create_insert")
               /\ ~(pc'[p] \in Capturing /\ pc'[q] \in Capturing)
    BY <1>2 DEF GuardInv, Moves
  <1> QED BY <1>1, <1>2 DEF GuardInv

\* Most steps leave the status alone and lead r to no obligation.
LEMMA FreeStep ==
  ASSUME GuardInv, NEW r \in Requests, Moves(r), pc'[r] \notin BoundLabels,
         pi # "none" => pi' # "none", UNCHANGED status
  PROVE  GuardInv' /\ StatusFinal
  <1>1. RequestGuard(r)'
    BY DEF RequestGuard, BoundLabels, Capturing
  <1> QED BY <1>1, GuardStep DEF BoundLabels, StatusFinal

\* Checkout.
LEMMA CreateGuard ==
  ASSUME Guarded, TypeInv, GuardInv, NEW r \in Requests, CreateNext(r)
  PROVE  GuardInv' /\ StatusFinal
  <1> USE DEF orderVars, milestoneVars, stripeVars, moneyVars, Capturing, BlindLabels,
              BoundLabels, Early, Decided, At
  <1>1. CASE CreateOrder(r)
    <2>1. Moves(r) /\ pc'[r] = "create_insert" /\ status = "none" /\ UNCHANGED status
      BY <1>1, EnterMoves DEF CreateOrder
    <2>2. RequestGuard(r)' /\ pi' # "none"
      BY <1>1, <2>1 DEF CreateOrder, RequestGuard
    <2>3. \A q \in Requests : pc[q] # "create_insert"
      BY <1>1 DEF CreateOrder, GuardInv, RequestGuard
    <2> QED BY <2>1, <2>2, <2>3, GuardStep DEF StatusFinal
  <1>2. CASE CreateOrderInsert(r)
    <2>1. Moves(r) /\ pc'[r] = "create_tag" /\ status' = "payment_pending" /\ UNCHANGED pi
      BY <1>2, GotoMoves DEF CreateOrderInsert
    <2>2. status = "none" /\ \A q \in Requests \ {r} : pc[q] # "create_insert"
      BY <1>2 DEF CreateOrderInsert, GuardInv, RequestGuard
    <2>3. RequestGuard(r)'
      BY <2>1 DEF RequestGuard
    <2> QED BY <2>1, <2>2, <2>3, GuardStep DEF StatusFinal
  <1>3. CASE CreateOrderTag(r)
    BY <1>3, ReturnMoves, FreeStep DEF CreateOrderTag
  <1>4. CASE AcceptProposal(r)
    <2>1. Moves(r) /\ pc'[r] = "accept_commit" /\ UNCHANGED <<status, pi>>
      BY <1>4, GotoMoves DEF AcceptProposal
    <2>2. RequestGuard(r)'
      BY <1>4, <2>1 DEF AcceptProposal, RequestGuard
    <2> QED BY <2>1, <2>2, GuardStep DEF StatusFinal
  <1>5. CASE AcceptProposalCommit(r)
    <2>1. /\ Moves(r) /\ pc'[r] = "idle" /\ UNCHANGED pi
          /\ status' = IF status = "none" THEN "pending" ELSE status
      BY <1>5, ReturnMoves DEF AcceptProposalCommit
    <2>2. \A q \in Requests : pc[q] # "create_insert"
      BY <1>5 DEF AcceptProposalCommit, GuardInv, RequestGuard
    <2>3. RequestGuard(r)'
      BY <2>1 DEF RequestGuard
    <2> QED BY <2>1, <2>2, <2>3, GuardStep DEF StatusFinal
  <1> QED
    BY <1>1, <1>2, <1>3, <1>4, <1>5 DEF CreateNext

\* confirmPayment is not among the kinds.
LEMMA PaymentGuard ==
  ASSUME Guarded, TypeInv, GuardInv, NEW r \in Requests, PaymentNext(r)
  PROVE  GuardInv' /\ StatusFinal
  <1> USE DEF orderVars, milestoneVars, stripeVars, moneyVars, Capturing, BlindLabels,
              BoundLabels, Early, Decided, At
  <1>1. CASE ConfirmPayment(r)
    BY <1>1 DEF ConfirmPayment, Arrives, Guarded, StatusOverwriters
  <1>2. CASE ConfirmPaymentVerify(r)
    BY <1>2 DEF ConfirmPaymentVerify, GuardInv, RequestGuard
  <1>3. CASE ConfirmPaymentWrite(r)
    BY <1>3 DEF ConfirmPaymentWrite, GuardInv, RequestGuard
  <1>4. CASE ConfirmPaymentTask(r)
    BY <1>4 DEF ConfirmPaymentTask, GuardInv, RequestGuard
  <1> QED
    BY <1>1, <1>2, <1>3, <1>4 DEF PaymentNext

\* Only the winner of the claim captures, and only it rolls back.
LEMMA ConfirmGuard ==
  ASSUME Guarded, TypeInv, GuardInv, NEW r \in Requests, ConfirmNext(r)
  PROVE  GuardInv' /\ StatusFinal
  <1> USE DEF orderVars, milestoneVars, stripeVars, moneyVars, Capturing, BlindLabels,
              BoundLabels, Early, Decided, At
  <1>1. CASE ConfirmOrder(r)
    BY <1>1, EnterMoves, FreeStep DEF ConfirmOrder
  <1>2. CASE ConfirmOrderClaim(r)
    <2>1. CASE status = "pending"
      <3>1. /\ Moves(r) /\ pc'[r] \in {"confirm_capture", "idle"} /\ UNCHANGED pi
            /\ status' = "confirmed"
        BY <1>2, <2>1, GotoMoves, ReturnMoves DEF ConfirmOrderClaim
      <3>2. \A q \in Requests : pc[q] \notin Capturing
        BY <2>1 DEF GuardInv, RequestGuard
      <3>3. RequestGuard(r)'
        BY <3>1 DEF RequestGuard
      <3> QED BY <2>1, <3>1, <3>2, <3>3, GuardStep DEF StatusFinal
    <2>2. CASE status # "pending"
      BY <1>2, <2>2, ReturnMoves, FreeStep DEF ConfirmOrderClaim
    <2> QED BY <2>1, <2>2
  <1>3. CASE ConfirmOrderCapture(r)
    BY <1>3, ReturnMoves, FreeStep DEF ConfirmOrderCapture, CapturePI
  <1>4. CASE ConfirmOrderCaptureFails(r)
    <2>1. /\ Moves(r) /\ pc'[r] = "confirm_rollback" /\ UNCHANGED status
          /\ pi # "none" => pi' # "none"
      BY <1>4, GotoMoves DEF ConfirmOrderCaptureFails, CapturePI
    <2>2. status \notin Early /\ \A q \in Requests \ {r} : pc[q] \notin Capturing
      BY <1>4 DEF ConfirmOrderCaptureFails, GuardInv, RequestGuard
    <2>3. RequestGuard(r)'
      BY <2>1, <2>2 DEF RequestGuard
    <2> QED BY <2>1, <2>2, <2>3, GuardStep DEF StatusFinal
  <1>5. CASE ConfirmOrderRollback(r)
    <2>1. /\ Moves(r) /\ pc'[r] = "idle" /\ UNCHANGED pi
          /\ status' = IF status = "confirmed" THEN "pending" ELSE status
      BY <1>5, ReturnMoves DEF ConfirmOrderRollback
    <2>2. \A q \in Requests \ {r} : pc[q] \notin Capturing
      BY <1>5 DEF ConfirmOrderRollback, GuardInv
    <2>3. RequestGuard(r)'
      BY <2>1 DEF RequestGuard
    <2> QED BY <2>1, <2>2, <2>3, GuardStep DEF StatusFinal
  <1> QED
    BY <1>1, <1>2, <1>3, <1>4, <1>5 DEF ConfirmNext

\* completeOrder decides only a confirmed order.
LEMMA CompleteGuard ==
  ASSUME Guarded, TypeInv, GuardInv, NEW r \in Requests, CompleteNext(r)
  PROVE  GuardInv' /\ StatusFinal
  <1> USE DEF orderVars, milestoneVars, stripeVars, moneyVars, Capturing, BlindLabels,
              BoundLabels, Early, Decided, At
  <1>1. CASE CompleteOrder(r)
    BY <1>1, EnterMoves, FreeStep DEF CompleteOrder
  <1>2. CASE CompleteOrderClaim(r)
    <2>1. Moves(r) /\ pc'[r] \notin BoundLabels
      BY <1>2, GotoRowMoves, ReturnMoves DEF CompleteOrderClaim, CompleteFrom
    <2>2. /\ UNCHANGED pi
          /\ \/ UNCHANGED status
             \/ status \in {"confirmed", "in_progress"} /\ status' = "completed"
      BY <1>2 DEF CompleteOrderClaim
    <2>3. RequestGuard(r)'
      BY <2>1 DEF RequestGuard
    <2> QED BY <2>1, <2>2, <2>3, GuardStep DEF StatusFinal
  <1>3. CASE CompleteOrderCapture(r)
    BY <1>3, GotoMoves, FreeStep DEF CompleteOrderCapture, CapturePI
  <1>4. CASE CompleteOrderTransfer(r)
    BY <1>4, GotoMoves, FreeStep DEF CompleteOrderTransfer, Transfer
  <1>5. CASE CompleteOrderFinalize(r)
    BY <1>5, GotoMoves, FreeStep DEF CompleteOrderFinalize
  <1>6. CASE CompleteOrderEntry(r)
    BY <1>6, ReturnMoves, FreeStep DEF CompleteOrderEntry
  <1> QED
    BY <1>1, <1>2, <1>3, <1>4, <1>5, <1>6 DEF CompleteNext

\* cancelOrder decides only an undecided order.
LEMMA CancelGuard ==
  ASSUME Guarded, TypeInv, GuardInv, NEW r \in Requests, CancelNext(r)
  PROVE  GuardInv' /\ StatusFinal
  <1> USE DEF orderVars, milestoneVars, stripeVars, moneyVars, Capturing, BlindLabels,
              BoundLabels, Early, Decided, At
  <1>1. CASE CancelOrder(r)
    <2>1. /\ Moves(r) /\ pc'[r] \in {"cancel_claim", "cancel_flip"}
          /\ status # "none" /\ UNCHANGED <<status, pi>>
      BY <1>1, EnterMoves DEF CancelOrder
    <2>2. RequestGuard(r)'
      BY <2>1 DEF RequestGuard
    <2> QED BY <2>1, <2>2, GuardStep DEF StatusFinal
  <1>2. CASE CancelOrderFlip(r)
    <2>1. /\ Moves(r) /\ pc'[r] \in {"cancel_pi", "idle"} /\ UNCHANGED pi
          /\ UNCHANGED status \/ (status \notin Decided /\ status' = "cancelled")
      BY <1>2, GotoMoves, ReturnMoves DEF CancelOrderFlip
    <2>2. status # "none"
      BY <1>2 DEF CancelOrderFlip, GuardInv, RequestGuard
    <2>3. RequestGuard(r)'
      BY <2>1 DEF RequestGuard
    <2> QED BY <2>1, <2>2, <2>3, GuardStep DEF StatusFinal
  <1>3. CASE CancelOrderPI(r)
    BY <1>3, ReturnMoves, FreeStep DEF CancelOrderPI, CancelPI
  <1>4. CASE CancelOrderClaim(r)
    <2>1. /\ Moves(r) /\ pc'[r] \in {"cancel_refund", "idle"} /\ UNCHANGED pi
          /\ UNCHANGED status \/ (status \notin Decided /\ status' = "cancelled")
      BY <1>4, GotoRowMoves, ReturnMoves DEF CancelOrderClaim
    <2>2. status # "none"
      BY <1>4 DEF CancelOrderClaim, GuardInv, RequestGuard
    <2>3. RequestGuard(r)'
      BY <2>1 DEF RequestGuard
    <2> QED BY <2>1, <2>2, <2>3, GuardStep DEF StatusFinal
  <1>5. CASE CancelOrderRefund(r)
    BY <1>5, GotoMoves, FreeStep DEF CancelOrderRefund, RefundPI
  <1>6. CASE CancelOrderReverse(r)
    BY <1>6, GotoMoves, FreeStep DEF CancelOrderReverse
  <1>7. CASE CancelOrderFinalize(r)
    BY <1>7, ReturnMoves, FreeStep DEF CancelOrderFinalize
  <1> QED
    BY <1>1, <1>2, <1>3, <1>4, <1>5, <1>6, <1>7 DEF CancelNext

\* Among the payment events only amount_capturable_updated is delivered.
LEMMA EventGuard ==
  ASSUME Guarded, TypeInv, GuardInv, NEW r \in Requests, EventNext(r)
  PROVE  GuardInv' /\ StatusFinal
  <1> USE DEF orderVars, milestoneVars, stripeVars, moneyVars, Capturing, BlindLabels,
              BoundLabels, Early, Decided, At
  <1>1. ASSUME NEW type \in EventTypes, NEW s \in Sources, ReceiveEvent(r, type, s)
        PROVE  GuardInv' /\ StatusFinal
    <2>1. /\ Moves(r) /\ pc'[r] = "event_handle" /\ seen'[r] \in Kinds
          /\ UNCHANGED <<status, pi>>
      BY <1>1 DEF ReceiveEvent, Arrives, Moves, TypeInv, TypeOK, RequestTypeOK
    <2>2. RequestGuard(r)'
      BY <2>1 DEF RequestGuard
    <2> QED BY <2>1, <2>2, GuardStep DEF StatusFinal
  <1>2. CASE HandlePaymentEvent(r)
    BY <1>2 DEF HandlePaymentEvent, GuardInv, RequestGuard, Guarded, StatusOverwriters
  <1>3. CASE PaymentEventWrite(r)
    BY <1>3 DEF PaymentEventWrite, GuardInv, RequestGuard
  <1>4. CASE HandleCapturable(r)
    <2>1. /\ Moves(r) /\ pc'[r] = "event_done" /\ UNCHANGED pi
          /\ status' = IF status = "payment_pending" THEN "pending" ELSE status
      BY <1>4, GotoMoves DEF HandleCapturable
    <2>2. RequestGuard(r)'
      BY <2>1 DEF RequestGuard
    <2> QED BY <2>1, <2>2, GuardStep DEF StatusFinal
  <1>5. CASE HandleTransferFailed(r)
    BY <1>5, GotoMoves, FreeStep DEF HandleTransferFailed
  <1>6. CASE FinalizeEvent(r)
    BY <1>6, ReturnMoves, FreeStep DEF FinalizeEvent
  <1> QED
    BY <1>1, <1>2, <1>3, <1>4, <1>5, <1>6 DEF EventNext

\* No dispute is opened.
LEMMA DisputeGuard ==
  ASSUME Guarded, TypeInv, GuardInv, NEW r \in Requests, DisputeNext(r)
  PROVE  GuardInv' /\ StatusFinal
  <1> USE DEF orderVars, milestoneVars, stripeVars, moneyVars, Capturing, BlindLabels,
              BoundLabels, Early, Decided, At
  <1>1. CASE OpenDispute(r)
    BY <1>1 DEF OpenDispute, Arrives, Guarded, StatusOverwriters
  <1>2. CASE OpenDisputeWrite(r)
    BY <1>2 DEF OpenDisputeWrite, GuardInv, RequestGuard
  <1>3. CASE RespondToDispute(r)
    <2>1. Moves(r) /\ pc'[r] = "respond_write"
      BY <1>3 DEF RespondToDispute, Moves, TypeInv, TypeOK, RequestTypeOK
    <2> QED BY <1>3, <2>1, FreeStep DEF RespondToDispute
  <1>4. CASE RespondToDisputeWrite(r)
    BY <1>4, ReturnMoves, FreeStep DEF RespondToDisputeWrite
  <1>5. ASSUME NEW resolution \in Resolutions, ResolveDispute(r, resolution)
        PROVE  GuardInv' /\ StatusFinal
    BY <1>5 DEF ResolveDispute, Arrives, Guarded, StatusOverwriters
  <1>6. CASE ResolveDisputeClaim(r)
    BY <1>6 DEF ResolveDisputeClaim, GuardInv, RequestGuard
  <1>7. CASE ResolveDisputeMoney(r)
    BY <1>7 DEF ResolveDisputeMoney, GuardInv, RequestGuard
  <1>8. CASE ResolveDisputeFinalize(r)
    BY <1>8 DEF ResolveDisputeFinalize, GuardInv, RequestGuard
  <1> QED
    BY <1>1, <1>2, <1>3, <1>4, <1>5, <1>6, <1>7, <1>8 DEF DisputeNext

\* Milestones leave the status alone.
LEMMA MilestoneGuard ==
  ASSUME Guarded, TypeInv, GuardInv, NEW r \in Requests, MilestoneNext(r)
  PROVE  GuardInv' /\ StatusFinal
  <1> USE DEF orderVars, milestoneVars, stripeVars, moneyVars, Capturing, BlindLabels,
              BoundLabels, Early, Decided, At
  <1>1. CASE CreateMilestones(r)
    <2>1. Moves(r) /\ pc'[r] \notin BoundLabels /\ UNCHANGED <<status, pi>>
      <3>1. CASE Enter(r, "milestones_cancel", "none")
        BY <1>1, <3>1, EnterMoves DEF CreateMilestones
      <3>2. CASE UNCHANGED requestVars
        BY <1>1, <3>2 DEF CreateMilestones, Arrives, requestVars, Moves
      <3> QED BY <1>1, <3>1, <3>2 DEF CreateMilestones
    <2> QED BY <2>1, FreeStep
  <1>2. CASE CreateMilestonesCancelPI(r)
    BY <1>2, GotoMoves, FreeStep DEF CreateMilestonesCancelPI, CancelPI
  <1>3. CASE CreateMilestonesInsert(r)
    <2>1. Moves(r) /\ pc'[r] \notin BoundLabels /\ UNCHANGED <<status, pi>>
      <3>1. CASE Return(r)
        BY <1>3, <3>1, ReturnMoves DEF CreateMilestonesInsert
      <3>2. CASE UNCHANGED requestVars
        BY <1>3, <3>2 DEF CreateMilestonesInsert, requestVars, Moves
      <3> QED BY <1>3, <3>1, <3>2 DEF CreateMilestonesInsert
    <2> QED BY <2>1, FreeStep
  <1>4. ASSUME NEW m \in Milestones, MarkMilestoneComplete(r, m)
        PROVE  GuardInv' /\ StatusFinal
    <2>1. Moves(r) /\ pc'[r] \notin BoundLabels
      BY <1>4 DEF MarkMilestoneComplete, Arrives, requestVars, Moves
    <2> QED BY <1>4, <2>1, FreeStep DEF MarkMilestoneComplete
  <1>5. ASSUME NEW m \in Milestones, ReleaseMilestone(r, m)
        PROVE  GuardInv' /\ StatusFinal
    <2>1. Moves(r) /\ pc'[r] \notin BoundLabels
      BY <1>5 DEF ReleaseMilestone, Moves, TypeInv, TypeOK, RequestTypeOK
    <2> QED BY <1>5, <2>1, FreeStep DEF ReleaseMilestone
  <1>6. CASE ReleaseMilestoneIntent(r)
    BY <1>6, GotoRowMoves, ReturnMoves, FreeStep DEF ReleaseMilestoneIntent
  <1>7. CASE ReleaseMilestoneCapture(r)
    BY <1>7, GotoMoves, FreeStep DEF ReleaseMilestoneCapture
  <1>8. CASE ReleaseMilestoneTransfer(r)
    BY <1>8, GotoMoves, FreeStep DEF ReleaseMilestoneTransfer, Transfer
  <1>9. CASE ReleaseMilestoneFinalize(r)
    BY <1>9, ReturnMoves, FreeStep DEF ReleaseMilestoneFinalize
  <1> QED
    BY <1>1, <1>2, <1>3, <1>4, <1>5, <1>6, <1>7, <1>8, <1>9 DEF MilestoneNext

\* There is nothing to guard before checkout.
LEMMA GuardInit == Init => GuardInv
  BY DEF Init, GuardInv, RequestGuard, BlindLabels, Capturing

\* Every step of the system keeps the guards and the decision.
LEMMA GuardNext ==
  ASSUME Guarded, TypeInv, GuardInv, [Next]_vars
  PROVE  GuardInv' /\ StatusFinal
  <1> USE DEF orderVars, milestoneVars, stripeVars, moneyVars, requestVars
  <1>1. ASSUME NEW r \in Requests, RequestNext(r)
        PROVE  GuardInv' /\ StatusFinal
    <2>1. CASE Abandon(r)
      BY <2>1, ReturnMoves, FreeStep DEF Abandon, BoundLabels, BlindLabels, Capturing
    <2> QED
      BY <1>1, <2>1, CreateGuard, PaymentGuard, ConfirmGuard, CompleteGuard, CancelGuard,
         EventGuard, DisputeGuard, MilestoneGuard
      DEF RequestNext, OrderNext
  <1>2. CASE StripeNext \/ UNCHANGED vars
    <2>1. UNCHANGED <<status, requestVars>> /\ (pi # "none" => pi' # "none")
      BY <1>2
      DEF StripeNext, AuthorizePayment, DeclinePayment, LapseAuthorization, ChangeConnect,
          MilestonePayment, FailTransfer, vars
    <2> QED BY <2>1 DEF GuardInv, RequestGuard, StatusFinal
  <1> QED
    BY <1>1, <1>2 DEF Next

\* Without the kinds that overwrite the status, completed and cancelled are final,
\* for any number of requests and milestones.
THEOREM OutcomeIsFinalTheorem ==
  ASSUME Guarded
  PROVE  Spec => OutcomeIsFinal
  <1>1. TypeInv /\ GuardInv /\ [Next]_vars => GuardInv'
    BY GuardNext
  <1>2. TypeInv /\ GuardInv /\ [Next]_vars
          => [(status \in {"completed", "cancelled"}) => UNCHANGED status]_vars
    BY GuardNext DEF StatusFinal, Decided
  <1> QED BY <1>1, <1>2, GuardInit, TypeInvariant, PTL DEF Spec, OutcomeIsFinal

\* Without the kinds that overwrite the status, only one request at a time reaches
\* the capture of confirmOrder.
THEOREM SingleCapturerTheorem ==
  ASSUME Guarded
  PROVE  Spec => []SingleCapturer
  <1>1. TypeInv /\ GuardInv /\ [Next]_vars => GuardInv'
    BY GuardNext
  <1>2. GuardInv => SingleCapturer
    BY DEF GuardInv, SingleCapturer, Capturing
  <1> QED BY <1>1, <1>2, GuardInit, TypeInvariant, PTL DEF Spec

-----------------------------------------------------------------------------
(* The order's money.  A request that is about to pay the seller stands behind *)
(* a completed order, one that is about to refund behind a cancelled one, and  *)
(* both outcomes are final.                                                    *)

\* The step decides nothing.
NotDeciding == status' \in Decided => UNCHANGED status

\* Without the kinds that overwrite the status, what is left of the dispute saga is
\* the response, which moves no money and decides nothing.
LEMMA DisputeIdle ==
  ASSUME Guarded, GuardInv, NEW r \in Requests, DisputeNext(r)
  PROVE  UNCHANGED <<status, payouts, refunds, pi, refunded, refundKeys>>
  <1> USE DEF orderVars, ledgerVars, stripeVars, moneyVars, BlindLabels, At
  <1>1. CASE OpenDispute(r)
    BY <1>1 DEF OpenDispute, Arrives, Guarded, StatusOverwriters
  <1>2. CASE RespondToDispute(r)
    BY <1>2 DEF RespondToDispute
  <1>3. CASE RespondToDisputeWrite(r)
    BY <1>3 DEF RespondToDisputeWrite
  <1>4. ASSUME NEW resolution \in Resolutions, ResolveDispute(r, resolution)
        PROVE  FALSE
    BY <1>4 DEF ResolveDispute, Arrives, Guarded, StatusOverwriters
  <1>5. CASE \/ OpenDisputeWrite(r) \/ ResolveDisputeClaim(r) \/ ResolveDisputeMoney(r)
             \/ ResolveDisputeFinalize(r)
    BY <1>5
    DEF OpenDisputeWrite, ResolveDisputeClaim, ResolveDisputeMoney, ResolveDisputeFinalize,
        GuardInv, RequestGuard
  <1> QED BY <1>1, <1>2, <1>3, <1>4, <1>5 DEF DisputeNext

PaidRequest(r) ==
  /\ pc[r] \in {"complete_capture", "complete_transfer"} => status = "completed"
  /\ pc[r] = "complete_transfer" => pi = "succeeded"
  /\ pc[r] = "cancel_refund" => status = "cancelled"

\* Labels at which a request carries an obligation of this kind.
PaidBound == {"complete_capture", "complete_transfer", "cancel_refund"}

SellerPaid == "order" \in transfers => status = "completed" /\ pi = "succeeded"

BuyerPaid == refunded > 0 \/ refundKeys # {}
               => status = "cancelled" /\ pi = "succeeded" /\ refunded > 0

PaidInv == (\A r \in Requests : PaidRequest(r)) /\ SellerPaid /\ BuyerPaid

\* What a step of r has to show for the other requests: they stand behind an outcome
\* that is final and a capture that is not undone.
LEMMA PaidStep ==
  ASSUME PaidInv, StatusFinal, Kept, NEW r \in Requests, Moves(r), PaidRequest(r)',
         SellerPaid', BuyerPaid'
  PROVE  PaidInv'
  <1>1. ASSUME NEW q \in Requests
        PROVE  PaidRequest(q)'
    <2>1. CASE q = r
      BY <2>1
    <2>2. CASE q # r
      <3>1. pc'[q] = pc[q] /\ PaidRequest(q)
        BY <2>2 DEF Moves, PaidInv
      <3> QED BY <3>1 DEF PaidRequest, StatusFinal, Decided, Kept
    <2> QED BY <2>1, <2>2
  <1> QED BY <1>1 DEF PaidInv

\* A step that pays neither party.
LEMMA PaidSame ==
  ASSUME PaidInv, StatusFinal, Kept, NEW r \in Requests, Moves(r), PaidRequest(r)',
         "order" \in transfers' => "order" \in transfers, UNCHANGED <<refunded, refundKeys>>
  PROVE  PaidInv'
  <1>1. SellerPaid' /\ BuyerPaid'
    BY DEF PaidInv, SellerPaid, BuyerPaid, StatusFinal, Decided, Kept
  <1> QED BY <1>1, PaidStep

\* Most steps leave r without such an obligation too.
LEMMA PaidQuiet ==
  ASSUME PaidInv, StatusFinal, Kept, NEW r \in Requests, Moves(r), pc'[r] \notin PaidBound,
         "order" \in transfers' => "order" \in transfers, UNCHANGED <<refunded, refundKeys>>
  PROVE  PaidInv'
  <1>1. PaidRequest(r)'
    BY DEF PaidRequest, PaidBound
  <1> QED BY <1>1, PaidSame

\* completeOrder captures and pays only behind its claim.
LEMMA CompletePaid ==
  ASSUME TypeInv, PaidInv, StatusFinal, NEW r \in Requests, CompleteNext(r)
  PROVE  PaidInv'
  <1> USE DEF orderVars, ledgerVars, milestoneVars, stripeVars, moneyVars
  <1>0. Moves(r) /\ Kept /\ UNCHANGED <<refunded, refundKeys>> /\ PaidRequest(r)
    BY CompleteFrame DEF PaidInv
  <1>1. CASE CompleteOrder(r)
    BY <1>0, <1>1, EnterMoves, PaidQuiet DEF CompleteOrder, PaidBound
  <1>2. CASE CompleteOrderClaim(r)
    <2>1. ((\E i : CompleteFrom(r, i)) /\ status' = "completed") \/ Return(r)
      BY <1>2 DEF CompleteOrderClaim
    <2>2. PaidRequest(r)'
      BY <2>1, CompleteFromMoves, ReturnMoves DEF PaidRequest, CompleteLabels
    <2> QED BY <1>0, <1>2, <2>2, PaidSame DEF CompleteOrderClaim
  <1>3. CASE CompleteOrderCapture(r)
    <2>1. /\ status = "completed" /\ UNCHANGED <<status, transfers>> /\ pi' = "succeeded"
          /\ pc'[r] = "complete_transfer"
      BY <1>0, <1>3, GotoMoves DEF CompleteOrderCapture, CapturePI, At, PaidRequest
    <2>2. PaidRequest(r)'
      BY <2>1 DEF PaidRequest
    <2> QED BY <1>0, <2>1, <2>2, PaidSame
  <1>4. CASE CompleteOrderTransfer(r)
    <2>1. /\ status = "completed" /\ pi = "succeeded" /\ UNCHANGED <<status, pi>>
          /\ pc'[r] = "complete_finalize"
      BY <1>0, <1>4, GotoMoves DEF CompleteOrderTransfer, Transfer, At, PaidRequest
    <2>2. PaidRequest(r)' /\ SellerPaid' /\ BuyerPaid'
      BY <1>0, <2>1 DEF PaidRequest, PaidInv, SellerPaid, BuyerPaid
    <2> QED BY <1>0, <2>2, PaidStep
  <1>5. CASE CompleteOrderFinalize(r)
    BY <1>0, <1>5, GotoMoves, PaidQuiet DEF CompleteOrderFinalize, PaidBound
  <1>6. CASE CompleteOrderEntry(r)
    BY <1>0, <1>6, ReturnMoves, PaidQuiet DEF CompleteOrderEntry, PaidBound
  <1> QED
    BY <1>1, <1>2, <1>3, <1>4, <1>5, <1>6 DEF CompleteNext

\* cancelOrder refunds only behind its claim, and what was captured.
LEMMA CancelPaid ==
  ASSUME TypeInv, PaidInv, StatusFinal, NEW r \in Requests, CancelNext(r)
  PROVE  PaidInv'
  <1> USE DEF orderVars, ledgerVars, milestoneVars, stripeVars, moneyVars
  <1>0. Moves(r) /\ Kept /\ UNCHANGED transfers /\ PaidRequest(r)
    BY CancelFrame DEF PaidInv
  <1>1. CASE CancelOrder(r)
    BY <1>0, <1>1, EnterMoves, PaidQuiet DEF CancelOrder, PaidBound
  <1>2. CASE CancelOrderFlip(r)
    BY <1>0, <1>2, GotoMoves, ReturnMoves, PaidQuiet DEF CancelOrderFlip, PaidBound
  <1>3. CASE CancelOrderPI(r)
    BY <1>0, <1>3, ReturnMoves, PaidQuiet DEF CancelOrderPI, CancelPI, PaidBound
  <1>4. CASE CancelOrderClaim(r)
    <2>1. \/ pc'[r] = "cancel_refund" /\ status' = "cancelled"
          \/ pc'[r] = "idle"
      BY <1>4, GotoRowMoves, ReturnMoves DEF CancelOrderClaim
    <2>2. PaidRequest(r)'
      BY <2>1 DEF PaidRequest
    <2> QED BY <1>0, <1>4, <2>2, PaidSame DEF CancelOrderClaim
  <1>5. CASE CancelOrderRefund(r)
    <2>1. /\ status = "cancelled" /\ UNCHANGED status /\ pc'[r] = "cancel_reverse"
          /\ RefundPI(<<0, "refund_buyer">>)
      BY <1>0, <1>5, GotoMoves DEF CancelOrderRefund, At, PaidRequest
    <2>2. BuyerPaid'
      <3>1. CASE UNCHANGED <<refunded, refundKeys>>
        BY <1>0, <2>1, <3>1 DEF PaidInv, BuyerPaid, Kept
      <3>2. CASE pi = "succeeded" /\ refunded' = 2
        BY <2>1, <3>2 DEF BuyerPaid, RefundPI
      <3> QED BY <2>1, <3>1, <3>2 DEF RefundPI
    <2>3. PaidRequest(r)' /\ SellerPaid'
      BY <1>0, <2>1 DEF PaidRequest, PaidInv, SellerPaid, Kept
    <2> QED BY <1>0, <2>2, <2>3, PaidStep
  <1>6. CASE CancelOrderReverse(r)
    BY <1>0, <1>6, GotoMoves, PaidQuiet DEF CancelOrderReverse, PaidBound
  <1>7. CASE CancelOrderFinalize(r)
    BY <1>0, <1>7, ReturnMoves, PaidQuiet DEF CancelOrderFinalize, PaidBound
  <1> QED
    BY <1>1, <1>2, <1>3, <1>4, <1>5, <1>6, <1>7 DEF CancelNext

\* Nobody was paid before checkout.
LEMMA PaidInit == Init => PaidInv
  BY DEF Init, PaidInv, PaidRequest, SellerPaid, BuyerPaid

\* Every step of the system keeps the money behind the outcome.
LEMMA PaidNext ==
  ASSUME Guarded, TypeInv, GuardInv, PaidInv, [Next]_vars
  PROVE  PaidInv'
  <1>0. StatusFinal
    BY GuardNext
  <1>1. ASSUME NEW r \in Requests, RequestNext(r)
        PROVE  PaidInv'
    <2> USE DEF PaidBound
    <2>1. CASE CreateNext(r)
      BY <1>0, <2>1, CreateFrame, PaidQuiet DEF CreateLabels
    <2>2. CASE PaymentNext(r)
      BY <1>0, <2>2, PaymentFrame, PaidQuiet DEF PaymentLabels
    <2>3. CASE ConfirmNext(r)
      BY <1>0, <2>3, ConfirmFrame, PaidQuiet DEF ConfirmLabels
    <2>4. CASE EventNext(r)
      BY <1>0, <2>4, EventFrame, PaidQuiet DEF EventLabels
    <2>5. CASE DisputeNext(r)
      BY <1>0, <2>5, DisputeFrame, DisputeIdle, PaidQuiet DEF DisputeLabels, ResolveLabels
    <2>6. CASE MilestoneNext(r)
      BY <1>0, <2>6, MilestoneFrame, PaidQuiet, MilestonesAssumption
      DEF MilestoneLabels, ReleaseLabels
    <2>7. CASE Abandon(r)
      BY <1>0, <2>7, AbandonFrame, PaidQuiet
    <2> QED
      BY <1>0, <1>1, <2>1, <2>2, <2>3, <2>4, <2>5, <2>6, <2>7, CompletePaid, CancelPaid
      DEF RequestNext, OrderNext
  <1>2. CASE StripeNext \/ UNCHANGED vars
    <2>1. Kept /\ UNCHANGED <<status, transfers, refunded, refundKeys, pc>>
      BY <1>2, StripeFrame
    <2> QED BY <2>1 DEF PaidInv, PaidRequest, SellerPaid, BuyerPaid, Kept
  <1> QED BY <1>1, <1>2 DEF Next

\* Both invariants hold in every reachable state.
LEMMA PaidInvariant ==
  ASSUME Guarded
  PROVE  Spec => [](TypeInv /\ GuardInv /\ PaidInv)
  <1>1. TypeInv /\ GuardInv /\ [Next]_vars => GuardInv'
    BY GuardNext
  <1>2. TypeInv /\ GuardInv /\ PaidInv /\ [Next]_vars => PaidInv'
    BY PaidNext
  <1> QED BY <1>1, <1>2, GuardInit, PaidInit, TypeInvariant, PTL DEF Spec

\* Without the kinds that overwrite the status, the seller and the buyer are never both
\* paid out of the order's payment, and neither before it was captured.
THEOREM PaidOnceTheorem ==
  ASSUME Guarded
  PROVE  Spec => []PaidOnce
  <1>1. TypeInv /\ PaidInv => PaidOnce
    <2> SUFFICES ASSUME TypeInv, PaidInv PROVE PaidOnce
      OBVIOUS
    <2>1. refunded \in 0..2
      BY DEF TypeInv, TypeOK, StripeTypeOK
    <2>2. CASE "order" \in transfers \ reversed
      <3>1. status = "completed" /\ pi = "succeeded"
        BY <2>2 DEF PaidInv, SellerPaid
      <3>2. refunded = 0
        BY <2>1, <3>1 DEF PaidInv, BuyerPaid
      <3> QED BY <2>2, <3>1, <3>2 DEF PaidOnce
    <2>3. CASE "order" \notin transfers \ reversed
      <3>1. refunded = 0 \/ pi = "succeeded"
        BY <2>1 DEF PaidInv, BuyerPaid
      <3> QED BY <2>1, <2>3, <3>1 DEF PaidOnce
    <2> QED BY <2>2, <2>3
  <1> QED BY <1>1, PaidInvariant, PTL

-----------------------------------------------------------------------------
(* The booking of the completion.  The row, the entries and the hire appear   *)
(* with the status, in the transaction of completeOrder's claim.              *)

OrderRows == {i \in 1..Len(payouts) : payouts[i].for = "order"}

Booked(n) == /\ IsFiniteSet(OrderRows) /\ Cardinality(OrderRows) = n
             /\ Len(entries) = n /\ hires = n

BookedInv == IF status = "completed" THEN Booked(1) ELSE Booked(0)

\* A step that neither completes the order nor adds a row, an entry or a hire.
LEMMA BookedKept ==
  ASSUME BookedInv, StatusFinal, status' = "completed" => status = "completed",
         Len(entries') = Len(entries), UNCHANGED hires, OrderRows' = OrderRows
  PROVE  BookedInv'
  <1>1. status' = "completed" <=> status = "completed"
    BY DEF StatusFinal, Decided
  <1>2. \A n : Booked(n) => Booked(n)'
    BY DEF Booked
  <1> QED BY <1>1, <1>2 DEF BookedInv

\* Rows are added for the order only by completeOrder's claim.
LEMMA SameRows ==
  ASSUME Len(payouts') = Len(payouts),
         \A j \in 1..Len(payouts) : payouts'[j].for = payouts[j].for
  PROVE  OrderRows' = OrderRows
  BY DEF OrderRows

\* completeOrder's claim books everything at once, its retries book nothing.
LEMMA CompleteBooked ==
  ASSUME Guarded, TypeInv, BookedInv, StatusFinal, NEW r \in Requests, CompleteNext(r)
  PROVE  BookedInv'
  <1> USE DEF orderVars, ledgerVars, milestoneVars, stripeVars, moneyVars
  <1>0. payouts \in Seq(PayoutRow) /\ entries \in Seq({"pending", "completed"})
    BY DEF TypeInv, TypeOK, LedgerTypeOK
  <1>1. CASE CompleteOrder(r)
    BY <1>1, SameRows, BookedKept DEF CompleteOrder
  <1>2. CASE CompleteOrderClaim(r)
    <2>1. CASE UNCHANGED <<status, hires, payouts, entries>>
      BY <2>1, SameRows, BookedKept
    <2>2. CASE /\ status \in {"confirmed", "in_progress"} /\ status' = "completed"
               /\ hires' = hires + 1 /\ entries' = Append(entries, "pending")
               /\ payouts' = Append(payouts, [for |-> "order", stage |-> "pending",
                                              transfer |-> "none"])
      <3>1. Booked(0)
        BY <2>2 DEF BookedInv
      <3>2. Len(entries') = 1 /\ hires' = 1
        BY <1>0, <2>2, <3>1, AppendProperties DEF Booked
      <3>3. /\ Len(payouts) \in Nat /\ Len(payouts') = Len(payouts) + 1
            /\ \A j \in 1..Len(payouts) : payouts'[j].for = payouts[j].for
            /\ payouts'[Len(payouts) + 1].for = "order"
        BY <1>0, <2>2, NewPayout, LenProperties DEF Sources
      <3>4. /\ OrderRows' = OrderRows \union {Len(payouts) + 1}
            /\ Len(payouts) + 1 \notin OrderRows
        BY <3>3 DEF OrderRows
      <3>5. IsFiniteSet(OrderRows') /\ Cardinality(OrderRows') = 1
        BY <3>1, <3>4, FS_AddElement DEF Booked
      <3> QED BY <2>2, <3>2, <3>5 DEF BookedInv, Booked
    <2> QED BY <1>2, <2>1, <2>2 DEF CompleteOrderClaim
  <1>3. CASE CompleteOrderCapture(r)
    BY <1>3, SameRows, BookedKept DEF CompleteOrderCapture
  <1>4. CASE CompleteOrderTransfer(r)
    BY <1>4, SameRows, BookedKept DEF CompleteOrderTransfer
  <1>5. CASE CompleteOrderFinalize(r)
    <2>1. row[r] \in Nat /\ UNCHANGED <<status, hires, entries>>
      BY <1>5 DEF CompleteOrderFinalize, TypeInv, TypeOK, RequestTypeOK
    <2>2. OrderRows' = OrderRows
      BY <1>0, <1>5, <2>1, PayoutFinalized, SameRows DEF CompleteOrderFinalize, Sources
    <2> QED BY <2>1, <2>2, BookedKept
  <1>6. CASE CompleteOrderEntry(r)
    <2>1. UNCHANGED <<status, hires, payouts>> /\ Len(entries') = Len(entries)
      BY <1>0, <1>6, MapInSeq DEF CompleteOrderEntry
    <2> QED BY <2>1, SameRows, BookedKept
  <1> QED
    BY <1>1, <1>2, <1>3, <1>4, <1>5, <1>6 DEF CompleteNext

\* A release adds rows for its milestone.
LEMMA MilestoneBooked ==
  ASSUME TypeInv, BookedInv, StatusFinal, NEW r \in Requests, MilestoneNext(r)
  PROVE  BookedInv'
  <1> USE DEF orderVars, ledgerVars, milestoneVars, stripeVars, moneyVars
  <1>0. UNCHANGED <<status, hires, entries>> /\ payouts \in Seq(PayoutRow)
    BY MilestoneFrame DEF TypeInv, TypeOK, LedgerTypeOK
  <1>1. OrderRows' = OrderRows
    <2>1. CASE CreateMilestones(r)
      BY <2>1, SameRows DEF CreateMilestones
    <2>2. CASE CreateMilestonesCancelPI(r)
      BY <2>2, SameRows DEF CreateMilestonesCancelPI
    <2>3. CASE CreateMilestonesInsert(r)
      BY <2>3, SameRows DEF CreateMilestonesInsert
    <2>4. ASSUME NEW m \in Milestones, MarkMilestoneComplete(r, m) \/ ReleaseMilestone(r, m)
          PROVE  OrderRows' = OrderRows
      BY <2>4, SameRows DEF MarkMilestoneComplete, ReleaseMilestone
    <2>5. CASE ReleaseMilestoneIntent(r)
      <3>1. item[r] \in Milestones /\ item[r] \in Sources
        BY <2>5
        DEF ReleaseMilestoneIntent, At, TypeInv, FieldsOK, ReleaseLabels, Sources
      <3>2. CASE UNCHANGED payouts
        BY <3>2, SameRows
      <3>3. CASE payouts' = Append(payouts, [for |-> item[r], stage |-> "pending",
                                             transfer |-> "none"])
        <4>1. /\ Len(payouts) \in Nat /\ Len(payouts') = Len(payouts) + 1
              /\ \A j \in 1..Len(payouts) : payouts'[j].for = payouts[j].for
              /\ payouts'[Len(payouts) + 1].for = item[r]
          BY <1>0, <3>1, <3>3, NewPayout, LenProperties
        <4> QED BY <3>1, <4>1, MilestonesAssumption DEF OrderRows
      <3> QED BY <2>5, <3>2, <3>3 DEF ReleaseMilestoneIntent
    <2>6. CASE ReleaseMilestoneCapture(r)
      BY <2>6, SameRows DEF ReleaseMilestoneCapture
    <2>7. CASE ReleaseMilestoneTransfer(r)
      BY <2>7, SameRows DEF ReleaseMilestoneTransfer
    <2>8. CASE ReleaseMilestoneFinalize(r)
      <3>1. row[r] \in Nat /\ item[r] \in Sources
        BY <2>8
        DEF ReleaseMilestoneFinalize, At, TypeInv, TypeOK, RequestTypeOK, FieldsOK,
            ReleaseLabels, Sources
      <3> QED BY <1>0, <2>8, <3>1, PayoutFinalized, SameRows DEF ReleaseMilestoneFinalize
    <2> QED
      BY <2>1, <2>2, <2>3, <2>4, <2>5, <2>6, <2>7, <2>8, MilestoneFrame DEF MilestoneNext
  <1> QED BY <1>0, <1>1, BookedKept

\* Nothing is booked before checkout.
LEMMA BookedInit == Init => BookedInv
  <1> SUFFICES ASSUME Init PROVE BookedInv
    OBVIOUS
  <1>1. OrderRows = {} /\ Len(entries) = 0 /\ hires = 0 /\ status = "none"
    BY DEF Init, OrderRows
  <1> QED BY <1>1, FS_EmptySet DEF BookedInv, Booked

\* Every step of the system keeps the booking complete.
LEMMA BookedNext ==
  ASSUME Guarded, TypeInv, GuardInv, BookedInv, [Next]_vars
  PROVE  BookedInv'
  <1>0. StatusFinal
    BY GuardNext
  <1>1. ASSUME NEW r \in Requests, RequestNext(r)
        PROVE  BookedInv'
    <2>1. CASE CreateNext(r)
      BY <1>0, <2>1, CreateFrame, SameRows, BookedKept
    <2>2. CASE PaymentNext(r)
      BY <1>0, <2>2, PaymentFrame, SameRows, BookedKept
    <2>3. CASE ConfirmNext(r)
      BY <1>0, <2>3, ConfirmFrame, SameRows, BookedKept
    <2>4. CASE CancelNext(r)
      BY <1>0, <2>4, CancelFrame, SameRows, BookedKept
    <2>5. CASE EventNext(r)
      <3>1. OrderRows' = OrderRows
        <4>1. CASE HandleTransferFailed(r)
          BY <4>1, PayoutsFailed, SameRows
          DEF HandleTransferFailed, TypeInv, TypeOK, LedgerTypeOK
        <4>2. CASE UNCHANGED payouts
          BY <4>2, SameRows
        <4> QED BY <2>5, <4>1, <4>2, EventFrame
      <3> QED BY <1>0, <2>5, <3>1, EventFrame, BookedKept
    <2>6. CASE DisputeNext(r)
      BY <1>0, <2>6, DisputeFrame, DisputeIdle, SameRows, BookedKept
    <2>7. CASE Abandon(r)
      BY <1>0, <2>7, AbandonFrame, SameRows, BookedKept
    <2> QED
      BY <1>0, <1>1, <2>1, <2>2, <2>3, <2>4, <2>5, <2>6, <2>7, CompleteBooked, MilestoneBooked
      DEF RequestNext, OrderNext
  <1>2. CASE StripeNext \/ UNCHANGED vars
    BY <1>0, <1>2, StripeFrame, SameRows, BookedKept
  <1> QED BY <1>1, <1>2 DEF Next

\* Without the kinds that overwrite the status, an order has one payout row, one entry
\* triple and one hire iff it is completed, for any number of requests and milestones.
THEOREM CompletionBookedOnceTheorem ==
  ASSUME Guarded
  PROVE  Spec => []CompletionBookedOnce
  <1>1. BookedInv => CompletionBookedOnce
    BY DEF BookedInv, Booked, OrderRows, CompletionBookedOnce
  <1>2. TypeInv /\ GuardInv /\ BookedInv /\ [Next]_vars => BookedInv'
    BY BookedNext
  <1> QED BY <1>1, <1>2, BookedInit, PaidInvariant, PTL DEF Spec

-----------------------------------------------------------------------------
(* The refinement of Settlement.  Its variables are read off the status, the   *)
(* ledgers and Stripe; a step of a saga decides, moves the money, closes the   *)
(* record, or shows nothing of the three.  With milestones it fails: the       *)
(* pending row of a milestone's release is owed before the order is decided.   *)

Outcome == CASE status = "completed" -> "seller" [] status = "cancelled" -> "buyer"
             [] OTHER -> "open"
Owed    == PendingPayouts # {} \/ PendingRefunds(0) # {}
Moved   == "order" \in transfers \/ refunded > 0

SettleNext == [Settled!Next]_(Settled!vars)

\* A step that shows nothing, or at most closes a record once the money has moved.
LEMMA Closes ==
  ASSUME Outcome' = Outcome, Moved' <=> Moved, Owed' => Owed, Owed => Owed' \/ Moved
  PROVE  SettleNext
  BY DEF SettleNext, Settled!Next, Settled!Settle, Settled!vars, Outcome, Owed, Moved

\* A step that moves the money while it is owed, or again.
LEMMA Pays ==
  ASSUME Outcome' = Outcome, Owed' <=> Owed, Moved', Owed \/ Moved
  PROVE  SettleNext
  BY DEF SettleNext, Settled!Next, Settled!Move, Settled!vars, Outcome, Owed, Moved

\* A step that decides for the seller, who is owed the payout.
LEMMA DecidesForSeller ==
  ASSUME Outcome = "open", Outcome' = "seller", Owed', Moved' <=> Moved
  PROVE  SettleNext
  BY DEF SettleNext, Settled!Next, Settled!DecideForSeller, Outcome, Owed, Moved

\* A step that decides for the buyer.
LEMMA DecidesForBuyer ==
  ASSUME Outcome = "open", Outcome' = "buyer", Moved' <=> Moved
  PROVE  SettleNext
  BY DEF SettleNext, Settled!Next, Settled!DecideForBuyer, Outcome, Owed, Moved

SettleRequest(r) ==
  /\ pc[r] \in {"complete_claim", "complete_capture", "complete_transfer",
                "complete_finalize"} => seen[r] \in {"payable", "unpayable"}
  /\ pc[r] \in {"complete_capture", "complete_transfer"} => Len(payouts) > 0
  /\ pc[r] = "complete_finalize" => "order" \in transfers
  /\ pc[r] \in RefundLabels => PendingRefunds(0) # {} \/ refunded > 0
  /\ pc[r] \in {"cancel_reverse", "cancel_finalize"} => refunded > 0
  /\ pc[r] = "event_handle" => item[r] \in Sources

\* Labels at which a request carries an obligation of this kind.
SettleBound == {"complete_claim", "complete_capture", "complete_transfer",
                "complete_finalize", "event_handle"} \union RefundLabels

\* A row that is not pending is the order's, paid.
PaidRow(i) == IF payouts[i].stage = "pending" THEN payouts[i].transfer = "none"
                                              ELSE "order" \in transfers

SettleInv ==
  /\ \A r \in Requests : SettleRequest(r)
  /\ \A i \in 1..Len(payouts) : PaidRow(i)

\* What a step of r has to show for the other requests.
LEMMA SettleStep ==
  ASSUME SettleInv, NEW r \in Requests, Moves(r), SettleRequest(r)',
         Len(payouts) > 0 => Len(payouts') > 0,
         "order" \in transfers => "order" \in transfers', refunded > 0 => refunded' > 0,
         PendingRefunds(0) # {} => PendingRefunds(0)' # {} \/ refunded' > 0,
         \A i \in 1..Len(payouts') : PaidRow(i)'
  PROVE  SettleInv'
  <1>1. ASSUME NEW q \in Requests
        PROVE  SettleRequest(q)'
    <2>1. CASE q = r
      BY <2>1
    <2>2. CASE q # r
      <3>1. /\ pc'[q] = pc[q] /\ seen'[q] = seen[q] /\ item'[q] = item[q]
            /\ SettleRequest(q)
        BY <2>2 DEF Moves, SettleInv
      <3> QED BY <3>1 DEF SettleRequest
    <2> QED BY <2>1, <2>2
  <1> QED BY <1>1 DEF SettleInv

\* A step that writes no ledger and moves no money keeps the invariant.
LEMMA SettleSame ==
  ASSUME SettleInv, NEW r \in Requests, Moves(r), SettleRequest(r)',
         "order" \in transfers' <=> "order" \in transfers,
         UNCHANGED <<payouts, refunds, refunded>>
  PROVE  SettleInv'
  <1>1. \A i \in 1..Len(payouts') : PaidRow(i)'
    BY DEF SettleInv, PaidRow
  <1>2. PendingRefunds(0)' = PendingRefunds(0)
    BY DEF PendingRefunds
  <1> QED BY <1>1, <1>2, SettleStep

\* If it decides nothing either, it shows nothing.
LEMMA Stutters ==
  ASSUME StatusFinal, NotDeciding, "order" \in transfers' <=> "order" \in transfers,
         UNCHANGED <<payouts, refunds, refunded>>
  PROVE  SettleNext
  <1>1. Outcome' = Outcome
    BY DEF Outcome, StatusFinal, NotDeciding, Decided
  <1>2. (Owed' <=> Owed) /\ (Moved' <=> Moved)
    BY DEF Owed, Moved, PendingPayouts, PendingRefunds
  <1> QED BY <1>1, <1>2, Closes

\* Most steps leave r without such an obligation, and show nothing.
LEMMA SettleQuiet ==
  ASSUME SettleInv, StatusFinal, NotDeciding, NEW r \in Requests, Moves(r),
         pc'[r] \notin SettleBound, "order" \in transfers' <=> "order" \in transfers,
         UNCHANGED <<payouts, refunds, refunded>>
  PROVE  SettleInv' /\ SettleNext
  <1>1. SettleRequest(r)'
    BY DEF SettleRequest, SettleBound, RefundLabels
  <1> QED BY <1>1, SettleSame, Stutters

\* completeOrder decides for the seller, pays him, and closes the record.
LEMMA CompleteSettles ==
  ASSUME Milestones = {}, TypeInv, SettleInv, StatusFinal, NEW r \in Requests, CompleteNext(r)
  PROVE  SettleInv' /\ SettleNext
  <1> USE DEF orderVars, ledgerVars, milestoneVars, stripeVars, moneyVars
  <1>0. /\ Moves(r) /\ UNCHANGED <<refunds, refunded>> /\ SettleRequest(r)
        /\ payouts \in Seq(PayoutRow) /\ Len(payouts) \in Nat
        /\ PendingRefunds(0)' = PendingRefunds(0)
    BY CompleteFrame, LenProperties
    DEF SettleInv, TypeInv, TypeOK, LedgerTypeOK, PendingRefunds
  <1>1. CASE CompleteOrder(r)
    <2>1. ~HasMilestones
      BY DEF HasMilestones, Present
    <2>2. /\ pc'[r] = "complete_claim" /\ seen'[r] \in {"payable", "unpayable"}
          /\ UNCHANGED <<status, payouts, transfers>>
      BY <1>1, <2>1, EnterMoves DEF CompleteOrder
    <2>3. SettleRequest(r)'
      BY <2>2 DEF SettleRequest, RefundLabels
    <2> QED BY <1>0, <2>2, <2>3, SettleSame, Stutters DEF NotDeciding
  <1>2. CASE CompleteOrderClaim(r)
    <2>0. seen[r] \in {"payable", "unpayable"} /\ UNCHANGED transfers
      BY <1>0, <1>2 DEF CompleteOrderClaim, At, SettleRequest
    <2>1. CASE UNCHANGED <<status, payouts>>
      <3>1. \/ \E i \in PendingPayouts : CompleteFrom(r, i)
            \/ Return(r)
        BY <1>2, <2>1 DEF CompleteOrderClaim
      <3>2. PendingPayouts # {} => Len(payouts) > 0
        BY <1>0 DEF PendingPayouts
      <3>3. \/ pc'[r] = "complete_capture" /\ seen'[r] = seen[r] /\ PendingPayouts # {}
            \/ pc'[r] = "idle"
        BY <2>0, <3>1, CompleteFromMoves, ReturnMoves DEF CompleteLabels
      <3>4. SettleRequest(r)'
        BY <2>0, <2>1, <3>2, <3>3 DEF SettleRequest, RefundLabels
      <3> QED BY <1>0, <2>0, <2>1, <3>4, SettleSame, Stutters DEF NotDeciding
    <2>2. CASE /\ status \in {"confirmed", "in_progress"} /\ status' = "completed"
               /\ payouts' = Append(payouts, [for |-> "order", stage |-> "pending",
                                              transfer |-> "none"])
               /\ \E i : CompleteFrom(r, i)
      <3>1. /\ Len(payouts') = Len(payouts) + 1
            /\ payouts'[Len(payouts) + 1] = [for |-> "order", stage |-> "pending",
                                             transfer |-> "none"]
            /\ \A j \in 1..Len(payouts) : payouts'[j] = payouts[j]
        BY <1>0, <2>2, NewPayout DEF Sources
      <3>2. pc'[r] \in {"complete_capture", "idle"} /\ (pc'[r] # "idle" => seen'[r] = seen[r])
        BY <2>0, <2>2, CompleteFromMoves DEF CompleteLabels
      <3>3. SettleRequest(r)'
        BY <1>0, <2>0, <3>1, <3>2 DEF SettleRequest, RefundLabels
      <3>4. \A i \in 1..Len(payouts') : PaidRow(i)'
        BY <1>0, <2>0, <3>1 DEF SettleInv, PaidRow
      <3>5. SettleInv'
        BY <1>0, <2>0, <3>1, <3>3, <3>4, SettleStep
      <3>6. Owed'
        <4>1. Len(payouts) + 1 \in PendingPayouts'
          BY <1>0, <3>1 DEF PendingPayouts
        <4> QED BY <4>1 DEF Owed
      <3>7. Outcome = "open" /\ Outcome' = "seller" /\ (Moved' <=> Moved)
        BY <1>0, <2>0, <2>2 DEF Outcome, Moved
      <3> QED BY <3>5, <3>6, <3>7, DecidesForSeller
    <2> QED BY <1>2, <2>1, <2>2 DEF CompleteOrderClaim
  <1>3. CASE CompleteOrderCapture(r)
    <2>1. /\ pc[r] = "complete_capture" /\ pc'[r] = "complete_transfer" /\ seen'[r] = seen[r]
          /\ UNCHANGED <<status, payouts, transfers>>
      BY <1>3, GotoMoves DEF CompleteOrderCapture, At
    <2>2. SettleRequest(r)'
      BY <1>0, <2>1 DEF SettleRequest, RefundLabels
    <2> QED BY <1>0, <2>1, <2>2, SettleSame, Stutters DEF NotDeciding
  <1>4. CASE CompleteOrderTransfer(r)
    <2>1. /\ pc[r] = "complete_transfer" /\ pc'[r] = "complete_finalize" /\ seen'[r] = seen[r]
          /\ UNCHANGED <<status, payouts>> /\ "order" \in transfers'
      BY <1>4, GotoMoves DEF CompleteOrderTransfer, Transfer, At
    <2>2. SettleRequest(r)'
      BY <1>0, <2>1 DEF SettleRequest, RefundLabels
    <2>3. \A i \in 1..Len(payouts') : PaidRow(i)'
      BY <2>1 DEF SettleInv, PaidRow
    <2>4. SettleInv'
      BY <1>0, <2>1, <2>2, <2>3, SettleStep
    <2>5. Owed \/ Moved
      <3>1. 1 \in 1..Len(payouts) /\ PaidRow(1)
        BY <1>0, <2>1 DEF SettleRequest, SettleInv
      <3> QED BY <3>1 DEF PaidRow, Owed, Moved, PendingPayouts
    <2>6. Outcome' = Outcome /\ (Owed' <=> Owed) /\ Moved'
      BY <1>0, <2>1 DEF Outcome, Owed, Moved, PendingPayouts
    <2> QED BY <2>4, <2>5, <2>6, Pays
  <1>5. CASE CompleteOrderFinalize(r)
    <2>1. /\ "order" \in transfers /\ row[r] \in Nat /\ pc'[r] = "complete_entry"
          /\ UNCHANGED <<status, transfers>>
      BY <1>0, <1>5, GotoMoves
      DEF CompleteOrderFinalize, At, SettleRequest, TypeInv, TypeOK, RequestTypeOK
    <2>2. PICK s \in Sources \union {"none"} :
             payouts' = [payouts EXCEPT ![row[r]].stage = "completed", ![row[r]].transfer = s]
      BY <1>5 DEF CompleteOrderFinalize, Sources
    <2>3. /\ Len(payouts') = Len(payouts)
          /\ \A j \in 1..Len(payouts) : j # row[r] => payouts'[j] = payouts[j]
          /\ row[r] \in 1..Len(payouts) => payouts'[row[r]].stage = "completed"
      BY <1>0, <2>1, <2>2, PayoutFinalized
    <2>4. SettleRequest(r)'
      BY <2>1 DEF SettleRequest, RefundLabels
    <2>5. \A i \in 1..Len(payouts') : PaidRow(i)'
      BY <2>1, <2>3 DEF SettleInv, PaidRow
    <2>6. SettleInv'
      BY <1>0, <2>1, <2>3, <2>4, <2>5, SettleStep
    <2>7. PendingPayouts' \subseteq PendingPayouts
      BY <2>3 DEF PendingPayouts
    <2>8. Outcome' = Outcome /\ (Owed' => Owed) /\ (Moved' <=> Moved) /\ Moved
      BY <1>0, <2>1, <2>7 DEF Outcome, Owed, Moved
    <2> QED BY <2>6, <2>8, Closes
  <1>6. CASE CompleteOrderEntry(r)
    BY <1>0, <1>6, ReturnMoves, SettleQuiet
    DEF CompleteOrderEntry, NotDeciding, SettleBound, RefundLabels
  <1> QED
    BY <1>1, <1>2, <1>3, <1>4, <1>5, <1>6 DEF CompleteNext

\* cancelOrder decides for the buyer, refunds what was captured, and closes the record.
LEMMA CancelSettles ==
  ASSUME TypeInv, PaidInv, SettleInv, StatusFinal, NEW r \in Requests, CancelNext(r)
  PROVE  SettleInv' /\ SettleNext
  <1> USE DEF orderVars, ledgerVars, milestoneVars, stripeVars, moneyVars
  <1>0. /\ Moves(r) /\ UNCHANGED <<payouts, transfers>> /\ SettleRequest(r)
        /\ PendingPayouts' = PendingPayouts
        /\ refunds \in Seq(RefundRow) /\ Len(refunds) \in Nat
    BY CancelFrame, LenProperties
    DEF SettleInv, TypeInv, TypeOK, LedgerTypeOK, PendingPayouts
  <1>1. CASE CancelOrder(r)
    BY <1>0, <1>1, EnterMoves, SettleQuiet
    DEF CancelOrder, NotDeciding, SettleBound, RefundLabels
  <1>2. CASE CancelOrderFlip(r)
    <2>1. /\ pc'[r] \notin SettleBound /\ UNCHANGED <<refunds, refunded>>
          /\ UNCHANGED status \/ (status \notin Decided /\ status' = "cancelled")
      BY <1>2, GotoMoves, ReturnMoves DEF CancelOrderFlip, SettleBound, RefundLabels, Decided
    <2>2. SettleRequest(r)'
      BY <2>1 DEF SettleRequest, SettleBound, RefundLabels
    <2>3. SettleInv'
      BY <1>0, <2>1, <2>2, SettleSame
    <2>4. CASE UNCHANGED status
      BY <1>0, <2>1, <2>3, <2>4, Stutters DEF NotDeciding
    <2>5. CASE status \notin Decided /\ status' = "cancelled"
      <3>1. Outcome = "open" /\ Outcome' = "buyer" /\ (Moved' <=> Moved)
        BY <1>0, <2>1, <2>5 DEF Outcome, Moved, Decided
      <3> QED BY <2>3, <3>1, DecidesForBuyer
    <2> QED BY <2>1, <2>4, <2>5
  <1>3. CASE CancelOrderPI(r)
    BY <1>0, <1>3, ReturnMoves, SettleQuiet
    DEF CancelOrderPI, CancelPI, NotDeciding, SettleBound, RefundLabels
  <1>4. CASE CancelOrderClaim(r)
    <2>0. UNCHANGED refunded
      BY <1>4 DEF CancelOrderClaim
    <2>1. CASE /\ status \notin Decided /\ status' = "cancelled"
               /\ refunds' = Append(refunds, [for |-> 0, stage |-> "pending"])
               /\ GotoRow(r, "cancel_refund", Len(refunds) + 1)
      <3>1. /\ Len(refunds') = Len(refunds) + 1
            /\ refunds'[Len(refunds) + 1].for = 0
            /\ refunds'[Len(refunds) + 1].stage = "pending"
        BY <1>0, <2>1, NewRefund
      <3>2. Len(refunds) + 1 \in PendingRefunds(0)'
        BY <1>0, <3>1 DEF PendingRefunds
      <3>3. SettleRequest(r)'
        BY <2>1, <3>2, GotoRowMoves DEF SettleRequest, RefundLabels
      <3>4. \A i \in 1..Len(payouts') : PaidRow(i)'
        BY <1>0 DEF SettleInv, PaidRow
      <3>5. SettleInv'
        BY <1>0, <2>0, <3>2, <3>3, <3>4, SettleStep
      <3>6. Outcome = "open" /\ Outcome' = "buyer" /\ (Moved' <=> Moved)
        BY <1>0, <2>0, <2>1 DEF Outcome, Moved, Decided
      <3> QED BY <3>5, <3>6, DecidesForBuyer
    <2>2. CASE /\ UNCHANGED <<status, refunds>>
               /\ (\E i \in PendingRefunds(0) : GotoRow(r, "cancel_refund", i)) \/ Return(r)
      <3>1. \/ pc'[r] = "cancel_refund" /\ PendingRefunds(0) # {}
            \/ pc'[r] = "idle"
        BY <2>2, GotoRowMoves, ReturnMoves
      <3>2. PendingRefunds(0)' = PendingRefunds(0)
        BY <2>2 DEF PendingRefunds
      <3>3. SettleRequest(r)'
        BY <3>1, <3>2 DEF SettleRequest, RefundLabels
      <3> QED BY <1>0, <2>0, <2>2, <3>3, SettleSame, Stutters DEF NotDeciding
    <2> QED BY <1>4, <2>1, <2>2 DEF CancelOrderClaim, Decided
  <1>5. CASE CancelOrderRefund(r)
    <2>1. /\ pc[r] = "cancel_refund" /\ pc'[r] = "cancel_reverse"
          /\ UNCHANGED <<status, refunds>> /\ RefundPI(<<0, "refund_buyer">>)
      BY <1>5, GotoMoves DEF CancelOrderRefund, At
    <2>2. refunded' > 0
      <3>1. CASE <<0, "refund_buyer">> \in refundKeys /\ UNCHANGED refunded
        BY <3>1 DEF PaidInv, BuyerPaid
      <3>2. CASE refunded' = 2
        BY <3>2
      <3> QED BY <2>1, <3>1, <3>2 DEF RefundPI
    <2>3. Owed \/ Moved
      BY <1>0, <2>1 DEF SettleRequest, RefundLabels, Owed, Moved
    <2>4. Outcome' = Outcome /\ (Owed' <=> Owed) /\ Moved'
      BY <1>0, <2>1, <2>2 DEF Outcome, Owed, Moved, PendingRefunds
    <2>5. SettleRequest(r)'
      BY <2>1, <2>2 DEF SettleRequest, RefundLabels
    <2>6. \A i \in 1..Len(payouts') : PaidRow(i)'
      BY <1>0 DEF SettleInv, PaidRow
    <2>7. SettleInv'
      BY <1>0, <2>2, <2>5, <2>6, SettleStep
    <2> QED BY <2>3, <2>4, <2>7, Pays
  <1>6. CASE CancelOrderReverse(r)
    <2>1. /\ refunded > 0 /\ pc'[r] = "cancel_finalize"
          /\ UNCHANGED <<status, refunds, refunded>>
      BY <1>0, <1>6, GotoMoves DEF CancelOrderReverse, At, SettleRequest
    <2>2. SettleRequest(r)'
      BY <2>1 DEF SettleRequest, RefundLabels
    <2> QED BY <1>0, <2>1, <2>2, SettleSame, Stutters DEF NotDeciding
  <1>7. CASE CancelOrderFinalize(r)
    <2>1. /\ refunded > 0 /\ row[r] \in Nat /\ pc'[r] = "idle" /\ UNCHANGED <<status, refunded>>
      BY <1>0, <1>7, ReturnMoves
      DEF CancelOrderFinalize, At, SettleRequest, TypeInv, TypeOK, RequestTypeOK
    <2>2. PendingRefunds(0)' \subseteq PendingRefunds(0)
      <3>1. /\ Len(refunds') = Len(refunds)
            /\ \A j \in 1..Len(refunds) : refunds'[j].for = refunds[j].for
            /\ \A j \in 1..Len(refunds) : j # row[r] => refunds'[j] = refunds[j]
        BY <1>0, <1>7, <2>1, RefundFinalized DEF CancelOrderFinalize
      <3>2. row[r] \in 1..Len(refunds) => refunds'[row[r]].stage = "finalized"
        BY <1>0, <1>7 DEF CancelOrderFinalize, RefundRow
      <3> QED BY <3>1, <3>2 DEF PendingRefunds
    <2>3. SettleRequest(r)'
      BY <2>1 DEF SettleRequest, RefundLabels
    <2>4. \A i \in 1..Len(payouts') : PaidRow(i)'
      BY <1>0 DEF SettleInv, PaidRow
    <2>5. SettleInv'
      BY <1>0, <2>1, <2>3, <2>4, SettleStep
    <2>6. Outcome' = Outcome /\ (Owed' => Owed) /\ (Moved' <=> Moved) /\ Moved
      BY <1>0, <2>1, <2>2 DEF Outcome, Owed, Moved
    <2> QED BY <2>5, <2>6, Closes
  <1> QED
    BY <1>1, <1>2, <1>3, <1>4, <1>5, <1>6, <1>7 DEF CancelNext

\* A failed transfer is that of a row which is not pending; the webhook decides nothing.
LEMMA EventSettles ==
  ASSUME TypeInv, SettleInv, StatusFinal, NEW r \in Requests, EventNext(r)
  PROVE  SettleInv' /\ SettleNext
  <1>0. /\ Moves(r) /\ NotDeciding /\ UNCHANGED <<refunds, refunded, transfers>>
        /\ pc'[r] \in EventLabels \union {"idle"}
        /\ pc'[r] = "event_handle" => item'[r] \in Sources
    BY EventFrame DEF NotDeciding, Decided
  <1>1. SettleRequest(r)'
    BY <1>0 DEF SettleRequest, EventLabels, RefundLabels
  <1>2. CASE UNCHANGED payouts
    BY <1>0, <1>1, <1>2, SettleSame, Stutters
  <1>3. CASE HandleTransferFailed(r)
    <2>1. item[r] # "none" /\ UNCHANGED status
      BY <1>3, MilestonesAssumption
      DEF HandleTransferFailed, At, SettleInv, SettleRequest, Sources, orderVars
    <2>2. /\ Len(payouts') = Len(payouts)
          /\ \A j \in 1..Len(payouts) :
               IF payouts[j].transfer = item[r] THEN payouts'[j].stage = "failed"
                                                ELSE payouts'[j] = payouts[j]
      BY <1>3, PayoutsFailed DEF HandleTransferFailed, TypeInv, TypeOK, LedgerTypeOK
    <2>3. \A i \in 1..Len(payouts') : PaidRow(i)'
      BY <1>0, <2>1, <2>2 DEF SettleInv, PaidRow
    <2>4. PendingRefunds(0)' = PendingRefunds(0) /\ PendingPayouts' = PendingPayouts
      <3>1. \A i \in 1..Len(payouts) :
              payouts'[i].stage = "pending" <=> payouts[i].stage = "pending"
        BY <2>1, <2>2 DEF SettleInv, PaidRow
      <3> QED BY <1>0, <2>2, <3>1 DEF PendingPayouts, PendingRefunds
    <2>5. SettleInv'
      BY <1>0, <1>1, <2>2, <2>3, <2>4, SettleStep
    <2>6. Outcome' = Outcome /\ (Owed' <=> Owed) /\ (Moved' <=> Moved)
      BY <1>0, <2>1, <2>4 DEF Outcome, Owed, Moved
    <2> QED BY <2>5, <2>6, Closes
  <1> QED BY <1>2, <1>3, EventFrame

\* Without milestones there is nothing to release.
LEMMA NoMilestones ==
  ASSUME Milestones = {}, TypeInv, NEW r \in Requests, MilestoneNext(r)
  PROVE  UNCHANGED payouts
  <1> USE DEF ledgerVars
  <1>1. pc[r] \notin ReleaseLabels
    BY DEF TypeInv, FieldsOK
  <1>2. CASE CreateMilestones(r)
    BY <1>2 DEF CreateMilestones
  <1>3. CASE CreateMilestonesCancelPI(r)
    BY <1>3 DEF CreateMilestonesCancelPI
  <1>4. CASE CreateMilestonesInsert(r)
    BY <1>4 DEF CreateMilestonesInsert
  <1>5. CASE \/ ReleaseMilestoneIntent(r) \/ ReleaseMilestoneCapture(r)
             \/ ReleaseMilestoneTransfer(r) \/ ReleaseMilestoneFinalize(r)
    BY <1>1, <1>5
    DEF ReleaseMilestoneIntent, ReleaseMilestoneCapture, ReleaseMilestoneTransfer,
        ReleaseMilestoneFinalize, At, ReleaseLabels
  <1> QED BY <1>2, <1>3, <1>4, <1>5 DEF MilestoneNext

\* Initial states map to the initial state of Settlement.
LEMMA SettleInit == Init => SettleInv /\ Settled!Init
  <1> SUFFICES ASSUME Init PROVE SettleInv /\ Settled!Init
    OBVIOUS
  <1>1. SettleInv
    BY DEF Init, SettleInv, SettleRequest, RefundLabels
  <1>2. PendingPayouts = {} /\ PendingRefunds(0) = {} /\ status = "none" /\ transfers = {}
        /\ refunded = 0
    BY DEF Init, PendingPayouts, PendingRefunds
  <1> QED BY <1>1, <1>2 DEF Settled!Init

\* Every step maps to a step of Settlement or shows nothing.
LEMMA SettlesNext ==
  ASSUME Guarded, Milestones = {}, TypeInv, GuardInv, PaidInv, SettleInv, [Next]_vars
  PROVE  SettleInv' /\ SettleNext
  <1>0. StatusFinal
    BY GuardNext
  <1>1. ASSUME NEW r \in Requests, RequestNext(r)
        PROVE  SettleInv' /\ SettleNext
    <2> USE DEF SettleBound, RefundLabels, NotDeciding, Decided
    <2>1. CASE CreateNext(r)
      BY <1>0, <2>1, CreateFrame, SettleQuiet DEF CreateLabels
    <2>2. CASE PaymentNext(r)
      BY <1>0, <2>2, PaymentFrame, SettleQuiet DEF PaymentLabels
    <2>3. CASE ConfirmNext(r)
      BY <1>0, <2>3, ConfirmFrame, SettleQuiet DEF ConfirmLabels
    <2>4. CASE DisputeNext(r)
      BY <1>0, <2>4, DisputeFrame, DisputeIdle, SettleQuiet DEF DisputeLabels, ResolveLabels
    <2>5. CASE MilestoneNext(r)
      BY <1>0, <2>5, MilestoneFrame, NoMilestones, SettleQuiet
      DEF MilestoneLabels, ReleaseLabels
    <2>6. CASE Abandon(r)
      BY <1>0, <2>6, AbandonFrame, SettleQuiet
    <2> QED
      BY <1>0, <1>1, <2>1, <2>2, <2>3, <2>4, <2>5, <2>6, CompleteSettles, CancelSettles,
         EventSettles
      DEF RequestNext, OrderNext
  <1>2. CASE StripeNext \/ UNCHANGED vars
    <2>1. UNCHANGED <<status, payouts, refunds, transfers, refunded, pc, seen, item>>
      BY <1>2, StripeFrame
    <2>2. SettleInv'
      BY <2>1 DEF SettleInv, SettleRequest, PaidRow, PendingRefunds
    <2> QED BY <1>0, <2>1, <2>2, Stutters DEF NotDeciding
  <1> QED BY <1>1, <1>2 DEF Next

\* Without the kinds that overwrite the status, and without milestones, completeOrder
\* and cancelOrder, with their crashes, races and retries, implement Settlement, for any
\* number of requests.
THEOREM SettlementTheorem ==
  ASSUME Guarded, Milestones = {}
  PROVE  Spec => SettlementSpec
  <1>1. TypeInv /\ GuardInv /\ PaidInv /\ SettleInv /\ [Next]_vars => SettleInv'
    BY SettlesNext
  <1>2. TypeInv /\ GuardInv /\ PaidInv /\ SettleInv /\ [Next]_vars
          => [Settled!Next]_(Settled!vars)
    BY SettlesNext DEF SettleNext
  <1> QED
    BY <1>1, <1>2, SettleInit, PaidInvariant, PTL DEF Spec, SettlementSpec, Settled!Spec

=============================================================================
