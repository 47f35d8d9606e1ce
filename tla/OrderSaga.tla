------------------------------- MODULE OrderSaga -------------------------------
(***************************************************************************)
(* services/orders.ts: the life of an order from checkout to payout or       *)
(* refund.  completeOrder and cancelOrder are sagas: a transaction that      *)
(* records the intent, the Stripe calls, and a write that finalizes the     *)
(* ledger row; a retry finds the pending row and replays the calls.         *)
(***************************************************************************)
EXTENDS StripeGateway

-----------------------------------------------------------------------------
(* createOrder: PaymentIntent, order row, then the PaymentIntent's metadata *)

CreateOrder(r) ==
  /\ Arrives(r, "createOrder")
  /\ HasPaymentRef /\ status = "none" /\ pi = "none"
  /\ pi' = "requires_payment_method"
  /\ Enter(r, "create_insert", "none")
  /\ UNCHANGED <<orderVars, ledgerVars, milestoneVars, disputes, tagged, moneyVars, events>>

CreateOrderInsert(r) ==
  /\ At(r, "create_insert")
  /\ status' = "payment_pending"
  /\ Goto(r, "create_tag")
  /\ UNCHANGED <<hires, tasks, released, connect, ledgerVars, milestoneVars, disputes,
                 stripeVars>>

CreateOrderTag(r) ==
  /\ At(r, "create_tag")
  /\ tagged' = TRUE
  /\ Return(r)
  /\ UNCHANGED <<orderVars, ledgerVars, milestoneVars, disputes, pi, moneyVars, events>>

\* updateProposalStatus: inside a transaction that inserts an order without any
\* payment, submitTask writes the task on a connection of its own; if the
\* transaction then aborts, the task stays.  A second acceptance that commits
\* makes another order.  Bound: MaxTasks.
AcceptProposal(r) ==
  /\ Arrives(r, "acceptProposal")
  /\ ~HasPaymentRef /\ status = "none" /\ tasks < MaxTasks
  /\ tasks' = tasks + 1
  /\ Goto(r, "accept_commit")
  /\ UNCHANGED <<status, hires, released, connect, ledgerVars, milestoneVars, disputes,
                 stripeVars>>

AcceptProposalCommit(r) ==
  /\ At(r, "accept_commit")
  /\ status' = IF status = "none" THEN "pending" ELSE status
  /\ Return(r)
  /\ UNCHANGED <<hires, tasks, released, connect, ledgerVars, milestoneVars, disputes,
                 stripeVars>>

-----------------------------------------------------------------------------
(* confirmPayment: the buyer's client reports that the card is authorized *)

ConfirmPayment(r) ==
  /\ Arrives(r, "confirmPayment")
  /\ status = "payment_pending"
  /\ Enter(r, IF HasMilestones THEN "pay_write" ELSE "pay_verify", "none")
  /\ UNCHANGED <<orderVars, ledgerVars, milestoneVars, disputes, stripeVars>>

ConfirmPaymentVerify(r) ==
  /\ At(r, "pay_verify")
  /\ IF pi = "requires_capture" THEN Goto(r, "pay_write") ELSE Return(r)
  /\ UNCHANGED <<orderVars, ledgerVars, milestoneVars, disputes, stripeVars>>

\* The UPDATE names only the order's id: whatever the status is now, it is
\* overwritten.
ConfirmPaymentWrite(r) ==
  /\ At(r, "pay_write")
  /\ status' = "pending"
  /\ Goto(r, "pay_task")
  /\ UNCHANGED <<hires, tasks, released, connect, ledgerVars, milestoneVars, disputes,
                 stripeVars>>

\* submitTask; it throws if the agent is not active, which Abandon covers.
ConfirmPaymentTask(r) ==
  /\ At(r, "pay_task")
  /\ tasks' = tasks + 1
  /\ Return(r)
  /\ UNCHANGED <<status, hires, released, connect, ledgerVars, milestoneVars, disputes,
                 stripeVars>>

-----------------------------------------------------------------------------
(* confirmOrder: the seller accepts, the payment is captured *)

ConfirmOrder(r) ==
  /\ Arrives(r, "confirmOrder")
  /\ status = "pending"
  /\ Enter(r, "confirm_claim", IF HasMilestones THEN "milestones"
                               ELSE IF HasPaymentRef THEN "payable" ELSE "unpayable")
  /\ UNCHANGED <<orderVars, ledgerVars, milestoneVars, disputes, stripeVars>>

\* Seeded fault: the claim's UPDATE names only the order.
ConfirmOrderClaimUnguarded(r) ==
  /\ At(r, "confirm_claim")
  /\ status' = "confirmed"
  /\ IF seen[r] = "payable" THEN Goto(r, "confirm_capture") ELSE Return(r)
  /\ UNCHANGED <<hires, tasks, released, connect, ledgerVars, milestoneVars, disputes,
                 stripeVars>>

\* UPDATE ... WHERE status = 'pending': the loser of a race returns.
ConfirmOrderClaim(r) ==
  /\ At(r, "confirm_claim")
  /\ \/ /\ status = "pending"
        /\ status' = "confirmed"
        /\ IF seen[r] = "payable" THEN Goto(r, "confirm_capture") ELSE Return(r)
     \/ /\ status # "pending"
        /\ Return(r)
        /\ UNCHANGED status
  /\ UNCHANGED <<hires, tasks, released, connect, ledgerVars, milestoneVars, disputes,
                 stripeVars>>

ConfirmOrderCapture(r) ==
  /\ At(r, "confirm_capture")
  /\ CapturePI
  /\ Return(r)
  /\ UNCHANGED <<orderVars, ledgerVars, milestoneVars, disputes, moneyVars>>

\* The capture fails, or only its response is lost.
ConfirmOrderCaptureFails(r) ==
  /\ At(r, "confirm_capture")
  /\ CapturePI \/ UNCHANGED <<pi, tagged, events>>
  /\ Goto(r, "confirm_rollback")
  /\ UNCHANGED <<orderVars, ledgerVars, milestoneVars, disputes, moneyVars>>

\* Seeded fault: the rollback's UPDATE names only the order.
ConfirmOrderRollbackUnguarded(r) ==
  /\ At(r, "confirm_rollback")
  /\ status' = "pending"
  /\ Return(r)
  /\ UNCHANGED <<hires, tasks, released, connect, ledgerVars, milestoneVars, disputes,
                 stripeVars>>

\* UPDATE ... SET status = 'pending' WHERE status = 'confirmed'.
ConfirmOrderRollback(r) ==
  /\ At(r, "confirm_rollback")
  /\ status' = IF status = "confirmed" THEN "pending" ELSE status
  /\ Return(r)
  /\ UNCHANGED <<hires, tasks, released, connect, ledgerVars, milestoneVars, disputes,
                 stripeVars>>

-----------------------------------------------------------------------------
(* completeOrder: the buyer accepts the work, the seller is paid *)

\* Seeded faults: Stripe is called before the intent is recorded; a retry is refused
\* once the order is completed; the seller's payout need not be ready.
CompleteOrderMoneyFirst(r) ==
  /\ Arrives(r, "completeOrder")
  /\ status \in {"confirmed", "in_progress"} /\ connect /\ HasPaymentRef
  /\ Enter(r, "complete_capture", "payable")
  /\ UNCHANGED <<orderVars, ledgerVars, milestoneVars, disputes, stripeVars>>
CompleteOrderNoRetry(r) ==
  /\ Arrives(r, "completeOrder")
  /\ status \in {"confirmed", "in_progress"} /\ connect /\ HasPaymentRef
  /\ Enter(r, "complete_claim", "payable")
  /\ UNCHANGED <<orderVars, ledgerVars, milestoneVars, disputes, stripeVars>>
CompleteOrderUnready(r) ==
  /\ Arrives(r, "completeOrder")
  /\ status \in {"confirmed", "in_progress", "completed"}
  /\ \A m \in Present : milestone[m] = "released"
  /\ Enter(r, "complete_claim", IF HasMilestones THEN "milestones" ELSE "unpayable")
  /\ UNCHANGED <<orderVars, ledgerVars, milestoneVars, disputes, stripeVars>>

CompleteOrder(r) ==
  /\ Arrives(r, "completeOrder")
  /\ status \in {"confirmed", "in_progress", "completed"}
  /\ \A m \in Present : milestone[m] = "released"
  /\ LET payable == connect /\ HasPaymentRef
     IN /\ HasMilestones \/ status = "completed" \/ payable
        /\ Enter(r, "complete_claim", IF HasMilestones THEN "milestones"
                                      ELSE IF payable THEN "payable" ELSE "unpayable")
  /\ UNCHANGED <<orderVars, ledgerVars, milestoneVars, disputes, stripeVars>>

\* Seeded fault: the row is finalized without the Stripe calls.
CompleteFromRecorded(r, i) ==
  IF seen[r] = "unpayable" THEN Return(r) ELSE GotoRow(r, "complete_finalize", i)

\* Where the request goes once it holds payout row i.
CompleteFrom(r, i) ==
  CASE seen[r] = "payable"    -> GotoRow(r, "complete_capture", i)
    [] seen[r] = "milestones" -> GotoRow(r, "complete_finalize", i)
    [] OTHER                  -> Return(r)

\* Seeded fault: the claim's UPDATE names only the order.
CompleteOrderClaimAgain(r) ==
  /\ At(r, "complete_claim")
  /\ status' = "completed" /\ hires' = hires + 1
  /\ payouts' = Append(payouts, [for |-> "order", stage |-> "pending", transfer |-> "none"])
  /\ entries' = Append(entries, "pending")
  /\ CompleteFrom(r, Len(payouts) + 1)
  /\ UNCHANGED <<tasks, released, connect, refunds, milestoneVars, disputes, stripeVars>>

\* STEP 1: claim the order and record the intent, or recover a pending row of an
\* earlier attempt, or find that there is nothing left to do.
CompleteOrderClaim(r) ==
  /\ At(r, "complete_claim")
  /\ \/ /\ status \in {"confirmed", "in_progress"}
        /\ status' = "completed" /\ hires' = hires + 1
        /\ payouts' = Append(payouts, [for |-> "order", stage |-> "pending",
                                       transfer |-> "none"])
        /\ entries' = Append(entries, "pending")
        /\ CompleteFrom(r, Len(payouts) + 1)
     \/ /\ status = "completed"
        /\ \E i \in PendingPayouts : CompleteFrom(r, i)
        /\ UNCHANGED <<status, hires, payouts, entries>>
     \/ /\ status \notin {"confirmed", "in_progress"}
        /\ status # "completed" \/ PendingPayouts = {}
        /\ Return(r)
        /\ UNCHANGED <<status, hires, payouts, entries>>
  /\ UNCHANGED <<tasks, released, connect, refunds, milestoneVars, disputes, stripeVars>>

\* STEP 2: capture if confirmOrder has not, then transfer.
CompleteOrderCapture(r) ==
  /\ At(r, "complete_capture")
  /\ CapturePI
  /\ Goto(r, "complete_transfer")
  /\ UNCHANGED <<orderVars, ledgerVars, milestoneVars, disputes, moneyVars>>

CompleteOrderTransfer(r) ==
  /\ At(r, "complete_transfer")
  /\ Transfer("order")
  /\ Goto(r, "complete_finalize")
  /\ UNCHANGED <<orderVars, ledgerVars, milestoneVars, disputes>>

\* Seeded fault: payoutStatus keeps its default although the transfer was made.
CompleteOrderFinalizeManual(r) ==
  /\ At(r, "complete_finalize")
  /\ payouts' = [payouts EXCEPT ![row[r]].stage = "pending_manual_payout"]
  /\ Goto(r, "complete_entry")
  /\ UNCHANGED <<orderVars, entries, refunds, milestoneVars, disputes, stripeVars>>

\* STEP 3: two UPDATEs, first the payout row, then the seller_payout entries.
CompleteOrderFinalize(r) ==
  /\ At(r, "complete_finalize")
  /\ payouts' = [payouts EXCEPT ![row[r]].stage = "completed",
                                ![row[r]].transfer =
                                    IF seen[r] = "payable" THEN "order" ELSE "none"]
  /\ Goto(r, "complete_entry")
  /\ UNCHANGED <<orderVars, entries, refunds, milestoneVars, disputes, stripeVars>>

CompleteOrderEntry(r) ==
  /\ At(r, "complete_entry")
  /\ entries' = [i \in 1..Len(entries) |-> "completed"]
  /\ Return(r)
  /\ UNCHANGED <<orderVars, payouts, refunds, milestoneVars, disputes, stripeVars>>

-----------------------------------------------------------------------------
(* cancelOrder, by either party *)

\* Seeded fault: a cancelled order is answered without a look at its refund entries.
CancelOrderNoRetry(r) ==
  /\ Arrives(r, "cancelOrder")
  /\ status \notin {"none", "completed", "cancelled"}
  /\ Enter(r, IF status \in {"confirmed", "in_progress"} /\ HasPaymentRef
              THEN "cancel_claim" ELSE "cancel_flip", "none")
  /\ UNCHANGED <<orderVars, ledgerVars, milestoneVars, disputes, stripeVars>>

\* Where the status that was read leads: the refund saga for a captured payment
\* or a pending refund entry, a plain status flip otherwise.
CancelOrder(r) ==
  /\ Arrives(r, "cancelOrder")
  /\ \/ /\ status = "cancelled" /\ HasPaymentRef
        /\ \E i \in 1..Len(refunds) : refunds[i].stage = "pending"
        /\ Enter(r, "cancel_claim", "none")
     \/ /\ status \in {"confirmed", "in_progress"} /\ HasPaymentRef
        /\ Enter(r, "cancel_claim", "none")
     \/ /\ status \notin {"none", "completed", "cancelled"}
        /\ status \notin {"confirmed", "in_progress"} \/ ~HasPaymentRef
        /\ Enter(r, "cancel_flip", "none")
  /\ UNCHANGED <<orderVars, ledgerVars, milestoneVars, disputes, stripeVars>>

\* The UPDATE's guard is only NOT IN ('completed', 'cancelled'): the order may
\* have been confirmed and captured since it was read.
CancelOrderFlip(r) ==
  /\ At(r, "cancel_flip")
  /\ \/ /\ status \notin {"completed", "cancelled"}
        /\ status' = "cancelled"
        /\ IF HasPaymentRef THEN Goto(r, "cancel_pi") ELSE Return(r)
     \/ /\ status \in {"completed", "cancelled"}
        /\ Return(r)
        /\ UNCHANGED status
  /\ UNCHANGED <<hires, tasks, released, connect, ledgerVars, milestoneVars, disputes,
                 stripeVars>>

CancelOrderPI(r) ==
  /\ At(r, "cancel_pi")
  /\ CancelPI
  /\ Return(r)
  /\ UNCHANGED <<orderVars, ledgerVars, milestoneVars, disputes>>

\* Seeded fault: the claim takes a completed order too.
CancelOrderClaimUnguarded(r) ==
  /\ At(r, "cancel_claim")
  /\ status' = "cancelled"
  /\ refunds' = Append(refunds, [for |-> 0, stage |-> "pending"])
  /\ GotoRow(r, "cancel_refund", Len(refunds) + 1)
  /\ UNCHANGED <<hires, tasks, released, connect, payouts, entries, milestoneVars,
                 disputes, stripeVars>>

\* STEP 1: claim the cancellation and record the refund, or recover its entries.
CancelOrderClaim(r) ==
  /\ At(r, "cancel_claim")
  /\ \/ /\ status \notin {"completed", "cancelled"}
        /\ status' = "cancelled"
        /\ refunds' = Append(refunds, [for |-> 0, stage |-> "pending"])
        /\ GotoRow(r, "cancel_refund", Len(refunds) + 1)
     \/ /\ status = "cancelled"
        /\ \E i \in PendingRefunds(0) : GotoRow(r, "cancel_refund", i)
        /\ UNCHANGED <<status, refunds>>
     \/ /\ status = "completed" \/ (status = "cancelled" /\ PendingRefunds(0) = {})
        /\ Return(r)
        /\ UNCHANGED <<status, refunds>>
  /\ UNCHANGED <<hires, tasks, released, connect, payouts, entries, milestoneVars,
                 disputes, stripeVars>>

\* Seeded fault: the result of the refund is not looked at.
CancelOrderRefundIgnored(r) ==
  /\ At(r, "cancel_refund")
  /\ RefundPI(<<0, "refund_buyer">>) \/ UNCHANGED stripeVars
  /\ Goto(r, "cancel_reverse")
  /\ UNCHANGED <<orderVars, ledgerVars, milestoneVars, disputes>>

\* STEP 2a
CancelOrderRefund(r) ==
  /\ At(r, "cancel_refund")
  /\ RefundPI(<<0, "refund_buyer">>)
  /\ Goto(r, "cancel_reverse")
  /\ UNCHANGED <<orderVars, ledgerVars, milestoneVars, disputes>>

\* STEP 2b: reverse the transfer of some completed payout row, best effort and
\* under the order's one reversal key.
CancelOrderReverse(r) ==
  /\ At(r, "cancel_reverse")
  /\ \/ \E i \in 1..Len(payouts) :
          /\ payouts[i].stage = "completed" /\ payouts[i].transfer \in transfers
          /\ reversed \subseteq {payouts[i].transfer}
          /\ reversed' = {payouts[i].transfer}
     \/ UNCHANGED reversed
  /\ Goto(r, "cancel_finalize")
  /\ UNCHANGED <<orderVars, ledgerVars, milestoneVars, disputes, pi, tagged, refunded,
                 refundKeys, transfers, events>>

\* STEP 3
CancelOrderFinalize(r) ==
  /\ At(r, "cancel_finalize")
  /\ refunds' = [refunds EXCEPT ![row[r]].stage = "finalized"]
  /\ Return(r)
  /\ UNCHANGED <<orderVars, payouts, entries, milestoneVars, disputes, stripeVars>>

-----------------------------------------------------------------------------

CreateNext(r)   == CreateOrder(r) \/ CreateOrderInsert(r) \/ CreateOrderTag(r)
                   \/ AcceptProposal(r) \/ AcceptProposalCommit(r)
PaymentNext(r)  == ConfirmPayment(r) \/ ConfirmPaymentVerify(r) \/ ConfirmPaymentWrite(r)
                   \/ ConfirmPaymentTask(r)
ConfirmNext(r)  == ConfirmOrder(r) \/ ConfirmOrderClaim(r) \/ ConfirmOrderCapture(r)
                   \/ ConfirmOrderCaptureFails(r) \/ ConfirmOrderRollback(r)
CompleteNext(r) == CompleteOrder(r) \/ CompleteOrderClaim(r) \/ CompleteOrderCapture(r)
                   \/ CompleteOrderTransfer(r) \/ CompleteOrderFinalize(r)
                   \/ CompleteOrderEntry(r)
CancelNext(r)   == CancelOrder(r) \/ CancelOrderFlip(r) \/ CancelOrderPI(r)
                   \/ CancelOrderClaim(r) \/ CancelOrderRefund(r)
                   \/ CancelOrderReverse(r) \/ CancelOrderFinalize(r)

OrderNext(r) == CreateNext(r) \/ PaymentNext(r) \/ ConfirmNext(r) \/ CompleteNext(r)
                \/ CancelNext(r)

=============================================================================
