----------------------------- MODULE PaymentEvents -----------------------------
(***************************************************************************)
(* The Stripe webhook endpoint: claimWebhookEvent, the handlers that touch   *)
(* an order or its payouts, and finalizeWebhookEvent.  Stripe redelivers an  *)
(* event until a delivery is acknowledged; a delivery that finds the event's *)
(* row still pending (its handler crashed or is still running) or failed     *)
(* processes it again, next to the first if need be.                         *)
(***************************************************************************)
EXTENDS StripeGateway

\* claimWebhookEvent answers "claimed" or "retrying"; the deliveries it answers
\* "already_processed" change nothing.
ReceiveEvent(r, type, s) ==
  /\ Arrives(r, type)
  /\ events[<<type, s>>] \in {"sent", "pending", "failed"}
  /\ events' = [events EXCEPT ![<<type, s>>] = "pending"]
  /\ pc' = [pc EXCEPT ![r] = "event_handle"]
  /\ item' = [item EXCEPT ![r] = s]
  /\ seen' = [seen EXCEPT ![r] = type]
  /\ UNCHANGED <<row, dispute, orderVars, ledgerVars, milestoneVars, disputes, pi, tagged,
                 moneyVars>>

\* handlePaymentIntentSucceeded and handlePaymentIntentFailed: read the order; if
\* it awaits payment, write, in a statement that does not repeat the test.
HandlePaymentEvent(r) ==
  /\ At(r, "event_handle") /\ seen[r] \in {"succeeded", "payment_failed"}
  /\ Goto(r, IF status = "payment_pending" THEN "event_write" ELSE "event_done")
  /\ UNCHANGED <<orderVars, ledgerVars, milestoneVars, disputes, stripeVars>>

PaymentEventWrite(r) ==
  /\ At(r, "event_write")
  /\ status' = IF seen[r] = "succeeded" THEN "pending" ELSE "payment_failed"
  /\ Goto(r, "event_done")
  /\ UNCHANGED <<hires, tasks, released, connect, ledgerVars, milestoneVars, disputes,
                 stripeVars>>

\* handlePaymentIntentCapturableUpdated: one guarded UPDATE.
HandleCapturable(r) ==
  /\ At(r, "event_handle") /\ seen[r] = "amount_capturable_updated"
  /\ status' = IF status = "payment_pending" THEN "pending" ELSE status
  /\ Goto(r, "event_done")
  /\ UNCHANGED <<hires, tasks, released, connect, ledgerVars, milestoneVars, disputes,
                 stripeVars>>

\* handleTransferFailed marks every payout row that names the transfer.
HandleTransferFailed(r) ==
  /\ At(r, "event_handle") /\ seen[r] = "transfer_failed"
  /\ payouts' = [i \in 1..Len(payouts) |->
                   IF payouts[i].transfer = item[r]
                   THEN [payouts[i] EXCEPT !.stage = "failed"] ELSE payouts[i]]
  /\ Goto(r, "event_done")
  /\ UNCHANGED <<orderVars, entries, refunds, milestoneVars, disputes, stripeVars>>

\* finalizeWebhookEvent: "processed", or "failed" when the handler throws.  The
\* UPDATE names only the event, whatever another delivery wrote.
FinalizeEvent(r) ==
  /\ \/ At(r, "event_done")
        /\ events' = [events EXCEPT ![<<seen[r], item[r]>>] = "processed"]
     \/ pc[r] \in {"event_handle", "event_write"}
        /\ events' = [events EXCEPT ![<<seen[r], item[r]>>] = "failed"]
  /\ Return(r)
  /\ UNCHANGED <<orderVars, ledgerVars, milestoneVars, disputes, pi, tagged, moneyVars>>

EventNext(r) ==
  \/ \E type \in EventTypes, s \in Sources : ReceiveEvent(r, type, s)
  \/ HandlePaymentEvent(r) \/ PaymentEventWrite(r)
  \/ HandleCapturable(r) \/ HandleTransferFailed(r)
  \/ FinalizeEvent(r)

=============================================================================
