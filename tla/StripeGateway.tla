----------------------------- MODULE StripeGateway -----------------------------
(***************************************************************************)
(* Stripe as services/payment-providers.ts and the sagas use it: the calls   *)
(* they make, and what Stripe, the buyer's card and the seller's connected  *)
(* account do on their own.  A call with an idempotency key that Stripe has *)
(* already executed returns the earlier result and does nothing more.       *)
(***************************************************************************)
EXTENDS MarketplaceOrder

-----------------------------------------------------------------------------
(* Events: emitted once, delivered at least once in any order.  An event whose *)
(* type is not one of the Kinds is never delivered, so it is not kept.         *)

Emitted(type, s) ==
  [events EXCEPT ![<<type, s>>] = IF @ = "none" /\ type \in Kinds THEN "sent" ELSE @]

\* Events of the order's PaymentIntent name the order only once it is tagged.
EmittedForOrder(type) == IF tagged THEN Emitted(type, "order") ELSE events

-----------------------------------------------------------------------------
(* Calls.  Each is the case where Stripe executes or replays the call. *)

\* retrieve, then capture if the funds are held; already captured is success.
CapturePI ==
  /\ pi \in {"requires_capture", "succeeded"}
  /\ pi' = "succeeded"
  /\ events' = IF pi = "requires_capture" THEN EmittedForOrder("succeeded") ELSE events
  /\ UNCHANGED tagged

\* Refund what is left of the captured payment ("refund_buyer") or half of it
\* ("split").  Stripe refuses to return more than was captured.
RefundPI(key) ==
  /\ \/ key \in refundKeys /\ UNCHANGED <<refunded, refundKeys>>
     \/ /\ key \notin refundKeys
        /\ pi = "succeeded" /\ refunded < 2
        /\ refunded' = IF key[2] = "split" THEN refunded + 1 ELSE 2
        /\ refundKeys' = refundKeys \union {key}
  /\ UNCHANGED <<pi, tagged, transfers, reversed, events>>

Transfer(s) ==
  /\ transfers' = transfers \union {s}
  /\ UNCHANGED <<pi, tagged, refunded, refundKeys, reversed, events>>

CancelPI ==
  /\ pi \in {"requires_payment_method", "requires_capture"}
  /\ pi' = "canceled"
  /\ UNCHANGED <<tagged, moneyVars, events>>

-----------------------------------------------------------------------------
(* What happens at Stripe without a call from the services *)

\* The buyer confirms the payment with the client secret createOrder returned.
AuthorizePayment ==
  /\ pi = "requires_payment_method" /\ status # "none"
  /\ pi' = "requires_capture"
  /\ events' = EmittedForOrder("amount_capturable_updated")
  /\ UNCHANGED <<orderVars, ledgerVars, milestoneVars, disputes, tagged, moneyVars,
                 requestVars>>

\* The card is declined; the buyer may try again on the same PaymentIntent.
DeclinePayment ==
  /\ pi = "requires_payment_method" /\ status # "none"
  /\ events' = EmittedForOrder("payment_failed")
  /\ UNCHANGED <<orderVars, ledgerVars, milestoneVars, disputes, pi, tagged, moneyVars,
                 requestVars>>

\* Stripe cancels an authorization that is not captured within its window.
LapseAuthorization ==
  /\ pi = "requires_capture"
  /\ pi' = "canceled"
  /\ UNCHANGED <<orderVars, ledgerVars, milestoneVars, disputes, tagged, moneyVars,
                 events, requestVars>>

\* The same three for a milestone's PaymentIntent, whose metadata always names
\* the order.
MilestonePayment(m) ==
  /\ \/ /\ mpi[m] = "requires_payment_method" /\ milestone[m] # "absent"
        /\ \/ /\ mpi' = [mpi EXCEPT ![m] = "requires_capture"]
              /\ events' = Emitted("amount_capturable_updated", m)
           \/ /\ events' = Emitted("payment_failed", m)
              /\ UNCHANGED mpi
     \/ /\ mpi[m] = "requires_capture"
        /\ mpi' = [mpi EXCEPT ![m] = "canceled"]
        /\ UNCHANGED events
  /\ UNCHANGED <<orderVars, ledgerVars, milestone, disputes, pi, tagged, moneyVars,
                 requestVars>>

\* The seller's connected account is disabled or enabled again.
ChangeConnect ==
  /\ connect' = ~connect
  /\ UNCHANGED <<status, hires, tasks, released, ledgerVars, milestoneVars, disputes,
                 stripeVars, requestVars>>

\* A transfer fails after Stripe had accepted it.
FailTransfer(s) ==
  /\ s \in transfers
  /\ events' = Emitted("transfer_failed", s)
  /\ UNCHANGED <<orderVars, ledgerVars, milestoneVars, disputes, pi, tagged, moneyVars,
                 requestVars>>

StripeNext ==
  \/ AuthorizePayment \/ DeclinePayment \/ LapseAuthorization
  \/ ChangeConnect
  \/ \E m \in Milestones : MilestonePayment(m)
  \/ \E s \in Sources : FailTransfer(s)

=============================================================================
