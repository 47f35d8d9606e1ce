-------------------------- MODULE MarketplaceRecords --------------------------
(***************************************************************************)
(* What the ledgers, the disputes and the milestones record against what     *)
(* Stripe executed, for every value of the constants: IntentBeforeMoney,     *)
(* RecordedMoneyMoved, ResolutionPaid, OneResolution, MilestonesSettleOnce,  *)
(* OnePayoutPerMilestone and NoFreeCompletion, each from an inductive        *)
(* invariant of its own, under the weakest condition on the kinds of         *)
(* requests that it was found to hold for.                                   *)
(***************************************************************************)
EXTENDS MarketplaceTypes, FiniteSetTheorems

-----------------------------------------------------------------------------
(* Ledger rows are never deleted, and never change hands *)

PayoutFor(s) == \E i \in 1..Len(payouts) : payouts[i].for = s
RefundFor(d) == \E i \in 1..Len(refunds) : refunds[i].for = d

PayoutsKept == \A s : PayoutFor(s) => PayoutFor(s)'
RefundsKept == \A d : RefundFor(d) => RefundFor(d)'

\* A ledger has a length.
LEMMA LengthsNat ==
  ASSUME TypeInv
  PROVE  Len(payouts) \in Nat /\ Len(refunds) \in Nat /\ Len(disputes) \in Nat
  BY LenProperties DEF TypeInv, TypeOK, LedgerTypeOK

\* A ledger that only grows, and keeps its rows' recipients, keeps its rows.
LEMMA KeptRows ==
  ASSUME TypeInv, Len(payouts') \in Nat, Len(payouts') >= Len(payouts),
         \A j \in 1..Len(payouts) : payouts'[j].for = payouts[j].for
  PROVE  PayoutsKept
  BY LengthsNat DEF PayoutsKept, PayoutFor

\* The same for the refund entries.
LEMMA KeptEntries ==
  ASSUME TypeInv, Len(refunds') \in Nat, Len(refunds') >= Len(refunds),
         \A j \in 1..Len(refunds) : refunds'[j].for = refunds[j].for
  PROVE  RefundsKept
  BY LengthsNat DEF RefundsKept, RefundFor

-----------------------------------------------------------------------------
(* IntentBeforeMoney.  A request that is about to move money has its row, and *)
(* a dispute that carries a refunding resolution has its refund entry: a      *)
(* resolution that is resumed does not add one.                               *)

\* Milestones and dispute resolutions do not meet on an order: else completeOrder
\* can take a milestone's pending payout row for its own.
NoMix == Milestones = {} \/ "resolveDispute" \notin Kinds

MoneyLabels == {"complete_capture", "complete_transfer", "release_capture",
                "release_transfer", "cancel_refund"} \union ResolveLabels

RequestIntent(r) ==
  /\ pc[r] \in {"complete_capture", "complete_transfer"} => PayoutFor("order")
  /\ pc[r] \in {"release_capture", "release_transfer"} => PayoutFor(item[r])
  /\ pc[r] = "cancel_refund" => RefundFor(0)
  /\ HasPaymentRef /\ pc[r] \in {"resolve_money", "resolve_finalize"}
     /\ seen[r] # "release_seller" => RefundFor(dispute[r])
  /\ pc[r] \in ResolveLabels => "resolveDispute" \in Kinds /\ dispute[r] \in 1..Len(disputes)

IntentInv ==
  /\ \A s \in transfers : PayoutFor(s)
  /\ \A k \in refundKeys : RefundFor(k[1])
  /\ \A r \in Requests : RequestIntent(r)
  /\ HasPaymentRef => \A d \in 1..Len(disputes) :
       disputes[d].resolution \in {"refund_buyer", "split"} => RefundFor(d)
  /\ status = "completed" /\ "resolveDispute" \notin Kinds => PayoutFor("order")

\* What a step of r has to show: the intent of the money it moves, and its own.
LEMMA IntentStep ==
  ASSUME TypeInv, IntentInv, NEW r \in Requests, Moves(r), PayoutsKept, RefundsKept,
         RequestIntent(r)', Len(disputes') \in Nat, Len(disputes') >= Len(disputes),
         \A s \in transfers' \ transfers : PayoutFor(s),
         \A k \in refundKeys' \ refundKeys : RefundFor(k[1]),
         HasPaymentRef => \A d \in 1..Len(disputes') :
           disputes'[d].resolution \in {"refund_buyer", "split"} => RefundFor(d)',
         status' = "completed" =>
           status = "completed" \/ "resolveDispute" \in Kinds \/ PayoutFor("order")'
  PROVE  IntentInv'
  <1>1. ASSUME NEW q \in Requests
        PROVE  RequestIntent(q)'
    <2>1. CASE q = r
      BY <2>1
    <2>2. CASE q # r
      <3>1. /\ pc'[q] = pc[q] /\ seen'[q] = seen[q] /\ item'[q] = item[q]
            /\ dispute'[q] = dispute[q]
        BY <2>2 DEF Moves
      <3>2. 1..Len(disputes) \subseteq 1..Len(disputes')
        BY LengthsNat
      <3> QED BY <3>1, <3>2 DEF IntentInv, RequestIntent, PayoutsKept, RefundsKept
    <2> QED BY <2>1, <2>2
  <1>2. \A s \in transfers' : PayoutFor(s)'
    BY DEF IntentInv, PayoutsKept
  <1>3. \A k \in refundKeys' : RefundFor(k[1])'
    BY DEF IntentInv, RefundsKept
  <1> QED
    BY <1>1, <1>2, <1>3 DEF IntentInv, PayoutsKept

\* Most steps move no money and lead r to no such step.
LEMMA QuietStep ==
  ASSUME TypeInv, IntentInv, NEW r \in Requests, Moves(r), PayoutsKept, RefundsKept,
         pc'[r] \notin MoneyLabels, UNCHANGED <<transfers, refundKeys, disputes>>,
         status' = "completed" => status = "completed"
  PROVE  IntentInv'
  <1>1. RequestIntent(r)'
    BY DEF RequestIntent, MoneyLabels, ResolveLabels
  <1> QED
    BY <1>1, IntentStep, LengthsNat DEF IntentInv, RefundsKept

\* An untouched ledger keeps its rows.
LEMMA UnchangedKept ==
  /\ UNCHANGED payouts => PayoutsKept
  /\ UNCHANGED refunds => RefundsKept
  BY DEF PayoutsKept, RefundsKept, PayoutFor, RefundFor

\* Checkout records no intent and moves no money.
LEMMA CreateIntent ==
  ASSUME NoMix, TypeInv, IntentInv, NEW r \in Requests, CreateNext(r)
  PROVE  IntentInv'
  <1> USE UnchangedKept DEF orderVars, ledgerVars, milestoneVars, stripeVars, moneyVars
  <1>1. CASE CreateOrder(r)
    BY <1>1, EnterMoves, QuietStep
    DEF CreateOrder, MoneyLabels, ResolveLabels
  <1>2. CASE CreateOrderInsert(r)
    BY <1>2, GotoMoves, QuietStep
    DEF CreateOrderInsert, MoneyLabels, ResolveLabels
  <1>3. CASE CreateOrderTag(r)
    BY <1>3, ReturnMoves, QuietStep
    DEF CreateOrderTag, MoneyLabels, ResolveLabels
  <1>4. CASE AcceptProposal(r)
    BY <1>4, GotoMoves, QuietStep
    DEF AcceptProposal, MoneyLabels, ResolveLabels
  <1>5. CASE AcceptProposalCommit(r)
    BY <1>5, ReturnMoves, QuietStep
    DEF AcceptProposalCommit, MoneyLabels, ResolveLabels
  <1> QED
    BY <1>1, <1>2, <1>3, <1>4, <1>5 DEF CreateNext

\* Nor does confirmPayment.
LEMMA PaymentIntent ==
  ASSUME NoMix, TypeInv, IntentInv, NEW r \in Requests, PaymentNext(r)
  PROVE  IntentInv'
  <1> USE UnchangedKept DEF orderVars, ledgerVars, milestoneVars, stripeVars, moneyVars
  <1>1. CASE ConfirmPayment(r)
    BY <1>1, EnterMoves, QuietStep
    DEF ConfirmPayment, MoneyLabels, ResolveLabels
  <1>2. CASE ConfirmPaymentVerify(r)
    BY <1>2, GotoMoves, ReturnMoves, QuietStep
    DEF ConfirmPaymentVerify, MoneyLabels, ResolveLabels
  <1>3. CASE ConfirmPaymentWrite(r)
    BY <1>3, GotoMoves, QuietStep
    DEF ConfirmPaymentWrite, MoneyLabels, ResolveLabels
  <1>4. CASE ConfirmPaymentTask(r)
    BY <1>4, ReturnMoves, QuietStep
    DEF ConfirmPaymentTask, MoneyLabels, ResolveLabels
  <1> QED
    BY <1>1, <1>2, <1>3, <1>4 DEF PaymentNext

\* confirmOrder moves the buyer's money to the platform only.
LEMMA ConfirmIntent ==
  ASSUME NoMix, TypeInv, IntentInv, NEW r \in Requests, ConfirmNext(r)
  PROVE  IntentInv'
  <1> USE UnchangedKept DEF orderVars, ledgerVars, milestoneVars, stripeVars, moneyVars
  <1>1. CASE ConfirmOrder(r)
    BY <1>1, EnterMoves, QuietStep
    DEF ConfirmOrder, MoneyLabels, ResolveLabels
  <1>2. CASE ConfirmOrderClaim(r)
    BY <1>2, GotoMoves, ReturnMoves, QuietStep
    DEF ConfirmOrderClaim, MoneyLabels, ResolveLabels
  <1>3. CASE ConfirmOrderCapture(r)
    BY <1>3, ReturnMoves, QuietStep
    DEF ConfirmOrderCapture, MoneyLabels, ResolveLabels, CapturePI
  <1>4. CASE ConfirmOrderCaptureFails(r)
    BY <1>4, GotoMoves, QuietStep
    DEF ConfirmOrderCaptureFails, MoneyLabels, ResolveLabels, CapturePI
  <1>5. CASE ConfirmOrderRollback(r)
    BY <1>5, ReturnMoves, QuietStep
    DEF ConfirmOrderRollback, MoneyLabels, ResolveLabels
  <1> QED
    BY <1>1, <1>2, <1>3, <1>4, <1>5 DEF ConfirmNext

\* completeOrder transfers after it, or an earlier attempt, recorded the payout.
LEMMA CompleteIntent ==
  ASSUME NoMix, TypeInv, IntentInv, NEW r \in Requests, CompleteNext(r)
  PROVE  IntentInv'
  <1> USE UnchangedKept DEF orderVars, ledgerVars, milestoneVars, stripeVars, moneyVars
  <1>1. CASE CompleteOrder(r)
    BY <1>1, EnterMoves, QuietStep
    DEF CompleteOrder, MoneyLabels, ResolveLabels
  <1>2. CASE CompleteOrderClaim(r)
    <2> DEFINE booked == [for |-> "order", stage |-> "pending", transfer |-> "none"]
    <2>1. ASSUME payouts' = Append(payouts, booked)
          PROVE  PayoutsKept /\ PayoutFor("order")'
      BY <2>1, NewPayout, LengthsNat, KeptRows
      DEF TypeInv, TypeOK, LedgerTypeOK, Sources, PayoutFor
    <2>2. ASSUME status = "completed", PendingPayouts # {}
          PROVE  PayoutFor("order")
      <3>1. PICK i \in PendingPayouts : TRUE
        BY <2>2
      <3>2. i \in 1..Len(payouts) /\ payouts[i].for \in Sources
        <4>1. i \in 1..Len(payouts)
          BY <3>1 DEF PendingPayouts
        <4>2. payouts[i] \in PayoutRow
          BY <4>1, ElementOfSeq DEF TypeInv, TypeOK, LedgerTypeOK
        <4> QED BY <4>1, <4>2 DEF PayoutRow
      <3> QED BY <2>2, <3>2 DEF IntentInv, PayoutFor, Sources, NoMix
    <2>3. ASSUME NEW i, CompleteFrom(r, i), PayoutFor("order")'
          PROVE  Moves(r) /\ RequestIntent(r)'
      BY <2>3, GotoRowMoves, ReturnMoves DEF CompleteFrom, RequestIntent, ResolveLabels
    <2>4. ASSUME Return(r)
          PROVE  Moves(r) /\ RequestIntent(r)'
      BY <2>4, ReturnMoves DEF RequestIntent, ResolveLabels
    <2>5. PayoutsKept /\ RefundsKept
      BY <1>2, <2>1 DEF CompleteOrderClaim
    <2>6. Moves(r) /\ RequestIntent(r)'
      BY <1>2, <2>1, <2>2, <2>3, <2>4, <2>5 DEF CompleteOrderClaim, PayoutsKept
    <2>7. status' = "completed" => status = "completed" \/ PayoutFor("order")'
      BY <1>2, <2>1 DEF CompleteOrderClaim
    <2>8. UNCHANGED <<transfers, refundKeys, disputes>>
      BY <1>2 DEF CompleteOrderClaim
    <2> QED BY <2>5, <2>6, <2>7, <2>8, IntentStep, LengthsNat DEF IntentInv, RefundsKept
  <1>3. CASE CompleteOrderCapture(r)
    <2>1. RequestIntent(r)'
      BY <1>3, GotoMoves
      DEF CompleteOrderCapture, At, IntentInv, RequestIntent, PayoutsKept, ResolveLabels
    <2> QED BY <1>3, <2>1, GotoMoves, IntentStep, LengthsNat
            DEF CompleteOrderCapture, CapturePI, IntentInv, RefundsKept
  <1>4. CASE CompleteOrderTransfer(r)
    <2>1. PayoutFor("order")
      BY <1>4 DEF CompleteOrderTransfer, At, IntentInv, RequestIntent
    <2>2. RequestIntent(r)'
      BY <1>4, GotoMoves DEF CompleteOrderTransfer, RequestIntent, ResolveLabels
    <2> QED BY <1>4, <2>1, <2>2, GotoMoves, IntentStep, LengthsNat
            DEF CompleteOrderTransfer, Transfer, IntentInv, RefundsKept
  <1>5. CASE CompleteOrderFinalize(r)
    <2>1. PayoutsKept
      BY <1>5, PayoutFinalized, LengthsNat, KeptRows
      DEF CompleteOrderFinalize, TypeInv, TypeOK, LedgerTypeOK, RequestTypeOK, Sources
    <2> QED BY <1>5, <2>1, GotoMoves, QuietStep
            DEF CompleteOrderFinalize, MoneyLabels, ResolveLabels
  <1>6. CASE CompleteOrderEntry(r)
    BY <1>6, ReturnMoves, QuietStep
    DEF CompleteOrderEntry, MoneyLabels, ResolveLabels
  <1> QED
    BY <1>1, <1>2, <1>3, <1>4, <1>5, <1>6 DEF CompleteNext

\* cancelOrder refunds after it, or an earlier attempt, recorded the refund.
LEMMA CancelIntent ==
  ASSUME NoMix, TypeInv, IntentInv, NEW r \in Requests, CancelNext(r)
  PROVE  IntentInv'
  <1> USE UnchangedKept DEF orderVars, ledgerVars, milestoneVars, stripeVars, moneyVars
  <1>1. CASE CancelOrder(r)
    BY <1>1, EnterMoves, QuietStep
    DEF CancelOrder, MoneyLabels, ResolveLabels
  <1>2. CASE CancelOrderFlip(r)
    BY <1>2, GotoMoves, ReturnMoves, QuietStep
    DEF CancelOrderFlip, MoneyLabels, ResolveLabels
  <1>3. CASE CancelOrderPI(r)
    BY <1>3, ReturnMoves, QuietStep
    DEF CancelOrderPI, MoneyLabels, ResolveLabels, CancelPI
  <1>4. CASE CancelOrderClaim(r)
    <2>1. ASSUME refunds' = Append(refunds, [for |-> 0, stage |-> "pending"])
          PROVE  RefundsKept /\ RefundFor(0)'
      BY <2>1, NewRefund, LengthsNat, KeptEntries
      DEF TypeInv, TypeOK, LedgerTypeOK, RefundFor
    <2>2. PendingRefunds(0) # {} => RefundFor(0)
      BY DEF PendingRefunds, RefundFor
    <2>3. PayoutsKept /\ RefundsKept
      BY <1>4, <2>1 DEF CancelOrderClaim
    <2>4. Moves(r) /\ pc'[r] \in {"cancel_refund", "idle"}
      BY <1>4, GotoRowMoves, ReturnMoves DEF CancelOrderClaim
    <2>5. pc'[r] = "cancel_refund" => RefundFor(0)'
      BY <1>4, <2>1, <2>2, <2>3, ReturnMoves DEF CancelOrderClaim, RefundsKept
    <2>6. RequestIntent(r)'
      BY <2>4, <2>5 DEF RequestIntent, ResolveLabels
    <2>7. /\ UNCHANGED <<transfers, refundKeys, disputes>>
          /\ (status' = "completed" => status = "completed")
      BY <1>4 DEF CancelOrderClaim
    <2> QED BY <2>3, <2>4, <2>6, <2>7, IntentStep, LengthsNat DEF IntentInv, RefundsKept
  <1>5. CASE CancelOrderRefund(r)
    <2>1. RefundFor(0)
      BY <1>5 DEF CancelOrderRefund, At, IntentInv, RequestIntent
    <2>2. RequestIntent(r)'
      BY <1>5, GotoMoves DEF CancelOrderRefund, RequestIntent, ResolveLabels
    <2>3. \A k \in refundKeys' \ refundKeys : RefundFor(k[1])
      BY <1>5, <2>1 DEF CancelOrderRefund, RefundPI
    <2>4. UNCHANGED <<transfers, disputes, status, payouts, refunds>>
      BY <1>5 DEF CancelOrderRefund, RefundPI
    <2> QED BY <1>5, <2>2, <2>3, <2>4, GotoMoves, IntentStep, LengthsNat
            DEF CancelOrderRefund, IntentInv, RefundsKept
  <1>6. CASE CancelOrderReverse(r)
    BY <1>6, GotoMoves, QuietStep
    DEF CancelOrderReverse, MoneyLabels, ResolveLabels
  <1>7. CASE CancelOrderFinalize(r)
    <2>1. RefundsKept
      BY <1>7, RefundFinalized, LengthsNat, KeptEntries
      DEF CancelOrderFinalize, TypeInv, TypeOK, LedgerTypeOK, RequestTypeOK
    <2> QED BY <1>7, <2>1, ReturnMoves, QuietStep
            DEF CancelOrderFinalize, MoneyLabels, ResolveLabels
  <1> QED
    BY <1>1, <1>2, <1>3, <1>4, <1>5, <1>6, <1>7 DEF CancelNext

\* The webhook only writes statuses.
LEMMA EventIntent ==
  ASSUME NoMix, TypeInv, IntentInv, NEW r \in Requests, EventNext(r)
  PROVE  IntentInv'
  <1> USE UnchangedKept DEF orderVars, ledgerVars, milestoneVars, stripeVars, moneyVars
  <1>1. ASSUME NEW type \in EventTypes, NEW s \in Sources, ReceiveEvent(r, type, s)
        PROVE  IntentInv'
    <2>1. Moves(r) /\ pc'[r] = "event_handle"
      BY <1>1 DEF ReceiveEvent, Moves, TypeInv, TypeOK, RequestTypeOK
    <2> QED BY <1>1, <2>1, QuietStep DEF ReceiveEvent, MoneyLabels, ResolveLabels
  <1>2. CASE HandlePaymentEvent(r)
    BY <1>2, GotoMoves, QuietStep
    DEF HandlePaymentEvent, MoneyLabels, ResolveLabels
  <1>3. CASE PaymentEventWrite(r)
    BY <1>3, GotoMoves, QuietStep
    DEF PaymentEventWrite, MoneyLabels, ResolveLabels
  <1>4. CASE HandleCapturable(r)
    BY <1>4, GotoMoves, QuietStep
    DEF HandleCapturable, MoneyLabels, ResolveLabels
  <1>5. CASE HandleTransferFailed(r)
    <2>1. PayoutsKept
      BY <1>5, PayoutsFailed, LengthsNat, KeptRows
      DEF HandleTransferFailed, TypeInv, TypeOK, LedgerTypeOK
    <2> QED BY <1>5, <2>1, GotoMoves, QuietStep
            DEF HandleTransferFailed, MoneyLabels, ResolveLabels
  <1>6. CASE FinalizeEvent(r)
    BY <1>6, ReturnMoves, QuietStep
    DEF FinalizeEvent, MoneyLabels, ResolveLabels
  <1> QED
    BY <1>1, <1>2, <1>3, <1>4, <1>5, <1>6 DEF EventNext

\* A dispute is refunded after its claim, or an earlier one, recorded the refund.
LEMMA DisputeIntent ==
  ASSUME NoMix, TypeInv, IntentInv, NEW r \in Requests, DisputeNext(r)
  PROVE  IntentInv'
  <1> USE UnchangedKept DEF orderVars, ledgerVars, milestoneVars, stripeVars, moneyVars
  <1>1. CASE OpenDispute(r)
    BY <1>1, EnterMoves, QuietStep
    DEF OpenDispute, MoneyLabels, ResolveLabels
  <1>2. CASE OpenDisputeWrite(r)
    <2> DEFINE opened == [status |-> "open", resolution |-> "none"]
    <2>1. disputes' = Append(disputes, opened) /\ opened \in DisputeRow
      BY <1>2 DEF OpenDisputeWrite, DisputeRow
    <2>2. /\ \A d \in 1..Len(disputes) : disputes'[d] = disputes[d]
          /\ Len(disputes') = Len(disputes) + 1
          /\ disputes'[Len(disputes) + 1].resolution = "none"
      BY <2>1, AppendProperties DEF TypeInv, TypeOK, LedgerTypeOK
    <2>3. UNCHANGED refunds
      BY <1>2 DEF OpenDisputeWrite
    <2>4. HasPaymentRef => \A d \in 1..Len(disputes') :
            disputes'[d].resolution \in {"refund_buyer", "split"} => RefundFor(d)'
      BY <2>2, <2>3, LengthsNat DEF IntentInv, RefundFor
    <2>5. Moves(r) /\ RequestIntent(r)'
      BY <1>2, ReturnMoves DEF OpenDisputeWrite, RequestIntent, ResolveLabels
    <2> QED BY <1>2, <2>4, <2>5, IntentStep DEF OpenDisputeWrite
  <1>3. CASE RespondToDispute(r)
    <2>1. Moves(r) /\ pc'[r] = "respond_write"
      BY <1>3 DEF RespondToDispute, Moves, TypeInv, TypeOK, RequestTypeOK
    <2> QED BY <1>3, <2>1, QuietStep DEF RespondToDispute, MoneyLabels, ResolveLabels
  <1>4. CASE RespondToDisputeWrite(r)
    <2>1. /\ disputes' = [disputes EXCEPT ![dispute[r]].status = "responded"]
          /\ UNCHANGED refunds
      BY <1>4 DEF RespondToDisputeWrite
    <2>2. /\ disputes \in [1..Len(disputes) -> DisputeRow] /\ dispute[r] \in Nat
          /\ Len(disputes') = Len(disputes)
      BY <1>4, <2>1, DisputeUpdated, LenProperties
      DEF TypeInv, TypeOK, LedgerTypeOK, RequestTypeOK, Resolutions
    <2>3. \A d \in 1..Len(disputes) : disputes'[d].resolution = disputes[d].resolution
      BY <2>1, <2>2 DEF DisputeRow
    <2>4. HasPaymentRef => \A d \in 1..Len(disputes') :
            disputes'[d].resolution \in {"refund_buyer", "split"} => RefundFor(d)'
      BY <2>1, <2>2, <2>3 DEF IntentInv, RefundFor
    <2>5. Moves(r) /\ RequestIntent(r)'
      BY <1>4, ReturnMoves DEF RespondToDisputeWrite, RequestIntent, ResolveLabels
    <2> QED BY <1>4, <2>4, <2>5, IntentStep DEF RespondToDisputeWrite
  <1>5. ASSUME NEW resolution \in Resolutions, ResolveDispute(r, resolution)
        PROVE  IntentInv'
    <2>1. /\ Moves(r) /\ pc'[r] = "resolve_claim" /\ dispute'[r] = Len(disputes)
          /\ "resolveDispute" \in Kinds /\ UNCHANGED disputes
      BY <1>5 DEF ResolveDispute, Arrives, Latest, Moves, TypeInv, TypeOK, RequestTypeOK
    <2>2. Len(disputes) \in 1..Len(disputes)
      BY <1>5, EmptySeq, LengthsNat DEF ResolveDispute, TypeInv, TypeOK, LedgerTypeOK
    <2>3. RequestIntent(r)'
      BY <2>1, <2>2 DEF RequestIntent
    <2> QED BY <1>5, <2>1, <2>3, IntentStep, LengthsNat
        DEF ResolveDispute, IntentInv, RefundsKept
  <1>6. CASE ResolveDisputeClaim(r)
    <2>1. PICK d \in 1..Len(disputes) :
             /\ d = dispute[r] /\ d \in Nat /\ seen[r] \in Resolutions
             /\ "resolveDispute" \in Kinds
      BY <1>6
      DEF ResolveDisputeClaim, At, TypeInv, TypeOK, RequestTypeOK, FieldsOK, ResolveLabels,
          IntentInv, RequestIntent
    <2>2. ASSUME refunds' = Append(refunds, [for |-> d, stage |-> "pending"])
          PROVE  RefundsKept /\ RefundFor(d)'
      <3>1. /\ Len(refunds') = Len(refunds) + 1 /\ refunds'[Len(refunds) + 1].for = d
            /\ \A j \in 1..Len(refunds) : refunds'[j].for = refunds[j].for
        BY <2>1, <2>2, NewRefund DEF TypeInv, TypeOK, LedgerTypeOK
      <3> QED BY <3>1, LengthsNat, KeptEntries DEF RefundFor
    <2>3. RefundsKept /\ UNCHANGED <<status, payouts, transfers, refundKeys>>
      BY <1>6, <2>1, <2>2 DEF ResolveDisputeClaim
    <2>4. CASE disputes[d].status \in {"open", "responded"}
      <3>1. /\ disputes' = [disputes EXCEPT ![d].status = "resolving",
                                            ![d].resolution = seen[r]]
            /\ HasPaymentRef /\ seen[r] # "release_seller" => RefundFor(d)'
            /\ Moves(r) /\ pc'[r] = "resolve_money"
            /\ seen'[r] = seen[r] /\ dispute'[r] = d
        BY <1>6, <2>1, <2>2, <2>4, GotoRowMoves DEF ResolveDisputeClaim
      <3>2. /\ Len(disputes') = Len(disputes)
            /\ disputes'[d].resolution = seen[r]
            /\ \A e \in 1..Len(disputes) : e # d => disputes'[e] = disputes[e]
        BY <2>1, <3>1, ResolutionWritten DEF TypeInv, TypeOK, LedgerTypeOK
      <3>3. HasPaymentRef => \A e \in 1..Len(disputes') :
              disputes'[e].resolution \in {"refund_buyer", "split"} => RefundFor(e)'
        BY <2>3, <3>1, <3>2 DEF IntentInv, RefundsKept
      <3>4. RequestIntent(r)'
        BY <2>1, <3>1, <3>2 DEF RequestIntent
      <3> QED BY <2>3, <3>1, <3>2, <3>3, <3>4, IntentStep, LengthsNat
    <2>5. CASE disputes[d].status = "resolving" /\ disputes[d].resolution = seen[r]
      <3>1. /\ UNCHANGED <<disputes, refunds>> /\ Moves(r) /\ pc'[r] = "resolve_money"
            /\ seen'[r] = seen[r] /\ dispute'[r] = d
        BY <1>6, <2>1, <2>5, GotoRowMoves DEF ResolveDisputeClaim
      <3>2. HasPaymentRef /\ seen[r] # "release_seller" => RefundFor(d)
        BY <2>1, <2>5 DEF IntentInv, Resolutions
      <3>3. RequestIntent(r)'
        BY <2>1, <2>3, <3>1, <3>2 DEF RequestIntent, RefundsKept
      <3> QED BY <2>3, <3>1, <3>3, IntentStep, LengthsNat DEF IntentInv, RefundsKept
    <2>6. CASE UNCHANGED disputes /\ Return(r)
      BY <1>6, <2>3, <2>6, ReturnMoves, QuietStep
      DEF ResolveDisputeClaim, MoneyLabels, ResolveLabels
    <2> QED BY <1>6, <2>1, <2>4, <2>5, <2>6 DEF ResolveDisputeClaim
  <1>7. CASE ResolveDisputeMoney(r)
    <2>1. /\ HasPaymentRef /\ seen[r] # "release_seller" => RefundFor(dispute[r])
          /\ dispute[r] \in 1..Len(disputes) /\ "resolveDispute" \in Kinds
      BY <1>7 DEF ResolveDisputeMoney, At, IntentInv, RequestIntent, ResolveLabels
    <2>2. UNCHANGED <<status, payouts, refunds, disputes, transfers>>
      BY <1>7 DEF ResolveDisputeMoney, CapturePI, RefundPI
    <2>3. \A k \in refundKeys' \ refundKeys : RefundFor(k[1])
      BY <1>7, <2>1 DEF ResolveDisputeMoney, CapturePI, RefundPI
    <2>4. /\ Moves(r)
          /\ pc'[r] = "resolve_finalize"
          /\ seen'[r] = seen[r]
          /\ dispute'[r] = dispute[r]
      BY <1>7, GotoMoves DEF ResolveDisputeMoney
    <2>5. RequestIntent(r)'
      BY <2>1, <2>2, <2>4 DEF RequestIntent, RefundsKept
    <2> QED BY <2>2, <2>3, <2>4, <2>5, IntentStep, LengthsNat DEF IntentInv, RefundsKept
  <1>8. CASE ResolveDisputeFinalize(r)
    <2>1. PICK d \in 1..Len(disputes) :
             /\ d = dispute[r] /\ d \in Nat /\ seen[r] \in Resolutions
             /\ row[r] \in Nat /\ "resolveDispute" \in Kinds
             /\ HasPaymentRef /\ seen[r] # "release_seller" => RefundFor(d)
      BY <1>8
      DEF ResolveDisputeFinalize, At, TypeInv, TypeOK, RequestTypeOK, FieldsOK,
          ResolveLabels, IntentInv, RequestIntent
    <2>2. RefundsKept
      BY <1>8, <2>1, RefundFinalized, LengthsNat, KeptEntries
      DEF ResolveDisputeFinalize, TypeInv, TypeOK, LedgerTypeOK
    <2>3. /\ Len(disputes') = Len(disputes)
          /\ disputes'[d].resolution = seen[r]
          /\ \A e \in 1..Len(disputes) : e # d => disputes'[e] = disputes[e]
      BY <1>8, <2>1, ResolutionWritten
      DEF ResolveDisputeFinalize, TypeInv, TypeOK, LedgerTypeOK
    <2>4. HasPaymentRef => \A e \in 1..Len(disputes') :
            disputes'[e].resolution \in {"refund_buyer", "split"} => RefundFor(e)'
      BY <2>1, <2>2, <2>3 DEF IntentInv, RefundsKept
    <2>5. Moves(r) /\ RequestIntent(r)'
      BY <1>8, ReturnMoves DEF ResolveDisputeFinalize, RequestIntent, ResolveLabels
    <2>6. UNCHANGED <<payouts, transfers, refundKeys>>
      BY <1>8 DEF ResolveDisputeFinalize
    <2> QED BY <2>1, <2>2, <2>3, <2>4, <2>5, <2>6, IntentStep, LengthsNat
  <1> QED
    BY <1>1, <1>2, <1>3, <1>4, <1>5, <1>6, <1>7, <1>8 DEF DisputeNext

\* A milestone is paid after its release, or an earlier one, recorded the payout.
LEMMA MilestoneIntent ==
  ASSUME NoMix, TypeInv, IntentInv, NEW r \in Requests, MilestoneNext(r)
  PROVE  IntentInv'
  <1> USE UnchangedKept DEF orderVars, ledgerVars, milestoneVars, stripeVars, moneyVars
  <1>1. CASE CreateMilestones(r)
    <2>1. Moves(r) /\ RequestIntent(r)' /\ UNCHANGED <<status, payouts, refunds>>
      <3>1. CASE Enter(r, "milestones_cancel", "none")
        BY <1>1, <3>1, EnterMoves DEF CreateMilestones, RequestIntent, ResolveLabels
      <3>2. CASE UNCHANGED requestVars
        BY <1>1, <3>2
        DEF CreateMilestones, requestVars, Moves, IntentInv, RequestIntent, PayoutFor, RefundFor
      <3> QED BY <1>1, <3>1, <3>2 DEF CreateMilestones
    <2> QED BY <1>1, <2>1, IntentStep, LengthsNat
        DEF CreateMilestones, IntentInv, RefundsKept
  <1>2. CASE CreateMilestonesCancelPI(r)
    BY <1>2, GotoMoves, QuietStep
    DEF CreateMilestonesCancelPI, MoneyLabels, ResolveLabels, CancelPI
  <1>3. CASE CreateMilestonesInsert(r)
    <2>1. Moves(r) /\ pc'[r] \notin MoneyLabels
      <3>1. CASE Return(r)
        BY <3>1, ReturnMoves DEF MoneyLabels, ResolveLabels
      <3>2. CASE UNCHANGED requestVars
        BY <1>3, <3>2
        DEF CreateMilestonesInsert, At, requestVars, Moves, MoneyLabels, ResolveLabels
      <3> QED BY <1>3, <3>1, <3>2 DEF CreateMilestonesInsert
    <2> QED BY <1>3, <2>1, QuietStep DEF CreateMilestonesInsert
  <1>4. ASSUME NEW m \in Milestones, MarkMilestoneComplete(r, m)
        PROVE  IntentInv'
    <2>1. Moves(r) /\ pc'[r] \notin MoneyLabels
      BY <1>4
      DEF MarkMilestoneComplete, Arrives, At, requestVars, Moves, MoneyLabels, ResolveLabels
    <2> QED BY <1>4, <2>1, QuietStep DEF MarkMilestoneComplete
  <1>5. ASSUME NEW m \in Milestones, ReleaseMilestone(r, m)
        PROVE  IntentInv'
    <2>1. Moves(r) /\ pc'[r] \notin MoneyLabels
      BY <1>5
      DEF ReleaseMilestone, Moves, MoneyLabels, ResolveLabels, TypeInv, TypeOK, RequestTypeOK
    <2> QED BY <1>5, <2>1, QuietStep DEF ReleaseMilestone
  <1>6. CASE ReleaseMilestoneIntent(r)
    <2>1. PICK m \in Sources : m = item[r]
      BY <1>6 DEF ReleaseMilestoneIntent, At, TypeInv, FieldsOK, ReleaseLabels, Sources
    <2>2. ASSUME payouts' = Append(payouts, [for |-> m, stage |-> "pending",
                                             transfer |-> "none"])
          PROVE  PayoutsKept /\ PayoutFor(m)'
      <3>1. /\ Len(payouts') = Len(payouts) + 1 /\ payouts'[Len(payouts) + 1].for = m
            /\ \A j \in 1..Len(payouts) : payouts'[j].for = payouts[j].for
        BY <2>1, <2>2, NewPayout DEF TypeInv, TypeOK, LedgerTypeOK
      <3> QED BY <3>1, LengthsNat, KeptRows DEF PayoutFor
    <2>3. PayoutsKept /\ UNCHANGED <<status, refunds, disputes, transfers, refundKeys>>
      BY <1>6, <2>1, <2>2 DEF ReleaseMilestoneIntent
    <2>4. \/ /\ Moves(r) /\ pc'[r] = "release_capture" /\ item'[r] = m
             /\ PayoutFor(m)'
          \/ Moves(r) /\ pc'[r] = "idle"
      BY <1>6, <2>1, <2>2, GotoRowMoves, ReturnMoves
      DEF ReleaseMilestoneIntent, PendingPayouts, PayoutFor
    <2>5. RequestIntent(r)'
      BY <2>4 DEF RequestIntent, ResolveLabels
    <2> QED BY <2>3, <2>4, <2>5, IntentStep, LengthsNat DEF IntentInv, RefundsKept
  <1>7. CASE ReleaseMilestoneCapture(r)
    <2>1. UNCHANGED <<status, payouts, refunds, disputes, transfers, refundKeys>>
      BY <1>7 DEF ReleaseMilestoneCapture
    <2>2. Moves(r) /\ RequestIntent(r)'
      BY <1>7, <2>1, GotoMoves
      DEF ReleaseMilestoneCapture, At, IntentInv, RequestIntent, PayoutFor, ResolveLabels
    <2> QED BY <2>1, <2>2, IntentStep, LengthsNat DEF IntentInv, RefundsKept
  <1>8. CASE ReleaseMilestoneTransfer(r)
    <2>1. UNCHANGED <<status, payouts, refunds, disputes, refundKeys>>
      BY <1>8 DEF ReleaseMilestoneTransfer, Transfer
    <2>2. \A s \in transfers' \ transfers : PayoutFor(s)
      BY <1>8 DEF ReleaseMilestoneTransfer, Transfer, At, IntentInv, RequestIntent
    <2>3. Moves(r) /\ RequestIntent(r)'
      BY <1>8, GotoMoves DEF ReleaseMilestoneTransfer, RequestIntent, ResolveLabels
    <2> QED BY <2>1, <2>2, <2>3, IntentStep, LengthsNat DEF IntentInv, RefundsKept
  <1>9. CASE ReleaseMilestoneFinalize(r)
    <2>1. item[r] \in Sources \union {"none"} /\ row[r] \in Nat
      BY DEF TypeInv, TypeOK, RequestTypeOK
    <2>2. PayoutsKept
      BY <1>9, <2>1, PayoutFinalized, LengthsNat, KeptRows
      DEF ReleaseMilestoneFinalize, TypeInv, TypeOK, LedgerTypeOK
    <2> QED BY <1>9, <2>2, ReturnMoves, QuietStep
            DEF ReleaseMilestoneFinalize, MoneyLabels, ResolveLabels
  <1> QED
    BY <1>1, <1>2, <1>3, <1>4, <1>5, <1>6, <1>7, <1>8, <1>9 DEF MilestoneNext

\* Steps that change nothing the intent is about.
LEMMA IdleIntent ==
  ASSUME IntentInv,
         UNCHANGED <<status, payouts, refunds, disputes, transfers, refundKeys, requestVars>>
  PROVE  IntentInv'
  BY DEF IntentInv, RequestIntent, PayoutFor, RefundFor, requestVars

\* No money and no request before checkout.
LEMMA IntentInit == Init => IntentInv
  BY DEF Init, IntentInv, RequestIntent, ResolveLabels

\* Every step of the system keeps the intents.
LEMMA IntentNext ==
  ASSUME NoMix, TypeInv, IntentInv, [Next]_vars
  PROVE  IntentInv'
  <1>1. ASSUME NEW r \in Requests, RequestNext(r)
        PROVE  IntentInv'
    <2>1. CASE Abandon(r)
      BY <2>1, ReturnMoves, QuietStep, UnchangedKept
      DEF Abandon, MoneyLabels, ResolveLabels, orderVars, ledgerVars, stripeVars, moneyVars
    <2> QED
      BY <1>1, <2>1, CreateIntent, PaymentIntent, ConfirmIntent, CompleteIntent,
         CancelIntent, EventIntent, DisputeIntent, MilestoneIntent
      DEF RequestNext, OrderNext
  <1>2. CASE StripeNext
    <2>1. UNCHANGED <<status, payouts, refunds, disputes, transfers, refundKeys, requestVars>>
      BY <1>2
      DEF StripeNext, AuthorizePayment, DeclinePayment, LapseAuthorization, ChangeConnect,
          MilestonePayment, FailTransfer, orderVars, ledgerVars, milestoneVars, stripeVars,
          moneyVars, requestVars
    <2> QED BY <2>1, IdleIntent
  <1>3. CASE UNCHANGED vars
    BY <1>3, IdleIntent
    DEF vars, orderVars, ledgerVars, stripeVars, moneyVars, requestVars
  <1> QED
    BY <1>1, <1>2, <1>3 DEF Next

\* No money moves without a durable trace, for any number of requests and any mix of
\* kinds, provided milestones and dispute resolutions do not meet on the order.
THEOREM IntentBeforeMoneyTheorem ==
  ASSUME NoMix
  PROVE  Spec => []IntentBeforeMoney
  <1>1. IntentInv => IntentBeforeMoney
    BY DEF IntentInv, IntentBeforeMoney, PayoutFor, RefundFor
  <1>2. TypeInv /\ IntentInv /\ [Next]_vars => IntentInv'
    BY IntentNext
  <1> QED BY <1>1, <1>2, IntentInit, TypeInvariant, PTL DEF Spec

-----------------------------------------------------------------------------
(* Refund entries and disputes.  A request that settles a refund holds the     *)
(* entry of what it refunds; one that finalizes has paid.  While nobody can    *)
(* answer a dispute again, a claimed dispute keeps its resolution, and only    *)
(* the claim of a refunding resolution makes an entry: a response reopens the  *)
(* dispute, and the operator who claims it next finalizes the entry of the     *)
(* resolution before.                                                          *)

NoAnswers == "respondToDispute" \notin Kinds
NoReopening == NoAnswers \/ "resolveDispute" \notin Kinds

Paid(d, resolution) == \/ resolution = "release_seller" /\ pi = "succeeded"
                       \/ <<d, resolution>> \in refundKeys

Claimed(d, resolutions) ==
  /\ d \in 1..Len(disputes) /\ disputes[d].status \in {"resolving", "resolved"}
  /\ disputes[d].resolution \in resolutions

\* Labels at which a request carries an obligation of this kind.
RefundBound == {"cancel_claim", "respond_write"} \union RefundLabels \union ResolveLabels

RefundRequest(r) ==
  /\ pc[r] \in {"cancel_claim"} \union RefundLabels => HasPaymentRef
  /\ pc[r] \in RefundLabels => row[r] \in 1..Len(refunds) /\ refunds[row[r]].for = 0
  /\ pc[r] \in {"cancel_reverse", "cancel_finalize"} => <<0, "refund_buyer">> \in refundKeys
  /\ pc[r] = "respond_write" => ~NoAnswers
  /\ pc[r] \in ResolveLabels => "resolveDispute" \in Kinds /\ dispute[r] \in 1..Len(disputes)
  /\ pc[r] \in {"resolve_money", "resolve_finalize"} =>
       /\ row[r] # 0 => row[r] \in 1..Len(refunds) /\ refunds[row[r]].for = dispute[r]
       /\ NoAnswers => Claimed(dispute[r], {seen[r]})
  /\ pc[r] = "resolve_finalize" /\ HasPaymentRef => Paid(dispute[r], seen[r])

RefundEntry(i) ==
  /\ HasPaymentRef
  /\ refunds[i].for # 0 =>
       /\ "resolveDispute" \in Kinds
       /\ NoAnswers => Claimed(refunds[i].for, {"refund_buyer", "split"})
  /\ NoReopening /\ refunds[i].stage = "finalized" =>
       \E k \in refundKeys : k[1] = refunds[i].for

RefundInv ==
  /\ \A r \in Requests : RefundRequest(r)
  /\ \A i \in 1..Len(refunds) : RefundEntry(i)
  /\ \A d \in 1..Len(disputes) : NoAnswers => disputes[d].status # "responded"
  /\ ResolutionPaid

\* Claims outlast a step.
ClaimsKept ==
  /\ Len(disputes') \in Nat /\ Len(disputes') >= Len(disputes)
  /\ NoAnswers => \A d \in 1..Len(disputes) :
       disputes[d].status \in {"resolving", "resolved"} =>
         /\ disputes'[d].status \in {"resolving", "resolved"}
         /\ disputes'[d].resolution = disputes[d].resolution

\* What a step of r has to show for the other requests.
LEMMA RefundStep ==
  ASSUME TypeInv, RefundInv, NEW r \in Requests, Moves(r), RefundRequest(r)', Kept,
         refundKeys \subseteq refundKeys', ClaimsKept,
         Len(refunds') \in Nat, Len(refunds') >= Len(refunds),
         \A j \in 1..Len(refunds) : refunds'[j].for = refunds[j].for,
         \A i \in 1..Len(refunds') : RefundEntry(i)',
         \A d \in 1..Len(disputes') : NoAnswers => disputes'[d].status # "responded",
         ResolutionPaid'
  PROVE  RefundInv'
  <1>1. ASSUME NEW q \in Requests
        PROVE  RefundRequest(q)'
    <2>1. CASE q = r
      BY <2>1
    <2>2. CASE q # r
      <3>1. /\ pc'[q] = pc[q] /\ row'[q] = row[q] /\ seen'[q] = seen[q]
            /\ dispute'[q] = dispute[q]
        BY <2>2 DEF Moves
      <3>2. RefundRequest(q)
        BY DEF RefundInv
      <3>3. /\ 1..Len(disputes) \subseteq 1..Len(disputes')
            /\ 1..Len(refunds) \subseteq 1..Len(refunds')
        BY LengthsNat DEF ClaimsKept
      <3>4. NoAnswers /\ Claimed(dispute[q], {seen[q]}) => Claimed(dispute[q], {seen[q]})'
        BY <3>1, <3>3 DEF Claimed, ClaimsKept
      <3>5. Paid(dispute[q], seen[q]) => Paid(dispute[q], seen[q])'
        BY <3>1 DEF Paid, Kept
      <3> QED BY <3>1, <3>2, <3>3, <3>4, <3>5 DEF RefundRequest, Claimed, Paid
    <2> QED BY <2>1, <2>2
  <1> QED BY <1>1 DEF RefundInv

\* A step that writes no entry and no dispute keeps what is on record of them.
LEMMA RefundSame ==
  ASSUME TypeInv, RefundInv, NEW r \in Requests, Moves(r), RefundRequest(r)', Kept,
         refundKeys \subseteq refundKeys', UNCHANGED <<refunds, disputes>>
  PROVE  RefundInv'
  <1>1. \A i \in 1..Len(refunds') : RefundEntry(i)'
    BY DEF RefundInv, RefundEntry, Claimed
  <1>2. ResolutionPaid'
    BY DEF RefundInv, ResolutionPaid, Kept
  <1>3. ClaimsKept
    BY LengthsNat DEF ClaimsKept
  <1> QED BY <1>1, <1>2, <1>3, RefundStep, LengthsNat DEF RefundInv

\* Most steps leave r without such an obligation.
LEMMA RefundQuiet ==
  ASSUME TypeInv, RefundInv, NEW r \in Requests, Moves(r), pc'[r] \notin RefundBound, Kept,
         UNCHANGED <<refunds, disputes, refundKeys>>
  PROVE  RefundInv'
  <1>1. RefundRequest(r)'
    BY DEF RefundRequest, RefundBound, RefundLabels, ResolveLabels
  <1> QED BY <1>1, RefundSame

\* cancelOrder records the refund, executes it, and only then finalizes the entry.
LEMMA CancelRefunds ==
  ASSUME TypeInv, RefundInv, NEW r \in Requests, CancelNext(r)
  PROVE  RefundInv'
  <1> USE DEF orderVars, ledgerVars, milestoneVars, stripeVars, moneyVars
  <1>0. Moves(r) /\ Kept /\ UNCHANGED disputes
    BY CancelFrame
  <1>1. CASE CancelOrder(r)
    <2>1. /\ UNCHANGED <<refunds, refundKeys>> /\ pc'[r] \in {"cancel_claim", "cancel_flip"}
          /\ pc'[r] = "cancel_claim" => HasPaymentRef
      BY <1>1, EnterMoves DEF CancelOrder
    <2>2. RefundRequest(r)'
      BY <2>1 DEF RefundRequest, RefundLabels, ResolveLabels
    <2> QED BY <1>0, <2>1, <2>2, RefundSame
  <1>2. CASE CancelOrderFlip(r)
    BY <1>0, <1>2, GotoMoves, ReturnMoves, RefundQuiet
    DEF CancelOrderFlip, RefundBound, RefundLabels, ResolveLabels
  <1>3. CASE CancelOrderPI(r)
    BY <1>0, <1>3, ReturnMoves, RefundQuiet
    DEF CancelOrderPI, CancelPI, RefundBound, RefundLabels, ResolveLabels
  <1>4. CASE CancelOrderClaim(r)
    <2>0. HasPaymentRef /\ UNCHANGED refundKeys
      BY <1>4 DEF CancelOrderClaim, At, RefundInv, RefundRequest
    <2>1. CASE refunds' = Append(refunds, [for |-> 0, stage |-> "pending"])
               /\ GotoRow(r, "cancel_refund", Len(refunds) + 1)
      <3>1. /\ Len(refunds') = Len(refunds) + 1 /\ refunds'[Len(refunds) + 1].for = 0
            /\ refunds'[Len(refunds) + 1].stage = "pending"
            /\ \A j \in 1..Len(refunds) : refunds'[j] = refunds[j]
        BY <2>1, NewRefund DEF TypeInv, TypeOK, LedgerTypeOK
      <3>2. RefundRequest(r)'
        BY <2>0, <2>1, <3>1, GotoRowMoves, LengthsNat
        DEF RefundRequest, RefundLabels, ResolveLabels
      <3>3. \A i \in 1..Len(refunds') : RefundEntry(i)'
        BY <1>0, <2>0, <3>1, LengthsNat DEF RefundInv, RefundEntry, Claimed
      <3>4. ResolutionPaid' /\ ClaimsKept
        BY <1>0, <2>0, LengthsNat DEF RefundInv, ResolutionPaid, Kept, ClaimsKept
      <3> QED BY <1>0, <2>0, <3>1, <3>2, <3>3, <3>4, RefundStep, LengthsNat DEF RefundInv
    <2>2. CASE UNCHANGED refunds /\ \E i \in PendingRefunds(0) : GotoRow(r, "cancel_refund", i)
      <3>1. RefundRequest(r)'
        BY <2>0, <2>2, GotoRowMoves
        DEF RefundRequest, RefundLabels, ResolveLabels, PendingRefunds
      <3> QED BY <1>0, <2>0, <2>2, <3>1, RefundSame
    <2>3. CASE UNCHANGED refunds /\ Return(r)
      BY <1>0, <2>0, <2>3, ReturnMoves, RefundQuiet DEF RefundBound, RefundLabels, ResolveLabels
    <2> QED BY <1>4, <2>1, <2>2, <2>3 DEF CancelOrderClaim
  <1>5. CASE CancelOrderRefund(r)
    <2>1. /\ <<0, "refund_buyer">> \in refundKeys' /\ refundKeys \subseteq refundKeys'
          /\ UNCHANGED refunds
      BY <1>5 DEF CancelOrderRefund, RefundPI
    <2>2. HasPaymentRef /\ row[r] \in 1..Len(refunds) /\ refunds[row[r]].for = 0
      BY <1>5 DEF CancelOrderRefund, At, RefundInv, RefundRequest, RefundLabels
    <2>3. pc'[r] = "cancel_reverse" /\ row'[r] = row[r]
      BY <1>5, GotoMoves DEF CancelOrderRefund
    <2>4. RefundRequest(r)'
      BY <2>1, <2>2, <2>3 DEF RefundRequest, RefundLabels, ResolveLabels
    <2> QED BY <1>0, <2>1, <2>4, RefundSame
  <1>6. CASE CancelOrderReverse(r)
    <2>1. UNCHANGED <<refunds, refundKeys>>
      BY <1>6 DEF CancelOrderReverse
    <2>2. /\ HasPaymentRef /\ row[r] \in 1..Len(refunds) /\ refunds[row[r]].for = 0
          /\ <<0, "refund_buyer">> \in refundKeys
      BY <1>6 DEF CancelOrderReverse, At, RefundInv, RefundRequest, RefundLabels
    <2>3. pc'[r] = "cancel_finalize" /\ row'[r] = row[r]
      BY <1>6, GotoMoves DEF CancelOrderReverse
    <2>4. RefundRequest(r)'
      BY <2>1, <2>2, <2>3 DEF RefundRequest, RefundLabels, ResolveLabels
    <2> QED BY <1>0, <2>1, <2>4, RefundSame
  <1>7. CASE CancelOrderFinalize(r)
    <2>1. /\ row[r] \in 1..Len(refunds) /\ row[r] \in Nat /\ refunds[row[r]].for = 0
          /\ <<0, "refund_buyer">> \in refundKeys /\ UNCHANGED refundKeys
      BY <1>7
      DEF CancelOrderFinalize, At, RefundInv, RefundRequest, RefundLabels, TypeInv, TypeOK,
          RequestTypeOK
    <2>2. /\ Len(refunds') = Len(refunds)
          /\ \A j \in 1..Len(refunds) : refunds'[j].for = refunds[j].for
          /\ \A j \in 1..Len(refunds) : j # row[r] => refunds'[j] = refunds[j]
      BY <1>7, <2>1, RefundFinalized DEF CancelOrderFinalize, TypeInv, TypeOK, LedgerTypeOK
    <2>3. RefundRequest(r)'
      BY <1>7, ReturnMoves DEF CancelOrderFinalize, RefundRequest, RefundLabels, ResolveLabels
    <2>4. \A i \in 1..Len(refunds') : RefundEntry(i)'
      <3> SUFFICES ASSUME NEW i \in 1..Len(refunds) PROVE RefundEntry(i)'
        BY <2>2
      <3>1. RefundEntry(i)
        BY DEF RefundInv
      <3>2. CASE i # row[r]
        BY <1>0, <2>1, <2>2, <3>1, <3>2 DEF RefundEntry, Claimed
      <3>3. CASE i = row[r]
        <4>1. refunds'[i].for = 0 /\ \E k \in refundKeys' : k[1] = 0
          BY <2>1, <2>2, <3>3
        <4> QED BY <3>1, <4>1 DEF RefundEntry
      <3> QED BY <3>2, <3>3
    <2>5. ResolutionPaid' /\ ClaimsKept
      BY <1>0, <2>1, LengthsNat DEF RefundInv, ResolutionPaid, Kept, ClaimsKept
    <2> QED BY <1>0, <2>1, <2>2, <2>3, <2>4, <2>5, RefundStep, LengthsNat DEF RefundInv
  <1> QED
    BY <1>1, <1>2, <1>3, <1>4, <1>5, <1>6, <1>7 DEF CancelNext

\* A dispute's claim records its refund; its money moves before it is resolved.
LEMMA DisputeRefunds ==
  ASSUME TypeInv, RefundInv, NEW r \in Requests, DisputeNext(r)
  PROVE  RefundInv'
  <1> USE DEF orderVars, ledgerVars, milestoneVars, stripeVars, moneyVars
  <1>0. Moves(r) /\ Kept /\ disputes \in Seq(DisputeRow) /\ refunds \in Seq(RefundRow)
    BY DisputeFrame DEF TypeInv, TypeOK, LedgerTypeOK
  <1>1. CASE OpenDispute(r)
    BY <1>0, <1>1, EnterMoves, RefundQuiet
    DEF OpenDispute, RefundBound, RefundLabels, ResolveLabels
  <1>2. CASE OpenDisputeWrite(r)
    <2> DEFINE opened == [status |-> "open", resolution |-> "none"]
    <2>1. disputes' = Append(disputes, opened) /\ opened \in DisputeRow
          /\ UNCHANGED <<refunds, refundKeys>>
      BY <1>2 DEF OpenDisputeWrite, DisputeRow
    <2>2. /\ \A d \in 1..Len(disputes) : disputes'[d] = disputes[d]
          /\ Len(disputes') = Len(disputes) + 1
          /\ disputes'[Len(disputes) + 1].status = "open"
      BY <1>0, <2>1, AppendProperties
    <2>3. RefundRequest(r)'
      BY <1>2, ReturnMoves DEF OpenDisputeWrite, RefundRequest, RefundLabels, ResolveLabels
    <2>4. \A i \in 1..Len(refunds') : RefundEntry(i)'
      BY <2>1, <2>2, LengthsNat DEF RefundInv, RefundEntry, Claimed
    <2>5. ResolutionPaid' /\ ClaimsKept
      BY <1>0, <2>1, <2>2, LengthsNat DEF RefundInv, ResolutionPaid, Kept, ClaimsKept
    <2>6. \A d \in 1..Len(disputes') : NoAnswers => disputes'[d].status # "responded"
      BY <2>2, LengthsNat DEF RefundInv
    <2> QED BY <1>0, <2>1, <2>3, <2>4, <2>5, <2>6, RefundStep, LengthsNat
  <1>3. CASE RespondToDispute(r)
    <2>1. ~NoAnswers /\ pc'[r] = "respond_write" /\ UNCHANGED <<refunds, disputes, refundKeys>>
      BY <1>3 DEF RespondToDispute, Arrives, NoAnswers, TypeInv, TypeOK, RequestTypeOK
    <2>2. RefundRequest(r)'
      BY <2>1 DEF RefundRequest, RefundLabels, ResolveLabels
    <2> QED BY <1>0, <2>1, <2>2, RefundSame
  <1>4. CASE RespondToDisputeWrite(r)
    <2>1. /\ ~NoAnswers /\ UNCHANGED <<refunds, refundKeys>> /\ dispute[r] \in Nat
          /\ disputes' = [disputes EXCEPT ![dispute[r]].status = "responded"]
      BY <1>4
      DEF RespondToDisputeWrite, At, RefundInv, RefundRequest, TypeInv, TypeOK, RequestTypeOK
    <2>2. Len(disputes') = Len(disputes)
      BY <1>0, <2>1, DisputeUpdated DEF Resolutions
    <2>3. \A d \in 1..Len(disputes) :
            disputes'[d].status = "resolved" => disputes'[d] = disputes[d]
      BY <1>0, <2>1, LenProperties DEF DisputeRow
    <2>4. RefundRequest(r)'
      BY <1>4, ReturnMoves DEF RespondToDisputeWrite, RefundRequest, RefundLabels, ResolveLabels
    <2>5. \A i \in 1..Len(refunds') : RefundEntry(i)'
      BY <2>1 DEF RefundInv, RefundEntry
    <2>6. ResolutionPaid' /\ ClaimsKept
      BY <1>0, <2>1, <2>2, <2>3, LengthsNat DEF RefundInv, ResolutionPaid, Kept, ClaimsKept
    <2> QED BY <1>0, <2>1, <2>4, <2>5, <2>6, RefundStep, LengthsNat
  <1>5. ASSUME NEW resolution \in Resolutions, ResolveDispute(r, resolution)
        PROVE  RefundInv'
    <2>1. /\ pc'[r] = "resolve_claim" /\ dispute'[r] = Len(disputes)
          /\ "resolveDispute" \in Kinds /\ UNCHANGED <<refunds, disputes, refundKeys>>
      BY <1>5 DEF ResolveDispute, Arrives, Latest, TypeInv, TypeOK, RequestTypeOK
    <2>2. Len(disputes) \in 1..Len(disputes)
      BY <1>0, <1>5, EmptySeq, LengthsNat DEF ResolveDispute
    <2>3. RefundRequest(r)'
      BY <2>1, <2>2 DEF RefundRequest, RefundLabels, ResolveLabels
    <2> QED BY <1>0, <2>1, <2>3, RefundSame
  <1>6. CASE ResolveDisputeClaim(r)
    <2>0. /\ dispute[r] \in 1..Len(disputes) /\ seen[r] \in Resolutions
          /\ "resolveDispute" \in Kinds
      <3>1. pc[r] \in ResolveLabels
        BY <1>6 DEF ResolveDisputeClaim, At, ResolveLabels
      <3> QED BY <3>1 DEF TypeInv, FieldsOK, RefundInv, RefundRequest
    <2>1. PICK d \in 1..Len(disputes) :
             /\ d = dispute[r] /\ d \in Nat /\ d # 0 /\ seen[r] \in Resolutions
             /\ "resolveDispute" \in Kinds
      BY <2>0, LengthsNat
    <2>2. UNCHANGED refundKeys
      BY <1>6 DEF ResolveDisputeClaim
    <2>3. CASE disputes[d].status \in {"open", "responded"}
      <3>1. /\ disputes' = [disputes EXCEPT ![d].status = "resolving",
                                            ![d].resolution = seen[r]]
            /\ \/ /\ HasPaymentRef /\ seen[r] # "release_seller"
                  /\ refunds' = Append(refunds, [for |-> d, stage |-> "pending"])
                  /\ GotoRow(r, "resolve_money", Len(refunds) + 1)
               \/ GotoRow(r, "resolve_money", 0) /\ UNCHANGED refunds
        BY <1>6, <2>1, <2>3 DEF ResolveDisputeClaim
      <3>2. /\ Len(disputes') = Len(disputes)
            /\ disputes'[d].status = "resolving" /\ disputes'[d].resolution = seen[r]
            /\ \A e \in 1..Len(disputes) : e # d => disputes'[e] = disputes[e]
        BY <1>0, <2>1, <3>1, ResolutionWritten
      <3>3. /\ pc'[r] = "resolve_money" /\ dispute'[r] = d /\ seen'[r] = seen[r]
            /\ row'[r] \in {0, Len(refunds) + 1}
            /\ row'[r] # 0 => refunds' = Append(refunds, [for |-> d, stage |-> "pending"])
        BY <2>1, <3>1, GotoRowMoves
      <3>4. /\ Len(refunds') \in Nat /\ Len(refunds') >= Len(refunds)
            /\ \A j \in 1..Len(refunds) : refunds'[j] = refunds[j]
            /\ refunds' # refunds => /\ HasPaymentRef /\ seen[r] # "release_seller"
                                     /\ Len(refunds') = Len(refunds) + 1
                                     /\ refunds'[Len(refunds) + 1].for = d
                                     /\ refunds'[Len(refunds) + 1].stage = "pending"
        BY <1>0, <2>1, <3>1, NewRefund, LengthsNat
      <3>5. Claimed(d, {seen[r]})'
        BY <2>1, <3>2, <3>3 DEF Claimed
      <3>6. RefundRequest(r)'
        BY <1>0, <2>1, <3>2, <3>3, <3>4, <3>5, NewRefund, LengthsNat
        DEF RefundRequest, RefundLabels, ResolveLabels, Claimed
      <3>7. ClaimsKept
        BY <2>3, <3>2, LengthsNat DEF ClaimsKept
      <3>8. \A i \in 1..Len(refunds') : RefundEntry(i)'
        <4> SUFFICES ASSUME NEW i \in 1..Len(refunds') PROVE RefundEntry(i)'
          OBVIOUS
        <4>1. CASE i \in 1..Len(refunds)
          <5>1. RefundEntry(i) /\ refunds'[i] = refunds[i]
            BY <3>4, <4>1 DEF RefundInv
          <5>2. NoAnswers => refunds[i].for # d
            BY <2>1, <2>3, <5>1 DEF RefundEntry, RefundInv, Claimed
          <5> QED BY <2>2, <3>2, <5>1, <5>2 DEF RefundEntry, Claimed
        <4>2. CASE i \notin 1..Len(refunds)
          <5>1. i = Len(refunds) + 1 /\ refunds' # refunds
            BY <3>4, <4>2, LengthsNat
          <5>2. seen[r] \in {"refund_buyer", "split"}
            BY <2>1, <3>4, <5>1 DEF Resolutions
          <5> QED BY <2>1, <3>2, <3>4, <5>1, <5>2 DEF RefundEntry, Claimed
        <4> QED BY <4>1, <4>2
      <3>9. ResolutionPaid'
        BY <1>0, <2>2, <3>2 DEF RefundInv, ResolutionPaid, Kept
      <3>10. \A e \in 1..Len(disputes') : NoAnswers => disputes'[e].status # "responded"
        BY <3>2 DEF RefundInv
      <3> QED BY <1>0, <2>2, <3>4, <3>6, <3>7, <3>8, <3>9, <3>10, RefundStep
    <2>4. CASE /\ disputes[d].status = "resolving" /\ disputes[d].resolution = seen[r]
               /\ UNCHANGED <<disputes, refunds>>
      <3>1. \/ \E i \in PendingRefunds(d) : GotoRow(r, "resolve_money", i)
            \/ GotoRow(r, "resolve_money", 0)
        BY <1>6, <2>1, <2>4 DEF ResolveDisputeClaim
      <3>2. /\ pc'[r] = "resolve_money" /\ dispute'[r] = d /\ seen'[r] = seen[r]
            /\ row'[r] # 0 => row'[r] \in 1..Len(refunds) /\ refunds[row'[r]].for = d
        BY <2>1, <3>1, GotoRowMoves DEF PendingRefunds
      <3>3. RefundRequest(r)'
        BY <2>1, <2>4, <3>2 DEF RefundRequest, RefundLabels, ResolveLabels, Claimed
      <3> QED BY <1>0, <2>2, <2>4, <3>3, RefundSame
    <2>5. CASE UNCHANGED <<disputes, refunds>> /\ Return(r)
      BY <1>0, <2>2, <2>5, ReturnMoves, RefundQuiet DEF RefundBound, RefundLabels, ResolveLabels
    <2> QED BY <1>6, <2>1, <2>3, <2>4, <2>5 DEF ResolveDisputeClaim
  <1>7. CASE ResolveDisputeMoney(r)
    <2>1. /\ pc[r] = "resolve_money" /\ seen[r] \in Resolutions
          /\ pc'[r] = "resolve_finalize" /\ row'[r] = row[r] /\ seen'[r] = seen[r]
          /\ dispute'[r] = dispute[r] /\ UNCHANGED <<refunds, disputes>>
      BY <1>7, GotoMoves DEF ResolveDisputeMoney, At, TypeInv, FieldsOK, ResolveLabels
    <2>2. /\ refundKeys \subseteq refundKeys'
          /\ HasPaymentRef => Paid(dispute[r], seen[r])'
      BY <1>7, <2>1 DEF ResolveDisputeMoney, CapturePI, RefundPI, Paid
    <2>3. RefundRequest(r)
      BY DEF RefundInv
    <2>4. RefundRequest(r)'
      BY <2>1, <2>2, <2>3 DEF RefundRequest, RefundLabels, ResolveLabels, Claimed, Paid
    <2> QED BY <1>0, <2>1, <2>2, <2>4, RefundSame
  <1>8. CASE ResolveDisputeFinalize(r)
    <2>0. /\ dispute[r] \in 1..Len(disputes) /\ seen[r] \in Resolutions
          /\ row[r] \in Nat /\ "resolveDispute" \in Kinds
          /\ row[r] # 0 => row[r] \in 1..Len(refunds) /\ refunds[row[r]].for = dispute[r]
          /\ NoAnswers => Claimed(dispute[r], {seen[r]})
          /\ HasPaymentRef => Paid(dispute[r], seen[r])
      <3>1. pc[r] = "resolve_finalize" /\ pc[r] \in ResolveLabels
        BY <1>8 DEF ResolveDisputeFinalize, At, ResolveLabels
      <3>2. RefundRequest(r)
        BY DEF RefundInv
      <3>3. row[r] \in Nat /\ seen[r] \in Resolutions
        BY <3>1 DEF TypeInv, TypeOK, RequestTypeOK, FieldsOK
      <3> QED BY <3>1, <3>2, <3>3 DEF RefundRequest
    <2>1. PICK d \in 1..Len(disputes) :
             /\ d = dispute[r] /\ d \in Nat /\ d # 0 /\ seen[r] \in Resolutions
             /\ row[r] \in Nat /\ "resolveDispute" \in Kinds
             /\ row[r] # 0 => row[r] \in 1..Len(refunds) /\ refunds[row[r]].for = d
             /\ NoAnswers => Claimed(d, {seen[r]})
             /\ HasPaymentRef => Paid(d, seen[r])
      BY <2>0, LengthsNat
    <2>2. /\ Len(disputes') = Len(disputes)
          /\ disputes'[d].status = "resolved" /\ disputes'[d].resolution = seen[r]
          /\ \A e \in 1..Len(disputes) : e # d => disputes'[e] = disputes[e]
      BY <1>0, <1>8, <2>1, ResolutionWritten DEF ResolveDisputeFinalize
    <2>3. /\ Len(refunds') = Len(refunds)
          /\ \A j \in 1..Len(refunds) : refunds'[j].for = refunds[j].for
          /\ \A j \in 1..Len(refunds) : row[r] = 0 \/ j # row[r] => refunds'[j] = refunds[j]
      BY <1>0, <1>8, <2>1, RefundFinalized DEF ResolveDisputeFinalize
    <2>4. UNCHANGED refundKeys
      BY <1>8 DEF ResolveDisputeFinalize
    <2>5. ClaimsKept
      BY <2>1, <2>2, LengthsNat DEF ClaimsKept, Claimed
    <2>6. RefundRequest(r)'
      BY <1>8, ReturnMoves
      DEF ResolveDisputeFinalize, RefundRequest, RefundLabels, ResolveLabels
    <2>7. \A i \in 1..Len(refunds') : RefundEntry(i)'
      <3> SUFFICES ASSUME NEW i \in 1..Len(refunds) PROVE RefundEntry(i)'
        BY <2>3
      <3>1. RefundEntry(i)
        BY DEF RefundInv
      <3>2. NoAnswers /\ Claimed(refunds[i].for, {"refund_buyer", "split"})
              => Claimed(refunds[i].for, {"refund_buyer", "split"})'
        BY <2>2, <2>3, <2>5 DEF Claimed, ClaimsKept
      <3>3. CASE row[r] = 0 \/ i # row[r]
        BY <2>3, <2>4, <3>1, <3>2, <3>3 DEF RefundEntry, Claimed
      <3>4. CASE row[r] # 0 /\ i = row[r]
        <4>1. refunds[i].for = d /\ refunds'[i].for = d
          BY <2>1, <2>3, <3>4
        <4>2. NoReopening => \E k \in refundKeys' : k[1] = d
          <5>1. NoReopening => seen[r] \in {"refund_buyer", "split"}
            BY <2>1, <3>1, <4>1 DEF NoReopening, RefundEntry, Claimed
          <5>2. NoReopening => <<d, seen[r]>> \in refundKeys'
            BY <2>1, <2>4, <3>1, <5>1 DEF RefundEntry, Paid
          <5> QED BY <5>2
        <4> QED BY <3>1, <3>2, <4>1, <4>2 DEF RefundEntry, Claimed
      <3> QED BY <3>3, <3>4
    <2>8. ResolutionPaid'
      BY <1>0, <2>1, <2>2, <2>4 DEF RefundInv, ResolutionPaid, Paid, Kept
    <2>9. \A e \in 1..Len(disputes') : NoAnswers => disputes'[e].status # "responded"
      BY <2>2 DEF RefundInv
    <2> QED BY <1>0, <2>3, <2>4, <2>5, <2>6, <2>7, <2>8, <2>9, RefundStep, LengthsNat
  <1> QED
    BY <1>1, <1>2, <1>3, <1>4, <1>5, <1>6, <1>7, <1>8 DEF DisputeNext

\* Nothing to settle before checkout.
LEMMA RefundInit == Init => RefundInv
  BY DEF Init, RefundInv, RefundRequest, RefundLabels, ResolveLabels, ResolutionPaid

\* Every step of the system keeps the entries and the disputes.
LEMMA RefundNext ==
  ASSUME TypeInv, RefundInv, [Next]_vars
  PROVE  RefundInv'
  <1>1. ASSUME NEW r \in Requests, RequestNext(r)
        PROVE  RefundInv'
    <2> USE DEF RefundBound, RefundLabels, ResolveLabels
    <2>1. CASE CreateNext(r)
      BY <2>1, CreateFrame, RefundQuiet DEF CreateLabels
    <2>2. CASE PaymentNext(r)
      BY <2>2, PaymentFrame, RefundQuiet DEF PaymentLabels
    <2>3. CASE ConfirmNext(r)
      BY <2>3, ConfirmFrame, RefundQuiet DEF ConfirmLabels
    <2>4. CASE CompleteNext(r)
      BY <2>4, CompleteFrame, RefundQuiet DEF CompleteLabels
    <2>5. CASE EventNext(r)
      BY <2>5, EventFrame, RefundQuiet DEF EventLabels
    <2>6. CASE MilestoneNext(r)
      BY <2>6, MilestoneFrame, RefundQuiet DEF MilestoneLabels, ReleaseLabels
    <2>7. CASE Abandon(r)
      BY <2>7, AbandonFrame, RefundQuiet
    <2> QED
      BY <1>1, <2>1, <2>2, <2>3, <2>4, <2>5, <2>6, <2>7, CancelRefunds, DisputeRefunds
      DEF RequestNext, OrderNext
  <1>2. CASE StripeNext \/ UNCHANGED vars
    <2>1. /\ Kept
          /\ UNCHANGED <<refunds, disputes, refundKeys, pc, row, seen, dispute>>
      BY <1>2, StripeFrame
    <2>2. \A r \in Requests : RefundRequest(r)'
      BY <2>1 DEF RefundInv, RefundRequest, Claimed, Paid, Kept
    <2>3. ResolutionPaid'
      BY <2>1 DEF RefundInv, ResolutionPaid, Kept
    <2> QED BY <2>1, <2>2, <2>3 DEF RefundInv, RefundEntry, Claimed
  <1> QED BY <1>1, <1>2 DEF Next

\* RefundInv holds in every reachable state, for every value of the constants.
LEMMA RefundInvariant == Spec => []RefundInv
  <1>1. TypeInv /\ RefundInv /\ [Next]_vars => RefundInv'
    BY RefundNext
  <1> QED BY <1>1, RefundInit, TypeInvariant, PTL DEF Spec

\* A resolved dispute names the resolution whose money moved, for every value of the
\* constants: whoever answers, reopens and resolves, only a request whose Stripe call
\* succeeded writes "resolved".
THEOREM ResolutionPaidTheorem == Spec => []ResolutionPaid
  <1>1. RefundInv => ResolutionPaid
    BY DEF RefundInv
  <1> QED BY <1>1, RefundInvariant, PTL

\* Two operators never move money for different resolutions of a dispute, while nobody
\* can answer it again once it is claimed.
THEOREM OneResolutionTheorem ==
  ASSUME NoReopening
  PROVE  Spec => []OneResolution
  <1>1. RefundInv => OneResolution
    <2> SUFFICES ASSUME RefundInv, NEW q \in Requests, NEW r \in Requests,
                        pc[q] \in {"resolve_money", "resolve_finalize"},
                        pc[r] \in {"resolve_money", "resolve_finalize"},
                        dispute[q] = dispute[r]
                 PROVE  seen[q] = seen[r]
      BY DEF OneResolution
    <2>1. NoAnswers
      BY DEF NoReopening, RefundInv, RefundRequest, ResolveLabels
    <2>2. Claimed(dispute[q], {seen[q]}) /\ Claimed(dispute[r], {seen[r]})
      BY <2>1 DEF RefundInv, RefundRequest
    <2> QED BY <2>2 DEF Claimed
  <1> QED BY <1>1, RefundInvariant, PTL

-----------------------------------------------------------------------------
(* Payout rows and milestones.  A request that is about to write down a       *)
(* transfer has made it, and a milestone is transferred only out of its own   *)
(* captured payment.                                                          *)

Credited == {m \in Milestones : milestone[m] = "released"}

PayRequest(r) ==
  /\ pc[r] = "complete_finalize" /\ seen[r] = "payable" => "order" \in transfers
  /\ pc[r] = "release_transfer" => mpi[item[r]] = "succeeded"
  /\ pc[r] = "release_finalize" => item[r] \in transfers

\* Labels at which a request carries an obligation of this kind.
PayBound == {"complete_finalize", "release_transfer", "release_finalize"}

TransfersMade ==
  \A i \in 1..Len(payouts) : payouts[i].transfer # "none" => payouts[i].transfer \in transfers

PayInv ==
  /\ \A r \in Requests : PayRequest(r)
  /\ TransfersMade
  /\ MilestonesSettleOnce /\ IsFiniteSet(Credited)

\* What a step of r has to show for the other requests.
LEMMA PayStep ==
  ASSUME TypeInv, PayInv, NEW r \in Requests, Moves(r), PayRequest(r)', Kept,
         transfers \subseteq transfers', TransfersMade',
         MilestonesSettleOnce', IsFiniteSet(Credited)'
  PROVE  PayInv'
  <1>1. ASSUME NEW q \in Requests
        PROVE  PayRequest(q)'
    <2>1. CASE q = r
      BY <2>1
    <2>2. CASE q # r
      <3>1. pc'[q] = pc[q] /\ seen'[q] = seen[q] /\ item'[q] = item[q]
        BY <2>2 DEF Moves
      <3>2. pc[q] = "release_transfer" => item[q] \in Milestones
        BY DEF TypeInv, FieldsOK, ReleaseLabels
      <3>3. PayRequest(q)
        BY DEF PayInv
      <3> QED BY <3>1, <3>2, <3>3 DEF PayRequest, Kept
    <2> QED BY <2>1, <2>2
  <1> QED BY <1>1 DEF PayInv

\* A step that releases no milestone keeps what is settled, if it transfers to a
\* milestone only what was captured.
LEMMA SettledKept ==
  ASSUME PayInv, Kept, released' = released, Credited' = Credited,
         transfers \subseteq transfers',
         \A m \in Milestones : m \in transfers' => m \in transfers \/ mpi'[m] = "succeeded"
  PROVE  MilestonesSettleOnce' /\ IsFiniteSet(Credited)'
  <1>1. \A m \in Milestones : milestone'[m] = "released" <=> milestone[m] = "released"
    BY DEF Credited
  <1>2. released' = Cardinality(Credited')
    BY DEF PayInv, MilestonesSettleOnce, Credited
  <1>3. IsFiniteSet(Credited')
    BY DEF PayInv
  <1>4. \A m \in Milestones : /\ milestone'[m] = "released" => m \in transfers'
                              /\ m \in transfers' => mpi'[m] = "succeeded"
    BY <1>1 DEF PayInv, MilestonesSettleOnce, Kept
  <1> QED BY <1>2, <1>3, <1>4 DEF MilestonesSettleOnce, Credited

\* Most steps leave r without such an obligation and transfer nothing.
LEMMA PayQuiet ==
  ASSUME TypeInv, PayInv, NEW r \in Requests, Moves(r), pc'[r] \notin PayBound, Kept,
         TransfersMade', UNCHANGED <<transfers, released>>, Credited' = Credited
  PROVE  PayInv'
  <1>1. PayRequest(r)'
    BY DEF PayRequest, PayBound
  <1>2. MilestonesSettleOnce' /\ IsFiniteSet(Credited)'
    BY SettledKept
  <1> QED BY <1>1, <1>2, PayStep

\* completeOrder writes a transfer's identity only after it made the transfer.
LEMMA CompletePays ==
  ASSUME TypeInv, PayInv, NEW r \in Requests, CompleteNext(r)
  PROVE  PayInv'
  <1> USE DEF orderVars, ledgerVars, milestoneVars, stripeVars, moneyVars
  <1>0. /\ Moves(r) /\ Kept /\ UNCHANGED released /\ Credited' = Credited
        /\ payouts \in Seq(PayoutRow) /\ TransfersMade
    BY CompleteFrame DEF TypeInv, TypeOK, LedgerTypeOK, Credited, PayInv
  <1>1. CASE CompleteOrder(r)
    BY <1>0, <1>1, EnterMoves, PayQuiet DEF CompleteOrder, PayBound, TransfersMade
  <1>2. CASE CompleteOrderClaim(r)
    <2>1. PayRequest(r)'
      <3>1. \/ \E i : CompleteFrom(r, i)
            \/ Return(r)
        BY <1>2 DEF CompleteOrderClaim
      <3> QED BY <3>1, CompleteFromMoves, ReturnMoves DEF PayRequest, CompleteLabels
    <2>2. UNCHANGED transfers
      BY <1>2 DEF CompleteOrderClaim
    <2>3. TransfersMade'
      <3>1. CASE UNCHANGED payouts
        BY <1>0, <2>2, <3>1 DEF TransfersMade
      <3>2. CASE payouts' = Append(payouts, [for |-> "order", stage |-> "pending",
                                             transfer |-> "none"])
        <4>1. /\ Len(payouts') = Len(payouts) + 1
              /\ payouts'[Len(payouts) + 1].transfer = "none"
              /\ \A j \in 1..Len(payouts) : payouts'[j] = payouts[j]
          BY <1>0, <3>2, NewPayout DEF Sources
        <4> QED BY <1>0, <2>2, <4>1, LengthsNat DEF TransfersMade
      <3> QED BY <1>2, <3>1, <3>2 DEF CompleteOrderClaim
    <2> QED BY <1>0, <2>1, <2>2, <2>3, SettledKept, PayStep
  <1>3. CASE CompleteOrderCapture(r)
    BY <1>0, <1>3, GotoMoves, PayQuiet DEF CompleteOrderCapture, PayBound, TransfersMade
  <1>4. CASE CompleteOrderTransfer(r)
    <2>1. /\ transfers' = transfers \union {"order"} /\ UNCHANGED payouts
          /\ pc'[r] = "complete_finalize"
      BY <1>4, GotoMoves DEF CompleteOrderTransfer, Transfer
    <2>2. PayRequest(r)' /\ TransfersMade'
      BY <1>0, <2>1 DEF PayRequest, TransfersMade
    <2>3. MilestonesSettleOnce' /\ IsFiniteSet(Credited)'
      BY <1>0, <2>1, SettledKept, MilestonesAssumption
    <2> QED BY <1>0, <2>1, <2>2, <2>3, PayStep
  <1>5. CASE CompleteOrderFinalize(r)
    <2>1. /\ UNCHANGED transfers /\ pc'[r] = "complete_entry" /\ row[r] \in Nat
          /\ seen[r] = "payable" => "order" \in transfers
      BY <1>5, GotoMoves
      DEF CompleteOrderFinalize, At, PayInv, PayRequest, TypeInv, TypeOK, RequestTypeOK
    <2>2. PICK s \in Sources \union {"none"} :
             /\ s = IF seen[r] = "payable" THEN "order" ELSE "none"
             /\ payouts' = [payouts EXCEPT ![row[r]].stage = "completed",
                                           ![row[r]].transfer = s]
      BY <1>5 DEF CompleteOrderFinalize, Sources
    <2>3. /\ Len(payouts') = Len(payouts)
          /\ \A j \in 1..Len(payouts) : j # row[r] => payouts'[j] = payouts[j]
          /\ row[r] \in 1..Len(payouts) => payouts'[row[r]].transfer = s
      BY <1>0, <2>1, <2>2, PayoutFinalized
    <2>4. TransfersMade'
      BY <1>0, <2>1, <2>2, <2>3 DEF TransfersMade
    <2> QED BY <1>0, <2>1, <2>4, PayQuiet DEF PayBound
  <1>6. CASE CompleteOrderEntry(r)
    BY <1>0, <1>6, ReturnMoves, PayQuiet DEF CompleteOrderEntry, PayBound, TransfersMade
  <1> QED
    BY <1>1, <1>2, <1>3, <1>4, <1>5, <1>6 DEF CompleteNext

\* A milestone's payment is captured, then transferred, then the milestone released and
\* the order credited, once.
LEMMA MilestonePays ==
  ASSUME TypeInv, PayInv, NEW r \in Requests, MilestoneNext(r)
  PROVE  PayInv'
  <1> USE DEF orderVars, ledgerVars, milestoneVars, stripeVars, moneyVars
  <1>0. /\ Moves(r) /\ Kept /\ payouts \in Seq(PayoutRow) /\ TransfersMade
        /\ milestone \in [Milestones -> MilestoneStatus]
    BY MilestoneFrame DEF TypeInv, TypeOK, LedgerTypeOK, StripeTypeOK, PayInv
  <1>1. CASE CreateMilestones(r)
    <2>1. pc'[r] \notin PayBound
      BY <1>1, EnterMoves DEF CreateMilestones, Arrives, At, requestVars, PayBound
    <2> QED BY <1>0, <1>1, <2>1, PayQuiet DEF CreateMilestones, TransfersMade, Credited
  <1>2. CASE CreateMilestonesCancelPI(r)
    BY <1>0, <1>2, GotoMoves, PayQuiet
    DEF CreateMilestonesCancelPI, CancelPI, PayBound, TransfersMade, Credited
  <1>3. CASE CreateMilestonesInsert(r)
    <2>1. pc'[r] \notin PayBound
      BY <1>3, ReturnMoves DEF CreateMilestonesInsert, At, requestVars, PayBound
    <2>2. Credited' = Credited
      BY <1>0, <1>3 DEF CreateMilestonesInsert, Credited
    <2> QED BY <1>0, <1>3, <2>1, <2>2, PayQuiet DEF CreateMilestonesInsert, TransfersMade
  <1>4. ASSUME NEW m \in Milestones, MarkMilestoneComplete(r, m)
        PROVE  PayInv'
    <2>1. pc'[r] \notin PayBound
      BY <1>4 DEF MarkMilestoneComplete, Arrives, At, requestVars, PayBound
    <2>2. Credited' = Credited
      BY <1>0, <1>4 DEF MarkMilestoneComplete, Credited
    <2> QED BY <1>0, <1>4, <2>1, <2>2, PayQuiet DEF MarkMilestoneComplete, TransfersMade
  <1>5. ASSUME NEW m \in Milestones, ReleaseMilestone(r, m)
        PROVE  PayInv'
    <2>1. pc'[r] \notin PayBound
      BY <1>5 DEF ReleaseMilestone, TypeInv, TypeOK, RequestTypeOK, PayBound
    <2> QED BY <1>0, <1>5, <2>1, PayQuiet DEF ReleaseMilestone, TransfersMade, Credited
  <1>6. CASE ReleaseMilestoneIntent(r)
    <2>1. pc'[r] \notin PayBound /\ item[r] \in Sources
      BY <1>6, GotoRowMoves, ReturnMoves
      DEF ReleaseMilestoneIntent, At, PayBound, TypeInv, FieldsOK, ReleaseLabels, Sources
    <2>2. UNCHANGED <<transfers, released, milestone>>
      BY <1>6 DEF ReleaseMilestoneIntent
    <2>3. TransfersMade'
      <3>1. CASE UNCHANGED payouts
        BY <1>0, <2>2, <3>1 DEF TransfersMade
      <3>2. CASE payouts' = Append(payouts, [for |-> item[r], stage |-> "pending",
                                             transfer |-> "none"])
        <4>1. /\ Len(payouts') = Len(payouts) + 1
              /\ payouts'[Len(payouts) + 1].transfer = "none"
              /\ \A j \in 1..Len(payouts) : payouts'[j] = payouts[j]
          BY <1>0, <2>1, <3>2, NewPayout
        <4> QED BY <1>0, <2>2, <4>1, LengthsNat DEF TransfersMade
      <3> QED BY <1>6, <3>1, <3>2 DEF ReleaseMilestoneIntent
    <2> QED BY <1>0, <2>1, <2>2, <2>3, PayQuiet DEF Credited
  <1>7. CASE ReleaseMilestoneCapture(r)
    <2>1. /\ item[r] \in Milestones /\ pc'[r] = "release_transfer" /\ item'[r] = item[r]
      BY <1>7, GotoMoves
      DEF ReleaseMilestoneCapture, At, TypeInv, FieldsOK, ReleaseLabels
    <2>2. mpi'[item[r]] = "succeeded"
      BY <1>7, <2>1 DEF ReleaseMilestoneCapture, TypeInv, TypeOK, StripeTypeOK
    <2>3. PayRequest(r)'
      BY <2>1, <2>2 DEF PayRequest
    <2>4. UNCHANGED <<transfers, released, milestone, payouts>>
      BY <1>7 DEF ReleaseMilestoneCapture
    <2>5. TransfersMade' /\ Credited' = Credited
      BY <1>0, <2>4 DEF TransfersMade, Credited
    <2> QED BY <1>0, <2>3, <2>4, <2>5, SettledKept, PayStep
  <1>8. CASE ReleaseMilestoneTransfer(r)
    <2>1. /\ transfers' = transfers \union {item[r]} /\ mpi[item[r]] = "succeeded"
          /\ UNCHANGED <<released, milestone, mpi, payouts>>
          /\ pc'[r] = "release_finalize" /\ item'[r] = item[r]
      BY <1>8, GotoMoves DEF ReleaseMilestoneTransfer, Transfer, At, PayInv, PayRequest
    <2>2. PayRequest(r)' /\ TransfersMade' /\ Credited' = Credited
      BY <1>0, <2>1 DEF PayRequest, TransfersMade, Credited
    <2>3. MilestonesSettleOnce' /\ IsFiniteSet(Credited)'
      BY <1>0, <2>1, <2>2, SettledKept
    <2> QED BY <1>0, <2>1, <2>2, <2>3, PayStep
  <1>9. CASE ReleaseMilestoneFinalize(r)
    <2>1. /\ item[r] \in Milestones /\ item[r] \in transfers /\ row[r] \in Nat
          /\ UNCHANGED <<transfers, mpi>> /\ pc'[r] = "idle"
      BY <1>9, ReturnMoves
      DEF ReleaseMilestoneFinalize, At, PayInv, PayRequest, TypeInv, TypeOK, RequestTypeOK,
          FieldsOK, ReleaseLabels
    <2>2. TransfersMade'
      <3>1. payouts' = [payouts EXCEPT ![row[r]].stage = "completed",
                                       ![row[r]].transfer = item[r]]
        BY <1>9 DEF ReleaseMilestoneFinalize
      <3>2. /\ Len(payouts') = Len(payouts)
            /\ \A j \in 1..Len(payouts) : j # row[r] => payouts'[j] = payouts[j]
            /\ row[r] \in 1..Len(payouts) => payouts'[row[r]].transfer = item[r]
        BY <1>0, <2>1, <3>1, PayoutFinalized DEF Sources
      <3> QED BY <1>0, <2>1, <3>2 DEF TransfersMade
    <2>3. MilestonesSettleOnce' /\ IsFiniteSet(Credited)'
      <3>1. CASE milestone[item[r]] = "completed"
        <4>1. /\ milestone' = [milestone EXCEPT ![item[r]] = "released"]
              /\ released' = released + 1
          BY <1>9, <3>1 DEF ReleaseMilestoneFinalize
        <4>2. Credited' = Credited \union {item[r]} /\ item[r] \notin Credited
          BY <1>0, <2>1, <3>1, <4>1 DEF Credited
        <4>3. IsFiniteSet(Credited') /\ Cardinality(Credited') = Cardinality(Credited) + 1
          BY <4>2, FS_AddElement DEF PayInv
        <4>4. released = Cardinality(Credited)
          BY DEF PayInv, MilestonesSettleOnce, Credited
        <4>5. \A m \in Milestones : /\ milestone'[m] = "released" => m \in transfers'
                                    /\ m \in transfers' => mpi'[m] = "succeeded"
          BY <1>0, <2>1, <4>1 DEF PayInv, MilestonesSettleOnce
        <4> QED BY <4>1, <4>3, <4>4, <4>5 DEF MilestonesSettleOnce, Credited
      <3>2. CASE milestone[item[r]] # "completed"
        <4>1. UNCHANGED <<milestone, released>>
          BY <1>9, <3>2 DEF ReleaseMilestoneFinalize
        <4> QED BY <1>0, <2>1, <4>1, SettledKept DEF Credited
      <3> QED BY <3>1, <3>2
    <2>4. PayRequest(r)'
      BY <2>1 DEF PayRequest
    <2> QED BY <1>0, <2>1, <2>2, <2>3, <2>4, PayStep
  <1> QED
    BY <1>1, <1>2, <1>3, <1>4, <1>5, <1>6, <1>7, <1>8, <1>9 DEF MilestoneNext

\* Nothing is settled before checkout.
LEMMA PayInit == Init => PayInv
  <1> SUFFICES ASSUME Init PROVE PayInv
    OBVIOUS
  <1>1. \A m \in Milestones : milestone[m] = "absent"
    BY DEF Init
  <1>2. Credited = {}
    BY <1>1 DEF Credited
  <1>3. IsFiniteSet(Credited) /\ Cardinality(Credited) = 0
    BY <1>2, FS_EmptySet
  <1>4. MilestonesSettleOnce
    BY <1>1, <1>3 DEF Init, MilestonesSettleOnce, Credited
  <1> QED BY <1>3, <1>4 DEF Init, PayInv, PayRequest, TransfersMade

\* Every step of the system keeps the payout rows and the milestones.
LEMMA PayNext ==
  ASSUME TypeInv, PayInv, [Next]_vars
  PROVE  PayInv'
  <1>0. TransfersMade
    BY DEF PayInv
  <1>1. ASSUME NEW r \in Requests, RequestNext(r)
        PROVE  PayInv'
    <2> USE DEF PayBound, TransfersMade, Credited
    <2>1. CASE CreateNext(r)
      BY <1>0, <2>1, CreateFrame, PayQuiet DEF CreateLabels
    <2>2. CASE PaymentNext(r)
      BY <1>0, <2>2, PaymentFrame, PayQuiet DEF PaymentLabels
    <2>3. CASE ConfirmNext(r)
      BY <1>0, <2>3, ConfirmFrame, PayQuiet DEF ConfirmLabels
    <2>4. CASE CancelNext(r)
      BY <1>0, <2>4, CancelFrame, PayQuiet DEF CancelLabels, RefundLabels
    <2>5. CASE EventNext(r)
      <3>1. /\ Moves(r) /\ pc'[r] \notin PayBound /\ Kept
            /\ UNCHANGED <<transfers, released, milestone>>
        BY <2>5, EventFrame DEF EventLabels
      <3>2. TransfersMade'
        <4>1. CASE HandleTransferFailed(r)
          <5>1. /\ Len(payouts') = Len(payouts)
                /\ \A j \in 1..Len(payouts) : payouts'[j].transfer = payouts[j].transfer
            BY <4>1, PayoutsFailed DEF HandleTransferFailed, TypeInv, TypeOK, LedgerTypeOK
          <5> QED BY <1>0, <3>1, <5>1
        <4>2. CASE UNCHANGED payouts
          BY <1>0, <3>1, <4>2
        <4> QED BY <2>5, <4>1, <4>2, EventFrame
      <3> QED BY <3>1, <3>2, PayQuiet
    <2>6. CASE DisputeNext(r)
      BY <1>0, <2>6, DisputeFrame, PayQuiet DEF DisputeLabels, ResolveLabels
    <2>7. CASE Abandon(r)
      BY <1>0, <2>7, AbandonFrame, PayQuiet
    <2> QED
      BY <1>1, <2>1, <2>2, <2>3, <2>4, <2>5, <2>6, <2>7, CompletePays, MilestonePays
      DEF RequestNext, OrderNext
  <1>2. CASE StripeNext \/ UNCHANGED vars
    <2>1. Kept /\ UNCHANGED <<released, payouts, milestone, transfers, pc, seen, item>>
      BY <1>2, StripeFrame
    <2>2. ASSUME NEW r \in Requests
          PROVE  PayRequest(r)'
      <3>1. PayRequest(r) /\ (pc[r] = "release_transfer" => item[r] \in Milestones)
        BY DEF PayInv, TypeInv, FieldsOK, ReleaseLabels
      <3> QED BY <2>1, <3>1 DEF PayRequest, Kept
    <2>3. TransfersMade' /\ Credited' = Credited
      BY <1>0, <2>1 DEF TransfersMade, Credited
    <2> QED BY <2>1, <2>2, <2>3, SettledKept DEF PayInv
  <1> QED BY <1>1, <1>2 DEF Next

\* PayInv holds in every reachable state, for every value of the constants.
LEMMA PayInvariant == Spec => []PayInv
  <1>1. TypeInv /\ PayInv /\ [Next]_vars => PayInv'
    BY PayNext
  <1> QED BY <1>1, PayInit, TypeInvariant, PTL DEF Spec

\* The order is credited once per released milestone, and a release has paid the seller
\* out of the milestone's captured payment, for every value of the constants.
THEOREM MilestonesSettleOnceTheorem == Spec => []MilestonesSettleOnce
  <1>1. PayInv => MilestonesSettleOnce
    BY DEF PayInv
  <1> QED BY <1>1, PayInvariant, PTL

\* A payout row that names a transfer names an executed one, and a finalized refund
\* entry stands for an executed refund, unless a dispute can be answered again after an
\* operator claimed it: the operator who claims it next, without a refund, finalizes the
\* entry that the first one recorded.
THEOREM RecordedMoneyMovedTheorem ==
  ASSUME NoReopening \/ ~HasPaymentRef
  PROVE  Spec => []RecordedMoneyMoved
  <1>1. PayInv /\ RefundInv => RecordedMoneyMoved
    BY DEF PayInv, TransfersMade, RefundInv, RefundEntry, RecordedMoneyMoved
  <1> QED BY <1>1, PayInvariant, RefundInvariant, PTL

-----------------------------------------------------------------------------
(* One payout row per milestone.  A release adds a row only when no row of    *)
(* its milestone is pending; that is enough while a row that is not pending   *)
(* means a released milestone, which completeOrder can break: it takes any    *)
(* pending row of the order for its own.                                      *)

\* completeOrder does not run, or it never finds another milestone's pending row: the
\* order has no payment of its own and at most one milestone.
Sole == "completeOrder" \notin Kinds \/ (~HasPaymentRef /\ \A m, n \in Milestones : m = n)

AllReleased == \A m \in Milestones : milestone[m] = "released"

OneRowRequest(r) ==
  /\ pc[r] \in {"complete_claim", "complete_finalize"} =>
       seen[r] \in {"milestones", "unpayable"}
  /\ pc[r] \notin {"complete_capture", "complete_transfer"}
  /\ pc[r] = "complete_claim" /\ seen[r] = "milestones" => AllReleased
  /\ pc[r] = "complete_finalize" => AllReleased
  /\ pc[r] \in {"release_capture", "release_transfer", "release_finalize"} =>
       /\ milestone[item[r]] \in {"completed", "released"}
       /\ row[r] \in 1..Len(payouts) /\ payouts[row[r]].for = item[r]
  /\ pc[r] = "event_handle" => item[r] \in Sources

\* Labels at which a request carries an obligation of this kind.
OneRowBound == {"complete_claim", "complete_capture", "complete_transfer",
                "complete_finalize", "release_capture", "release_transfer",
                "release_finalize", "event_handle"}

PayoutRowOK(i) ==
  /\ payouts[i].stage = "pending" => payouts[i].transfer = "none"
  /\ payouts[i].for \in Milestones /\ payouts[i].stage # "pending"
       => milestone[payouts[i].for] = "released"

SingleRows ==
  \A i, j \in 1..Len(payouts) :
    payouts[i].for \in Milestones /\ payouts[i].for = payouts[j].for => i = j

OneRowInv ==
  /\ \A r \in Requests : OneRowRequest(r)
  /\ \A i \in 1..Len(payouts) : PayoutRowOK(i)
  /\ SingleRows

\* Milestones go forward only.
Progress ==
  \A m \in Milestones :
    /\ milestone[m] = "released" => milestone'[m] = "released"
    /\ milestone[m] = "completed" => milestone'[m] \in {"completed", "released"}

\* No step of the milestone saga takes a milestone back.
LEMMA MilestoneProgress ==
  ASSUME TypeInv, NEW r \in Requests, MilestoneNext(r)
  PROVE  Progress
  <1> USE DEF Progress, orderVars, ledgerVars, milestoneVars
  <1>0. milestone \in [Milestones -> MilestoneStatus]
    BY DEF TypeInv, TypeOK, StripeTypeOK
  <1>1. CASE CreateMilestonesInsert(r)
    BY <1>0, <1>1 DEF CreateMilestonesInsert
  <1>2. ASSUME NEW m \in Milestones, MarkMilestoneComplete(r, m)
        PROVE  Progress
    BY <1>0, <1>2 DEF MarkMilestoneComplete
  <1>3. CASE ReleaseMilestoneFinalize(r)
    BY <1>0, <1>3 DEF ReleaseMilestoneFinalize
  <1>4. ASSUME NEW m \in Milestones, ReleaseMilestone(r, m)
        PROVE  Progress
    BY <1>4 DEF ReleaseMilestone
  <1>5. CASE \/ CreateMilestones(r) \/ CreateMilestonesCancelPI(r) \/ ReleaseMilestoneIntent(r)
             \/ ReleaseMilestoneCapture(r) \/ ReleaseMilestoneTransfer(r)
    BY <1>5
    DEF CreateMilestones, CreateMilestonesCancelPI, ReleaseMilestoneIntent,
        ReleaseMilestoneCapture, ReleaseMilestoneTransfer
  <1> QED BY <1>1, <1>2, <1>3, <1>4, <1>5 DEF MilestoneNext

\* What a step of r has to show for the other requests.
LEMMA OneRowStep ==
  ASSUME TypeInv, OneRowInv, NEW r \in Requests, Moves(r), OneRowRequest(r)', Progress,
         Len(payouts') \in Nat, Len(payouts') >= Len(payouts),
         \A j \in 1..Len(payouts) : payouts'[j].for = payouts[j].for,
         \A i \in 1..Len(payouts') : PayoutRowOK(i)', SingleRows'
  PROVE  OneRowInv'
  <1>1. ASSUME NEW q \in Requests
        PROVE  OneRowRequest(q)'
    <2>1. CASE q = r
      BY <2>1
    <2>2. CASE q # r
      <3>1. pc'[q] = pc[q] /\ seen'[q] = seen[q] /\ item'[q] = item[q] /\ row'[q] = row[q]
        BY <2>2 DEF Moves
      <3>2. pc[q] \in ReleaseLabels => item[q] \in Milestones
        BY DEF TypeInv, FieldsOK
      <3>3. OneRowRequest(q)
        BY DEF OneRowInv
      <3>4. AllReleased => AllReleased'
        BY DEF AllReleased, Progress
      <3>5. 1..Len(payouts) \subseteq 1..Len(payouts')
        BY LengthsNat
      <3> QED BY <3>1, <3>2, <3>3, <3>4, <3>5 DEF OneRowRequest, Progress, ReleaseLabels
    <2> QED BY <2>1, <2>2
  <1> QED BY <1>1 DEF OneRowInv

\* A step that writes no payout row.
LEMMA OneRowSame ==
  ASSUME TypeInv, OneRowInv, NEW r \in Requests, Moves(r), OneRowRequest(r)', Progress,
         UNCHANGED payouts
  PROVE  OneRowInv'
  <1>1. \A i \in 1..Len(payouts') : PayoutRowOK(i)'
    BY DEF OneRowInv, PayoutRowOK, Progress
  <1>2. SingleRows'
    BY DEF OneRowInv, SingleRows
  <1> QED BY <1>1, <1>2, OneRowStep, LengthsNat

\* Most steps leave r without such an obligation too.
LEMMA OneRowQuiet ==
  ASSUME TypeInv, OneRowInv, NEW r \in Requests, Moves(r), pc'[r] \notin OneRowBound, Progress,
         UNCHANGED payouts
  PROVE  OneRowInv'
  <1>1. OneRowRequest(r)'
    BY DEF OneRowRequest, OneRowBound
  <1> QED BY <1>1, OneRowSame

\* completeOrder finalizes a row only when every milestone is released.
LEMMA CompleteOneRow ==
  ASSUME Sole, TypeInv, OneRowInv, NEW r \in Requests, CompleteNext(r)
  PROVE  OneRowInv'
  <1> USE DEF orderVars, ledgerVars, milestoneVars, stripeVars, moneyVars
  <1>0. /\ Moves(r) /\ UNCHANGED milestone /\ Progress /\ payouts \in Seq(PayoutRow)
        /\ OneRowRequest(r)
    BY CompleteFrame DEF TypeInv, TypeOK, LedgerTypeOK, Progress, OneRowInv
  <1>1. CASE CompleteOrder(r)
    <2>1. /\ pc'[r] = "complete_claim" /\ UNCHANGED payouts
          /\ seen'[r] = IF HasMilestones THEN "milestones"
                        ELSE IF connect /\ HasPaymentRef THEN "payable" ELSE "unpayable"
      BY <1>1, EnterMoves DEF CompleteOrder
    <2>2. ~HasPaymentRef /\ \A m, n \in Milestones : m = n
      BY <1>1 DEF Sole, CompleteOrder, Arrives
    <2>3. HasMilestones => AllReleased
      BY <1>1, <2>2 DEF CompleteOrder, HasMilestones, Present, AllReleased
    <2>4. OneRowRequest(r)'
      BY <1>0, <2>1, <2>2, <2>3 DEF OneRowRequest, AllReleased
    <2> QED BY <1>0, <2>1, <2>4, OneRowSame
  <1>2. CASE CompleteOrderClaim(r)
    <2>1. /\ seen[r] \in {"milestones", "unpayable"}
          /\ seen[r] = "milestones" => AllReleased
      BY <1>0, <1>2 DEF CompleteOrderClaim, At, OneRowRequest
    <2>2. OneRowRequest(r)'
      <3>1. \/ \E i : CompleteFrom(r, i)
            \/ Return(r)
        BY <1>2 DEF CompleteOrderClaim
      <3> QED BY <1>0, <2>1, <3>1, CompleteFromMoves, ReturnMoves
              DEF OneRowRequest, CompleteLabels, AllReleased
    <2>3. CASE UNCHANGED payouts
      BY <1>0, <2>2, <2>3, OneRowSame
    <2>4. CASE payouts' = Append(payouts, [for |-> "order", stage |-> "pending",
                                           transfer |-> "none"])
      <3>1. /\ Len(payouts') = Len(payouts) + 1
            /\ payouts'[Len(payouts) + 1] = [for |-> "order", stage |-> "pending",
                                             transfer |-> "none"]
            /\ \A j \in 1..Len(payouts) : payouts'[j] = payouts[j]
            /\ \A j \in 1..Len(payouts) : payouts'[j].for = payouts[j].for
        BY <1>0, <2>4, NewPayout DEF Sources
      <3>2. \A i \in 1..Len(payouts') : PayoutRowOK(i)'
        BY <1>0, <3>1, LengthsNat, MilestonesAssumption DEF OneRowInv, PayoutRowOK
      <3>3. SingleRows'
        BY <3>1, LengthsNat, MilestonesAssumption DEF OneRowInv, SingleRows
      <3> QED BY <1>0, <2>2, <3>1, <3>2, <3>3, OneRowStep, LengthsNat
    <2> QED BY <1>2, <2>3, <2>4 DEF CompleteOrderClaim
  <1>3. CASE CompleteOrderCapture(r) \/ CompleteOrderTransfer(r)
    BY <1>0, <1>3 DEF CompleteOrderCapture, CompleteOrderTransfer, At, OneRowRequest
  <1>4. CASE CompleteOrderFinalize(r)
    <2>1. AllReleased /\ seen[r] # "payable" /\ row[r] \in Nat
      BY <1>0, <1>4
      DEF CompleteOrderFinalize, At, OneRowRequest, TypeInv, TypeOK, RequestTypeOK
    <2>2. payouts' = [payouts EXCEPT ![row[r]].stage = "completed",
                                     ![row[r]].transfer = "none"]
      BY <1>4, <2>1 DEF CompleteOrderFinalize
    <2>3. /\ Len(payouts') = Len(payouts)
          /\ \A j \in 1..Len(payouts) : payouts'[j].for = payouts[j].for
          /\ \A j \in 1..Len(payouts) : j # row[r] => payouts'[j] = payouts[j]
          /\ row[r] \in 1..Len(payouts) => payouts'[row[r]].stage = "completed"
      BY <1>0, <2>1, <2>2, PayoutFinalized
    <2>4. \A i \in 1..Len(payouts') : PayoutRowOK(i)'
      BY <1>0, <2>1, <2>3 DEF OneRowInv, PayoutRowOK, AllReleased
    <2>5. SingleRows'
      BY <2>3 DEF OneRowInv, SingleRows
    <2>6. OneRowRequest(r)'
      BY <1>4, GotoMoves DEF CompleteOrderFinalize, OneRowRequest
    <2> QED BY <1>0, <2>3, <2>4, <2>5, <2>6, OneRowStep, LengthsNat
  <1>5. CASE CompleteOrderEntry(r)
    BY <1>0, <1>5, ReturnMoves, OneRowQuiet DEF CompleteOrderEntry, OneRowBound
  <1> QED
    BY <1>1, <1>2, <1>3, <1>4, <1>5 DEF CompleteNext

\* A failed transfer marks rows that name it, and those are not pending.
LEMMA EventOneRow ==
  ASSUME TypeInv, OneRowInv, NEW r \in Requests, EventNext(r)
  PROVE  OneRowInv'
  <1>0. /\ Moves(r) /\ UNCHANGED milestone /\ Progress
        /\ pc'[r] \in EventLabels \union {"idle"}
        /\ pc'[r] = "event_handle" => item'[r] \in Sources
    BY EventFrame DEF Progress
  <1>1. OneRowRequest(r)'
    BY <1>0 DEF OneRowRequest, EventLabels
  <1>2. CASE UNCHANGED payouts
    BY <1>0, <1>1, <1>2, OneRowSame
  <1>3. CASE HandleTransferFailed(r)
    <2>1. item[r] # "none"
      BY <1>3, MilestonesAssumption
      DEF HandleTransferFailed, At, OneRowInv, OneRowRequest, Sources
    <2>2. /\ Len(payouts') = Len(payouts)
          /\ \A j \in 1..Len(payouts) : payouts'[j].for = payouts[j].for
          /\ \A j \in 1..Len(payouts) :
               IF payouts[j].transfer = item[r] THEN payouts'[j].stage = "failed"
                                                ELSE payouts'[j] = payouts[j]
      BY <1>3, PayoutsFailed DEF HandleTransferFailed, TypeInv, TypeOK, LedgerTypeOK
    <2>3. \A i \in 1..Len(payouts') : PayoutRowOK(i)'
      BY <1>0, <2>1, <2>2 DEF OneRowInv, PayoutRowOK
    <2>4. SingleRows'
      BY <2>2 DEF OneRowInv, SingleRows
    <2> QED BY <1>0, <1>1, <2>2, <2>3, <2>4, OneRowStep, LengthsNat
  <1> QED BY <1>2, <1>3, EventFrame

\* A release adds a row only for a completed milestone without a pending one.
LEMMA MilestoneOneRow ==
  ASSUME TypeInv, OneRowInv, NEW r \in Requests, MilestoneNext(r)
  PROVE  OneRowInv'
  <1> USE DEF orderVars, ledgerVars, milestoneVars, stripeVars, moneyVars
  <1>0. /\ Moves(r) /\ Progress /\ payouts \in Seq(PayoutRow) /\ OneRowRequest(r)
        /\ milestone \in [Milestones -> MilestoneStatus]
    BY MilestoneFrame, MilestoneProgress
    DEF TypeInv, TypeOK, LedgerTypeOK, StripeTypeOK, OneRowInv
  <1>1. CASE CreateMilestones(r)
    <2>1. pc'[r] \notin OneRowBound
      BY <1>1, EnterMoves DEF CreateMilestones, Arrives, At, requestVars, OneRowBound
    <2> QED BY <1>0, <1>1, <2>1, OneRowQuiet DEF CreateMilestones
  <1>2. CASE CreateMilestonesCancelPI(r)
    BY <1>0, <1>2, GotoMoves, OneRowQuiet DEF CreateMilestonesCancelPI, OneRowBound
  <1>3. CASE CreateMilestonesInsert(r)
    <2>1. pc'[r] \notin OneRowBound
      BY <1>3, ReturnMoves DEF CreateMilestonesInsert, At, requestVars, OneRowBound
    <2> QED BY <1>0, <1>3, <2>1, OneRowQuiet DEF CreateMilestonesInsert
  <1>4. ASSUME NEW m \in Milestones, MarkMilestoneComplete(r, m)
        PROVE  OneRowInv'
    BY <1>0, <1>4, OneRowQuiet DEF MarkMilestoneComplete, Arrives, At, requestVars, OneRowBound
  <1>5. ASSUME NEW m \in Milestones, ReleaseMilestone(r, m)
        PROVE  OneRowInv'
    <2>1. pc'[r] \notin OneRowBound
      BY <1>5 DEF ReleaseMilestone, TypeInv, TypeOK, RequestTypeOK, OneRowBound
    <2> QED BY <1>0, <1>5, <2>1, OneRowQuiet DEF ReleaseMilestone
  <1>6. CASE ReleaseMilestoneIntent(r)
    <2>1. item[r] \in Milestones /\ UNCHANGED milestone
      BY <1>6 DEF ReleaseMilestoneIntent, At, TypeInv, FieldsOK, ReleaseLabels
    <2>2. CASE /\ milestone[item[r]] = "completed" /\ UNCHANGED payouts
               /\ \E i \in {k \in PendingPayouts : payouts[k].for = item[r]} :
                    GotoRow(r, "release_capture", i)
      <3>1. /\ pc'[r] = "release_capture" /\ item'[r] = item[r]
            /\ row'[r] \in 1..Len(payouts) /\ payouts[row'[r]].for = item[r]
        BY <2>2, GotoRowMoves DEF PendingPayouts
      <3>2. OneRowRequest(r)'
        BY <2>1, <2>2, <3>1 DEF OneRowRequest
      <3> QED BY <1>0, <2>2, <3>2, OneRowSame
    <2>3. CASE /\ milestone[item[r]] = "completed"
               /\ {k \in PendingPayouts : payouts[k].for = item[r]} = {}
               /\ payouts' = Append(payouts, [for |-> item[r], stage |-> "pending",
                                              transfer |-> "none"])
               /\ GotoRow(r, "release_capture", Len(payouts) + 1)
      <3>1. /\ Len(payouts') = Len(payouts) + 1
            /\ payouts'[Len(payouts) + 1] = [for |-> item[r], stage |-> "pending",
                                             transfer |-> "none"]
            /\ \A j \in 1..Len(payouts) : payouts'[j] = payouts[j]
            /\ \A j \in 1..Len(payouts) : payouts'[j].for = payouts[j].for
            /\ payouts'[Len(payouts) + 1].for = item[r]
        BY <1>0, <2>1, <2>3, NewPayout DEF Sources
      <3>2. \A i \in 1..Len(payouts) : payouts[i].for # item[r]
        BY <2>1, <2>3 DEF OneRowInv, PayoutRowOK, PendingPayouts
      <3>3. \A i \in 1..Len(payouts') : PayoutRowOK(i)'
        BY <2>1, <3>1, LengthsNat DEF OneRowInv, PayoutRowOK
      <3>4. SingleRows'
        BY <3>1, <3>2, LengthsNat DEF OneRowInv, SingleRows
      <3>5. OneRowRequest(r)'
        <4>1. /\ pc'[r] = "release_capture" /\ item'[r] = item[r]
              /\ row'[r] = Len(payouts) + 1
          BY <2>3, GotoRowMoves
        <4> QED BY <2>1, <2>3, <3>1, <4>1, LengthsNat DEF OneRowRequest
      <3> QED BY <1>0, <3>1, <3>3, <3>4, <3>5, OneRowStep, LengthsNat
    <2>4. CASE UNCHANGED payouts /\ Return(r)
      BY <1>0, <2>4, ReturnMoves, OneRowQuiet DEF OneRowBound
    <2> QED BY <1>6, <2>2, <2>3, <2>4 DEF ReleaseMilestoneIntent
  <1>7. CASE ReleaseMilestoneCapture(r) \/ ReleaseMilestoneTransfer(r)
    <2>1. /\ pc[r] \in {"release_capture", "release_transfer"}
          /\ pc'[r] \in {"release_transfer", "release_finalize"}
          /\ item'[r] = item[r] /\ row'[r] = row[r] /\ UNCHANGED <<payouts, milestone>>
      BY <1>7, GotoMoves DEF ReleaseMilestoneCapture, ReleaseMilestoneTransfer, At
    <2>2. OneRowRequest(r)'
      BY <1>0, <2>1 DEF OneRowRequest
    <2> QED BY <1>0, <2>1, <2>2, OneRowSame
  <1>8. CASE ReleaseMilestoneFinalize(r)
    <2>1. /\ item[r] \in Milestones /\ milestone[item[r]] \in {"completed", "released"}
          /\ row[r] \in 1..Len(payouts) /\ row[r] \in Nat /\ payouts[row[r]].for = item[r]
      BY <1>0, <1>8
      DEF ReleaseMilestoneFinalize, At, OneRowRequest, TypeInv, TypeOK, RequestTypeOK,
          FieldsOK, ReleaseLabels
    <2>2. milestone'[item[r]] = "released"
      BY <1>0, <1>8, <2>1 DEF ReleaseMilestoneFinalize
    <2>3. payouts' = [payouts EXCEPT ![row[r]].stage = "completed",
                                     ![row[r]].transfer = item[r]]
      BY <1>8 DEF ReleaseMilestoneFinalize
    <2>4. /\ Len(payouts') = Len(payouts)
          /\ \A j \in 1..Len(payouts) : payouts'[j].for = payouts[j].for
          /\ \A j \in 1..Len(payouts) : j # row[r] => payouts'[j] = payouts[j]
          /\ payouts'[row[r]].stage = "completed"
      BY <1>0, <2>1, <2>3, PayoutFinalized DEF Sources
    <2>5. \A i \in 1..Len(payouts') : PayoutRowOK(i)'
      BY <1>0, <2>1, <2>2, <2>4 DEF OneRowInv, PayoutRowOK, Progress
    <2>6. SingleRows'
      BY <2>4 DEF OneRowInv, SingleRows
    <2>7. OneRowRequest(r)'
      BY <1>8, ReturnMoves DEF ReleaseMilestoneFinalize, OneRowRequest
    <2> QED BY <1>0, <2>4, <2>5, <2>6, <2>7, OneRowStep, LengthsNat
  <1> QED
    BY <1>1, <1>2, <1>3, <1>4, <1>5, <1>6, <1>7, <1>8 DEF MilestoneNext

\* There is no row before checkout.
LEMMA OneRowInit == Init => OneRowInv
  BY DEF Init, OneRowInv, OneRowRequest, SingleRows

\* Every step of the system keeps the rows apart.
LEMMA OneRowNext ==
  ASSUME Sole, TypeInv, OneRowInv, [Next]_vars
  PROVE  OneRowInv'
  <1>1. ASSUME NEW r \in Requests, RequestNext(r)
        PROVE  OneRowInv'
    <2> USE DEF OneRowBound, Progress
    <2>1. CASE CreateNext(r)
      BY <2>1, CreateFrame, OneRowQuiet DEF CreateLabels
    <2>2. CASE PaymentNext(r)
      BY <2>2, PaymentFrame, OneRowQuiet DEF PaymentLabels
    <2>3. CASE ConfirmNext(r)
      BY <2>3, ConfirmFrame, OneRowQuiet DEF ConfirmLabels
    <2>4. CASE CancelNext(r)
      BY <2>4, CancelFrame, OneRowQuiet DEF CancelLabels, RefundLabels
    <2>5. CASE DisputeNext(r)
      BY <2>5, DisputeFrame, OneRowQuiet DEF DisputeLabels, ResolveLabels
    <2>6. CASE Abandon(r)
      BY <2>6, AbandonFrame, OneRowQuiet
    <2> QED
      BY <1>1, <2>1, <2>2, <2>3, <2>4, <2>5, <2>6, CompleteOneRow, EventOneRow, MilestoneOneRow
      DEF RequestNext, OrderNext
  <1>2. CASE StripeNext \/ UNCHANGED vars
    <2>1. UNCHANGED <<payouts, milestone, pc, seen, item, row>>
      BY <1>2, StripeFrame
    <2>2. \A r \in Requests : OneRowRequest(r)'
      BY <2>1 DEF OneRowInv, OneRowRequest, AllReleased
    <2> QED BY <2>1, <2>2 DEF OneRowInv, PayoutRowOK, SingleRows
  <1> QED BY <1>1, <1>2 DEF Next

\* A milestone never has two payout rows, whatever releases crash or race, if
\* completeOrder cannot take a milestone's pending row for its own: else it marks the
\* row completed and the next release adds another.
THEOREM OnePayoutPerMilestoneTheorem ==
  ASSUME Sole
  PROVE  Spec => []OnePayoutPerMilestone
  <1>1. OneRowInv => OnePayoutPerMilestone
    <2> SUFFICES ASSUME OneRowInv, NEW m \in Milestones
                 PROVE  Cardinality({i \in 1..Len(payouts) : payouts[i].for = m}) <= 1
      BY DEF OnePayoutPerMilestone
    <2> DEFINE rows == {i \in 1..Len(payouts) : payouts[i].for = m}
    <2>1. rows = {} \/ \E i : rows = {i}
      <3>1. \A i, j \in rows : i = j
        BY DEF OneRowInv, SingleRows
      <3> QED BY <3>1
    <2> HIDE DEF rows
    <2>2. Cardinality(rows) \in {0, 1}
      BY <2>1, FS_EmptySet, FS_Singleton
    <2>3. Cardinality(rows) <= 1
      BY <2>2
    <2> QED BY <2>3 DEF rows
  <1>2. TypeInv /\ OneRowInv /\ [Next]_vars => OneRowInv'
    BY OneRowNext
  <1> QED BY <1>1, <1>2, OneRowInit, TypeInvariant, PTL DEF Spec

-----------------------------------------------------------------------------
(* Completion of an order that an accepted proposal created.  It has no       *)
(* payment of its own, so completeOrder goes on only because a milestone was  *)
(* released, which was paid, or because the order was completed, and then     *)
(* there is nothing left to book.                                             *)

Closed == {"completed", "cancelled", "disputed"}

FreeRequest(r) ==
  /\ pc[r] \notin {"create_insert", "pay_verify", "pay_write", "event_write"}
  /\ pc[r] = "complete_claim" =>
       transfers # {} \/ (seen[r] = "unpayable" /\ status \in Closed)

\* Labels at which a request carries an obligation of this kind.
FreeBound == {"create_insert", "pay_verify", "pay_write", "event_write", "complete_claim"}

FreeInv ==
  /\ \A r \in Requests : FreeRequest(r)
  /\ status \notin {"payment_pending", "payment_failed"}
  /\ hires > 0 => transfers # {}

\* A closed order is not opened again, and never awaits a payment.
ClosedStays ==
  /\ status \in Closed => status' \in Closed
  /\ status' \notin {"payment_pending", "payment_failed"}

\* What a step of r has to show for the other requests.
LEMMA FreeStep ==
  ASSUME FreeInv, NEW r \in Requests, Moves(r), FreeRequest(r)', ClosedStays,
         transfers \subseteq transfers', hires' > 0 => transfers' # {}
  PROVE  FreeInv'
  <1>1. ASSUME NEW q \in Requests
        PROVE  FreeRequest(q)'
    <2>1. CASE q = r
      BY <2>1
    <2>2. CASE q # r
      <3>1. pc'[q] = pc[q] /\ seen'[q] = seen[q] /\ FreeRequest(q)
        BY <2>2 DEF Moves, FreeInv
      <3> QED BY <3>1 DEF FreeRequest, ClosedStays
    <2> QED BY <2>1, <2>2
  <1> QED BY <1>1 DEF FreeInv, ClosedStays

\* Most steps leave r without such an obligation and book no completion.
LEMMA FreeQuiet ==
  ASSUME FreeInv, NEW r \in Requests, Moves(r), pc'[r] \notin FreeBound, ClosedStays,
         transfers \subseteq transfers', UNCHANGED hires
  PROVE  FreeInv'
  <1>1. FreeRequest(r)'
    BY DEF FreeRequest, FreeBound
  <1>2. hires' > 0 => transfers' # {}
    BY DEF FreeInv
  <1> QED BY <1>1, <1>2, FreeStep

\* Without a payment, checkout is acceptProposal.
LEMMA CreateFree ==
  ASSUME ~HasPaymentRef, TypeInv, FreeInv, NEW r \in Requests, CreateNext(r)
  PROVE  FreeInv'
  <1> USE DEF orderVars, FreeBound
  <1>0. Moves(r) /\ UNCHANGED <<hires, transfers>>
    BY CreateFrame
  <1>1. CASE CreateOrder(r) \/ CreateOrderInsert(r)
    BY <1>1 DEF CreateOrder, CreateOrderInsert, At, FreeInv, FreeRequest
  <1>2. CASE CreateOrderTag(r)
    BY <1>0, <1>2, ReturnMoves, FreeQuiet DEF CreateOrderTag, ClosedStays, FreeInv
  <1>3. CASE AcceptProposal(r)
    BY <1>0, <1>3, GotoMoves, FreeQuiet DEF AcceptProposal, ClosedStays, FreeInv
  <1>4. CASE AcceptProposalCommit(r)
    BY <1>0, <1>4, ReturnMoves, FreeQuiet DEF AcceptProposalCommit, ClosedStays, FreeInv, Closed
  <1> QED
    BY <1>1, <1>2, <1>3, <1>4 DEF CreateNext

\* No payment is awaited, so none is reported.
LEMMA PaymentFree ==
  ASSUME TypeInv, FreeInv, NEW r \in Requests, PaymentNext(r)
  PROVE  FreeInv'
  <1>0. Moves(r) /\ UNCHANGED <<hires, transfers>>
    BY PaymentFrame
  <1>1. CASE ConfirmPayment(r) \/ ConfirmPaymentVerify(r) \/ ConfirmPaymentWrite(r)
    BY <1>1
    DEF ConfirmPayment, ConfirmPaymentVerify, ConfirmPaymentWrite, At, FreeInv, FreeRequest
  <1>2. CASE ConfirmPaymentTask(r)
    BY <1>0, <1>2, ReturnMoves, FreeQuiet
    DEF ConfirmPaymentTask, ClosedStays, FreeInv, FreeBound
  <1> QED
    BY <1>1, <1>2 DEF PaymentNext

\* confirmOrder moves an open order.
LEMMA ConfirmFree ==
  ASSUME TypeInv, FreeInv, NEW r \in Requests, ConfirmNext(r)
  PROVE  FreeInv'
  <1> USE DEF ClosedStays, Closed, FreeInv, orderVars
  <1>1. ClosedStays
    <2>1. CASE ConfirmOrder(r)
      BY <2>1 DEF ConfirmOrder
    <2>2. CASE ConfirmOrderClaim(r)
      BY <2>2 DEF ConfirmOrderClaim
    <2>3. CASE ConfirmOrderCapture(r)
      BY <2>3 DEF ConfirmOrderCapture
    <2>4. CASE ConfirmOrderCaptureFails(r)
      BY <2>4 DEF ConfirmOrderCaptureFails
    <2>5. CASE ConfirmOrderRollback(r)
      BY <2>5 DEF ConfirmOrderRollback
    <2> QED BY <2>1, <2>2, <2>3, <2>4, <2>5 DEF ConfirmNext
  <1> QED BY <1>1, ConfirmFrame, FreeQuiet DEF ConfirmLabels, FreeBound

\* completeOrder books an order that is not closed only after a milestone was paid.
LEMMA CompleteFree ==
  ASSUME ~HasPaymentRef, TypeInv, PayInv, FreeInv, NEW r \in Requests, CompleteNext(r)
  PROVE  FreeInv'
  <1> USE DEF orderVars, ledgerVars, milestoneVars, stripeVars, moneyVars
  <1>0. Moves(r)
    BY CompleteFrame
  <1>1. CASE CompleteOrder(r)
    <2>1. /\ pc'[r] = "complete_claim" /\ UNCHANGED <<status, hires, transfers>>
          /\ ~HasMilestones => status = "completed" /\ seen'[r] = "unpayable"
      BY <1>1, EnterMoves DEF CompleteOrder
    <2>2. HasMilestones => transfers # {}
      <3> SUFFICES ASSUME HasMilestones PROVE transfers # {}
        OBVIOUS
      <3>1. PICK m \in Milestones : m \in Present
        BY DEF HasMilestones, Present
      <3>2. milestone[m] = "released"
        BY <1>1, <3>1 DEF CompleteOrder
      <3> QED BY <3>2 DEF PayInv, MilestonesSettleOnce
    <2>3. FreeRequest(r)'
      BY <2>1, <2>2 DEF FreeRequest, Closed
    <2> QED BY <1>0, <2>1, <2>3, FreeStep DEF ClosedStays, FreeInv
  <1>2. CASE CompleteOrderClaim(r)
    <2>1. FreeRequest(r)'
      <3>1. \/ \E i : CompleteFrom(r, i)
            \/ Return(r)
        BY <1>2 DEF CompleteOrderClaim
      <3> QED BY <3>1, CompleteFromMoves, ReturnMoves DEF FreeRequest, CompleteLabels
    <2>2. UNCHANGED transfers
      BY <1>2 DEF CompleteOrderClaim
    <2>3. CASE status \in {"confirmed", "in_progress"}
      <3>1. transfers # {} /\ status' = "completed"
        BY <1>2, <2>3 DEF CompleteOrderClaim, At, FreeInv, FreeRequest, Closed
      <3> QED BY <1>0, <2>1, <2>2, <2>3, <3>1, FreeStep DEF ClosedStays, Closed
    <2>4. CASE UNCHANGED <<status, hires>>
      BY <1>0, <2>1, <2>2, <2>4, FreeStep DEF ClosedStays, FreeInv
    <2> QED BY <1>2, <2>3, <2>4 DEF CompleteOrderClaim
  <1>3. CASE CompleteOrderCapture(r)
    BY <1>0, <1>3, GotoMoves, FreeQuiet
    DEF CompleteOrderCapture, ClosedStays, FreeInv, FreeBound
  <1>4. CASE CompleteOrderTransfer(r)
    BY <1>0, <1>4, GotoMoves, FreeQuiet
    DEF CompleteOrderTransfer, Transfer, ClosedStays, FreeInv, FreeBound
  <1>5. CASE CompleteOrderFinalize(r)
    BY <1>0, <1>5, GotoMoves, FreeQuiet
    DEF CompleteOrderFinalize, ClosedStays, FreeInv, FreeBound
  <1>6. CASE CompleteOrderEntry(r)
    BY <1>0, <1>6, ReturnMoves, FreeQuiet
    DEF CompleteOrderEntry, ClosedStays, FreeInv, FreeBound
  <1> QED
    BY <1>1, <1>2, <1>3, <1>4, <1>5, <1>6 DEF CompleteNext

\* cancelOrder closes.
LEMMA CancelFree ==
  ASSUME TypeInv, FreeInv, NEW r \in Requests, CancelNext(r)
  PROVE  FreeInv'
  <1> USE DEF ClosedStays, Closed, FreeInv, orderVars
  <1>1. ClosedStays
    <2>1. CASE CancelOrder(r)
      BY <2>1 DEF CancelOrder
    <2>2. CASE CancelOrderFlip(r)
      BY <2>2 DEF CancelOrderFlip
    <2>3. CASE CancelOrderPI(r)
      BY <2>3 DEF CancelOrderPI
    <2>4. CASE CancelOrderClaim(r)
      BY <2>4 DEF CancelOrderClaim
    <2>5. CASE CancelOrderRefund(r) \/ CancelOrderReverse(r) \/ CancelOrderFinalize(r)
      BY <2>5 DEF CancelOrderRefund, CancelOrderReverse, CancelOrderFinalize
    <2> QED BY <2>1, <2>2, <2>3, <2>4, <2>5 DEF CancelNext
  <1> QED BY <1>1, CancelFrame, FreeQuiet DEF CancelLabels, RefundLabels, FreeBound

\* The webhook finds no order that awaits a payment.
LEMMA EventFree ==
  ASSUME TypeInv, FreeInv, NEW r \in Requests, EventNext(r)
  PROVE  FreeInv'
  <1> USE DEF orderVars
  <1>1. /\ UNCHANGED status /\ pc'[r] # "event_write"
    <2>1. ASSUME NEW type \in EventTypes, NEW s \in Sources, ReceiveEvent(r, type, s)
          PROVE  UNCHANGED status /\ pc'[r] # "event_write"
      BY <2>1 DEF ReceiveEvent, TypeInv, TypeOK, RequestTypeOK
    <2>2. CASE HandlePaymentEvent(r)
      BY <2>2, GotoMoves DEF HandlePaymentEvent, FreeInv
    <2>3. CASE PaymentEventWrite(r)
      BY <2>3 DEF PaymentEventWrite, At, FreeInv, FreeRequest
    <2>4. CASE HandleCapturable(r)
      BY <2>4, GotoMoves DEF HandleCapturable, FreeInv
    <2>5. CASE HandleTransferFailed(r)
      BY <2>5, GotoMoves DEF HandleTransferFailed
    <2>6. CASE FinalizeEvent(r)
      BY <2>6, ReturnMoves DEF FinalizeEvent
    <2> QED BY <2>1, <2>2, <2>3, <2>4, <2>5, <2>6 DEF EventNext
  <1>2. /\ Moves(r) /\ pc'[r] \notin FreeBound /\ UNCHANGED <<hires, transfers>>
    BY <1>1, EventFrame DEF EventLabels, FreeBound
  <1> QED BY <1>1, <1>2, FreeQuiet DEF ClosedStays, FreeInv

\* A dispute closes the order and its resolution keeps it closed.
LEMMA DisputeFree ==
  ASSUME TypeInv, FreeInv, NEW r \in Requests, DisputeNext(r)
  PROVE  FreeInv'
  <1> USE DEF ClosedStays, Closed, FreeInv, orderVars
  <1>1. ClosedStays
    <2>1. CASE OpenDispute(r) \/ OpenDisputeWrite(r)
      BY <2>1 DEF OpenDispute, OpenDisputeWrite
    <2>2. CASE RespondToDispute(r) \/ RespondToDisputeWrite(r)
      BY <2>2 DEF RespondToDispute, RespondToDisputeWrite
    <2>3. ASSUME NEW resolution \in Resolutions, ResolveDispute(r, resolution)
          PROVE  ClosedStays
      BY <2>3 DEF ResolveDispute
    <2>4. CASE ResolveDisputeClaim(r)
      BY <2>4 DEF ResolveDisputeClaim
    <2>5. CASE ResolveDisputeMoney(r)
      BY <2>5 DEF ResolveDisputeMoney
    <2>6. CASE ResolveDisputeFinalize(r)
      BY <2>6 DEF ResolveDisputeFinalize
    <2> QED BY <2>1, <2>2, <2>3, <2>4, <2>5, <2>6 DEF DisputeNext
  <1> QED BY <1>1, DisputeFrame, FreeQuiet DEF DisputeLabels, ResolveLabels, FreeBound

\* Nothing is booked before checkout.
LEMMA FreeInit == Init => FreeInv
  BY DEF Init, FreeInv, FreeRequest

\* Every step of the system keeps completion from being free.
LEMMA FreeNext ==
  ASSUME ~HasPaymentRef, TypeInv, PayInv, FreeInv, [Next]_vars
  PROVE  FreeInv'
  <1>1. ASSUME NEW r \in Requests, RequestNext(r)
        PROVE  FreeInv'
    <2>1. CASE MilestoneNext(r)
      BY <2>1, MilestoneFrame, FreeQuiet
      DEF MilestoneLabels, ReleaseLabels, FreeBound, ClosedStays, FreeInv
    <2>2. CASE Abandon(r)
      BY <2>2, AbandonFrame, FreeQuiet DEF FreeBound, ClosedStays, FreeInv
    <2> QED
      BY <1>1, <2>1, <2>2, CreateFree, PaymentFree, ConfirmFree, CompleteFree, CancelFree,
         EventFree, DisputeFree
      DEF RequestNext, OrderNext
  <1>2. CASE StripeNext \/ UNCHANGED vars
    <2>1. UNCHANGED <<status, hires, transfers, pc, seen>>
      BY <1>2, StripeFrame
    <2> QED BY <2>1 DEF FreeInv, FreeRequest
  <1> QED BY <1>1, <1>2 DEF Next

\* An order without a payment of its own is booked as completed only after a milestone's
\* payment reached the seller, for every value of the constants.
THEOREM NoFreeCompletionTheorem == Spec => []NoFreeCompletion
  <1>1. CASE HasPaymentRef
    <2>1. NoFreeCompletion
      BY <1>1 DEF NoFreeCompletion
    <2> QED BY <2>1, PTL
  <1>2. CASE ~HasPaymentRef
    <2>1. FreeInv => NoFreeCompletion
      BY DEF FreeInv, NoFreeCompletion
    <2>2. TypeInv /\ PayInv /\ FreeInv /\ [Next]_vars => FreeInv'
      BY <1>2, FreeNext
    <2> QED BY <2>1, <2>2, FreeInit, PayInvariant, TypeInvariant, PTL DEF Spec
  <1> QED BY <1>1, <1>2

=============================================================================
