--------------------------- MODULE MarketplaceTypes ---------------------------
(***************************************************************************)
(* Type correctness of Marketplace for every value of its constants, and the *)
(* facts about ledger rows that the other proofs rest on.                    *)
(***************************************************************************)
EXTENDS Marketplace, SequenceTheorems, TLAPS

-----------------------------------------------------------------------------
(* Ledger rows *)

\* A function on a sequence's indices is a sequence of the same length.
LEMMA MapInSeq ==
  ASSUME NEW S, NEW T, NEW s \in Seq(S), NEW f \in [1..Len(s) -> T]
  PROVE  f \in Seq(T) /\ Len(f) = Len(s)
  <1>1. Len(s) \in Nat
    BY LenProperties
  <1>2. f \in Seq(T)
    BY <1>1
  <1> QED BY <1>1, <1>2, LenProperties

\* A new payout row is pending and keeps the rows there are.
LEMMA NewPayout ==
  ASSUME payouts \in Seq(PayoutRow), NEW s \in Sources,
         payouts' = Append(payouts, [for |-> s, stage |-> "pending", transfer |-> "none"])
  PROVE  /\ payouts' \in Seq(PayoutRow) /\ Len(payouts') = Len(payouts) + 1
         /\ \A j \in 1..Len(payouts) : payouts'[j] = payouts[j]
         /\ \A j \in 1..Len(payouts) : payouts'[j].for = payouts[j].for
         /\ payouts'[Len(payouts) + 1] = [for |-> s, stage |-> "pending", transfer |-> "none"]
         /\ payouts'[Len(payouts) + 1].for = s
  <1>1. [for |-> s, stage |-> "pending", transfer |-> "none"] \in PayoutRow
    BY DEF PayoutRow, Sources
  <1> QED BY <1>1, AppendProperties

\* A new refund entry is pending and keeps the entries there are.
LEMMA NewRefund ==
  ASSUME refunds \in Seq(RefundRow), NEW d \in Nat,
         refunds' = Append(refunds, [for |-> d, stage |-> "pending"])
  PROVE  /\ refunds' \in Seq(RefundRow) /\ Len(refunds') = Len(refunds) + 1
         /\ \A j \in 1..Len(refunds) : refunds'[j] = refunds[j]
         /\ \A j \in 1..Len(refunds) : refunds'[j].for = refunds[j].for
         /\ refunds'[Len(refunds) + 1] = [for |-> d, stage |-> "pending"]
         /\ refunds'[Len(refunds) + 1].for = d
  <1>1. [for |-> d, stage |-> "pending"] \in RefundRow
    BY DEF RefundRow
  <1> QED BY <1>1, AppendProperties

\* Finalizing a payout row leaves every row's recipient, and the other rows.
LEMMA PayoutFinalized ==
  ASSUME payouts \in Seq(PayoutRow), NEW i \in Nat, NEW s \in Sources \union {"none"},
         payouts' = [payouts EXCEPT ![i].stage = "completed", ![i].transfer = s]
  PROVE  /\ payouts' \in Seq(PayoutRow) /\ Len(payouts') = Len(payouts)
         /\ \A j \in 1..Len(payouts) : payouts'[j].for = payouts[j].for
         /\ \A j \in 1..Len(payouts) : j # i => payouts'[j] = payouts[j]
         /\ i \in 1..Len(payouts) => payouts'[i].stage = "completed" /\ payouts'[i].transfer = s
  <1>1. Len(payouts) \in Nat /\ payouts \in [1..Len(payouts) -> PayoutRow]
    BY LenProperties
  <1>2. payouts' \in [1..Len(payouts) -> PayoutRow]
    BY <1>1 DEF PayoutRow, Sources
  <1>3. /\ \A j \in 1..Len(payouts) : payouts'[j].for = payouts[j].for
        /\ \A j \in 1..Len(payouts) : j # i => payouts'[j] = payouts[j]
        /\ i \in 1..Len(payouts) => payouts'[i].stage = "completed" /\ payouts'[i].transfer = s
    BY <1>1 DEF PayoutRow
  <1>4. \A f \in [1..Len(payouts) -> PayoutRow] :
           f \in Seq(PayoutRow) /\ Len(f) = Len(payouts)
    BY MapInSeq
  <1> QED BY <1>2, <1>3, <1>4

\* Failing the payout rows of a transfer leaves every row's recipient and transfer.
LEMMA PayoutsFailed ==
  ASSUME payouts \in Seq(PayoutRow), NEW s,
         payouts' = [j \in 1..Len(payouts) |->
                       IF payouts[j].transfer = s
                       THEN [payouts[j] EXCEPT !.stage = "failed"] ELSE payouts[j]]
  PROVE  /\ payouts' \in Seq(PayoutRow) /\ Len(payouts') = Len(payouts)
         /\ \A j \in 1..Len(payouts) : payouts'[j].for = payouts[j].for
         /\ \A j \in 1..Len(payouts) :
              /\ payouts'[j].transfer = payouts[j].transfer
              /\ IF payouts[j].transfer = s THEN payouts'[j].stage = "failed"
                                            ELSE payouts'[j] = payouts[j]
  <1>1. Len(payouts) \in Nat /\ payouts \in [1..Len(payouts) -> PayoutRow]
    BY LenProperties
  <1>2. payouts' \in [1..Len(payouts) -> PayoutRow]
    BY <1>1 DEF PayoutRow
  <1>3. \A j \in 1..Len(payouts) :
          /\ payouts'[j].for = payouts[j].for /\ payouts'[j].transfer = payouts[j].transfer
          /\ IF payouts[j].transfer = s THEN payouts'[j].stage = "failed"
                                        ELSE payouts'[j] = payouts[j]
    BY <1>1 DEF PayoutRow
  <1> QED BY <1>2, <1>3, MapInSeq

\* Finalizing a refund entry leaves what every entry is for, and the other entries.
LEMMA RefundFinalized ==
  ASSUME refunds \in Seq(RefundRow), NEW i \in Nat,
         refunds' = [refunds EXCEPT ![i].stage = "finalized"]
  PROVE  /\ refunds' \in Seq(RefundRow) /\ Len(refunds') = Len(refunds)
         /\ \A j \in 1..Len(refunds) : refunds'[j].for = refunds[j].for
         /\ \A j \in 1..Len(refunds) : j # i => refunds'[j] = refunds[j]
  <1>1. Len(refunds) \in Nat /\ refunds \in [1..Len(refunds) -> RefundRow]
    BY LenProperties
  <1>2. refunds' \in [1..Len(refunds) -> RefundRow]
    BY <1>1 DEF RefundRow
  <1>3. /\ \A j \in 1..Len(refunds) : refunds'[j].for = refunds[j].for
        /\ \A j \in 1..Len(refunds) : j # i => refunds'[j] = refunds[j]
    BY <1>1 DEF RefundRow
  <1> QED BY <1>2, <1>3, MapInSeq

\* Claiming, answering or resolving a dispute keeps the type of the rows.
LEMMA DisputeUpdated ==
  ASSUME disputes \in Seq(DisputeRow), NEW d \in Nat, NEW resolution \in Resolutions,
         NEW s \in {"resolving", "resolved"},
         \/ disputes' = [disputes EXCEPT ![d].status = "responded"]
         \/ disputes' = [disputes EXCEPT ![d].status = s, ![d].resolution = resolution]
  PROVE  disputes' \in Seq(DisputeRow) /\ Len(disputes') = Len(disputes)
  <1>1. Len(disputes) \in Nat /\ disputes \in [1..Len(disputes) -> DisputeRow]
    BY LenProperties
  <1>2. disputes' \in [1..Len(disputes) -> DisputeRow]
    BY <1>1 DEF DisputeRow
  <1> QED BY <1>2, MapInSeq

\* Claiming or resolving a dispute writes that dispute only.
LEMMA ResolutionWritten ==
  ASSUME disputes \in Seq(DisputeRow), NEW d \in 1..Len(disputes),
         NEW resolution \in Resolutions, NEW s \in {"resolving", "resolved"},
         disputes' = [disputes EXCEPT ![d].status = s, ![d].resolution = resolution]
  PROVE  /\ Len(disputes') = Len(disputes)
         /\ disputes'[d].status = s /\ disputes'[d].resolution = resolution
         /\ \A e \in 1..Len(disputes) : e # d => disputes'[e] = disputes[e]
  <1>1. Len(disputes) \in Nat /\ disputes \in [1..Len(disputes) -> DisputeRow]
    BY LenProperties
  <1>2. Len(disputes') = Len(disputes)
    BY <1>1, DisputeUpdated
  <1> QED BY <1>1, <1>2 DEF DisputeRow

-----------------------------------------------------------------------------
(* Types.  A releasing request holds a milestone and a resolving one a      *)
(* resolution: without that, TypeOK is not inductive.                       *)

ReleaseLabels == {"release_intent", "release_capture", "release_transfer",
                  "release_finalize"}
ResolveLabels == {"resolve_claim", "resolve_money", "resolve_finalize"}

FieldsOK ==
  \A r \in Requests :
    /\ pc[r] \in ReleaseLabels => item[r] \in Milestones
    /\ pc[r] \in ResolveLabels => seen[r] \in Resolutions

TypeInv == TypeOK /\ FieldsOK

RequestInv == RequestTypeOK /\ FieldsOK

\* A new request, at any point outside the sagas that need more fields, is typed.
LEMMA EnterType ==
  ASSUME RequestInv, NEW r \in Requests,
         NEW label \in Labels \ (ReleaseLabels \union ResolveLabels),
         NEW s \in Modes \union Resolutions \union EventTypes \union {"none"},
         Enter(r, label, s)
  PROVE  RequestInv'
  BY DEF RequestInv, RequestTypeOK, FieldsOK, Enter

\* A request keeps its item and its resolution on its way through a saga.
LEMMA GotoType ==
  ASSUME RequestInv, NEW r \in Requests, NEW label \in Labels, Goto(r, label),
         label \in ReleaseLabels => pc[r] \in ReleaseLabels,
         label \in ResolveLabels => pc[r] \in ResolveLabels
  PROVE  RequestInv'
  BY DEF RequestInv, RequestTypeOK, FieldsOK, Goto

\* The same when it takes a ledger row.
LEMMA GotoRowType ==
  ASSUME RequestInv, NEW r \in Requests, NEW label \in Labels, NEW i \in Nat,
         GotoRow(r, label, i),
         label \in ReleaseLabels => pc[r] \in ReleaseLabels,
         label \in ResolveLabels => pc[r] \in ResolveLabels
  PROVE  RequestInv'
  BY DEF RequestInv, RequestTypeOK, FieldsOK, GotoRow

\* A request that returned is typed.
LEMMA ReturnType ==
  ASSUME RequestInv, NEW r \in Requests, Return(r)
  PROVE  RequestInv'
  BY
  DEF RequestInv, RequestTypeOK, FieldsOK, Return, Labels, ReleaseLabels, ResolveLabels

\* A refund, new or replayed, keeps the types of what Stripe holds.
LEMMA RefundPIType ==
  ASSUME StripeTypeOK, NEW key \in RefundKeys, RefundPI(key), UNCHANGED milestoneVars
  PROVE  StripeTypeOK'
  <1>1. refunded' \in 0..2
    BY DEF StripeTypeOK, RefundPI
  <1>2. refundKeys' \subseteq RefundKeys
    BY DEF StripeTypeOK, RefundPI
  <1> QED BY <1>1, <1>2 DEF StripeTypeOK, RefundPI, milestoneVars

\* Checkout keeps the types.
LEMMA CreateType ==
  ASSUME TypeInv, NEW r \in Requests, CreateNext(r)
  PROVE  TypeInv'
  <1> USE DEF TypeInv, RequestInv, TypeOK, OrderTypeOK, OrderStatus, LedgerTypeOK,
            StripeTypeOK, orderVars, ledgerVars, milestoneVars, stripeVars, moneyVars,
            Labels, ReleaseLabels, ResolveLabels, At
  <1>1. CASE CreateOrder(r)
    BY <1>1, EnterType DEF CreateOrder, PIStatus, Resolutions
  <1>2. CASE CreateOrderInsert(r)
    BY <1>2, GotoType DEF CreateOrderInsert
  <1>3. CASE CreateOrderTag(r)
    BY <1>3, ReturnType DEF CreateOrderTag
  <1>4. CASE AcceptProposal(r)
    BY <1>4, GotoType DEF AcceptProposal
  <1>5. CASE AcceptProposalCommit(r)
    BY <1>5, ReturnType DEF AcceptProposalCommit
  <1> QED
    BY <1>1, <1>2, <1>3, <1>4, <1>5 DEF CreateNext

\* confirmPayment keeps the types.
LEMMA PaymentType ==
  ASSUME TypeInv, NEW r \in Requests, PaymentNext(r)
  PROVE  TypeInv'
  <1> USE DEF TypeInv, RequestInv, TypeOK, OrderTypeOK, OrderStatus, LedgerTypeOK,
            StripeTypeOK, orderVars, ledgerVars, milestoneVars, stripeVars, moneyVars,
            Labels, ReleaseLabels, ResolveLabels, At
  <1>1. CASE ConfirmPayment(r)
    BY <1>1, EnterType DEF ConfirmPayment
  <1>2. CASE ConfirmPaymentVerify(r)
    BY <1>2, GotoType, ReturnType DEF ConfirmPaymentVerify
  <1>3. CASE ConfirmPaymentWrite(r)
    BY <1>3, GotoType DEF ConfirmPaymentWrite
  <1>4. CASE ConfirmPaymentTask(r)
    BY <1>4, ReturnType DEF ConfirmPaymentTask
  <1> QED
    BY <1>1, <1>2, <1>3, <1>4 DEF PaymentNext

\* confirmOrder keeps the types.
LEMMA ConfirmType ==
  ASSUME TypeInv, NEW r \in Requests, ConfirmNext(r)
  PROVE  TypeInv'
  <1> USE DEF TypeInv, RequestInv, TypeOK, OrderTypeOK, OrderStatus, LedgerTypeOK,
            StripeTypeOK, orderVars, ledgerVars, milestoneVars, stripeVars, moneyVars,
            Labels, ReleaseLabels, ResolveLabels, At
  <1>1. CASE ConfirmOrder(r)
    BY <1>1, EnterType DEF ConfirmOrder, Modes
  <1>2. CASE ConfirmOrderClaim(r)
    BY <1>2, GotoType, ReturnType DEF ConfirmOrderClaim
  <1>3. CASE ConfirmOrderCapture(r)
    BY <1>3, ReturnType
    DEF ConfirmOrderCapture, CapturePI, Emitted, EmittedForOrder, EventState, PIStatus
  <1>4. CASE ConfirmOrderCaptureFails(r)
    BY <1>4, GotoType
    DEF ConfirmOrderCaptureFails, CapturePI, Emitted, EmittedForOrder, EventState, PIStatus
  <1>5. CASE ConfirmOrderRollback(r)
    BY <1>5, ReturnType DEF ConfirmOrderRollback
  <1> QED
    BY <1>1, <1>2, <1>3, <1>4, <1>5 DEF ConfirmNext

\* From any row, completeOrder's next step is typed.
LEMMA CompleteFromType ==
  ASSUME RequestInv, NEW r \in Requests, NEW i \in Nat, CompleteFrom(r, i)
  PROVE  RequestInv'
  BY GotoRowType, ReturnType DEF CompleteFrom, Labels, ReleaseLabels, ResolveLabels

\* completeOrder keeps the types.
LEMMA CompleteType ==
  ASSUME TypeInv, NEW r \in Requests, CompleteNext(r)
  PROVE  TypeInv'
  <1> USE DEF TypeInv, RequestInv, TypeOK, OrderTypeOK, OrderStatus, LedgerTypeOK,
            StripeTypeOK, orderVars, ledgerVars, milestoneVars, stripeVars, moneyVars,
            Labels, ReleaseLabels, ResolveLabels, At
  <1>1. CASE CompleteOrder(r)
    BY <1>1, EnterType DEF CompleteOrder, Modes
  <1>2. CASE CompleteOrderClaim(r)
    <2>1. payouts' \in Seq(PayoutRow)
      BY <1>2, NewPayout DEF CompleteOrderClaim, Sources
    <2>2. entries' \in Seq({"pending", "completed"})
      BY <1>2, AppendProperties DEF CompleteOrderClaim
    <2>3. RequestInv'
      <3>1. Len(payouts) + 1 \in Nat /\ PendingPayouts \subseteq Nat
        BY LenProperties DEF PendingPayouts
      <3> QED BY <1>2, <3>1, CompleteFromType, ReturnType DEF CompleteOrderClaim
    <2> QED BY <1>2, <2>1, <2>2, <2>3 DEF CompleteOrderClaim
  <1>3. CASE CompleteOrderCapture(r)
    BY <1>3, GotoType
    DEF CompleteOrderCapture, CapturePI, Emitted, EmittedForOrder, EventState, PIStatus
  <1>4. CASE CompleteOrderTransfer(r)
    BY <1>4, GotoType DEF CompleteOrderTransfer, Transfer, Sources
  <1>5. CASE CompleteOrderFinalize(r)
    <2>1. payouts' \in Seq(PayoutRow)
      BY <1>5, PayoutFinalized DEF CompleteOrderFinalize, Sources, RequestTypeOK
    <2> QED BY <1>5, <2>1, GotoType DEF CompleteOrderFinalize
  <1>6. CASE CompleteOrderEntry(r)
    BY <1>6, ReturnType, MapInSeq DEF CompleteOrderEntry
  <1> QED
    BY <1>1, <1>2, <1>3, <1>4, <1>5, <1>6 DEF CompleteNext

\* cancelOrder keeps the types.
LEMMA CancelType ==
  ASSUME TypeInv, NEW r \in Requests, CancelNext(r)
  PROVE  TypeInv'
  <1> USE DEF TypeInv, RequestInv, TypeOK, OrderTypeOK, OrderStatus, LedgerTypeOK,
            StripeTypeOK, orderVars, ledgerVars, milestoneVars, stripeVars, moneyVars,
            Labels, ReleaseLabels, ResolveLabels, At
  <1>1. CASE CancelOrder(r)
    BY <1>1, EnterType DEF CancelOrder
  <1>2. CASE CancelOrderFlip(r)
    BY <1>2, GotoType, ReturnType DEF CancelOrderFlip
  <1>3. CASE CancelOrderPI(r)
    BY <1>3, ReturnType DEF CancelOrderPI, CancelPI, PIStatus
  <1>4. CASE CancelOrderClaim(r)
    <2>1. refunds' \in Seq(RefundRow)
      BY <1>4, NewRefund DEF CancelOrderClaim
    <2>2. RequestInv'
      <3>1. Len(refunds) + 1 \in Nat /\ PendingRefunds(0) \subseteq Nat
        BY LenProperties DEF PendingRefunds
      <3> QED BY <1>4, <3>1, GotoRowType, ReturnType DEF CancelOrderClaim
    <2> QED BY <1>4, <2>1, <2>2 DEF CancelOrderClaim
  <1>5. CASE CancelOrderRefund(r)
    BY <1>5, GotoType DEF CancelOrderRefund, RefundPI, RefundKeys, Resolutions
  <1>6. CASE CancelOrderReverse(r)
    BY <1>6, GotoType DEF CancelOrderReverse
  <1>7. CASE CancelOrderFinalize(r)
    <2>1. refunds' \in Seq(RefundRow)
      BY <1>7, RefundFinalized DEF CancelOrderFinalize, RequestTypeOK
    <2> QED BY <1>7, <2>1, ReturnType DEF CancelOrderFinalize
  <1> QED
    BY <1>1, <1>2, <1>3, <1>4, <1>5, <1>6, <1>7 DEF CancelNext

\* The webhook keeps the types.
LEMMA EventType ==
  ASSUME TypeInv, NEW r \in Requests, EventNext(r)
  PROVE  TypeInv'
  <1> USE DEF TypeInv, RequestInv, TypeOK, OrderTypeOK, OrderStatus, LedgerTypeOK,
            StripeTypeOK, orderVars, ledgerVars, milestoneVars, stripeVars, moneyVars,
            Labels, ReleaseLabels, ResolveLabels, At
  <1>1. ASSUME NEW type \in EventTypes, NEW s \in Sources, ReceiveEvent(r, type, s)
        PROVE  TypeInv'
    BY <1>1 DEF ReceiveEvent, RequestTypeOK, FieldsOK, EventState
  <1>2. CASE HandlePaymentEvent(r)
    BY <1>2, GotoType DEF HandlePaymentEvent
  <1>3. CASE PaymentEventWrite(r)
    BY <1>3, GotoType DEF PaymentEventWrite
  <1>4. CASE HandleCapturable(r)
    BY <1>4, GotoType DEF HandleCapturable
  <1>5. CASE HandleTransferFailed(r)
    <2>1. payouts' \in Seq(PayoutRow)
      BY <1>5, PayoutsFailed DEF HandleTransferFailed
    <2> QED BY <1>5, <2>1, GotoType DEF HandleTransferFailed
  <1>6. CASE FinalizeEvent(r)
    BY <1>6, ReturnType DEF FinalizeEvent, EventState
  <1> QED
    BY <1>1, <1>2, <1>3, <1>4, <1>5, <1>6 DEF EventNext

\* The dispute saga keeps the types.
LEMMA DisputeType ==
  ASSUME TypeInv, NEW r \in Requests, DisputeNext(r)
  PROVE  TypeInv'
  <1> USE DEF TypeInv, RequestInv, TypeOK, OrderTypeOK, OrderStatus, LedgerTypeOK,
            StripeTypeOK, orderVars, ledgerVars, milestoneVars, stripeVars, moneyVars,
            Labels, ReleaseLabels, ResolveLabels, At
  <1>1. CASE OpenDispute(r)
    BY <1>1, EnterType DEF OpenDispute
  <1>2. CASE OpenDisputeWrite(r)
    <2>1. disputes' \in Seq(DisputeRow)
      BY <1>2, AppendProperties DEF OpenDisputeWrite, DisputeRow
    <2> QED BY <1>2, <2>1, ReturnType DEF OpenDisputeWrite
  <1>3. CASE RespondToDispute(r)
    <2>1. Latest \in Nat
      BY LenProperties DEF Latest
    <2> QED BY <1>3, <2>1 DEF RespondToDispute, RequestTypeOK, FieldsOK
  <1>4. CASE RespondToDisputeWrite(r)
    <2>1. disputes' \in Seq(DisputeRow)
      BY <1>4, DisputeUpdated DEF RespondToDisputeWrite, RequestTypeOK, Resolutions
    <2> QED BY <1>4, <2>1, ReturnType DEF RespondToDisputeWrite
  <1>5. ASSUME NEW resolution \in Resolutions, ResolveDispute(r, resolution)
        PROVE  TypeInv'
    <2>1. Latest \in Nat
      BY LenProperties DEF Latest
    <2> QED BY <1>5, <2>1 DEF ResolveDispute, RequestTypeOK, FieldsOK
  <1>6. CASE ResolveDisputeClaim(r)
    <2>1. dispute[r] \in Nat /\ seen[r] \in Resolutions
      BY <1>6 DEF ResolveDisputeClaim, RequestTypeOK, FieldsOK
    <2>2. disputes' \in Seq(DisputeRow)
      BY <1>6, <2>1, DisputeUpdated DEF ResolveDisputeClaim
    <2>3. refunds' \in Seq(RefundRow)
      BY <1>6, <2>1, NewRefund DEF ResolveDisputeClaim
    <2>4. RequestInv'
      <3>1. Len(refunds) + 1 \in Nat /\ PendingRefunds(dispute[r]) \subseteq Nat
        BY LenProperties DEF PendingRefunds
      <3> QED BY <1>6, <3>1, GotoRowType, ReturnType DEF ResolveDisputeClaim
    <2> QED BY <1>6, <2>2, <2>3, <2>4 DEF ResolveDisputeClaim
  <1>7. CASE ResolveDisputeMoney(r)
    <2>1. <<dispute[r], seen[r]>> \in RefundKeys
      BY <1>7 DEF ResolveDisputeMoney, RequestTypeOK, FieldsOK, RefundKeys
    <2>2. CASE UNCHANGED stripeVars
      BY <1>7, <2>2, GotoType DEF ResolveDisputeMoney
    <2>3. CASE CapturePI /\ UNCHANGED moneyVars
      BY <1>7, <2>3, GotoType
      DEF ResolveDisputeMoney, CapturePI, Emitted, EmittedForOrder, EventState, PIStatus
    <2>4. CASE RefundPI(<<dispute[r], seen[r]>>)
      <3>1. StripeTypeOK'
        BY <1>7, <2>1, <2>4, RefundPIType DEF ResolveDisputeMoney
      <3> QED BY <1>7, <3>1, GotoType DEF ResolveDisputeMoney
    <2> QED BY <1>7, <2>2, <2>3, <2>4 DEF ResolveDisputeMoney
  <1>8. CASE ResolveDisputeFinalize(r)
    <2>1. dispute[r] \in Nat /\ seen[r] \in Resolutions /\ row[r] \in Nat
      BY <1>8 DEF ResolveDisputeFinalize, RequestTypeOK, FieldsOK
    <2>2. disputes' \in Seq(DisputeRow)
      BY <1>8, <2>1, DisputeUpdated DEF ResolveDisputeFinalize
    <2>3. refunds' \in Seq(RefundRow)
      BY <1>8, <2>1, RefundFinalized DEF ResolveDisputeFinalize
    <2> QED BY <1>8, <2>2, <2>3, ReturnType DEF ResolveDisputeFinalize
  <1> QED
    BY <1>1, <1>2, <1>3, <1>4, <1>5, <1>6, <1>7, <1>8 DEF DisputeNext

\* The milestone saga keeps the types.
LEMMA MilestoneType ==
  ASSUME TypeInv, NEW r \in Requests, MilestoneNext(r)
  PROVE  TypeInv'
  <1> USE DEF TypeInv, RequestInv, TypeOK, OrderTypeOK, OrderStatus, LedgerTypeOK,
            StripeTypeOK, orderVars, ledgerVars, milestoneVars, stripeVars, moneyVars,
            Labels, ReleaseLabels, ResolveLabels, At
  <1>1. CASE CreateMilestones(r)
    <2>1. mpi' \in [Milestones -> PIStatus]
      BY <1>1 DEF CreateMilestones, PIStatus
    <2>2. RequestInv'
      BY <1>1, EnterType DEF CreateMilestones, requestVars, RequestTypeOK, FieldsOK
    <2> QED BY <1>1, <2>1, <2>2 DEF CreateMilestones
  <1>2. CASE CreateMilestonesCancelPI(r)
    BY <1>2, GotoType DEF CreateMilestonesCancelPI, CancelPI, PIStatus
  <1>3. CASE CreateMilestonesInsert(r)
    <2>1. milestone' \in [Milestones -> MilestoneStatus]
      BY <1>3 DEF CreateMilestonesInsert, MilestoneStatus
    <2>2. RequestInv'
      BY <1>3, ReturnType
      DEF CreateMilestonesInsert, requestVars, RequestTypeOK, FieldsOK
    <2> QED BY <1>3, <2>1, <2>2 DEF CreateMilestonesInsert
  <1>4. ASSUME NEW m \in Milestones, MarkMilestoneComplete(r, m)
        PROVE  TypeInv'
    BY <1>4
    DEF MarkMilestoneComplete, MilestoneStatus, requestVars, RequestTypeOK, FieldsOK
  <1>5. ASSUME NEW m \in Milestones, ReleaseMilestone(r, m)
        PROVE  TypeInv'
    BY <1>5 DEF ReleaseMilestone, RequestTypeOK, FieldsOK, Sources
  <1>6. CASE ReleaseMilestoneIntent(r)
    <2>1. item[r] \in Milestones
      BY <1>6 DEF ReleaseMilestoneIntent, FieldsOK
    <2>2. payouts' \in Seq(PayoutRow)
      BY <1>6, <2>1, NewPayout DEF ReleaseMilestoneIntent, Sources
    <2>3. RequestInv'
      <3>1. Len(payouts) + 1 \in Nat /\ PendingPayouts \subseteq Nat
        BY LenProperties DEF PendingPayouts
      <3> QED BY <1>6, <3>1, GotoRowType, ReturnType DEF ReleaseMilestoneIntent
    <2> QED BY <1>6, <2>2, <2>3 DEF ReleaseMilestoneIntent
  <1>7. CASE ReleaseMilestoneCapture(r)
    BY <1>7, GotoType DEF ReleaseMilestoneCapture, Emitted, EventState, PIStatus
  <1>8. CASE ReleaseMilestoneTransfer(r)
    <2>1. item[r] \in Milestones
      BY <1>8 DEF ReleaseMilestoneTransfer, FieldsOK
    <2> QED BY <1>8, <2>1, GotoType DEF ReleaseMilestoneTransfer, Transfer, Sources
  <1>9. CASE ReleaseMilestoneFinalize(r)
    <2>1. item[r] \in Milestones /\ row[r] \in Nat
      BY <1>9 DEF ReleaseMilestoneFinalize, FieldsOK, RequestTypeOK
    <2>2. payouts' \in Seq(PayoutRow)
      BY <1>9, <2>1, PayoutFinalized DEF ReleaseMilestoneFinalize, Sources
    <2>3. milestone' \in [Milestones -> MilestoneStatus] /\ released' \in Nat
      <3>1. \/ /\ milestone' = [milestone EXCEPT ![item[r]] = "released"]
               /\ released' = released + 1
            \/ UNCHANGED <<milestone, released>>
        BY <1>9 DEF ReleaseMilestoneFinalize
      <3> QED BY <3>1 DEF MilestoneStatus
    <2>4. RequestInv'
      BY <1>9, ReturnType DEF ReleaseMilestoneFinalize
    <2> QED BY <1>9, <2>2, <2>3, <2>4 DEF ReleaseMilestoneFinalize
  <1> QED
    BY <1>1, <1>2, <1>3, <1>4, <1>5, <1>6, <1>7, <1>8, <1>9 DEF MilestoneNext

\* What Stripe, the buyer and the seller do there keeps the types.
LEMMA StripeType ==
  ASSUME TypeInv, StripeNext
  PROVE  TypeInv'
  <1> USE DEF TypeInv, RequestInv, TypeOK, OrderTypeOK, LedgerTypeOK, StripeTypeOK,
            RequestTypeOK, FieldsOK, orderVars, ledgerVars, milestoneVars, stripeVars,
            moneyVars, requestVars, Emitted, EmittedForOrder, EventState, PIStatus
  <1>1. CASE AuthorizePayment
    BY <1>1 DEF AuthorizePayment
  <1>2. CASE DeclinePayment
    BY <1>2 DEF DeclinePayment
  <1>3. CASE LapseAuthorization
    BY <1>3 DEF LapseAuthorization
  <1>4. CASE ChangeConnect
    BY <1>4 DEF ChangeConnect
  <1>5. ASSUME NEW m \in Milestones, MilestonePayment(m)
        PROVE  TypeInv'
    <2>1. mpi' \in [Milestones -> PIStatus] /\ events' \in [EventIds -> EventState]
      BY <1>5 DEF MilestonePayment
    <2> QED BY <1>5, <2>1 DEF MilestonePayment
  <1>6. CASE \E s \in Sources : FailTransfer(s)
    BY <1>6 DEF FailTransfer
  <1> QED
    BY <1>1, <1>2, <1>3, <1>4, <1>5, <1>6 DEF StripeNext

\* The types hold before checkout.
LEMMA TypeInit == Init => TypeInv
  <1> SUFFICES ASSUME Init PROVE TypeInv
    OBVIOUS
  <1>1. OrderTypeOK /\ LedgerTypeOK
    BY EmptySeq DEF Init, OrderTypeOK, OrderStatus, LedgerTypeOK
  <1>2. StripeTypeOK
    <2>1. tagged \in BOOLEAN
      BY DEF Init
    <2>2. refunded \in 0..2
      BY DEF Init
    <2>3. /\ milestone \in [Milestones -> MilestoneStatus] /\ pi \in PIStatus
          /\ mpi \in [Milestones -> PIStatus] /\ events \in [EventIds -> EventState]
      BY DEF Init, PIStatus, MilestoneStatus, EventState
    <2>4. /\ refundKeys \subseteq RefundKeys
          /\ transfers \subseteq Sources
          /\ reversed \subseteq transfers
      BY DEF Init
    <2> QED BY <2>1, <2>2, <2>3, <2>4 DEF StripeTypeOK
  <1>3. RequestTypeOK /\ FieldsOK
    BY DEF Init, RequestTypeOK, FieldsOK, Labels, ReleaseLabels, ResolveLabels
  <1> QED BY <1>1, <1>2, <1>3 DEF TypeInv, TypeOK

\* Every step keeps them.
LEMMA TypeStep == TypeInv /\ [Next]_vars => TypeInv'
  <1> SUFFICES ASSUME TypeInv, [Next]_vars PROVE TypeInv'
    OBVIOUS
  <1>1. ASSUME NEW r \in Requests, RequestNext(r)
        PROVE  TypeInv'
    <2>1. CASE Abandon(r)
      BY <2>1, ReturnType
      DEF Abandon, TypeInv, RequestInv, TypeOK, OrderTypeOK, LedgerTypeOK, StripeTypeOK,
          orderVars, ledgerVars, milestoneVars, stripeVars, moneyVars
    <2> QED
      BY <1>1, <2>1, CreateType, PaymentType, ConfirmType, CompleteType, CancelType,
         EventType, DisputeType, MilestoneType
      DEF RequestNext, OrderNext
  <1>2. CASE UNCHANGED vars
    BY <1>2
    DEF vars, TypeInv, TypeOK, OrderTypeOK, LedgerTypeOK, StripeTypeOK, RequestTypeOK,
        FieldsOK, orderVars, ledgerVars, milestoneVars, stripeVars, moneyVars, requestVars
  <1> QED
    BY <1>1, <1>2, StripeType DEF Next

\* TypeInv holds in every reachable state.
THEOREM TypeInvariant == Spec => []TypeInv
  BY TypeInit, TypeStep, PTL DEF Spec

\* Every variable holds a value of its column, Stripe field or request field, for
\* any number of requests and milestones and any mix of kinds.
THEOREM TypeCorrect == Spec => []TypeOK
  <1>1. TypeInv => TypeOK
    BY DEF TypeInv
  <1> QED BY <1>1, TypeInvariant, PTL

-----------------------------------------------------------------------------
(* What a step of one request does to the others, and to itself *)

\* The step is one of request r.
Moves(r) ==
  \A q \in Requests \ {r} :
    /\ pc'[q] = pc[q] /\ row'[q] = row[q] /\ seen'[q] = seen[q]
    /\ item'[q] = item[q] /\ dispute'[q] = dispute[q]

\* Entering a saga, going on, taking a row and returning move one request.
LEMMA EnterMoves ==
  ASSUME TypeInv, NEW r \in Requests, NEW label, NEW s, Enter(r, label, s)
  PROVE  Moves(r) /\ pc'[r] = label /\ seen'[r] = s
  BY DEF TypeInv, TypeOK, RequestTypeOK, Moves, Enter

\* Going on keeps the fields of the request.
LEMMA GotoMoves ==
  ASSUME TypeInv, NEW r \in Requests, NEW label, Goto(r, label)
  PROVE  /\ Moves(r) /\ pc'[r] = label
         /\ row'[r] = row[r] /\ seen'[r] = seen[r]
         /\ item'[r] = item[r] /\ dispute'[r] = dispute[r]
  BY DEF TypeInv, TypeOK, RequestTypeOK, Moves, Goto

\* So does taking a row.
LEMMA GotoRowMoves ==
  ASSUME TypeInv, NEW r \in Requests, NEW label, NEW i, GotoRow(r, label, i)
  PROVE  /\ Moves(r) /\ pc'[r] = label /\ row'[r] = i
         /\ seen'[r] = seen[r] /\ item'[r] = item[r] /\ dispute'[r] = dispute[r]
  BY DEF TypeInv, TypeOK, RequestTypeOK, Moves, GotoRow

\* A request that returns is idle.
LEMMA ReturnMoves ==
  ASSUME TypeInv, NEW r \in Requests, Return(r)
  PROVE  Moves(r) /\ pc'[r] = "idle"
  BY DEF TypeInv, TypeOK, RequestTypeOK, Moves, Return

-----------------------------------------------------------------------------
(* What each saga leaves alone: where its request may be after a step, and    *)
(* the records that no step of it writes.  A captured payment stays captured. *)

Kept == /\ pi = "succeeded" => pi' = "succeeded"
        /\ \A m \in Milestones : mpi[m] = "succeeded" => mpi'[m] = "succeeded"

CreateLabels == {"create_insert", "create_tag", "accept_commit"}
PaymentLabels == {"pay_verify", "pay_write", "pay_task"}
ConfirmLabels == {"confirm_claim", "confirm_capture", "confirm_rollback"}
CompleteLabels == {"complete_claim", "complete_capture", "complete_transfer",
                   "complete_finalize", "complete_entry"}
RefundLabels == {"cancel_refund", "cancel_reverse", "cancel_finalize"}
CancelLabels == {"cancel_flip", "cancel_pi", "cancel_claim"} \union RefundLabels
EventLabels == {"event_handle", "event_write", "event_done"}
DisputeLabels == {"open_write", "respond_write"} \union ResolveLabels
MilestoneLabels == {"milestones_cancel", "milestones_insert"} \union ReleaseLabels

\* Checkout writes no ledger and moves no money.
LEMMA CreateFrame ==
  ASSUME TypeInv, NEW r \in Requests, CreateNext(r)
  PROVE  /\ Moves(r) /\ pc'[r] \in CreateLabels \union {"idle"} /\ Kept
         /\ status' \in {status, "payment_pending", "pending"}
         /\ UNCHANGED <<hires, released, payouts, entries, refunds, milestone, mpi, disputes,
                        refunded, refundKeys, transfers, reversed>>
  <1> USE DEF CreateLabels, Kept, orderVars, ledgerVars, milestoneVars, stripeVars, moneyVars
  <1>1. CASE CreateOrder(r)
    BY <1>1, EnterMoves DEF CreateOrder
  <1>2. CASE CreateOrderInsert(r)
    BY <1>2, GotoMoves DEF CreateOrderInsert
  <1>3. CASE CreateOrderTag(r)
    BY <1>3, ReturnMoves DEF CreateOrderTag
  <1>4. CASE AcceptProposal(r)
    BY <1>4, GotoMoves DEF AcceptProposal
  <1>5. CASE AcceptProposalCommit(r)
    BY <1>5, ReturnMoves DEF AcceptProposalCommit
  <1> QED
    BY <1>1, <1>2, <1>3, <1>4, <1>5 DEF CreateNext

\* Nor does confirmPayment.
LEMMA PaymentFrame ==
  ASSUME TypeInv, NEW r \in Requests, PaymentNext(r)
  PROVE  /\ Moves(r) /\ pc'[r] \in PaymentLabels \union {"idle"} /\ Kept
         /\ status' \in {status, "pending"}
         /\ UNCHANGED <<hires, released, payouts, entries, refunds, milestone, mpi, disputes, pi,
                        refunded, refundKeys, transfers, reversed>>
  <1> USE DEF PaymentLabels, Kept, orderVars, ledgerVars, milestoneVars, stripeVars, moneyVars
  <1>1. CASE ConfirmPayment(r)
    BY <1>1, EnterMoves DEF ConfirmPayment
  <1>2. CASE ConfirmPaymentVerify(r)
    BY <1>2, GotoMoves, ReturnMoves DEF ConfirmPaymentVerify
  <1>3. CASE ConfirmPaymentWrite(r)
    BY <1>3, GotoMoves DEF ConfirmPaymentWrite
  <1>4. CASE ConfirmPaymentTask(r)
    BY <1>4, ReturnMoves DEF ConfirmPaymentTask
  <1> QED
    BY <1>1, <1>2, <1>3, <1>4 DEF PaymentNext

\* confirmOrder captures, and writes no ledger.
LEMMA ConfirmFrame ==
  ASSUME TypeInv, NEW r \in Requests, ConfirmNext(r)
  PROVE  /\ Moves(r) /\ pc'[r] \in ConfirmLabels \union {"idle"} /\ Kept
         /\ status' \in {status, "confirmed", "pending"}
         /\ UNCHANGED <<hires, released, payouts, entries, refunds, milestone, mpi, disputes,
                        refunded, refundKeys, transfers, reversed>>
  <1> USE DEF ConfirmLabels, Kept, orderVars, ledgerVars, milestoneVars, stripeVars, moneyVars,
              CapturePI
  <1>1. CASE ConfirmOrder(r)
    BY <1>1, EnterMoves DEF ConfirmOrder
  <1>2. CASE ConfirmOrderClaim(r)
    BY <1>2, GotoMoves, ReturnMoves DEF ConfirmOrderClaim
  <1>3. CASE ConfirmOrderCapture(r)
    BY <1>3, ReturnMoves DEF ConfirmOrderCapture
  <1>4. CASE ConfirmOrderCaptureFails(r)
    BY <1>4, GotoMoves DEF ConfirmOrderCaptureFails
  <1>5. CASE ConfirmOrderRollback(r)
    BY <1>5, ReturnMoves DEF ConfirmOrderRollback
  <1> QED
    BY <1>1, <1>2, <1>3, <1>4, <1>5 DEF ConfirmNext

\* From any row, completeOrder goes on or returns.
LEMMA CompleteFromMoves ==
  ASSUME TypeInv, NEW r \in Requests, NEW i, CompleteFrom(r, i)
  PROVE  /\ Moves(r) /\ pc'[r] \in CompleteLabels \union {"idle"}
         /\ pc'[r] # "idle" => row'[r] = i /\ seen'[r] = seen[r]
         /\ pc'[r] = "complete_capture" => seen[r] = "payable"
         /\ pc'[r] = "complete_finalize" => seen[r] = "milestones"
         /\ pc'[r] \notin {"complete_claim", "complete_transfer", "complete_entry"}
  BY GotoRowMoves, ReturnMoves DEF CompleteFrom, CompleteLabels

\* completeOrder touches no refund, dispute or milestone.
LEMMA CompleteFrame ==
  ASSUME TypeInv, NEW r \in Requests, CompleteNext(r)
  PROVE  /\ Moves(r) /\ pc'[r] \in CompleteLabels \union {"idle"} /\ Kept
         /\ status' \in {status, "completed"} /\ transfers' \subseteq transfers \union {"order"}
         /\ transfers \subseteq transfers'
         /\ UNCHANGED <<released, refunds, milestone, mpi, disputes, refunded, refundKeys,
                        reversed>>
  <1> USE DEF CompleteLabels, Kept, orderVars, ledgerVars, milestoneVars, stripeVars, moneyVars,
              CapturePI, Transfer
  <1>1. CASE CompleteOrder(r)
    BY <1>1, EnterMoves DEF CompleteOrder
  <1>2. CASE CompleteOrderClaim(r)
    BY <1>2, CompleteFromMoves, ReturnMoves DEF CompleteOrderClaim
  <1>3. CASE CompleteOrderCapture(r)
    BY <1>3, GotoMoves DEF CompleteOrderCapture
  <1>4. CASE CompleteOrderTransfer(r)
    BY <1>4, GotoMoves DEF CompleteOrderTransfer
  <1>5. CASE CompleteOrderFinalize(r)
    BY <1>5, GotoMoves DEF CompleteOrderFinalize
  <1>6. CASE CompleteOrderEntry(r)
    BY <1>6, ReturnMoves DEF CompleteOrderEntry
  <1> QED
    BY <1>1, <1>2, <1>3, <1>4, <1>5, <1>6 DEF CompleteNext

\* cancelOrder touches no payout, dispute or milestone.
LEMMA CancelFrame ==
  ASSUME TypeInv, NEW r \in Requests, CancelNext(r)
  PROVE  /\ Moves(r) /\ pc'[r] \in CancelLabels \union {"idle"} /\ Kept
         /\ status' \in {status, "cancelled"}
         /\ UNCHANGED <<hires, released, payouts, entries, milestone, mpi, disputes, transfers>>
  <1> USE DEF CancelLabels, RefundLabels, Kept, orderVars, ledgerVars, milestoneVars, stripeVars,
              moneyVars, CancelPI, RefundPI
  <1>1. CASE CancelOrder(r)
    BY <1>1, EnterMoves DEF CancelOrder
  <1>2. CASE CancelOrderFlip(r)
    BY <1>2, GotoMoves, ReturnMoves DEF CancelOrderFlip
  <1>3. CASE CancelOrderPI(r)
    BY <1>3, ReturnMoves DEF CancelOrderPI
  <1>4. CASE CancelOrderClaim(r)
    BY <1>4, GotoRowMoves, ReturnMoves DEF CancelOrderClaim
  <1>5. CASE CancelOrderRefund(r)
    BY <1>5, GotoMoves DEF CancelOrderRefund
  <1>6. CASE CancelOrderReverse(r)
    BY <1>6, GotoMoves DEF CancelOrderReverse
  <1>7. CASE CancelOrderFinalize(r)
    BY <1>7, ReturnMoves DEF CancelOrderFinalize
  <1> QED
    BY <1>1, <1>2, <1>3, <1>4, <1>5, <1>6, <1>7 DEF CancelNext

\* Of the webhook's handlers only transfer.failed writes a ledger.
LEMMA EventFrame ==
  ASSUME TypeInv, NEW r \in Requests, EventNext(r)
  PROVE  /\ Moves(r) /\ pc'[r] \in EventLabels \union {"idle"} /\ Kept
         /\ status' \in {status, "pending", "payment_failed"}
         /\ pc'[r] = "event_handle" => item'[r] \in Sources
         /\ HandleTransferFailed(r) \/ UNCHANGED payouts
         /\ UNCHANGED <<hires, released, entries, refunds, milestone, mpi, disputes, pi,
                        refunded, refundKeys, transfers, reversed>>
  <1> USE DEF EventLabels, Kept, orderVars, ledgerVars, milestoneVars, stripeVars, moneyVars
  <1>1. ASSUME NEW type \in EventTypes, NEW s \in Sources, ReceiveEvent(r, type, s)
        PROVE  /\ Moves(r) /\ pc'[r] = "event_handle" /\ item'[r] = s
               /\ UNCHANGED <<status, hires, released, entries, refunds, milestone, mpi, disputes,
                              pi, refunded, refundKeys, transfers, reversed, payouts>>
    BY <1>1 DEF ReceiveEvent, Moves, TypeInv, TypeOK, RequestTypeOK
  <1>2. CASE HandlePaymentEvent(r)
    BY <1>2, GotoMoves DEF HandlePaymentEvent
  <1>3. CASE PaymentEventWrite(r)
    BY <1>3, GotoMoves DEF PaymentEventWrite
  <1>4. CASE HandleCapturable(r)
    BY <1>4, GotoMoves DEF HandleCapturable
  <1>5. CASE HandleTransferFailed(r)
    BY <1>5, GotoMoves DEF HandleTransferFailed
  <1>6. CASE FinalizeEvent(r)
    BY <1>6, ReturnMoves DEF FinalizeEvent
  <1> QED
    BY <1>1, <1>2, <1>3, <1>4, <1>5, <1>6 DEF EventNext

\* The dispute saga touches no payout and no milestone.
LEMMA DisputeFrame ==
  ASSUME TypeInv, NEW r \in Requests, DisputeNext(r)
  PROVE  /\ Moves(r) /\ pc'[r] \in DisputeLabels \union {"idle"} /\ Kept
         /\ UNCHANGED <<hires, released, payouts, entries, milestone, mpi, transfers, reversed>>
  <1> USE DEF DisputeLabels, ResolveLabels, Kept, orderVars, ledgerVars, milestoneVars,
              stripeVars, moneyVars, CapturePI, RefundPI
  <1>1. CASE OpenDispute(r)
    BY <1>1, EnterMoves DEF OpenDispute
  <1>2. CASE OpenDisputeWrite(r)
    BY <1>2, ReturnMoves DEF OpenDisputeWrite
  <1>3. CASE RespondToDispute(r)
    BY <1>3 DEF RespondToDispute, Moves, TypeInv, TypeOK, RequestTypeOK
  <1>4. CASE RespondToDisputeWrite(r)
    BY <1>4, ReturnMoves DEF RespondToDisputeWrite
  <1>5. ASSUME NEW resolution \in Resolutions, ResolveDispute(r, resolution)
        PROVE  /\ Moves(r) /\ pc'[r] = "resolve_claim" /\ Kept
               /\ UNCHANGED <<hires, released, payouts, entries, milestone, mpi, transfers,
                              reversed>>
    BY <1>5 DEF ResolveDispute, Moves, TypeInv, TypeOK, RequestTypeOK
  <1>6. CASE ResolveDisputeClaim(r)
    BY <1>6, GotoRowMoves, ReturnMoves DEF ResolveDisputeClaim
  <1>7. CASE ResolveDisputeMoney(r)
    BY <1>7, GotoMoves DEF ResolveDisputeMoney
  <1>8. CASE ResolveDisputeFinalize(r)
    BY <1>8, ReturnMoves DEF ResolveDisputeFinalize
  <1> QED
    BY <1>1, <1>2, <1>3, <1>4, <1>5, <1>6, <1>7, <1>8 DEF DisputeNext

\* The milestone saga touches no refund, no dispute and not the order's status.
LEMMA MilestoneFrame ==
  ASSUME TypeInv, NEW r \in Requests, MilestoneNext(r)
  PROVE  /\ Moves(r) /\ pc'[r] \in MilestoneLabels \union {"idle"} /\ Kept
         /\ transfers \subseteq transfers' /\ transfers' \subseteq transfers \union Milestones
         /\ UNCHANGED <<status, hires, entries, refunds, disputes, refunded, refundKeys,
                        reversed>>
  <1> USE DEF MilestoneLabels, ReleaseLabels, Kept, orderVars, ledgerVars, milestoneVars,
              stripeVars, moneyVars, requestVars, CancelPI, Transfer, Arrives, At
  <1>1. CASE CreateMilestones(r)
    <2>1. Moves(r) /\ pc'[r] \in {"milestones_cancel", "idle"}
      BY <1>1, EnterMoves DEF CreateMilestones, Moves
    <2>2. \A m \in Milestones : mpi[m] = "succeeded" => mpi'[m] = "succeeded"
      BY <1>1 DEF CreateMilestones, Unused
    <2> QED BY <1>1, <2>1, <2>2 DEF CreateMilestones
  <1>2. CASE CreateMilestonesCancelPI(r)
    BY <1>2, GotoMoves DEF CreateMilestonesCancelPI
  <1>3. CASE CreateMilestonesInsert(r)
    BY <1>3, ReturnMoves DEF CreateMilestonesInsert, Moves
  <1>4. ASSUME NEW m \in Milestones, MarkMilestoneComplete(r, m)
        PROVE  Moves(r) /\ pc'[r] = "idle" /\ Kept
    BY <1>4 DEF MarkMilestoneComplete, Moves
  <1>5. ASSUME NEW m \in Milestones, ReleaseMilestone(r, m)
        PROVE  Moves(r) /\ pc'[r] = "release_intent" /\ Kept
    BY <1>5 DEF ReleaseMilestone, Moves, TypeInv, TypeOK, RequestTypeOK
  <1>6. CASE ReleaseMilestoneIntent(r)
    BY <1>6, GotoRowMoves, ReturnMoves DEF ReleaseMilestoneIntent
  <1>7. CASE ReleaseMilestoneCapture(r)
    BY <1>7, GotoMoves DEF ReleaseMilestoneCapture, TypeInv, TypeOK, StripeTypeOK
  <1>8. CASE ReleaseMilestoneTransfer(r)
    <2>1. item[r] \in Milestones
      BY <1>8 DEF ReleaseMilestoneTransfer, TypeInv, FieldsOK
    <2> QED BY <1>8, <2>1, GotoMoves DEF ReleaseMilestoneTransfer
  <1>9. CASE ReleaseMilestoneFinalize(r)
    BY <1>9, ReturnMoves DEF ReleaseMilestoneFinalize
  <1> QED
    BY <1>1, <1>2, <1>3, <1>4, <1>5, <1>6, <1>7, <1>8, <1>9
    DEF MilestoneNext, MarkMilestoneComplete, ReleaseMilestone

\* A request that ends early writes nothing.
LEMMA AbandonFrame ==
  ASSUME TypeInv, NEW r \in Requests, Abandon(r)
  PROVE  /\ Moves(r) /\ pc'[r] = "idle" /\ Kept
         /\ UNCHANGED <<status, hires, released, payouts, entries, refunds, milestone, mpi,
                        disputes, pi, refunded, refundKeys, transfers, reversed>>
  BY ReturnMoves
  DEF Abandon, Kept, orderVars, ledgerVars, milestoneVars, stripeVars, moneyVars

\* What Stripe, the buyer and the seller do there writes no record of the services.
LEMMA StripeFrame ==
  ASSUME TypeInv, StripeNext \/ UNCHANGED vars
  PROVE  /\ Kept
         /\ UNCHANGED <<status, hires, released, payouts, entries, refunds, milestone, disputes,
                        refunded, refundKeys, transfers, reversed, pc, row, seen, item, dispute>>
  <1> USE DEF Kept, orderVars, ledgerVars, milestoneVars, stripeVars, moneyVars, requestVars
  <1>1. CASE AuthorizePayment
    BY <1>1 DEF AuthorizePayment
  <1>2. CASE DeclinePayment
    BY <1>2 DEF DeclinePayment
  <1>3. CASE LapseAuthorization
    BY <1>3 DEF LapseAuthorization
  <1>4. CASE ChangeConnect
    BY <1>4 DEF ChangeConnect
  <1>5. CASE \E m \in Milestones : MilestonePayment(m)
    <2>1. PICK m \in Milestones : MilestonePayment(m)
      BY <1>5
    <2>2. \A n \in Milestones : mpi[n] = "succeeded" => mpi'[n] = "succeeded"
      BY <2>1 DEF MilestonePayment, TypeInv, TypeOK, StripeTypeOK
    <2> QED BY <2>1, <2>2 DEF MilestonePayment
  <1>6. CASE \E s \in Sources : FailTransfer(s)
    BY <1>6 DEF FailTransfer
  <1>7. CASE UNCHANGED vars
    BY <1>7 DEF vars
  <1> QED
    BY <1>1, <1>2, <1>3, <1>4, <1>5, <1>6, <1>7 DEF StripeNext

=============================================================================
