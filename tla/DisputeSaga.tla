------------------------------ MODULE DisputeSaga ------------------------------
(***************************************************************************)
(* services/disputes.ts: a party opens a dispute, the other responds, an     *)
(* operator resolves it by refunding, capturing or splitting the payment.    *)
(***************************************************************************)
EXTENDS StripeGateway

\* getDisputeForOrder and its two inlined copies: the latest row.
Latest == Len(disputes)

OpenDispute(r) ==
  /\ Arrives(r, "openDispute")
  /\ status \notin {"none", "disputed", "cancelled", "completed"}
  /\ Enter(r, "open_write", "none")
  /\ UNCHANGED <<orderVars, ledgerVars, milestoneVars, disputes, stripeVars>>

\* One transaction, with no test of the status that was read.
OpenDisputeWrite(r) ==
  /\ At(r, "open_write")
  /\ status' = "disputed"
  /\ disputes' = Append(disputes, [status |-> "open", resolution |-> "none"])
  /\ Return(r)
  /\ UNCHANGED <<hires, tasks, released, connect, ledgerVars, milestoneVars, stripeVars>>

RespondToDispute(r) ==
  /\ Arrives(r, "respondToDispute")
  /\ disputes # <<>> /\ disputes[Latest].status \in {"open", "responded"}
  /\ pc' = [pc EXCEPT ![r] = "respond_write"]
  /\ dispute' = [dispute EXCEPT ![r] = Latest]
  /\ UNCHANGED <<row, seen, item, orderVars, ledgerVars, milestoneVars, disputes,
                 stripeVars>>

\* The UPDATE names only the dispute's id.
RespondToDisputeWrite(r) ==
  /\ At(r, "respond_write")
  /\ disputes' = [disputes EXCEPT ![dispute[r]].status = "responded"]
  /\ Return(r)
  /\ UNCHANGED <<orderVars, ledgerVars, milestoneVars, stripeVars>>

ResolveDispute(r, resolution) ==
  /\ Arrives(r, "resolveDispute")
  /\ status = "disputed"
  /\ disputes # <<>> /\ disputes[Latest].status # "resolved"
  /\ pc' = [pc EXCEPT ![r] = "resolve_claim"]
  /\ seen' = [seen EXCEPT ![r] = resolution]
  /\ dispute' = [dispute EXCEPT ![r] = Latest]
  /\ UNCHANGED <<row, item, orderVars, ledgerVars, milestoneVars, disputes, stripeVars>>

\* Seeded fault: the claim takes a dispute that is being resolved too.
ResolveDisputeClaimUnguarded(r) ==
  /\ At(r, "resolve_claim")
  /\ disputes[dispute[r]].status # "resolved" /\ Len(refunds) < MaxRefunds
  /\ disputes' = [disputes EXCEPT ![dispute[r]].status = "resolving",
                                  ![dispute[r]].resolution = seen[r]]
  /\ refunds' = Append(refunds, [for |-> dispute[r], stage |-> "pending"])
  /\ GotoRow(r, "resolve_money", Len(refunds) + 1)
  /\ UNCHANGED <<orderVars, payouts, entries, milestoneVars, stripeVars>>

\* STEP 1: claim the dispute and record the refund, or resume the same resolution,
\* or lose.  Bound: MaxRefunds, because a response can reopen a claimed dispute any
\* number of times.
ResolveDisputeClaim(r) ==
  LET d == dispute[r]
  IN /\ At(r, "resolve_claim")
     /\ \/ /\ disputes[d].status \in {"open", "responded"}
           /\ disputes' = [disputes EXCEPT ![d].status = "resolving",
                                           ![d].resolution = seen[r]]
           /\ IF HasPaymentRef /\ seen[r] # "release_seller"
              THEN /\ Len(refunds) < MaxRefunds
                   /\ refunds' = Append(refunds, [for |-> d, stage |-> "pending"])
                   /\ GotoRow(r, "resolve_money", Len(refunds) + 1)
              ELSE /\ GotoRow(r, "resolve_money", 0)
                   /\ UNCHANGED refunds
        \/ /\ disputes[d].status = "resolving" /\ disputes[d].resolution = seen[r]
           /\ \/ \E i \in PendingRefunds(d) : GotoRow(r, "resolve_money", i)
              \/ PendingRefunds(d) = {} /\ GotoRow(r, "resolve_money", 0)
           /\ UNCHANGED <<disputes, refunds>>
        \/ /\ \/ disputes[d].status = "resolved"
              \/ disputes[d].status = "resolving" /\ disputes[d].resolution # seen[r]
           /\ Return(r)
           /\ UNCHANGED <<disputes, refunds>>
     /\ UNCHANGED <<orderVars, payouts, entries, milestoneVars, stripeVars>>

\* Seeded fault: the result of the Stripe call is not looked at.
ResolveDisputeMoneyIgnored(r) ==
  /\ At(r, "resolve_money")
  /\ Goto(r, "resolve_finalize")
  /\ UNCHANGED <<orderVars, ledgerVars, milestoneVars, disputes, stripeVars>>

\* STEP 2: one Stripe call, by resolution; an order without a payment needs none.
ResolveDisputeMoney(r) ==
  /\ At(r, "resolve_money")
  /\ \/ ~HasPaymentRef /\ UNCHANGED stripeVars
     \/ HasPaymentRef /\ seen[r] = "release_seller" /\ CapturePI /\ UNCHANGED moneyVars
     \/ HasPaymentRef /\ seen[r] # "release_seller" /\ RefundPI(<<dispute[r], seen[r]>>)
  /\ Goto(r, "resolve_finalize")
  /\ UNCHANGED <<orderVars, ledgerVars, milestoneVars, disputes>>

\* STEP 3: dispute, order and refund entry in one transaction; neither UPDATE
\* tests a status.
ResolveDisputeFinalize(r) ==
  /\ At(r, "resolve_finalize")
  /\ disputes' = [disputes EXCEPT ![dispute[r]].status = "resolved",
                                  ![dispute[r]].resolution = seen[r]]
  /\ status' = IF seen[r] = "refund_buyer" THEN "cancelled" ELSE "completed"
  /\ refunds' = IF row[r] = 0 THEN refunds
                ELSE [refunds EXCEPT ![row[r]].stage = "finalized"]
  /\ Return(r)
  /\ UNCHANGED <<hires, tasks, released, connect, payouts, entries, milestoneVars,
                 stripeVars>>

DisputeNext(r) ==
  \/ OpenDispute(r) \/ OpenDisputeWrite(r)
  \/ RespondToDispute(r) \/ RespondToDisputeWrite(r)
  \/ \E resolution \in Resolutions : ResolveDispute(r, resolution)
  \/ ResolveDisputeClaim(r) \/ ResolveDisputeMoney(r) \/ ResolveDisputeFinalize(r)

=============================================================================
