----------------------------- MODULE MilestoneSaga -----------------------------
(***************************************************************************)
(* services/marketplace-milestones.ts: an order's payment split into          *)
(* milestones, each with its own PaymentIntent, captured and transferred      *)
(* when the buyer releases it.                                                *)
(* Bound: one createMilestones call names every identity in Milestones that   *)
(* has no PaymentIntent yet.                                                  *)
(***************************************************************************)
EXTENDS StripeGateway

Unused == {m \in Milestones : mpi[m] = "none"}

\* A PaymentIntent for each milestone; if Stripe refuses one, those already
\* created are cancelled and nothing is inserted, which is the second disjunct.
CreateMilestones(r) ==
  /\ Arrives(r, "createMilestones")
  /\ status # "none" /\ Unused # {}
  /\ \/ /\ mpi' = [m \in Milestones |-> IF m \in Unused THEN "requires_payment_method"
                                        ELSE mpi[m]]
        /\ Enter(r, "milestones_cancel", "none")
     \/ /\ \E made \in SUBSET Unused \ {Unused} :
             mpi' = [m \in Milestones |-> IF m \in made THEN "canceled" ELSE mpi[m]]
        /\ UNCHANGED requestVars
  /\ UNCHANGED <<orderVars, ledgerVars, milestone, disputes, stripeVars>>

\* The order's own PaymentIntent is cancelled, best effort.
CreateMilestonesCancelPI(r) ==
  /\ At(r, "milestones_cancel")
  /\ CancelPI \/ UNCHANGED stripeVars
  /\ Goto(r, "milestones_insert")
  /\ UNCHANGED <<orderVars, ledgerVars, milestoneVars, disputes>>

\* The rows are inserted one statement at a time, in no transaction.
CreateMilestonesInsert(r) ==
  /\ At(r, "milestones_insert")
  /\ \E m \in Milestones :
       /\ milestone[m] = "absent" /\ mpi[m] = "requires_payment_method"
       /\ milestone' = [milestone EXCEPT ![m] = "pending"]
       /\ IF \E n \in Milestones \ {m} : milestone[n] = "absent"
                                        /\ mpi[n] = "requires_payment_method"
          THEN UNCHANGED requestVars
          ELSE Return(r)
  /\ UNCHANGED <<orderVars, ledgerVars, mpi, disputes, stripeVars>>

\* Read, then UPDATE ... WHERE status IN ('pending', 'in_progress').
MarkMilestoneComplete(r, m) ==
  /\ Arrives(r, "markMilestoneComplete")
  /\ milestone[m] = "pending"
  /\ milestone' = [milestone EXCEPT ![m] = "completed"]
  /\ UNCHANGED <<orderVars, ledgerVars, mpi, disputes, stripeVars, requestVars>>

ReleaseMilestone(r, m) ==
  /\ Arrives(r, "releaseMilestoneEscrow")
  /\ milestone[m] = "completed" /\ connect
  /\ pc' = [pc EXCEPT ![r] = "release_intent"]
  /\ item' = [item EXCEPT ![r] = m]
  /\ UNCHANGED <<row, seen, dispute, orderVars, ledgerVars, milestoneVars, disputes,
                 stripeVars>>

\* Seeded fault: the pending row of an earlier attempt is not looked for.
ReleaseMilestoneIntentAgain(r) ==
  /\ At(r, "release_intent")
  /\ milestone[item[r]] = "completed"
  /\ payouts' = Append(payouts, [for |-> item[r], stage |-> "pending", transfer |-> "none"])
  /\ GotoRow(r, "release_capture", Len(payouts) + 1)
  /\ UNCHANGED <<orderVars, entries, refunds, milestoneVars, disputes, stripeVars>>

\* STEP 1: under the milestone's row lock, reuse its pending payout row or add one.
ReleaseMilestoneIntent(r) ==
  LET m == item[r]
      mine == {i \in PendingPayouts : payouts[i].for = m}
  IN /\ At(r, "release_intent")
     /\ \/ /\ milestone[m] = "completed" /\ mine # {}
           /\ \E i \in mine : GotoRow(r, "release_capture", i)
           /\ UNCHANGED payouts
        \/ /\ milestone[m] = "completed" /\ mine = {}
           /\ payouts' = Append(payouts, [for |-> m, stage |-> "pending",
                                          transfer |-> "none"])
           /\ GotoRow(r, "release_capture", Len(payouts) + 1)
        \/ /\ milestone[m] = "released"
           /\ Return(r)
           /\ UNCHANGED payouts
     /\ UNCHANGED <<orderVars, entries, refunds, milestoneVars, disputes, stripeVars>>

\* STEP 2
ReleaseMilestoneCapture(r) ==
  /\ At(r, "release_capture")
  /\ mpi[item[r]] \in {"requires_capture", "succeeded"}
  /\ mpi' = [mpi EXCEPT ![item[r]] = "succeeded"]
  /\ events' = IF mpi[item[r]] = "requires_capture" THEN Emitted("succeeded", item[r])
               ELSE events
  /\ Goto(r, "release_transfer")
  /\ UNCHANGED <<orderVars, ledgerVars, milestone, disputes, pi, tagged, moneyVars>>

\* Seeded fault: a failed transfer is treated as made.
ReleaseMilestoneTransferIgnored(r) ==
  /\ At(r, "release_transfer")
  /\ Goto(r, "release_finalize")
  /\ UNCHANGED <<orderVars, ledgerVars, milestoneVars, disputes, stripeVars>>

ReleaseMilestoneTransfer(r) ==
  /\ At(r, "release_transfer")
  /\ Transfer(item[r])
  /\ Goto(r, "release_finalize")
  /\ UNCHANGED <<orderVars, ledgerVars, milestoneVars, disputes>>

\* Seeded fault: every finalizer credits the order.
ReleaseMilestoneFinalizeCredits(r) ==
  /\ At(r, "release_finalize")
  /\ milestone' = [milestone EXCEPT ![item[r]] = "released"]
  /\ released' = released + 1
  /\ payouts' = [payouts EXCEPT ![row[r]].stage = "completed", ![row[r]].transfer = item[r]]
  /\ Return(r)
  /\ UNCHANGED <<status, hires, tasks, connect, entries, refunds, mpi, disputes,
                 stripeVars>>

\* STEP 3: milestone, order total and payout row in one transaction; only the
\* first finalizer credits the order.
ReleaseMilestoneFinalize(r) ==
  LET m == item[r]
  IN /\ At(r, "release_finalize")
     /\ IF milestone[m] = "completed"
        THEN /\ milestone' = [milestone EXCEPT ![m] = "released"]
             /\ released' = released + 1
        ELSE UNCHANGED <<milestone, released>>
     /\ payouts' = [payouts EXCEPT ![row[r]].stage = "completed", ![row[r]].transfer = m]
     /\ Return(r)
     /\ UNCHANGED <<status, hires, tasks, connect, entries, refunds, mpi, disputes,
                    stripeVars>>

MilestoneNext(r) ==
  \/ CreateMilestones(r) \/ CreateMilestonesCancelPI(r) \/ CreateMilestonesInsert(r)
  \/ \E m \in Milestones : MarkMilestoneComplete(r, m) \/ ReleaseMilestone(r, m)
  \/ ReleaseMilestoneIntent(r) \/ ReleaseMilestoneCapture(r)
  \/ ReleaseMilestoneTransfer(r) \/ ReleaseMilestoneFinalize(r)

=============================================================================
