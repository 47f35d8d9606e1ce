---------------------------- MODULE MCMarketplace ----------------------------
(* Instances of Marketplace for TLC. *)
EXTENDS Marketplace, TLC

Symmetry == Permutations(Requests)

\* Every kind but those whose final UPDATE repeats no test of the status.
GuardedKinds == {"createOrder", "amount_capturable_updated", "confirmOrder",
                 "completeOrder", "cancelOrder", "transfer_failed"}

\* Operators race each other and the late writers of the payment; nobody responds.
OperatorKinds == {"createOrder", "confirmPayment", "succeeded", "payment_failed",
                  "confirmOrder", "openDispute", "resolveDispute"}

MilestoneKinds == {"createOrder", "confirmPayment", "createMilestones",
                   "confirmOrder", "markMilestoneComplete", "releaseMilestoneEscrow",
                   "completeOrder", "cancelOrder"}

ProposalKinds == {"acceptProposal", "createMilestones", "confirmOrder",
                  "markMilestoneComplete", "releaseMilestoneEscrow", "completeOrder",
                  "cancelOrder", "openDispute", "respondToDispute", "resolveDispute"}
=============================================================================
