SPECIFICATION Spec
CONSTANTS
  Requests = {r1, r2}
  Milestones = {m1}
  MaxTasks = 2
  MaxRefunds = 2
  HasPaymentRef = FALSE
  Kinds <- ProposalKinds
SYMMETRY Symmetry
INVARIANTS OnePayoutPerMilestone NoFreeCompletion
