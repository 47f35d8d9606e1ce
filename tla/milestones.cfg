SPECIFICATION Spec
CONSTANTS
  Requests = {r1, r2}
  Milestones = {m1}
  MaxTasks = 2
  MaxRefunds = 2
  HasPaymentRef = TRUE
  Kinds <- MilestoneKinds
SYMMETRY Symmetry
INVARIANTS RecordedMoneyMoved MilestonesSettleOnce
