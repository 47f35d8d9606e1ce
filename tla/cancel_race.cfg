SPECIFICATION Spec
CONSTANTS
  Requests = {r1, r2}
  Milestones = {}
  MaxTasks = 2
  MaxRefunds = 2
  HasPaymentRef = TRUE
  Kinds <- GuardedKinds
SYMMETRY Symmetry
INVARIANTS CancelledCaptureOwesRefund
