SPECIFICATION RetriesSpec
CONSTANTS
  Requests = {r1, r2}
  Milestones = {}
  MaxTasks = 2
  MaxRefunds = 2
  HasPaymentRef = TRUE
  Kinds <- GuardedKinds
PROPERTIES PayoutIntentSettles CapturedRefundSettles
