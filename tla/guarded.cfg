SPECIFICATION Spec
CONSTANTS
  Requests = {r1, r2, r3}
  Milestones = {}
  MaxTasks = 2
  MaxRefunds = 2
  HasPaymentRef = TRUE
  Kinds <- GuardedKinds
SYMMETRY Symmetry
INVARIANTS TypeOK IntentBeforeMoney RecordedMoneyMoved PaidOnce CompletionBookedOnce SingleCapturer
PROPERTIES OutcomeIsFinal SettlementSpec
