SPECIFICATION Spec
CONSTANTS
  Requests = {r1, r2}
  TrustEligible = TRUE
SYMMETRY Symmetry
INVARIANTS TypeOK PaymentRecordTrue PaidForCompleted RefundVoidsHold OneHoldPerKey ReleasedWasEarned
PROPERTIES SettledEscrowStays HoldSpec
CHECK_DEADLOCK FALSE
