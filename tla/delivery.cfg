SPECIFICATION Spec
CONSTANTS
  Workers = {w1, w2}
  Deliveries = {e1, e2}
  MaxRetries = 1
  MAX_CONSECUTIVE_FAILURES = 2
  MaxFaults = 1
CHECK_DEADLOCK FALSE
INVARIANTS TypeOK StatusTrue DisabledForCause
PROPERTIES RetrySettles
