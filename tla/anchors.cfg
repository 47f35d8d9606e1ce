SPECIFICATION Spec
CONSTANTS
  Passes = {p1, p2}
  Requests = {r1}
  Wallets = {a1, a2}
  Network = "base-sepolia"
  MAX_RETRIES = 2
  MaxFaults = 1
CHECK_DEADLOCK FALSE
INVARIANTS TypeOK ChainBacked
PROPERTIES PendingSettles
