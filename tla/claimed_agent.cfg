SPECIFICATION Spec
CONSTANTS
  Requests = {}
  MaxKeys = 1
  Nonces = {}
  Kinds = {}
  Dealers = {d1, d2}
  MaxTransfers = 1
  Users = {u1, u2, u3}
  Creator = u1
INVARIANT FormerOwnerIsOut
