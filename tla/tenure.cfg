SPECIFICATION Spec
CONSTANTS
  Requests = {r1}
  MaxKeys = 2
  Nonces = {}
  Kinds <- SellerKinds
  Dealers = {d1, d2}
  MaxTransfers = 1
  Users = {u1, u2, u3}
  Creator = u1
SYMMETRY Symmetry
INVARIANTS TypeOK HandoffRetiresKeys HandoffCanRecalibrate
PROPERTIES TenureSpec
