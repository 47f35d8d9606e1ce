SPECIFICATION KeysSpec
CONSTANTS
  Requests = {r1, r2}
  MaxKeys = 3
  Nonces = {n1}
  Kinds <- AllKinds
SYMMETRY Symmetry
INVARIANTS KeysTypeOK OneGrantPerNonce SignedSinceChallenge 
