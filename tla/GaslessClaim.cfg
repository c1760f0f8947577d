SPECIFICATION Spec
CHECK_DEADLOCK FALSE
CONSTANTS
  alice = alice
  vault = vault
  ownerKey = ownerKey
  otherKey = otherKey
  Claims = {alice, vault}
  Rejecting = {vault}
  BadAddress = BadAddress
  BadAmount = BadAmount
  Key <- MCKey
  Authority = ownerKey
  Signs = {s1, s2}
  SignInputs <- MCSignInputs
  Relays = {r1, r2}
  ForeignTxs = {}
  Forged <- MCForged
  MaxNonce = 2
  MaxBatch = 2
  RedisForgets = FALSE
SYMMETRY Symmetry
INVARIANTS TypeOK FreshNonce SpentOnce SuccessMeansMinted OneSuccessPerNonce FailureMeansNotMinted
PROPERTY ImplementsLedger
