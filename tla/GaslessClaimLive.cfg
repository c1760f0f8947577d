SPECIFICATION FairSpec
CHECK_DEADLOCK FALSE
CONSTANTS
  alice = alice
  vault = vault
  ownerKey = ownerKey
  otherKey = otherKey
  Claims = {alice, vault}
  Rejecting = {vault}
  BadAddress = BadAddress
  BadAmount = BadAmount
  Key <- MCKey
  Authority = ownerKey
  Signs = {s1}
  SignInputs <- MCMixedInputs
  Relays = {r1, r2}
  ForeignTxs = {badge}
  Forged <- MCForged
  MaxNonce = 2
  MaxBatch = 1
  RedisForgets = TRUE
PROPERTY RelayAnswered
