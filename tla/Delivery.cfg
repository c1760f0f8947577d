SPECIFICATION DeliverySpec
CHECK_DEADLOCK FALSE
CONSTANTS
  lower = lower
  mixed = mixed
  garbled = garbled
  vault = vault
  stranger = stranger
  pair = pair
  Address = {lower, garbled}
  BytesOf <- MCBytesOf
  Valid <- MCValid
  Allowlist <- MCAllowlist
  Proofs <- MCNoProof
  Rejecting = {}
  Requests = {r1, r2, r3}
  InFlight = 2
  Batch = 2
  BatchSize = 2
  Consumers = {"worker", "batch-worker"}
  Faults = FALSE
  MaxRestarts = 0
  w1 = w1
  w2 = w2
  Users = {u1}
  Wallets = {w1, w2}
  MaxUpdates = 2
  Interactions = {i1}
  MaxCrashes = 1
INVARIANTS
  NothingLost PushesBounded
  ConfirmedWasHandled PaidOncePerDelivery LinkIsLast OkMeansMinted
PROPERTIES  UpdateConfirmed InteractionAnswered
