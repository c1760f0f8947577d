SPECIFICATION Spec
CHECK_DEADLOCK FALSE
CONSTANTS
  lower = lower
  mixed = mixed
  garbled = garbled
  vault = vault
  stranger = stranger
  pair = pair
  Address = {lower, mixed}
  BytesOf <- MCBytesOf
  Valid <- MCValid
  Allowlist <- MCAllowlist
  Proofs <- MCNoProof
  Rejecting = {}
  Requests = {r1, r2}
  InFlight = 1
  Batch = 2
  BatchSize = 2
  Consumers = {"worker"}
  Faults = FALSE
  MaxRestarts = 0
INVARIANT ProofConsumedOnce
