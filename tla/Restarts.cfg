SPECIFICATION RestartsSpec
CHECK_DEADLOCK FALSE
CONSTANTS
  lower = lower
  mixed = mixed
  garbled = garbled
  vault = vault
  stranger = stranger
  pair = pair
  Address = {lower, vault, stranger, pair}
  BytesOf <- MCBytesOf
  Valid <- MCValid
  Allowlist <- MCAllowlist
  Proofs <- MCProofs
  Rejecting = {vault}
  Requests = {r1, r2}
  InFlight = 2
  Batch = 2
  BatchSize = 2
  Consumers = {"worker", "batch-worker"}
  Faults = TRUE
  MaxRestarts = 1
  Contracts <- MCBoth
  Holders = {alice, bob}
  Minter = Minter
  Unset = Unset
  Transfers = TRUE
  MaxEvents = 3
  PerBlock = 2
  MaxStarts = 2
SYMMETRY Symmetry
CONSTRAINTS StatsBound GraphBound
INVARIANTS
  TypeOK PaidAtMostOncePerPush ClaimedWasPushed ProofDecides
  CreditHasRow CountedOnce LossExplained StatsBacked BalanceMatchesEntities
