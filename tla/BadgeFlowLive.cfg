SPECIFICATION FairSpec
CHECK_DEADLOCK FALSE
CONSTANTS
  Students = {s1}
  Days = {1, 2}
  Milestones = {1, 2}
  Wallets = {w1, bad}
  Malformed = {bad}
  Rejecting = {}
  Approvals = {a1, a2}
  InFlight = 1
  Scripts = {x1}
  ForeignTxs = {relay}
  AutoMine = FALSE
  Faults = FALSE
INVARIANTS OneTxAtOnce NoSilentMiss
PROPERTY MintAnswered
