SPECIFICATION Spec
CHECK_DEADLOCK FALSE
CONSTANTS
  Students = {s1}
  Days = {1, 2}
  Milestones = {1}
  Wallets = {w1}
  Malformed = {}
  Rejecting = {}
  Approvals = {a1, a2}
  InFlight = 2
  Scripts = {}
  ForeignTxs = {}
  AutoMine = TRUE
  Faults = FALSE
INVARIANT NoSilentMiss
