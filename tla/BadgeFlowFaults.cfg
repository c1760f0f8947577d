SPECIFICATION Spec
CHECK_DEADLOCK FALSE
CONSTANTS
  Students = {s1, s2}
  Days = {1, 2}
  Milestones = {1, 2}
  Wallets = {w1, w2}
  Malformed = {}
  Rejecting = {}
  Approvals = {a1, a2, a3}
  InFlight = 2
  Scripts = {}
  ForeignTxs = {relay}
  AutoMine = TRUE
  Faults = TRUE
SYMMETRY Symmetry
CONSTRAINT WalletBound
INVARIANTS OneBadgeEach BadgeWasEarned RoleIsBacked
