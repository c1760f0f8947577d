SPECIFICATION Spec
CHECK_DEADLOCK FALSE
CONSTANTS
  Students = {s1}
  Days = {1, 2}
  Milestones = {1, 2}
  Wallets = {w1}
  Malformed = {}
  Rejecting = {}
  Approvals = {a1, a2}
  InFlight = 1
  Scripts = {}
  ForeignTxs = {}
  AutoMine = FALSE
  Faults = FALSE
INVARIANT QueueIsSerial
