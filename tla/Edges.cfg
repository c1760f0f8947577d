SPECIFICATION EdgesSpec
CHECK_DEADLOCK FALSE
CONSTANTS
  Requests = {1, 2, 3, 4, 5}
  Limit = 2
  Window = 3
  InFlight = 2
  MaxDelay = 1
  MaxTime = 5
  Endpoints <- MCEndpoints
  RpcTimeout = 2
  MaxNow = 3
  MaxFlips = 2
  People = {alice}
  Receivers = {vault, farm}
  Nullifiers = {n1, n2}
  Eligible = {alice, vault}
  Deadline = 1
  MaxDepth = 3
  MaxBlocks = 2
  Prefunded = FALSE
  MaxEras = 3
  MaxTxs = 5
  MaxOthers = 1
  MaxBoots = 2
  MaxTries = 2
CONSTRAINT InOrder
INVARIANTS OvershootBounded RefusedOnlyAtLimit BestRpcPrompt PaidIsMarked UpOnContracts FundedOnce
PROPERTIES ExpiryIsLate SubgraphOnContracts
