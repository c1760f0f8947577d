SPECIFICATION Spec
CHECK_DEADLOCK FALSE
CONSTANTS
  Requests = {1, 2, 3}
  Limit = 2
  Window = 3
  InFlight = 2
  MaxDelay = 0
  MaxTime = 3
INVARIANT LimitKept
