SPECIFICATION Spec
CONSTANTS
  Clients = {}
  USER = USER
  Window = 2
  PageSize = 1
  MaxUser = 5
  MaxFaults = 0
  NULL = NULL
INVARIANT LiveTailIsShown
CHECK_DEADLOCK FALSE
