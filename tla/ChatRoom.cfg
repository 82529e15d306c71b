SPECIFICATION Spec
CONSTANTS
  Clients = {c1}
  USER = USER
  Window = 2
  PageSize = 1
  MaxUser = 2
  MaxFaults = 1
  NULL = NULL
INVARIANTS TypeOK OneCopy
PROPERTY ReadsAsPromised
CHECK_DEADLOCK FALSE
