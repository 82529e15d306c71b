SPECIFICATION Spec
CONSTANTS
  Clients = {}
  USER = USER
  Window = 2
  PageSize = 1
  MaxUser = 1
  MaxFaults = 0
  NULL = NULL
PROPERTY ReadOnlyWhenSeen
CHECK_DEADLOCK FALSE
