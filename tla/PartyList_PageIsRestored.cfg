SPECIFICATION Spec
CONSTANTS
  Tabs = {"ALL", "RECRUITING"}
  MaxPages = 3
  AUTO_OPEN_SCAN_PAGE_LIMIT = 2
  MaxMoves = 5
  MaxFaults = 0
  NULL = NULL
PROPERTY PageIsRestored
CHECK_DEADLOCK FALSE
