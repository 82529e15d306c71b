SPECIFICATION Spec
CONSTANTS
  Values = {1, 2}
  BusinessMoves = 2
  b1 = b1
  b2 = b2
  q1 = q1
  q2 = q2
  MaxChanges = 2
  MaxRefetches = 1
  Rows = {1, 2}
  PAGE_SIZE = 1
  ResourceMoves = 4
  Tabs = {"PENDING", "ACTIONED"}
  QueueSize = 3
  QueueMoves = 2
  DecidedSize = 1
  DecidedMoves = 3
  CountsSize = 2
  CountsMoves = 2
  PartyVersion = 2
  AgainVersion = 1
  AgainVisits = 2
  MaxFaults = 1
  NULL = NULL
INVARIANTS OwnActionIsSeen ActsOnWhatIsShown
PROPERTIES NothingElseMoves DesksComeBack
CHECK_DEADLOCK FALSE
