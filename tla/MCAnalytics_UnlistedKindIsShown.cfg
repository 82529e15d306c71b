SPECIFICATION Spec
CONSTANTS
  app = app
  web = web
  p1 = p1
  p2 = p2
  u1 = u1
  u2 = u2
  pay = pay
  acc = acc
  d1 = d1
  d2 = d2
  Unread = Unread
  home = home
  NOT_SET = NOT_SET
  RESERVED_TOTAL = RESERVED_TOTAL
  NULL = NULL
INVARIANT UnlistedKindIsShown
CHECK_DEADLOCK FALSE
