SPECIFICATION FairSpec
CONSTANTS
  NULL = NULL
  Primary = p
  Fallback = f
  SameSite = {p, f}
  Strangers = {old}
  Callers = {c1, c2}
  TTL = 2
  ProbeTimeout = 1
INVARIANTS TypeOK CredentialsStayOnSite
PROPERTIES ChoosesRecentlyHealthy FailsOnlyWithoutOrigin SelectionEnds
