SPECIFICATION Spec
CONSTANTS
  p1 = p1
  p2 = p2
  People = {p1, p2}
  PAGE_SIZE = 1
  MaxOps = 2
  MaxFaults = 1
  MaxOpens = 3
  MaxTyped = 1
  a1 = a1
  a2 = a2
  a3 = a3
  Applicants = {a1, a2, a3}
  WINDOW_SIZE = 2
  MaxReviews = 2
  Places = {p1, p2}
  Minutes = 1
  EditYear = 2
  EditEdits = 1
  EditSearches = 1
  EditSaves = 1
  CreateYear = 1
  CreateEdits = 5
  CreateSaves = 2
  maxFiles = 3
  MaxChoices = 2
  Tabs = {"RECRUITING", "IN_PROGRESS"}
  MaxPages = 3
  AUTO_OPEN_SCAN_PAGE_LIMIT = 2
  MaxMoves = 5
  category = category
  business = business
  foreign = foreign
  Emails = {"in", "out"}
  Internal = {"in"}
  Passwords = {"p", "q"}
  WizardMoves = 3
  WizardFaults = 2
  MaxVisits = 2
  MaxFlows = 3
  ScriptFaults = 1
  Titles = {p1, p2}
  SUPER_ADMIN = super
  BUSINESS_ADMIN = admin
  MaxEvents = 5
  MarketRuns = 2
  MarketFaults = 2
  MarketMoves = 2
  SeedItems <- SeedData
  TRANSITION_ATTEMPTS = 2
  SeedRuns = 2
  SeedFaults = 1
  SeedMoves = 1
  NULL = NULL
INVARIANTS FewRedirects DoorIsTrue FormIsKept DoneIsTrue
PROPERTIES RestsOnUsableScreen NothingIsLost PagesCatchUp FormsComeThrough
CHECK_DEADLOCK FALSE
