SPECIFICATION FairSpec
CONSTANTS
  NULL = NULL
  Admins = {a, b}
  Outsiders = {x}
  Requests = {r1}
  MaxTokens = 2
INVARIANTS TypeOK ProviderMatchesStore TokenMatchesPrincipal NoInheritedData WaitersHaveAFlight
PROPERTIES OldRefreshIsInert ImplementsScope BootEnds RequestsSettle LogoutSignsOut
