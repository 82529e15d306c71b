SPECIFICATION Spec
CONSTANTS
  NULL = NULL
  Admins = {a, b}
  Outsiders = {x}
  Requests = {r1}
  MaxTokens = 2
PROPERTY RetryableRefreshKeepsSession
