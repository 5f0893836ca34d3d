SPECIFICATION Spec
CONSTANTS
  Networks <- MCNetworks
  Known <- MCKnown
  CommandLines <- MCCommandLines
  Paths <- MCPaths
  Environments <- MCEnvironments
  Contents <- MCContents
INVARIANT UrlsValidated
CHECK_DEADLOCK FALSE
