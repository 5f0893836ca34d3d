SPECIFICATION FairSpec
CONSTANTS
  Networks <- MCNetworks
  Known <- MCKnown
  CommandLines <- MCCommandLines
  Paths <- MCPaths
  Environments <- MCEnvironments
  Contents <- MCContents
INVARIANT ServesOnlyChecked
PROPERTY PollerTicks
CHECK_DEADLOCK FALSE
