SPECIFICATION Spec
CONSTANTS
  Requests = {r1, r2}
  Poll = Poll
  None = None
  h1 = h1
  h2 = h2
  h3 = h3
  s1 = s1
  s2 = s2
  s3 = s3
  v0 = v0
  v1 = v1
  v2 = v2
  MaxNumber = 3
  Tasks <- MCTasks
  Hashes <- MCHashes
  Roots <- MCRoots
  Values <- MCValues
  Provable <- MCProvable
  Blocks <- MCBlocks
  Headers <- MCHeaders
  Queries <- MCQueries
SYMMETRY RequestSymmetry
INVARIANTS
  NoReadWhileStoring
  DecisionStands
  NoTornDecision
  PollerInSync
  NoLostWakeup
  IInv
PROPERTY VerifiedReads
