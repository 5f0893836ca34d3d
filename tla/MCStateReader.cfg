SPECIFICATION Spec
CONSTANTS
  c1 = c1
  c2 = c2
  b1 = b1
  b2 = b2
  v1 = v1
  v2 = v2
  Calls = {c1, c2}
  Blocks = {b1, b2}
  Items <- AllItems
  Zero = Zero
  Values = {Zero, v1, v2}
  Truth <- MCTruth
  Provable <- MCProvable
  Size <- SmallCaches
  MaxAccesses = 2
CONSTRAINT PairOfItems
SYMMETRY CallSymmetry
INVARIANTS
  CacheProven
  ReadsOfOneBlock
  OneEntryPerKey
  ExactWhenHonest
PROPERTIES SnapshotReads LeastUsedLeaves
