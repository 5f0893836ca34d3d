SPECIFICATION FairSpec
CONSTANTS
  Posts = {p1, p2, p3}
  Bodies <- MCBodies
  None = None
INVARIANTS
  AnswersMatch
  QuietAfterStop
  IInv
PROPERTIES
  StopEnds
  EveryPostEnds
CHECK_DEADLOCK FALSE
