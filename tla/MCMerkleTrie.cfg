SPECIFICATION Spec
CONSTANTS
  Width = 3
  MaxLen = 7
  None = None
  Cases <- MCCases
  Worlds <- MCWorlds
INVARIANTS
  GenuineDecides
  BrokenOnlyAtGaps
  HonestProofDecides
  NoWrittenSlotContradicted
CHECK_DEADLOCK FALSE
