SPECIFICATION Spec
CONSTANTS
  Width = 3
  MaxLen = 7
  None = None
  Cases <- MCCases
  Worlds <- MCWorlds
INVARIANT
  AcceptedIsStored
CHECK_DEADLOCK FALSE
