SPECIFICATION Spec
CONSTANTS
  Base = 4
  Letter = 3
  Digits = 3
  Prime = 37
  MaxZeros = 2
INVARIANTS OwnTextsAccepted HeldInOneForm
PROPERTY ElementKept
CHECK_DEADLOCK FALSE
