SPECIFICATION Spec
CONSTANTS
  Asked <- MCAsked
  Own <- MCOwn
INVARIANTS AskedAsMeant AnsweredAsGiven WholeIsKept SpoiltIsRefused
CHECK_DEADLOCK FALSE
