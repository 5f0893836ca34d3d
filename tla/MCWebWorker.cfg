SPECIFICATION FairSpec
CONSTANTS
  Kinds <- AllKinds
  MaxClicks = 2
  MaxMessages = 2
  MaxBlock = 2
INVARIANTS AnswersInOwnPair OneAnswerEach RequestsFindClient CallsOnShownState
PROPERTY EveryRequestAnswered
CHECK_DEADLOCK FALSE
