SPECIFICATION FairSpec
CONSTANTS
  MaxTurns = 2
  Retention = 2
  MaxOpen = 2
  Null = Null
INVARIANTS
  HistoryHoldsAnswers
PROPERTIES
  StoppedTurnsEnd
CHECK_DEADLOCK FALSE
