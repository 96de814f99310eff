SPECIFICATION Spec
CONSTANTS
  MaxTurns = 3
  Retention = 1
  MaxOpen = 1
  Null = Null
INVARIANTS
  ContextIsOwn
CHECK_DEADLOCK FALSE
