SPECIFICATION Spec
CONSTANTS
  Keys = {k1, k2}
  MaxRequests = 3
  MaxInFlight = 2
  None = None
  k1 = k1
  k2 = k2
INVARIANTS
  TurnUsesSelection
  ShownKindIsEngines
CHECK_DEADLOCK FALSE
