SPECIFICATION ScopeSpec
CONSTANTS
  Sources = {live, apc, notes}
  None = None
  live = live
  apc = apc
  notes = notes
INVARIANTS
  NarrowingIsKept
CHECK_DEADLOCK FALSE
