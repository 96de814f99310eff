SPECIFICATION Spec
CONSTANTS
  SourceOrder <- OneManual
  Authored <- TheStore
  Docs = {0, 1}
  Chunks <- MCChunks
  Setups <- FirstOrRelease
  FirstSetup <- FirstInstalled
  NoDoc = NoDoc
  Unknown = Unknown
  NoFile = NoFile
  MaxEdits = 1
  MaxViews = 1
  MaxSetups = 2
INVARIANTS
  OneModelPerView
  FaithfulWhenFresh
  SidecarResolvedAgainstView
CHECK_DEADLOCK FALSE
