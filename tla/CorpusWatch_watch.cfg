SPECIFICATION WatchSpec
CONSTANTS
  SourceOrder <- Order
  Authored <- NoStore
  Docs = {0, 1}
  Chunks <- MCChunks
  Setups <- FirstOrFormat
  FirstSetup <- FirstInstalled
  NoDoc = NoDoc
  Unknown = Unknown
  NoFile = NoFile
  NoView = NoView
  NoStat = NoStat
  MaxEdits = 2
  MaxViews = 3
  MaxSetups = 1
INVARIANTS
  ManifestNamesWholeView
  NoMissedPublication
PROPERTIES
  LiveViewIsKept
CHECK_DEADLOCK FALSE
