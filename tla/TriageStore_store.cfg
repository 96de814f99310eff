SPECIFICATION Spec
CONSTANTS
  None = None
  Absent = Absent
  AuthoredSource = "authored/triage"
  MinCauses = 2
  MaxCauses = 2
  WordCap = 6
  Stops = {"closely"}
  Precedes <- MCPrecedes
  Files <- MCFiles
  Controls <- MCControls
  Drafts <- MCDrafts
  Editions <- MCEditions
  Rigs <- MCRigs
  MaxEdits = 1
  MaxRuns = 3
INVARIANTS
  WordsAreKept
  VerifiedNeverRejects
  DriftWasVerified
  MarksAreEarned
  ValidateForetells
CHECK_DEADLOCK FALSE
