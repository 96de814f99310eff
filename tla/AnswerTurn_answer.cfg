SPECIFICATION Spec
CONSTANTS
  NoMark = NoMark
  NoLine = NoLine
  None = None
  SuggestionsMax = 2
  Rows <- MCRows
  SourceOf <- MCSourceOf
  Vendor <- MCVendor
  DeviceOf <- MCDeviceOf
  Declared <- MCDeclared
  Gaps = {"gap"}
  Depth = 2
  RrfK = 1
  BaseCap = 2
  Queries <- MCQueries
  Entries <- MCEntries
  NarrowingCap = 3
  CausesMax = 2
  NarrowingMin = 2
  Followed <- MCFollowed
  FirstLines <- MCFirstLines
  AnswerLines <- MCAnswerLines
  Lines <- MCLines
  MaxLines = 5
INVARIANTS
  SuppliedIsInScope
  FixesInCauseOrder
  OneAttemptIsHeard
  NothingDangles
  RecordedAsSaid
  EntryDecides
  BodyIsStreamed
CHECK_DEADLOCK FALSE
