SPECIFICATION Spec
CONSTANTS
  None = None
  PageNumeral = PageNumeral
  FrontMatter = FrontMatter
  RepeatPercent = 60
  ShortDocumentPages = 3
  ShortDocumentRepeats = 2
  OutlineMinEntries = 2
  NumberedPercent = 60
  ContentsMinEntries = 2
  ContentsPercent = 60
  HeadingMinCount = 2
  HeadingSpreadPercent = 40
  HeadingPagesEach = 2
  UnmappablePercent = 10
  TableMinRows = 2
  TableMinColumns = 3
  TableEdgeColumns = 2
  WordCap = 6
  OverlapWords = 2
  Extracted <- MCExtracted
  Manuals <- MCManuals
INVARIANTS
  BodyIsIndexedOnce
  CitedUnderItsSection
  CitedOnItsPages
  ProceduresStayWhole
  WithinCap
  HeadingLeadsRows
CHECK_DEADLOCK FALSE
