SPECIFICATION Spec
CONSTANTS
  a = a
  b = b
  v = v
  w = w
  h1 = h1
  h2 = h2
  blank = blank
  open = open
  close = close
  marker = marker
  Words <- MCWords
  Slots <- MCSlots
  Blank <- blank
  Open <- open
  Close <- close
  Marker <- marker
  MaxBlock = 4
  Absent = Absent
  Unreadable = Unreadable
  NotDir = NotDir
  Unseen = Unseen
  Staged <- MCStaged
  Replacements <- MCReplacements
  MaxReplaced = 1
  MaxWarnings = 8
  MaxMessageRunes = 4
  MessageSizes <- MCMessageSizes
  Values <- MCValues
CHECK_DEADLOCK FALSE
INVARIANTS
  TypeOK
  StrictRunsInspected
  FullAssurance
  UnreadIsTold
  IneligibleMeansEmpty
  BlindRunIsFlagged
  ReportedOnce
  WarningsPublished
  NoValueEscapes
  RegionsAreTheValues
  ValuesGainNoTrust
