SPECIFICATION RetentionSpec
CONSTANTS
  Calls <- MCCalls
  OldRows <- MCOldRows
  NoLink = NoLink
  DataRetentionDays = 1
  ExpectedDays = 0
  RetentionArgs = {0, NotGiven}
  NotGiven = NotGiven
  BatchSizes = {2}
  Writers = {w1, w2}
  Purgers = {p1, p2}
  MaxCalls = 2
  MaxTime = 2
  MaxPurges = 2
  MaxUnlinks = 1
SYMMETRY Symmetry
CHECK_DEADLOCK FALSE
INVARIANTS
  PurgeKeepsRetention
