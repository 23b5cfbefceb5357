SPECIFICATION Spec
CONSTANTS
  Calls <- MCCalls
  OldRows <- MCOldRows
  NoLink = NoLink
  DataRetentionDays = 1
  ExpectedDays = 0
  RetentionArgs = {0}
  NotGiven = NotGiven
  BatchSizes = {1}
  Writers = {w1}
  Purgers = {p1}
  MaxCalls = 1
  MaxTime = 2
  MaxPurges = 1
  MaxUnlinks = 1
  PageSize = 1
  BucketSize = 1
  Buckets = 1
  MaxReads = 1
CHECK_DEADLOCK FALSE
INVARIANTS
  TypeOK
  WalkMissesForAReason
  CardsCoverStableRows
  ViewsAgree
