CONSTANTS
  HeaderSize = 2
  RecordSize = 2
  BufCapacity = 5
  FlushEvery = 4
  MaxTrades = 6
  MaxRuns = 3
SPECIFICATION Spec
CHECK_DEADLOCK FALSE
INVARIANTS
  TypeOK
  ReplaysWhatWasFlushed
  KillCostsLessThanFlushEvery
  RecordsFollowHeader
