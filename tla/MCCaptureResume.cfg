CONSTANTS
  HeaderSize = 2
  RecordSize = 2
  BufCapacity = 5
  FlushEvery = 2
  MaxTrades = 4
  MaxRuns = 2
SPECIFICATION Spec
CHECK_DEADLOCK FALSE
INVARIANT ResumesTheTape
