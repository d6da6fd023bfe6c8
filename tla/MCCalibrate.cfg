CONSTANTS
  BucketVolumes <- ShortVolumes
  SigmaWindows <- ShortSigmas
  VpinWindows <- ShortVpins
  CdfWindow <- ShortCdf
  MIN_COMPARED = 2
  IntensityWindow = 4
  Bootstrap <- ShortBootstrap
  TradesAt <- ShortTapes
  MaxTrades = 8
SPECIFICATION Spec
CHECK_DEADLOCK FALSE
INVARIANTS
  TypeOK
  MatchesDefinition
  ScoresAreFractions
  BucketsPartitionTrades
  IntervalWithinWindow
  IntensityRanksInCohort
  PassesAgree
  AccuracyIsPerBucket
  EveryRivalIsCompared
