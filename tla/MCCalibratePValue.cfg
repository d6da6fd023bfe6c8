CONSTANTS
  BucketVolumes <- LongVolumes
  SigmaWindows <- LongSigmas
  VpinWindows <- LongVpins
  CdfWindow <- NoCdf
  MIN_COMPARED = 30
  IntensityWindow = 4
  Bootstrap <- ShortBootstrap
  TradesAt <- LongTape
  MaxTrades = 64
SPECIFICATION Spec
CHECK_DEADLOCK FALSE
INVARIANT PValueOneMeansEqual
