CONSTANTS
  Base = 2
  MaxDelay = 7
  Frames <- SmallFrames
  MaxSequence = 5
  MaxElapsed = 22
  Limit = 60
  FRAC = 2
  U64Max = 1990
  Alphabet <- PriceCharacters
  MaxText = 5
SPECIFICATION Spec
CHECK_DEADLOCK FALSE
INVARIANTS
  TypeOK
  SequenceIncreases
  GapOnlyAcrossSessions
  RefusedOutageIsPaced
  NeverFasterThanBase
  PricesAreExact
