CONSTANTS
  Base = 1
  MaxDelay = 120
  Frames <- NoFrames
  MaxSequence = 0
  MaxElapsed = 1200
  Limit = 300
  FRAC = 2
  U64Max = 1990
  Alphabet <- PriceCharacters
  MaxText = 0
SPECIFICATION Spec
CHECK_DEADLOCK FALSE
INVARIANT WithinVenueLimit
