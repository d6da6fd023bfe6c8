CONSTANTS
  Clients = {c1, c2}
  Capacity = 2
  SockBuf = 1
  AuthEnabled = TRUE
  MaxMessages = 3
  MaxTrades = 2
SYMMETRY ClientSymmetry
SPECIFICATION Spec
PROPERTY ImplementsSubscription
INVARIANTS
  TypeOK
  NoSilentGap
  DrainedIsCurrent
  HealthFollowsStream
