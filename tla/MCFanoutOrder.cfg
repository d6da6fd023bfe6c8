CONSTANTS
  Clients = {c1}
  Capacity = 2
  SockBuf = 1
  AuthEnabled = FALSE
  MaxMessages = 3
  MaxTrades = 1
SPECIFICATION Spec
INVARIANT ViewNeverGoesBack
