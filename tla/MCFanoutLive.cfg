CONSTANTS
  Clients = {c1, c2}
  Capacity = 1
  SockBuf = 1
  AuthEnabled = FALSE
  MaxMessages = 2
  MaxTrades = 0
SPECIFICATION FairSpec
PROPERTIES
  WorkerNeverBlocked
  SentIsDelivered
