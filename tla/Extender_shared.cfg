CONSTANTS
  a = a
  b = b
  None = None
  Clients = {a, b}
  SeqsOf <- Counted
  Kinds = {"data", "pair"}
  Commands = FALSE
  CacheSize = 2
  QueueCap = 2
  MaxPeers = 2
  Timeout = 1
SPECIFICATION Spec
INVARIANT
  RightClient
