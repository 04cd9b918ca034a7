SPECIFICATION FairSpec
CONSTANTS
  a = a
  b = b
  NoLamp = NoLamp
  Lamps = {a, b}
  Used = {a, b}
  Target <- Mutual
  Startup <- StartOff
  N = 2
  MaxUse = 2
  MaxIssue = 0
  Faults = {}
  MaxTroubles = 0
PROPERTY SyncSettles
