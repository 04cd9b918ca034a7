SPECIFICATION FairSpec
CONSTANTS
  a = a
  b = b
  NoLamp = NoLamp
  Lamps = {a, b}
  Used = {a}
  Target <- OneWay
  Startup <- StartMixed
  N = 3
  MaxUse = 3
  MaxIssue = 1
  Faults = {"post", "command", "hub", "removal", "restart"}
  MaxTroubles = 4
INVARIANTS TypeOK OneSlotPerLamp MirrorPending
PROPERTY MirrorFollows
