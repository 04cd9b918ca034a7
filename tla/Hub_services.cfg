SPECIFICATION HubFairSpec
CONSTANTS
  Values = {u, v, w}
  Zero = u
  N = 4
  a = a
  b = b
  Macs = {a, b}
  None = None
  TypeOf <- Types
  NSlots = 2
  FirstWait = 1
  LastWait = 3
  LinkTroubles = 4
  BotNodes = 2
  Short = 1
  Long = 2
  BotTroubles = 1
  Alerts <- SomeAlerts
  Day = 2
  AgendaMinute = 0
  NtpDelay = 1
  RxLimit = 2
  Modes = {"terminal", "ap", "hybrid"}
  MaxTroubles = 2
INVARIANTS TypeOK HubTypeOK AgendaOnce
PROPERTIES FifoSpec EveryValueServed HaCatchesUp AlertsSent HubRecovers
CHECK_DEADLOCK FALSE
