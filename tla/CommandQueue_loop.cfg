SPECIFICATION QueuesSpec
CONSTANTS
  Targets = {lamp}
  QMax = 2
  MaxHops = 2
  TTL = 3
  HopInterval = 1
  Wrap = 12
  Horizon = 5
  MaxStall = 2
  MaxCmds = 3
  Orders = {TRUE, FALSE}
  Hearing = {TRUE, FALSE}
  Issuers = {"loop"}
INVARIANTS TypeOK HopBudget DispatchedBeforeDropped
PROPERTY QueueDrains_web
