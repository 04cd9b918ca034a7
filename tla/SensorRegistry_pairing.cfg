SPECIFICATION RegistryFairSpec
CONSTANTS
  Macs = {a, b}
  None = None
  NSlots = 2
  PendMax = 1
  Actors = {"pair", "repeater", "remove"}
  WriteOutcomes = {TRUE, FALSE}
  Hearing = {TRUE, FALSE}
  MaxRestarts = 1
  Window = 0
  MaxStall = 0
  Starters = {}
  Fill = {FALSE}
  Policies = {FALSE}
PROPERTIES MapSpec AskersGetPaired
