SPECIFICATION PairingSpec
CONSTANTS
  Macs = {a, b, c}
  None = None
  NSlots = 2
  PendMax = 1
  Actors = {"pair", "repeater", "tcp", "rename", "remove"}
  WriteOutcomes = {TRUE}
  Hearing = {FALSE}
  MaxRestarts = 1
  Window = 3
  MaxStall = 2
  Starters = {"button", "console", "web"}
  Fill = {TRUE, FALSE}
  Policies = {TRUE, FALSE}
SYMMETRY Devices
INVARIANTS TypeOK WTypeOK OneSlotPerDevice
PROPERTIES MapSpec LateAtMostOneVisit WindowLasts
