SPECIFICATION NodesFairSpec
CONSTANTS
  Kinds = {"acquiry", "acquiry_tcp", "soil"}
  MaxPair = 3
  MaxReadRetries = 2
  OnSerial = {"acquiry", "acquiry_tcp"}
  RelayKinds = {"lamp", "switch", "lora"}
  Pulses = {"skip"}
  Cycles = TRUE
  SensorKinds = {"climate", "rain", "presence"}
  TryGap = 2
  PortalGap = 4
  Attempts = 2
  LoraTroubles = 3
INVARIANTS NodesTypeOK CountdownIsOurs
PROPERTIES QuietOnlyIfHeard BatteryCycle SensorRecovers HubAgrees CycleGoesOn LoraTold
