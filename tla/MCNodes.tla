-------------------------------- MODULE MCNodes --------------------------------
(***************************************************************************)
(* The nodes for TLC: a battery node, a sensor node, a relay node and a    *)
(* LoRa switch, which share no state, side by side in one run.  A          *)
(* behaviour is one of the node that part names; the variables of the      *)
(* others keep their initial values.                                       *)
(***************************************************************************)
EXTENDS BatteryNode, RelayNode

CONSTANTS
  SensorKinds, TryGap, PortalGap,  \* of SensorNode
  Attempts, LoraTroubles           \* of LoraLink

ASSUME NodesAssumption ==
  /\ SensorKinds \subseteq {"climate", "rain", "presence"}
  /\ TryGap \in Nat /\ PortalGap \in Nat
  /\ Attempts \in Nat /\ LoraTroubles \in Nat

VARIABLES
  part,
  \* SensorNode
  build, phase, ap, sensorNet, station, wifi, deadline, tried, opened, world,
  level, still, enabled, saved, led, sensorPaired, sensorReport,
  \* LoraLink
  avrRelay, avrPaired, flag, asked, ready, listens, got, linked, up, down,
  listed, shown, pending, told, loraTroubles

sensorVars == <<build, phase, ap, sensorNet, station, wifi, deadline, tried,
  opened, world, level, still, enabled, saved, led, sensorPaired,
  sensorReport>>
avrVars == <<avrRelay, avrPaired, flag, asked, ready, listens, got, linked,
  up, down, listed, shown, pending, told, loraTroubles>>

Sensor == INSTANCE SensorNode
  WITH net <- sensorNet, paired <- sensorPaired, report <- sensorReport

Avr == INSTANCE LoraLink
  WITH MaxTroubles <- LoraTroubles, relay <- avrRelay, paired <- avrPaired

(* The part that runs starts in any of its initial states, the others in   *)
(* one of them.                                                            *)
NodesInit ==
  /\ part \in {"battery", "sensor", "relay", "avr"}
  /\ Init /\ (part = "battery" \/ kind = "soil")
  /\ Sensor!Init /\ (part = "sensor" \/ build = "rain")
  /\ RelayInit /\ (part = "relay" \/ node = "lora")
  /\ Avr!LInit

OnlyBattery == part = "battery" /\ UNCHANGED <<part, sensorVars, relayVars, avrVars>>
OnlySensor == part = "sensor" /\ UNCHANGED <<part, vars, relayVars, avrVars>>
OnlyRelay == part = "relay" /\ UNCHANGED <<part, vars, sensorVars, avrVars>>
OnlyAvr == part = "avr" /\ UNCHANGED <<part, vars, sensorVars, relayVars>>

NodesNext ==
  \/ OnlyBattery /\ Next
  \/ OnlySensor /\ Sensor!Next
  \/ OnlyRelay /\ RelayNext
  \/ OnlyAvr /\ Avr!LNext

(* The fairness of each node, for the one that runs.  The strong           *)
(* conditions take one action of each, which makes no difference.          *)
allVars == <<part, vars, sensorVars, relayVars, avrVars>>

NodesFairness ==
  /\ WF_vars(part = "battery" /\ Loop)
  /\ WF_vars(part = "battery" /\ Tick)
  /\ WF_sensorVars(part = "sensor" /\ Sensor!Setup)
  /\ WF_sensorVars(part = "sensor" /\ Sensor!LeavePortal(FALSE))
  /\ WF_sensorVars(part = "sensor" /\ Sensor!Maintain)
  /\ WF_sensorVars(part = "sensor" /\ Sensor!Tick)
  /\ WF_relayVars(part = "relay" /\ CyclicCheck)
  /\ WF_relayVars(part = "relay" /\ PulseCheck)
  /\ WF_relayVars(part = "relay" /\ Countdown)
  /\ WF_relayVars(part = "relay" /\ Countdown /\ pulse' # pulse)
  /\ WF_relayVars(part = "relay" /\ RadioLoop)
  /\ WF_relayVars(part = "relay" /\ (HandleOta \/ UploadAborted))
  /\ WF_avrVars(part = "avr" /\ Avr!PairAttempt)
  /\ WF_avrVars(part = "avr" /\ Avr!LoraLoop)
  /\ WF_avrVars(part = "avr" /\ Avr!Deliver)
  /\ WF_avrVars(part = "avr" /\ (Avr!RxPairRequest \/ Avr!RxData))
  /\ SF_allVars(\/ (OnlyBattery /\ Setup /\ Awake')
                \/ (OnlySensor /\ Sensor!Connect)
                \/ (OnlyAvr /\ Avr!SendState))
  /\ SF_allVars(\/ (OnlyBattery /\ HubData)
                \/ (OnlySensor /\ Sensor!Delivered)
                \/ (OnlyAvr /\ Avr!Published))

NodesFairSpec ==
  NodesInit /\ [][NodesNext]_allVars /\ NodesFairness

-----------------------------------------------------------------------------
(* What the run checks: the properties of the modules, which say nothing   *)
(* of a node that stays in its initial state.                              *)
NodesTypeOK == TypeOK /\ Sensor!TypeOK /\ RelayTypeOK /\ Avr!LTypeOK

BatteryCycle == AwakeEnds /\ PairedReports
SensorRecovers == Sensor!OutageEnds /\ Sensor!AlarmShown
LoraTold == Avr!LoraTold
================================================================================
