----------------------------- MODULE Availability -----------------------------
(***************************************************************************)
(* Which devices the hub takes for online and what Home Assistant is told. *)
(*                                                                         *)
(* A frame of a device refreshes last_seen and sets online (handle_rx and  *)
(* sensor_registry_update_state of ESP-NOW, handle_state and               *)
(* handle_heartbeat of TCP, lora_rx_cb of LoRa).  The loop scans the       *)
(* registry for devices that have been silent for SENSOR_TIMEOUT_MS and    *)
(* takes them offline.  Both publish every change as a retained message,   *)
(* and a new connection to the broker publishes all devices again          *)
(* (hub/src/mqtt_client.cpp).  Pairing and removal are left out.           *)
(*                                                                         *)
(* With LoRa the handler of a frame is called by the loop; with ESP-NOW    *)
(* and TCP it runs in a task of its own, and its steps fall between those  *)
(* of the scan.  Time is counted in ticks and only as the time since       *)
(* something happened.                                                     *)
(***************************************************************************)
EXTENDS Naturals

CONSTANTS
  N,           \* how many devices are paired
  Timeout,     \* SENSOR_TIMEOUT_MS, in ticks
  MaxScan,     \* bound: ticks from the scan's reading of the clock to its use
  Handler,     \* where frames are handled: "loop" or "task"
  Rereads,     \* TRUE: the clock is read for every device (ESP-NOW)
  MaxTroubles  \* bound: restarts of the hub and turns of the broker

Devices == 1 .. N

ASSUME AvailabilityAssumption ==
  /\ N \in Nat \ {0} /\ Timeout \in Nat /\ MaxScan \in Nat
  /\ Handler \in {"loop", "task"} /\ Rereads \in BOOLEAN
  /\ MaxTroubles \in Nat

VARIABLES
  online,    \* virtual_sensor_t::online
  age,       \* millis() - last_seen
  alive,     \* the device is there and sends
  quiet,     \* ticks since the hub last received a frame of the device,
             \* up to the first that exceeds Timeout
  ha,        \* the retained message about the device
  broker,    \* the broker can be reached
  session,   \* s_mqtt.connected()
  mqtt,      \* s_mqtt_connected
  skipped,   \* history: the devices this connection did not announce
  lpc,       \* where the loop is
  at,        \* the device the loop has reached
  late,      \* millis() - now of the scan
  hpc,       \* where the handler of a frame is
  from,      \* the device whose frame it handles
  was,       \* was_offline
  troubles   \* restarts of the hub and turns of the broker so far

hubVars == <<online, age>>
brokerVars == <<ha, broker, session, mqtt, skipped>>
scanVars == <<lpc, at, late>>
frameVars == <<hpc, from, was>>
nodeVars == <<alive, quiet>>
vars == <<hubVars, nodeVars, brokerVars, scanVars, frameVars, troubles>>

Last == Timeout + MaxScan + 1
Later(t) == IF t < Last THEN t + 1 ELSE Last

Init ==
  /\ online = [d \in Devices |-> FALSE]
  /\ age = [d \in Devices |-> Last]
  /\ alive \in [Devices -> BOOLEAN]
  /\ quiet = [d \in Devices |-> Timeout + 1]
  /\ ha \in [Devices -> {"online", "offline"}]
  /\ broker \in BOOLEAN /\ session = FALSE /\ mqtt = FALSE /\ skipped = {}
  /\ lpc = "idle" /\ at = 1 /\ late = 0
  /\ hpc = "idle" /\ from = 1 /\ was = FALSE
  /\ troubles = 0

(* mqtt_client_publish_availability: nothing when it is not connected; a   *)
(* message that finds no session is lost.                                  *)
Publish(d, status) ==
  ha' = IF mqtt /\ session THEN [ha EXCEPT ![d] = status] ELSE ha

LoopFree == lpc = "idle" /\ (Handler = "loop" => hpc = "idle")

-----------------------------------------------------------------------------
(* The handler of a frame *)

Hear(d) ==
  /\ hpc = "idle" /\ (Handler = "loop" => lpc = "idle")
  /\ alive[d]
  /\ hpc' = "set" /\ from' = d /\ was' = ~online[d]
  /\ quiet' = [quiet EXCEPT ![d] = 0]
  /\ UNCHANGED <<hubVars, alive, brokerVars, scanVars, troubles>>

Handled == hpc' = "idle" /\ from' = 1 /\ was' = FALSE

Proceed == IF was THEN hpc' = "tell" /\ UNCHANGED <<from, was>> ELSE Handled

(* A mistake, in the form of the definition that follows it: last_seen is  *)
(* left alone.  The runs tell such mistakes from the code.                 *)
HearSetUnseen ==
  /\ hpc = "set"
  /\ online' = [online EXCEPT ![from] = TRUE]
  /\ Proceed
  /\ UNCHANGED <<age, nodeVars, brokerVars, scanVars, troubles>>

(* last_seen = millis(), online = true *)
HearSet ==
  /\ hpc = "set"
  /\ online' = [online EXCEPT ![from] = TRUE]
  /\ age' = [age EXCEPT ![from] = 0]
  /\ Proceed
  /\ UNCHANGED <<nodeVars, brokerVars, scanVars, troubles>>

(* Mistake: a device that comes back is not announced. *)
HearTellNobody ==
  /\ hpc = "tell" /\ Handled
  /\ UNCHANGED <<hubVars, nodeVars, brokerVars, scanVars, troubles>>

HearTell ==
  /\ hpc = "tell"
  /\ Publish(from, "online")
  /\ Handled
  /\ UNCHANGED <<hubVars, nodeVars, broker, session, mqtt, skipped, scanVars,
                 troubles>>

-----------------------------------------------------------------------------
(* The scan for silent devices, in the order of the slots *)

ScanStart ==
  /\ LoopFree
  /\ lpc' = "read" /\ at' = 1 /\ late' = 0
  /\ UNCHANGED <<hubVars, nodeVars, brokerVars, frameVars, troubles>>

(* Mistake: a timeout in other units than the clock, never reached.        *)
SilentNever(d) == age[d] < late

(* unsigned long elapsed = now - last_seen; elapsed > SENSOR_TIMEOUT_MS.   *)
(* A last_seen later than now makes it wrap around.                        *)
Silent(d) == age[d] < late \/ age[d] - late > Timeout

(* Mistake: one slot too many is looked at. *)
NextDevicePast ==
  IF at > N THEN lpc' = "idle" /\ at' = 1 /\ late' = 0
  ELSE lpc' = "read" /\ at' = at + 1 /\ late' = late

NextDevice ==
  IF at = N THEN lpc' = "idle" /\ at' = 1 /\ late' = 0
  ELSE lpc' = "read" /\ at' = at + 1 /\ late' = IF Rereads THEN 0 ELSE late

ScanRead ==
  /\ lpc = "read"
  /\ IF online[at] /\ Silent(at) THEN lpc' = "mark" /\ UNCHANGED <<at, late>>
                                 ELSE NextDevice
  /\ UNCHANGED <<hubVars, nodeVars, brokerVars, frameVars, troubles>>

(* online = false *)
ScanMark ==
  /\ lpc = "mark"
  /\ online' = [online EXCEPT ![at] = FALSE]
  /\ lpc' = "tell"
  /\ UNCHANGED <<age, nodeVars, brokerVars, at, late, frameVars, troubles>>

ScanTell ==
  /\ lpc = "tell"
  /\ Publish(at, "offline")
  /\ NextDevice
  /\ UNCHANGED <<hubVars, nodeVars, broker, session, mqtt, skipped, frameVars,
                 troubles>>

-----------------------------------------------------------------------------
(* mqtt_client_loop *)

(* The session is gone; the loop notices and the connection fails, or it   *)
(* is not yet time for an attempt.                                         *)
Disconnected ==
  /\ LoopFree
  /\ ~session
  /\ mqtt' = FALSE
  /\ UNCHANGED <<hubVars, nodeVars, ha, broker, session, skipped, scanVars,
                 frameVars, troubles>>

Connect ==
  /\ LoopFree
  /\ ~session /\ broker
  /\ session' = TRUE /\ mqtt' = TRUE /\ skipped' = {}
  /\ lpc' = "connect" /\ at' = 1
  /\ UNCHANGED <<hubVars, nodeVars, ha, broker, late, frameVars, troubles>>

(* After a new connection: "online" for every paired device, until the     *)
(* heap is low.                                                            *)
Announce ==
  /\ lpc = "connect"
  /\ \/ /\ Publish(at, "online")
        /\ IF at = N THEN lpc' = "idle" /\ at' = 1
                     ELSE at' = at + 1 /\ UNCHANGED lpc
        /\ UNCHANGED skipped
     \/ /\ skipped' = at .. N
        /\ lpc' = "idle" /\ at' = 1
        /\ UNCHANGED ha
  /\ UNCHANGED <<hubVars, nodeVars, broker, session, mqtt, late, frameVars,
                 troubles>>

-----------------------------------------------------------------------------
(* The devices and the broker come and go; time passes; the hub restarts.  *)

DeviceTurns(d) ==
  /\ alive' = [alive EXCEPT ![d] = ~@]
  /\ UNCHANGED <<hubVars, quiet, brokerVars, scanVars, frameVars, troubles>>

BrokerTurns ==
  /\ troubles < MaxTroubles
  /\ troubles' = troubles + 1
  /\ broker' = ~broker
  /\ session' = (session /\ ~broker) /\ skipped' = {}
  /\ UNCHANGED <<hubVars, nodeVars, ha, mqtt, scanVars, frameVars>>

Tick ==
  /\ lpc \in {"read", "mark", "tell"} => late < MaxScan
  /\ age' = [d \in Devices |-> Later(age[d])]
  /\ quiet' = [d \in Devices |-> IF quiet[d] > Timeout THEN quiet[d]
                                                   ELSE quiet[d] + 1]
  /\ late' = IF lpc \in {"read", "mark", "tell"} THEN late + 1 ELSE late
  /\ UNCHANGED <<online, alive, brokerVars, lpc, at, frameVars, troubles>>

Restart ==
  /\ troubles < MaxTroubles
  /\ troubles' = troubles + 1
  /\ online' = [d \in Devices |-> FALSE]
  /\ age' = [d \in Devices |-> Last]
  /\ session' = FALSE /\ mqtt' = FALSE /\ skipped' = {}
  /\ lpc' = "idle" /\ at' = 1 /\ late' = 0
  /\ Handled
  /\ UNCHANGED <<nodeVars, ha, broker>>

Frame == (\E d \in Devices : Hear(d)) \/ HearSet \/ HearTell
Scan == ScanStart \/ ScanRead \/ ScanMark \/ ScanTell

Next ==
  \/ Frame \/ Scan
  \/ Disconnected \/ Connect \/ Announce
  \/ \E d \in Devices : DeviceTurns(d)
  \/ BrokerTurns \/ Tick \/ Restart

Spec == Init /\ [][Next]_vars

(* The loop comes back to the scan and to the broker, handlers run to      *)
(* their end, a device that is there is heard again and again, and time    *)
(* passes.                                                                 *)
FairSpec ==
  /\ Spec
  /\ SF_vars(ScanStart) /\ WF_vars(ScanRead \/ ScanMark \/ ScanTell)
  /\ SF_vars(Connect) /\ WF_vars(Announce)
  /\ WF_vars(HearSet \/ HearTell) /\ \A d \in Devices : SF_vars(Hear(d))
  /\ WF_vars(Tick)

-----------------------------------------------------------------------------
TypeOK ==
  /\ online \in [Devices -> BOOLEAN] /\ alive \in [Devices -> BOOLEAN]
  /\ age \in [Devices -> 0 .. Last] /\ quiet \in [Devices -> 0 .. Timeout + 1]
  /\ ha \in [Devices -> {"online", "offline"}]
  /\ broker \in BOOLEAN /\ session \in BOOLEAN /\ mqtt \in BOOLEAN
  /\ skipped \subseteq Devices
  /\ lpc \in {"idle", "read", "mark", "tell", "connect"}
  /\ at \in Devices /\ late \in 0 .. MaxScan
  /\ hpc \in {"idle", "set", "tell"} /\ from \in Devices /\ was \in BOOLEAN
  /\ troubles \in 0 .. MaxTroubles

(* A device is taken offline only when nothing was heard of it for         *)
(* SENSOR_TIMEOUT_MS (SPEC_TCP.md 7: "sem heartbeat/state -> online=false",*)
(* "a safe threshold" for the comment in TcpRadioHandler::loop).           *)
OfflineOnlyWhenSilent ==
  [][\A d \in Devices :
       online[d] /\ ~online'[d] /\ troubles' = troubles
         => quiet[d] > Timeout]_vars

(* A device that goes on sending is taken for online again and again: a    *)
(* scan that takes it offline while its frame is handled is made up for.   *)
AliveNoticed == \A d \in Devices : <>[]alive[d] => []<>online[d]

(* A device that stays away is taken offline for good: also when its last  *)
(* frame is handled while the scan is about to take it offline.            *)
SilentNoticed == \A d \in Devices : <>[]~alive[d] => <>[]~online[d]

(* A device that goes on sending is shown as available again and again,    *)
(* whatever was lost while the broker was away (comment in                 *)
(* publish_entity_config: the topic is there "so HA knows when the         *)
(* physical node goes offline"), unless the last connection to the broker  *)
(* ran out of memory before it came to the device: one that was shown as   *)
(* offline and came back unnoticed is then left so until it is silent      *)
(* again or there is another connection.                                   *)
AliveShownAvailable ==
  \A d \in Devices :
    <>[]alive[d] /\ <>[]broker /\ <>[](d \notin skipped)
      => []<>(ha[d] = "online")
===============================================================================
