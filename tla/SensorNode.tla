----------------------------- MODULE SensorNode ------------------------------
(***************************************************************************)
(* The sensors on mains power: nodes/climate-gas, nodes/rain and           *)
(* nodes/presence.  Their loop() serves console and web server, keeps the  *)
(* Wi-Fi connection up and, only while it is up, reads the sensor, runs    *)
(* the radio and drives the LEDs.  Reconnecting may open the portal of     *)
(* WiFiManager, which blocks the loop until it is left.                    *)
(*                                                                         *)
(* The radio (NodeRadioType, in shared/), the station and the portal are   *)
(* libraries: they are modelled by what the three files use.  What is      *)
(* sensed is a level: 0 nothing (climate: no gas; rain: dry; presence:     *)
(* nobody), 1 a little gas, 2 the alarm, rain, somebody.  Temperatures,    *)
(* pages and the battery figure are left out.                              *)
(*                                                                         *)
(* Time counts in ticks of the reconnect deadline of 15 seconds.           *)
(***************************************************************************)
EXTENDS Naturals

CONSTANTS
  SensorKinds,  \* the builds: of {"climate", "rain", "presence"}
  TryGap,       \* 30000 ms between two attempts, in ticks
  PortalGap     \* 300000 ms between two portals, in ticks

VARIABLES
  build,      \* which firmware it is
  phase,      \* "boot", "portal" (of setup), "run", "blocked" (portal in loop)
  ap,         \* the access point is there
  net,        \* WiFi.status() == WL_CONNECTED
  station,    \* the station looks for its network
  wifi,       \* s_wifi_state: "IDLE", "RECONNECTING"
  deadline,   \* s_wifi_reconnect_deadline has passed
  tried,      \* ticks since s_last_reconnect_attempt
  opened,     \* ticks since s_last_config_attempt
  world,      \* what there is to sense
  level,      \* s_gas_level, s_rain_level, s_motion_state
  still,      \* presence: PIR_HOLD_TIME_MS since s_last_motion_time is over
  enabled,    \* s_enable_gas
  saved,      \* s_enable_gas in the EEPROM
  led,        \* the alarm LED
  paired,     \* s_radio.is_paired()
  report      \* what the hub was told last

netVars == <<ap, net, station, wifi, deadline, tried, opened>>
senseVars == <<level, still, led>>
svars == <<build, phase, netVars, world, senseVars, enabled, saved, paired,
          report>>

Init ==
  /\ build \in SensorKinds
  /\ phase = "boot"
  /\ ap = TRUE /\ net = FALSE /\ station = FALSE
  /\ wifi = "IDLE" /\ deadline = FALSE /\ tried = 0 /\ opened = 0
  /\ world = 0 /\ level = 0 /\ still = TRUE /\ led = FALSE
  /\ enabled = TRUE /\ saved = TRUE
  /\ paired = FALSE /\ report = 0

Levels == IF build = "climate" THEN 0 .. 2 ELSE {0, 2}

-----------------------------------------------------------------------------
(* setup(): the settings are loaded; with the network there the node runs, *)
(* without it the portal opens.                                            *)
Setup ==
  /\ phase = "boot"
  /\ enabled' = saved
  /\ IF ap THEN phase' = "run" /\ net' = TRUE /\ station' = TRUE
           ELSE phase' = "portal" /\ UNCHANGED <<net, station>>
  /\ UNCHANGED <<build, ap, wifi, deadline, tried, opened, world, senseVars,
                 saved, paired, report>>

(* wifi_setup(true): the portal takes the radio and blocks the loop. *)
OpenPortal == phase' = "blocked" /\ net' = FALSE /\ station' = FALSE

(* The portal is filled in and the network is there; or it times out, and  *)
(* setup() restarts the node while loop() goes on without a network.       *)
LeavePortal(filled) ==
  /\ phase \in {"portal", "blocked"}
  /\ filled => ap
  /\ net' = filled /\ station' = filled
  /\ phase' = IF filled \/ phase = "blocked" THEN "run" ELSE "boot"
  /\ UNCHANGED <<build, ap, wifi, deadline, tried, opened, world, senseVars,
                 enabled, saved, paired, report>>

(* ESP.restart(): the keys r, POST /api/restart, the hub's restart and the *)
(* end of an update.  RAM is lost; LEDs go out.                            *)
Reboot ==
  /\ phase = "run"
  /\ phase' = "boot"
  /\ net' = FALSE /\ station' = FALSE /\ wifi' = "IDLE" /\ deadline' = FALSE
  /\ tried' = 0 /\ opened' = 0
  /\ level' = 0 /\ still' = TRUE /\ led' = FALSE /\ paired' = FALSE
  /\ UNCHANGED <<build, ap, world, enabled, saved, report>>

-----------------------------------------------------------------------------
(* maintain_wifi_connection(), which loop() calls while there is no        *)
(* network, and only then: a connection that comes back leaves the state   *)
(* RECONNECTING and its deadline as they are.                              *)

Offline == phase = "run" /\ ~net

Same == UNCHANGED <<build, ap, world, senseVars, enabled, saved, paired, report>>

(* A mistake, in the form of the definition that follows it: the station   *)
(* is not started.                                                         *)
TryReconnectIdle ==
  /\ Offline /\ build # "presence"
  /\ wifi = "IDLE" /\ tried >= TryGap
  /\ tried' = 0 /\ deadline' = FALSE /\ wifi' = "RECONNECTING"
  /\ UNCHANGED <<phase, net, station, opened>> /\ Same

TryReconnect ==
  /\ Offline /\ build # "presence"
  /\ wifi = "IDLE" /\ tried >= TryGap
  /\ tried' = 0 /\ station' = TRUE
  /\ deadline' = FALSE /\ wifi' = "RECONNECTING"
  /\ UNCHANGED <<phase, net, opened>> /\ Same

ReconnectTimeout ==
  /\ Offline /\ build # "presence"
  /\ wifi = "RECONNECTING" /\ deadline
  /\ wifi' = "IDLE"
  /\ IF opened > PortalGap
       THEN opened' = 0 /\ OpenPortal
       ELSE UNCHANGED <<opened, phase, net, station>>
  /\ UNCHANGED <<deadline, tried>> /\ Same

(* presence has no such states: each attempt may open the portal at once. *)
MaintainPresence ==
  /\ Offline /\ build = "presence" /\ tried >= TryGap
  /\ tried' = 0
  /\ IF opened > PortalGap
       THEN opened' = 0 /\ OpenPortal
       ELSE station' = TRUE /\ UNCHANGED <<opened, phase, net>>
  /\ UNCHANGED <<wifi, deadline>> /\ Same

(* The station connects; the access point goes and comes. *)
Connect ==
  /\ phase = "run" /\ station /\ ap /\ ~net
  /\ net' = TRUE
  /\ UNCHANGED <<phase, station, wifi, deadline, tried, opened>> /\ Same

AccessPoint ==
  /\ ap' = ~ap
  /\ net' = (net /\ ap')
  /\ UNCHANGED <<build, phase, station, wifi, deadline, tried, opened, world,
                 senseVars, enabled, saved, paired, report>>

(* on_pairing_failed: mywifi_try_next_bssid leaves the access point for    *)
(* another one of the network.                                             *)
OnPairingFailed ==
  /\ phase = "run" /\ net /\ ~paired
  /\ net' = FALSE
  /\ UNCHANGED <<phase, station, wifi, deadline, tried, opened>> /\ Same

-----------------------------------------------------------------------------
(* The sensors *)

Online == phase = "run" /\ net

(* read_sensors of climate-gas: the alarm from a threshold on; nothing     *)
(* while the gas sensor is switched off.                                   *)
ReadSensors == IF enabled THEN world ELSE 0

(* read_sensor of rain. *)
ReadRain == world

(* read_pir of presence: motion is held for a while. *)
ReadPir == IF world # 0 THEN 2 ELSE IF level # 0 /\ still THEN 0 ELSE level

(* s_radio.loop() and publish_state: get_sensor_payload, lost or not. *)
Publish(value) == report' \in {report, IF paired THEN value ELSE report}

(* loop() with a network: sensor, radio, LEDs. *)
Worked == UNCHANGED <<build, phase, netVars, world, enabled, saved, paired>>

WorkClimate ==
  /\ Online /\ build = "climate"
  /\ level' = ReadSensors
  /\ led' = (level' = 2)
  /\ Publish(level')
  /\ UNCHANGED still /\ Worked

WorkRain ==
  /\ Online /\ build = "rain"
  /\ level' = ReadRain
  /\ Publish(level')
  /\ UNCHANGED <<still, led>> /\ Worked

WorkPresence ==
  /\ Online /\ build = "presence"
  /\ level' = ReadPir
  /\ still' = (still /\ world = 0)
  /\ Publish(level')
  /\ UNCHANGED led /\ Worked

Work == WorkClimate \/ WorkRain \/ WorkPresence

(* The hub has the report. *)
Delivered == Work /\ (paired => report' = level')

(* The key l of the console, which loop() serves also without a network:   *)
(* a reading, sent if the node is paired, with no look at the LEDs.        *)
KeyRead ==
  /\ phase = "run"
  /\ level' = CASE build = "climate" -> ReadSensors
                [] build = "rain" -> ReadRain
                [] build = "presence" -> ReadPir
  /\ still' = (still /\ (build = "presence" => world = 0))
  /\ IF net THEN Publish(level') ELSE UNCHANGED report
  /\ UNCHANGED led /\ Worked

(* The radio is paired with the hub, or not any more; the key p undoes it. *)
Pair ==
  /\ Online
  /\ paired' = ~paired
  /\ UNCHANGED <<build, phase, netVars, world, senseVars, enabled, saved, report>>

(* POST /api/settings of climate-gas: kept in RAM and saved. *)
Settings ==
  /\ Online /\ build = "climate"
  /\ enabled' = ~enabled /\ saved' = enabled'
  /\ UNCHANGED <<build, phase, netVars, world, senseVars, paired, report>>

World ==
  /\ world' \in Levels \ {world}
  /\ UNCHANGED <<build, phase, netVars, senseVars, enabled, saved, paired, report>>

Due ==
  /\ Offline
  /\ IF wifi = "RECONNECTING" THEN deadline ELSE tried >= TryGap

(* The loop comes by more often than every tick. *)
Tick ==
  /\ ~Due
  /\ tried' = IF tried < TryGap THEN tried + 1 ELSE tried
  /\ opened' = IF opened <= PortalGap THEN opened + 1 ELSE opened
  /\ deadline' = (wifi = "RECONNECTING")
  /\ still' = (world = 0)
  /\ phase = "run"
  /\ <<tried', opened', deadline', still'>> # <<tried, opened, deadline, still>>
  /\ UNCHANGED <<build, phase, ap, net, station, wifi, world, level, led,
                 enabled, saved, paired, report>>

Maintain == TryReconnect \/ ReconnectTimeout \/ MaintainPresence

Next ==
  \/ Setup \/ \E filled \in BOOLEAN : LeavePortal(filled)
  \/ Reboot \/ Maintain \/ Connect \/ AccessPoint \/ OnPairingFailed
  \/ Work \/ KeyRead \/ Pair \/ Settings \/ World \/ Tick

Spec == Init /\ [][Next]_svars

(* The loop runs and a portal times out.  A station that keeps finding its *)
(* network connects in the end, and reports get through now and then.      *)
Fairness ==
  /\ WF_svars(Setup) /\ WF_svars(LeavePortal(FALSE))
  /\ WF_svars(Maintain) /\ WF_svars(Tick)
  /\ SF_svars(Connect) /\ SF_svars(Delivered)

FairSpec == Spec /\ Fairness

-----------------------------------------------------------------------------
TypeOK ==
  /\ build \in SensorKinds
  /\ phase \in {"boot", "portal", "run", "blocked"}
  /\ ap \in BOOLEAN /\ net \in BOOLEAN /\ station \in BOOLEAN
  /\ wifi \in {"IDLE", "RECONNECTING"} /\ deadline \in BOOLEAN
  /\ tried \in 0 .. TryGap /\ opened \in 0 .. PortalGap + 1
  /\ world \in Levels /\ level \in Levels /\ still \in BOOLEAN
  /\ led \in BOOLEAN /\ enabled \in BOOLEAN /\ saved \in BOOLEAN
  /\ paired \in BOOLEAN /\ report \in Levels

(* A node comes back to a network that is there: the portal, the attempts  *)
(* 30 seconds apart and the state that is left over from the last outage   *)
(* never keep it away for good.                                            *)
OutageEnds == []<>(net \/ ~ap \/ phase = "boot")

(* What lasts is shown and told.  While the network is there, a climate    *)
(* node whose gas sensor is on lights its alarm LED and a paired node's    *)
(* report agrees with the world in the end, through outages, portals,      *)
(* restarts and lost reports before; a switched-off sensor reports none.   *)
AlarmShown ==
  <>[](Online /\ paired) /\ <>[][UNCHANGED <<world, enabled>>]_<<world, enabled>>
    => <>[](/\ report = IF enabled THEN world ELSE 0
            /\ led = (build = "climate" /\ enabled /\ world = 2))
=============================================================================
