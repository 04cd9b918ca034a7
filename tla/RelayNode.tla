------------------------------ MODULE RelayNode ------------------------------
(***************************************************************************)
(* The nodes that switch a relay: nodes/lamp, nodes/switch and             *)
(* nodes/onoff-lora.  Buttons, pages, Alexa, the console, the hub, the     *)
(* timers of the agenda, the cycle and the pulse (auto-off) all go through *)
(* set_relay; the loop checks the timers, unless an update of the firmware *)
(* is being received.  onoff-lora has no timers and goes on during updates. *)
(*                                                                         *)
(* The timers (timer.h of shared/), the Wi-Fi manager, the radio and the   *)
(* watchdog are libraries: they are modelled by what the files use.        *)
(* The mirroring of lamps is in TcpLamps.  Names, pins, LEDs, counters and *)
(* the texts of pages and console are left out.                            *)
(***************************************************************************)
EXTENDS Naturals

CONSTANTS
  RelayKinds,  \* the builds: of {"lamp", "switch", "lora"}
  Pulses,      \* the pulse settings that people choose
  Cycles       \* whether people switch the cycle on

ASSUME RelayAssumption == Pulses \subseteq {"off", "on", "skip"}

VARIABLES
  node,      \* which firmware it is
  relay,     \* s_relay_state
  relayStored, \* its state in the EEPROM
  startup,   \* s_startup_mode: 0 off, 1 on, 2 as it was
  pulse,     \* the countdown: "none", "running", "over"
  pulseSet,  \* its setting: "off", "on", "skip" (skip_on_timer)
  cycle,     \* the cycle: "off", "waiting", "over"
  synced,    \* the clock is set
  presses,   \* s_btn_press_count within 3 seconds
  ota,       \* "idle", "busy", or "stuck": s_ota_in_progress with no upload
  apMode,    \* op_mode_load() == OP_MODE_AP
  net,       \* the Wi-Fi: "lost", "up", "portal"
  radio,     \* s_radio_initialized
  paired,    \* s_radio.is_paired()
  report,    \* what the hub was told last
  people     \* somebody uses the node

timerVars == <<pulse, pulseSet, cycle, synced>>
netVars == <<apMode, net, radio, paired>>
relayVars == <<node, relay, relayStored, startup, timerVars, presses, ota, netVars,
           report, people>>

RelayInit ==
  /\ node \in RelayKinds
  /\ relay = FALSE /\ relayStored = FALSE
  /\ startup = IF node = "lora" THEN 2 ELSE 0
  /\ pulse = "none" /\ pulseSet = "off" /\ cycle = "off"
  /\ synced = FALSE
  /\ presses = 0 /\ ota = "idle"
  /\ apMode = FALSE /\ net = "lost" /\ radio = (node # "lamp")
  /\ paired = FALSE /\ report = FALSE
  /\ people = TRUE

-----------------------------------------------------------------------------
(* init_hardware: the relay as the startup mode says, with no pulse; what  *)
(* it is now is not written to the EEPROM.                                 *)
InitHardware == CASE startup = 0 -> FALSE [] startup = 1 -> TRUE
                  [] startup = 2 -> relayStored

(* What every setup() leaves: RAM is new, the settings are read. *)
Started(on) ==
  /\ relay' = on
  /\ pulse' = "none" /\ cycle' = IF cycle = "off" THEN "off" ELSE "waiting"
  /\ synced' = FALSE /\ presses' = 0 /\ ota' = "idle"
  /\ net' = "lost" /\ paired' = FALSE
  /\ UNCHANGED <<node, relayStored, startup, pulseSet, report, people>>

(* The lamp starts its radio when it has the Wi-Fi, or at once without it. *)
SetupLamp(ap) ==
  node = "lamp" /\ Started(InitHardware) /\ apMode' = ap /\ radio' = ap

SetupSwitch ==
  /\ node = "switch" /\ Started(InitHardware)
  /\ radio' = TRUE /\ UNCHANGED apMode

(* onoff-lora: the relay as it was; the LoRa chip may not answer. *)
SetupLora ==
  /\ node = "lora" /\ Started(relayStored)
  /\ radio' \in BOOLEAN /\ UNCHANGED apMode

SetupRelay == SetupLamp(apMode) \/ SetupSwitch \/ SetupLora

(* ESP.restart(): the key r, POST /api/restart, MSG_RESTART; a power cut.  *)
RestartRelay == people /\ SetupRelay

(* POST /api/config/mode and the key m of the lamp *)
OpModeSave == people /\ SetupLamp(~apMode)

(* g_blink_wd of a lamp on TCP: not healthy for 300 seconds *)
Watchdog ==
  /\ ~apMode /\ ota = "idle"
  /\ net # "up" \/ ~paired
  /\ SetupLamp(FALSE)

-----------------------------------------------------------------------------
(* pulse_start of timer.h: nothing for a timer if it says so. *)
PulseStart(timer) ==
  IF pulseSet = "on" \/ (pulseSet = "skip" /\ ~timer) THEN "running" ELSE "none"

CyclicReset == IF cycle = "off" THEN "off" ELSE "waiting"

(* get_sensor_payload.  Mistake: the state that was saved. *)
PayloadStored == relayStored

Payload == relay

(* set_relay: any change is saved; going on starts the pulse, anything     *)
(* else cancels it, and the cycle begins anew.  A paired node publishes,   *)
(* which the hub hears or not.  Mistake: going off leaves the countdown.   *)
SetRelayKeepPulse(on, cyclic, timer) ==
  /\ relay' = on /\ relayStored' = on
  /\ IF on /\ ~relay
     THEN pulse' = PulseStart(timer)
          /\ cycle' = IF cyclic THEN CyclicReset ELSE cycle
     ELSE UNCHANGED pulse /\ cycle' = CyclicReset
  /\ report' \in {report} \cup IF paired THEN {on} ELSE {}

SetRelay(on, cyclic, timer) ==
  /\ relay' = on /\ relayStored' = on
  /\ IF on /\ ~relay
     THEN pulse' = PulseStart(timer)
          /\ cycle' = IF cyclic THEN CyclicReset ELSE cycle
     ELSE pulse' = "none" /\ cycle' = CyclicReset
  /\ report' \in {report} \cup IF paired THEN {on} ELSE {}

Kept == UNCHANGED <<node, startup, pulseSet, synced, ota, netVars, people>>

(* loop() goes on past s_ota_in_progress. *)
Looping == ota = "idle" \/ node = "lora"

(* POST /api/relay, Alexa, the keys 0, 1 and l: served also during updates *)
ApiRelay(on) ==
  /\ people /\ node # "lora"
  /\ SetRelay(on, FALSE, FALSE)
  /\ Kept /\ UNCHANGED presses

(* onoff-lora: the button, the key l and POST /api/relay, whatever it says *)
LoraToggle ==
  /\ people /\ node = "lora"
  /\ SetRelay(~relay, FALSE, FALSE)
  /\ Kept /\ UNCHANGED presses

(* on_command, from s_radio.loop() *)
OnCommand(on) ==
  /\ people /\ Looping /\ paired
  /\ SetRelay(on, FALSE, FALSE)
  /\ Kept /\ UNCHANGED presses

(* A debounced press: the lamp restarts with the third in 3 seconds. *)
ButtonLamp ==
  /\ people /\ ota = "idle" /\ node = "lamp"
  /\ IF presses = 2
     THEN SetupLamp(apMode)
     ELSE presses' = presses + 1 /\ SetRelay(~relay, FALSE, FALSE) /\ Kept

ButtonSwitch ==
  /\ people /\ ota = "idle" /\ node = "switch"
  /\ SetRelay(~relay, FALSE, FALSE)
  /\ Kept /\ UNCHANGED presses

ButtonWindow ==
  /\ presses # 0 /\ presses' = 0
  /\ UNCHANGED <<node, relay, relayStored, startup, timerVars, ota, netVars, report, people>>

-----------------------------------------------------------------------------
(* The timers, which loop() checks when no update is on its way *)

(* timer_check, apply_timer, on_timer_fire: whatever people have entered   *)
(* in the agenda, once the clock is set.                                   *)
TimerFire(on) ==
  /\ people /\ ota = "idle" /\ node # "lora" /\ synced
  /\ SetRelay(on, FALSE, TRUE)
  /\ Kept /\ UNCHANGED presses

(* Mistake: the cycle only switches on, and leaves it to the pulse to      *)
(* switch off.                                                             *)
CyclicCheckOn ==
  /\ ota = "idle" /\ cycle = "over"
  /\ SetRelay(TRUE, TRUE, FALSE)
  /\ Kept /\ UNCHANGED presses

(* cyclic_check: on when it is off, off when it is on; it begins anew with *)
(* either.                                                                 *)
CyclicCheck ==
  /\ ota = "idle" /\ cycle = "over"
  /\ SetRelay(~relay, TRUE, FALSE)
  /\ Kept /\ UNCHANGED presses

PulseCheck ==
  /\ ota = "idle" /\ pulse = "over"
  /\ SetRelay(FALSE, FALSE, FALSE)
  /\ Kept /\ UNCHANGED presses

Countdown ==
  /\ \/ pulse = "running" /\ pulse' = "over" /\ UNCHANGED cycle
     \/ cycle = "waiting" /\ cycle' = "over" /\ UNCHANGED pulse
  /\ UNCHANGED <<node, relay, relayStored, startup, pulseSet, synced,
                 presses, ota, netVars, report, people>>

(* s_radio.loop() publishes the state now and then. *)
RadioLoop ==
  /\ Looping /\ paired
  /\ report' = Payload
  /\ UNCHANGED <<node, relay, relayStored, startup, timerVars, presses, ota,
                 netVars, people>>

-----------------------------------------------------------------------------
(* Pages and console *)

Untouched == UNCHANGED <<node, relay, relayStored, pulse, synced, presses, ota, radio,
                    apMode, report, people>>

(* POST /api/settings: the mode is saved, the relay's state is not. *)
ApiSettings(mode) ==
  /\ people /\ node # "lora" /\ mode # startup
  /\ startup' = mode
  /\ UNCHANGED <<pulseSet, cycle, net, paired>> /\ Untouched

(* POST /api/timers, /api/pulse, the key i: saved to LittleFS.  A running  *)
(* countdown goes on.                                                      *)
ApiTimers ==
  /\ people /\ node # "lora"
  /\ \/ pulseSet' \in Pulses \ {pulseSet} /\ UNCHANGED cycle
     \/ /\ Cycles /\ cycle' = IF cycle = "off" THEN "waiting" ELSE "off"
        /\ UNCHANGED pulseSet
  /\ UNCHANGED <<startup, net, paired>> /\ Untouched

(* POST /api/wifi: saved, and WiFi.begin.  onoff-lora closes its portal.   *)
ApiWifi ==
  /\ people /\ ~apMode /\ node # "lora"
  /\ net = "up" /\ net' = "lost"
  /\ UNCHANGED <<startup, pulseSet, cycle, paired>> /\ Untouched

ApiWifiLora ==
  /\ people /\ node = "lora" /\ net # "lost" /\ net' = "lost"
  /\ UNCHANGED <<startup, pulseSet, cycle, paired>> /\ Untouched

(* force_repair: the key p, POST /api/pair *)
ForceRepair ==
  /\ people /\ paired /\ paired' = FALSE
  /\ UNCHANGED <<startup, pulseSet, cycle, net>> /\ Untouched

-----------------------------------------------------------------------------
(* The Wi-Fi manager; on_wifi_connected starts the radio of a lamp.  The   *)
(* radio itself pairs and loses the hub.                                   *)
OnWifiConnected ==
  /\ ~apMode /\ net # "up" /\ net' = "up"
  /\ radio' = (radio \/ node = "lamp")
  /\ UNCHANGED <<node, relay, relayStored, startup, timerVars, presses, ota,
                 apMode, paired, report, people>>

WifiLost ==
  /\ ~apMode
  /\ net' \in {"lost", "portal"} \ {net}
  /\ UNCHANGED <<startup, pulseSet, cycle, paired>> /\ Untouched

(* handle_wifi of onoff-lora: the portal was open for 10 minutes.          *)
HandleWifi == net = "portal" /\ SetupLora

PairedOrNot ==
  /\ radio /\ Looping /\ paired' = ~paired
  /\ UNCHANGED <<startup, pulseSet, cycle, net>> /\ Untouched

(* on_pairing_failed: mywifi_try_next_bssid *)
OnPairingFailed ==
  /\ net = "up" /\ ~paired /\ ota = "idle" /\ node # "lora" /\ net' = "lost"
  /\ UNCHANGED <<startup, pulseSet, cycle, paired>> /\ Untouched

(* on_time_sync *)
OnTimeSync ==
  /\ paired /\ ~synced /\ node # "lora" /\ synced' = TRUE
  /\ UNCHANGED <<node, relay, relayStored, startup, pulse, pulseSet, cycle,
                 presses, ota, netVars, report, people>>

-----------------------------------------------------------------------------
(* An update through the page: the loop stops at s_ota_in_progress.        *)
OtaIs(next) ==
  /\ ota' = next
  /\ UNCHANGED <<node, relay, relayStored, startup, timerVars, presses, netVars,
                 report, people>>

UploadStart == people /\ ota # "busy" /\ net # "lost" /\ OtaIs("busy")

(* handle_ota: an error leaves the flag of the switch as it is. *)
HandleOtaError == ota = "busy" /\ node # "switch" /\ OtaIs("idle")

HandleOtaErrorSwitch == ota = "busy" /\ node = "switch" /\ OtaIs("stuck")

HandleOta == ota = "busy" /\ SetupRelay

(* The browser goes away: UPLOAD_FILE_ABORTED has no case. *)
UploadAborted == ota = "busy" /\ OtaIs("stuck")

Leave ==
  /\ people /\ people' = FALSE
  /\ UNCHANGED <<node, relay, relayStored, startup, timerVars, presses, ota,
                 netVars, report>>

-----------------------------------------------------------------------------
(* What the console can do, and the pages too *)
HandleConsole ==
  \/ RestartRelay \/ OpModeSave \/ ForceRepair
  \/ \E on \in BOOLEAN : ApiRelay(on)

LoopRelay ==
  \/ ButtonLamp \/ ButtonSwitch \/ ButtonWindow
  \/ \E on \in BOOLEAN : OnCommand(on) \/ TimerFire(on)
  \/ CyclicCheck \/ PulseCheck \/ RadioLoop \/ OnPairingFailed \/ OnTimeSync
  \/ OnWifiConnected \/ HandleWifi \/ Watchdog

Upload == UploadStart \/ HandleOtaError \/ HandleOtaErrorSwitch \/ HandleOta \/ UploadAborted

RelayNext ==
  \/ HandleConsole \/ LoopRelay \/ Upload
  \/ \E mode \in 0 .. 2 : ApiSettings(mode)
  \/ ApiTimers \/ ApiWifi \/ ApiWifiLora \/ LoraToggle
  \/ Countdown \/ WifiLost \/ PairedOrNot \/ Leave

RelaySpec == RelayInit /\ [][RelayNext]_relayVars

(* The loop runs, time passes, and an upload ends in some way.  Reports    *)
(* get through now and then.                                               *)
RelayFairness ==
  /\ WF_relayVars(CyclicCheck) /\ WF_relayVars(PulseCheck)
  /\ WF_relayVars(Countdown) /\ WF_relayVars(Countdown /\ pulse' # pulse)
  /\ WF_relayVars(RadioLoop) /\ WF_relayVars(HandleOta \/ UploadAborted)

RelayFairSpec == RelaySpec /\ RelayFairness

-----------------------------------------------------------------------------
RelayTypeOK ==
  /\ node \in RelayKinds
  /\ relay \in BOOLEAN /\ relayStored \in BOOLEAN /\ startup \in 0 .. 2
  /\ pulse \in {"none", "running", "over"} /\ pulseSet \in {"off", "on", "skip"}
  /\ cycle \in {"off", "waiting", "over"}
  /\ synced \in BOOLEAN
  /\ presses \in 0 .. 2 /\ ota \in {"idle", "busy", "stuck"}
  /\ apMode \in BOOLEAN /\ net \in {"lost", "up", "portal"}
  /\ radio \in BOOLEAN /\ paired \in BOOLEAN /\ report \in BOOLEAN
  /\ people \in BOOLEAN

(* A countdown belongs to the relay that is on now: no auto-off of an      *)
(* earlier time cuts a later one short (set_relay, pulse_cancel).          *)
CountdownIsOurs == pulse # "none" => relay

(* The hub shows what the relay is, once that lasts and the node stays     *)
(* paired and is not updated: whatever changed the relay, a restart into a *)
(* startup mode included, and whichever reports were lost.                 *)
HubAgrees ==
  <>[](paired /\ Looping) /\ <>[][UNCHANGED relay]_relay => <>[](report = relay)

(* A cycle that is on goes on when the node is left alone, pulse or not;   *)
(* restarts by the watchdog are what keeps it from that, and updates.      *)
CycleGoesOn ==
  <>[](~people /\ cycle # "off" /\ ota = "idle" /\ net = "up" /\ paired)
    => ([]<>relay /\ []<>~relay)
=============================================================================
