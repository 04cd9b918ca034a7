------------------------------ MODULE TelegramBot ------------------------------
(***************************************************************************)
(* The alerts of the hub's Telegram bot (check_alerts in                   *)
(* hub/src/telegram_bot.cpp).                                              *)
(*                                                                         *)
(* Every half minute the bot looks at all nodes in the order of their      *)
(* slots.  A condition that holds is reported if the throttle of its kind  *)
(* allows; a throttle belongs to a kind of alert and not to a node, so the *)
(* first node in line takes it.  Kinds and levels of alerts can be turned  *)
(* off; what is set on the dashboard counts from the next start on.  The   *)
(* alerts of temperature, humidity, signal and memory have the form of     *)
(* LowBattery and are left out, and so are the bot's commands, which are   *)
(* handed on like those of the dashboard.                                  *)
(***************************************************************************)
EXTENDS Naturals, FiniteSets, FiniteSetsExt

CONSTANTS
  N,           \* how many nodes are paired
  Short,       \* THROTTLE_OFFLINE_MS and THROTTLE_INFO_MS; also the time a
               \* node or the broker is away before that is reported
  Long,        \* THROTTLE_BATTERY_MS
  Readings,    \* what a report may hold: gas alarm, and battery "ok",
               \* "low" (< 20) or "critical" (< 10)
  Settings,    \* TelegramConfig: pairs of alert types and alert levels
  MaxTroubles  \* bound: restarts, losses of the Wi-Fi, shortages of memory

Nodes == 1 .. N

VARIABLES
  enabled,   \* s_tg_alerts_type, s_tg_alerts_lvl
  online,    \* virtual_sensor_t::online
  silence,   \* millis() - last_seen of a node that is not online
  reading,   \* the node's last report
  prev,      \* s_prev_online
  prevSet,   \* s_prev_online_init
  offlineT, reconnectT, batteryT, \* time since the throttle of a kind was taken
  mqttDown,  \* time since s_mqtt_down_since; Never when that is 0
  mqtt,      \* mqtt_client_is_connected()
  checked,   \* the check of this half minute was made
  ready,     \* the Wi-Fi is there and memory suffices
  sent,      \* alerts that the last check handed to the library, a kind and a
             \* node (0: the hub); nobody looks at what becomes of them
  telTroubles

nodeVars == <<online, silence, reading>>
throttleVars == <<offlineT, reconnectT, batteryT>>
telVars == <<enabled, nodeVars, prev, prevSet, throttleVars, mqttDown, mqtt,
             checked, ready, sent, telTroubles>>

Never == Short + 2

Bounded(t, limit) == IF t >= limit THEN limit ELSE t + 1

(* No report since the start. *)
Blank == <<FALSE, "ok">>

TInit ==
  /\ enabled \in Settings
  /\ online = [n \in Nodes |-> FALSE] /\ silence = [n \in Nodes |-> Short + 1]
  /\ reading = [n \in Nodes |-> Blank]
  /\ prev = [n \in Nodes |-> FALSE] /\ prevSet = FALSE
  /\ offlineT = 0 /\ reconnectT = 0 /\ batteryT = 0
  /\ mqttDown = Never /\ mqtt = TRUE
  /\ checked = FALSE /\ ready \in BOOLEAN /\ sent = {} /\ telTroubles = 0

-----------------------------------------------------------------------------
(* One check.  A kind with a throttle goes to the first node it holds for. *)

(* is_alert_type_enabled, is_alert_level_enabled *)
TypeEnabled(type) == type \in enabled[1]
LevelEnabled(level) == level \in enabled[2]

First(kind, S, open) == IF open /\ S # {} THEN {<<kind, Min(S)>>} ELSE {}

(* s_prev_online; the first check takes it from the registry. *)
Before == IF prevSet THEN prev ELSE online

LongAway == {n \in Nodes : ~online[n] /\ silence[n] > Short}
Reconnected == {n \in Nodes : online[n] /\ ~Before[n]}
Smoking == {n \in Nodes : online[n] /\ reading[n][1]}
Charged(level) == {n \in Nodes : online[n] /\ reading[n][2] = level}

NodeOffline ==
  IF TypeEnabled("offline") /\ LevelEnabled("alert")
  THEN First("offline", LongAway, offlineT >= Short) ELSE {}

(* The alert of the broker has the throttle of the nodes, and comes last;  *)
(* it is of a level but of no type.                                        *)
BrokerOffline ==
  IF /\ ~mqtt /\ mqttDown # Never /\ mqttDown > Short
     /\ LevelEnabled("alert") /\ offlineT >= Short /\ NodeOffline = {}
  THEN {<<"mqtt", 0>>} ELSE {}

OfflineAlerts == NodeOffline \cup BrokerOffline

ReconnectAlerts ==
  IF TypeEnabled("reconnect") /\ LevelEnabled("info")
  THEN First("reconnect", Reconnected, reconnectT >= Short) ELSE {}

(* Mistake: an alarm has a throttle like the alerts of the other kinds,    *)
(* and only the first node in line gets through.                           *)
SmokeAlertsFirst ==
  IF TypeEnabled("smoke") /\ LevelEnabled("critical")
  THEN First("smoke", Smoking, TRUE) ELSE {}

(* No throttle: all nodes for which it holds. *)
SmokeAlerts ==
  IF TypeEnabled("smoke") /\ LevelEnabled("critical")
  THEN {"smoke"} \X Smoking ELSE {}

(* Neither for an all but empty battery; when level "critical" is off, it  *)
(* is one that is low.                                                     *)
CriticalBattery ==
  IF TypeEnabled("battery") /\ LevelEnabled("critical")
  THEN {"critical"} \X Charged("critical") ELSE {}

LowBattery ==
  IF TypeEnabled("battery") /\ LevelEnabled("warning")
  THEN First("battery", Charged("low") \cup
               (IF LevelEnabled("critical") THEN {} ELSE Charged("critical")),
             batteryT >= Long)
  ELSE {}

(* check_alerts, called by telegram_bot_loop when the Wi-Fi is there; it   *)
(* returns at once when memory is low.                                     *)
CheckAlerts ==
  /\ ready /\ ~checked
  /\ sent' = OfflineAlerts \cup ReconnectAlerts \cup SmokeAlerts
               \cup CriticalBattery \cup LowBattery
  /\ offlineT' = IF OfflineAlerts # {} THEN 0 ELSE offlineT
  /\ reconnectT' = IF ReconnectAlerts # {} THEN 0 ELSE reconnectT
  /\ batteryT' = IF LowBattery # {} THEN 0 ELSE batteryT
  /\ prev' = online /\ prevSet' = TRUE
  /\ mqttDown' = IF mqtt THEN Never ELSE IF mqttDown = Never THEN 0 ELSE mqttDown
  /\ checked' = TRUE
  /\ UNCHANGED <<enabled, nodeVars, mqtt, ready, telTroubles>>

(* Half a minute passes. *)
HalfMinute ==
  /\ checked' = FALSE
  /\ sent' = {}
  /\ offlineT' = Bounded(offlineT, Short)
  /\ reconnectT' = Bounded(reconnectT, Short)
  /\ batteryT' = Bounded(batteryT, Long)
  /\ silence' = [n \in Nodes |-> IF online[n] THEN 0 ELSE Bounded(silence[n], Short + 1)]
  /\ mqttDown' = IF mqttDown = Never THEN Never ELSE Bounded(mqttDown, Short + 1)
  /\ UNCHANGED <<enabled, online, reading, prev, prevSet, mqtt, ready, telTroubles>>

-----------------------------------------------------------------------------
(* A node is heard, with its alarm and battery, or times out. *)
Heard(n) ==
  /\ online' = [online EXCEPT ![n] = TRUE]
  /\ silence' = [silence EXCEPT ![n] = 0]
  /\ \E r \in Readings : reading' = [reading EXCEPT ![n] = r]
  /\ UNCHANGED <<enabled, prev, prevSet, throttleVars, mqttDown, mqtt, checked,
                 ready, sent, telTroubles>>

TimesOut(n) ==
  /\ online[n]
  /\ online' = [online EXCEPT ![n] = FALSE]
  /\ silence' = [silence EXCEPT ![n] = 1]
  /\ UNCHANGED <<enabled, reading, prev, prevSet, throttleVars, mqttDown, mqtt,
                 checked, ready, sent, telTroubles>>

MqttTurns ==
  /\ mqtt' = ~mqtt
  /\ UNCHANGED <<enabled, nodeVars, prev, prevSet, throttleVars, mqttDown, checked,
                 ready, sent, telTroubles>>

ReadyTurns ==
  /\ telTroubles < MaxTroubles /\ telTroubles' = telTroubles + 1
  /\ ready' = ~ready
  /\ UNCHANGED <<enabled, nodeVars, prev, prevSet, throttleVars, mqttDown, mqtt,
                 checked, sent>>

(* The hub restarts: no node is online, and the throttles count from the   *)
(* start, as if an alert of every kind had just been sent.  The settings   *)
(* are loaded, as the dashboard may have left them (telegram_load_config). *)
Restarts ==
  /\ telTroubles < MaxTroubles /\ telTroubles' = telTroubles + 1
  /\ enabled' \in Settings
  /\ online' = [n \in Nodes |-> FALSE] /\ silence' = [n \in Nodes |-> 0]
  /\ reading' = [n \in Nodes |-> Blank]
  /\ prev' = [n \in Nodes |-> FALSE] /\ prevSet' = FALSE
  /\ offlineT' = 0 /\ reconnectT' = 0 /\ batteryT' = 0
  /\ mqttDown' = Never /\ checked' = FALSE /\ sent' = {}
  /\ UNCHANGED <<mqtt, ready>>

TNext ==
  \/ CheckAlerts \/ HalfMinute
  \/ \E n \in Nodes : Heard(n) \/ TimesOut(n)
  \/ MqttTurns \/ ReadyTurns \/ Restarts

TFairness == WF_telVars(CheckAlerts) /\ WF_telVars(HalfMinute)

TFairSpec == TInit /\ [][TNext]_telVars /\ TFairness

-----------------------------------------------------------------------------
TTypeOK ==
  /\ enabled \in Settings
  /\ online \in [Nodes -> BOOLEAN] /\ silence \in [Nodes -> 0 .. Short + 1]
  /\ reading \in [Nodes -> Readings \cup {Blank}]
  /\ prev \in [Nodes -> BOOLEAN] /\ prevSet \in BOOLEAN
  /\ offlineT \in 0 .. Short /\ reconnectT \in 0 .. Short /\ batteryT \in 0 .. Long
  /\ mqttDown \in 0 .. Never /\ mqtt \in BOOLEAN
  /\ checked \in BOOLEAN /\ ready \in BOOLEAN
  /\ sent \subseteq ({"offline", "reconnect", "smoke", "critical", "battery"} \X Nodes)
                    \cup {<<"mqtt", 0>>}
  /\ telTroubles \in 0 .. MaxTroubles

(* A gas alarm that lasts is reported, whatever other alerts are due, and  *)
(* so is one node's while another's lasts, if the user wants such alerts.  *)
SmokeReported ==
  \A n \in Nodes :
    []<>(/\ ready /\ n \in Smoking
         /\ TypeEnabled("smoke") /\ LevelEnabled("critical")
         => <<"smoke", n>> \in sent)

(* While a node stays away, somebody's absence is reported again and       *)
(* again, if the user wants it; the throttle, which counts from the start  *)
(* of the hub, delays this and does not prevent it.                        *)
AbsenceReported ==
  \A n \in Nodes :
    []<>(/\ ready /\ ~online[n]
         /\ TypeEnabled("offline") /\ LevelEnabled("alert")
         => \E m \in Nodes : <<"offline", m>> \in sent)
=============================================================================
