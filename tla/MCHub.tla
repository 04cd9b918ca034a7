--------------------------------- MODULE MCHub ---------------------------------
(***************************************************************************)
(* The parts of the hub's loop for TLC, which are modelled without shared  *)
(* state: a bridge ring, the MQTT client, the Telegram bot and the rest of *)
(* the loop, side by side in one run.  A behaviour is one of the part that *)
(* part names; the variables of the others keep their initial values.      *)
(***************************************************************************)
EXTENDS BridgeRing, HubMain, TLC

CONSTANTS
  Macs, None, TypeOf, NSlots, FirstWait, LastWait, LinkTroubles, \* of MqttLink
  BotNodes, Short, Long, BotTroubles, Alerts,                    \* of TelegramBot
  a, b                                                           \* the devices

(* What the user of the bot wants: types and levels of alerts.  The second *)
(* has neither smoke nor the level of critical alerts; in the third only   *)
(* the broker's absence is reported.                                       *)
AllAlerts == <<{"smoke", "offline", "reconnect", "battery"},
               {"critical", "alert", "warning", "info"}>>
SomeAlerts ==
  {AllAlerts, <<{"offline", "battery"}, {"alert", "warning"}>>, <<{}, {"alert"}>>}

ASSUME ServicesAssumption ==
  /\ None \notin Macs /\ NSlots \in Nat
  /\ FirstWait \in Nat /\ LastWait \in Nat /\ FirstWait <= LastWait
  /\ LinkTroubles \in Nat
  /\ BotNodes \in Nat /\ Short \in Nat /\ Long \in Nat /\ BotTroubles \in Nat
  /\ AllAlerts \in Alerts

Types == (a :> "light") @@ (b :> "repeater")

VARIABLES
  part,
  \* MqttLink
  occ, slotKnown, dev, due, host, broker, session, flag, fails, wait, heap,
  listed, told, shown, order, troubles,
  \* TelegramBot
  enabled, online, silence, reading, prev, prevSet, offlineT, reconnectT,
  batteryT, mqttDown, mqtt, checked, ready, sent, telTroubles

linkVars == <<occ, slotKnown, dev, due, host, broker, session, flag, fails,
  wait, heap, listed, told, shown, order, troubles>>
botVars == <<enabled, online, silence, reading, prev, prevSet, offlineT,
  reconnectT, batteryT, mqttDown, mqtt, checked, ready, sent, telTroubles>>

Mqtt == INSTANCE MqttLink
  WITH MaxTroubles <- LinkTroubles, known <- slotKnown

Bot == INSTANCE TelegramBot
  WITH N <- BotNodes, MaxTroubles <- BotTroubles, Settings <- Alerts,
       Readings <- {<<FALSE, "low">>, <<TRUE, "critical">>}

(* The part that runs starts in any of its initial states, the others in   *)
(* one of them.                                                            *)
HubInit ==
  /\ part \in {"ring", "mqtt", "bot", "main"}
  /\ Init
  /\ Mqtt!Init /\ (part = "mqtt" \/ host = "none")
  /\ Bot!TInit /\ (part = "bot" \/ (~ready /\ enabled = AllAlerts))
  /\ HInit
  /\ part = "main" \/ (mode = "ap" /\ creds = "none" /\ ~agendaOn /\ ~paired)

HubNext ==
  \/ part = "ring" /\ Next /\ UNCHANGED <<part, linkVars, botVars, hubVars>>
  \/ part = "mqtt" /\ Mqtt!Next /\ UNCHANGED <<part, vars, botVars, hubVars>>
  \/ part = "bot" /\ Bot!TNext /\ UNCHANGED <<part, vars, linkVars, hubVars>>
  \/ part = "main" /\ HNext /\ UNCHANGED <<part, vars, linkVars, botVars>>

(* The fairness of each part, for the one that runs. *)
HubFairness ==
  /\ WF_vars(part = "ring" /\ (Read \/ Advance))
  /\ WF_vars(part = "ring" /\ (Write \/ Publish))
  /\ WF_botVars(part = "bot" /\ Bot!CheckAlerts)
  /\ WF_botVars(part = "bot" /\ Bot!HalfMinute)
  /\ WF_hubVars(part = "main" /\ MaintainWifi)
  /\ WF_hubVars(part = "main" /\ ReconnectTimeout)
  /\ WF_hubVars(part = "main" /\ StationUp)
  /\ WF_hubVars(part = "main" /\ PortalRun)
  /\ WF_hubVars(part = "main" /\ ScheduledRestart)
  /\ WF_hubVars(part = "main" /\ HubHears)
  /\ WF_hubVars(part = "main" /\ RxWatchdog)
  /\ WF_hubVars(part = "main" /\ AgendaStrikes)
  /\ WF_hubVars(part = "main" /\ AgendaPasses)
  /\ WF_hubVars(part = "main" /\ MinutePasses)
  /\ WF_linkVars(part = "mqtt" /\ (Mqtt!Connect \/ Mqtt!ConnectFails))
  /\ WF_linkVars(part = "mqtt" /\ Mqtt!Wait)
  /\ WF_linkVars(part = "mqtt" /\ Mqtt!Notice)
  /\ WF_linkVars(part = "mqtt" /\ Mqtt!Callback)
  /\ \A s \in 1 .. NSlots : /\ WF_linkVars(part = "mqtt" /\ Mqtt!Report(s))
                           /\ SF_linkVars(part = "mqtt" /\ Mqtt!Bridge(s))

allVars == <<part, vars, linkVars, botVars, hubVars>>

HubFairSpec ==
  HubInit /\ [][HubNext]_allVars /\ HubFairness

-----------------------------------------------------------------------------
(* What the run checks beside the properties of the ring: those of the     *)
(* other modules, which say nothing of a part that stays as it starts.     *)
HubTypeOK == Mqtt!TypeOK /\ Bot!TTypeOK /\ HTypeOK

HaCatchesUp == Mqtt!HaCatchesUp
AlertsSent == Bot!SmokeReported /\ Bot!AbsenceReported
================================================================================
