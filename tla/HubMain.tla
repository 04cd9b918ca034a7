-------------------------------- MODULE HubMain --------------------------------
(***************************************************************************)
(* The hub's Wi-Fi, clock and restarts: setup and loop of                  *)
(* hub/src/main.cpp, the Wi-Fi half of hub/src/web_server.cpp and the      *)
(* captive portal.                                                         *)
(*                                                                         *)
(* In mode "terminal" the hub is a station of the router, in mode "ap" an  *)
(* access point, in mode "hybrid" both.  While the portal is open the loop *)
(* does not run; only a restart ends it.  Handlers of the web server run   *)
(* in a task of their own at any time.  Time is counted in minutes; an     *)
(* attempt to reach the router, which takes seconds, takes none.           *)
(***************************************************************************)
EXTENDS Naturals

CONSTANTS
  Day,         \* minutes of a day
  AgendaMinute,          \* the minute of the agenda
  NtpDelay,    \* NTP_RETRY_INTERVAL_MS in minutes
  RxLimit,     \* HUB_RX_WATCHDOG_MS in minutes
  Modes,       \* operation modes that are used
  MaxTroubles  \* bound: what people and the router do

ASSUME HubAssumption ==
  /\ Day \in Nat /\ Day >= 2 /\ AgendaMinute \in 0 .. Day - 1
  /\ NtpDelay \in Nat /\ NtpDelay >= 1 /\ RxLimit \in Nat
  /\ Modes \subseteq {"terminal", "ap", "hybrid"} /\ MaxTroubles \in Nat

VARIABLES
  mode, creds, agendaOn, \* in flash: mode, Wi-Fi credentials ("none", "wrong",
                         \* "good") and whether the agenda is enabled
  phase,      \* "run", or "portal"
  ap,         \* the access point is up
  conn,       \* the station: "up", "down", or "trying" (s_wifi_reconnect_active)
  submitted,  \* s_submitted of the portal
  restartDue, \* s_restart_at is set
  router,     \* the router can be reached
  paired,     \* sensor_registry_count_paired() > 0
  talking,    \* paired nodes are heard
  rxAge,      \* minutes since a frame was received
  minute,     \* the minute of the day
  up,         \* minutes since the start, up to NtpDelay
  ntp,        \* s_ntp_synced
  browser,    \* the minute in s_browser_epoch, which stands still; Day: none
  fired,      \* s_last_agenda_fired_min is this minute
  looked,     \* the agenda was looked at this minute
  alarms,     \* restarts by the agenda in this minute
  posts,      \* times this minute that a browser set the clock
  hubTroubles

flashVars == <<mode, creds, agendaOn>>
wifiVars == <<phase, ap, conn, submitted>>
clockVars == <<ntp, browser, fired, looked, alarms, posts>>
worldVars == <<router, paired, talking, minute>>
hubVars == <<flashVars, wifiVars, restartDue, worldVars, rxAge, up, clockVars,
             hubTroubles>>

-----------------------------------------------------------------------------
(* captive_portal_start: the access point only. *)
Portal == phase' = "portal" /\ ap' = TRUE /\ conn' = "down"

Reachable(c) == router /\ c = "good"

(* web_server_wifi_setup(false) with the mode and credentials in flash;    *)
(* without STATIC_WIFI.                                                    *)
WifiSetup(m, c) ==
  \/ m = "ap" /\ phase' = "run" /\ ap' = TRUE /\ conn' = "down"
  \/ m = "hybrid" /\ phase' = "run" /\ ap' = TRUE
       /\ conn' = IF Reachable(c) THEN "up" ELSE "down"
  \/ m = "terminal" /\ Reachable(c) /\ phase' = "run" /\ ap' = FALSE /\ conn' = "up"
  \/ m = "terminal" /\ ~Reachable(c) /\ Portal

(* ESP.restart and setup: what is in RAM starts anew. *)
Boot(m, c) ==
  /\ WifiSetup(m, c)
  /\ submitted' = FALSE /\ restartDue' = FALSE
  /\ rxAge' = 0 /\ up' = 0
  /\ ntp' = FALSE /\ browser' = Day /\ fired' = FALSE /\ looked' = FALSE

HInit ==
  /\ mode \in Modes /\ creds \in {"none", "good"} /\ agendaOn \in BOOLEAN
  /\ phase = "portal" /\ ap = TRUE /\ conn = "down"  \* before the first setup
  /\ submitted = FALSE /\ restartDue = FALSE
  /\ router = TRUE /\ paired \in BOOLEAN /\ talking = TRUE
  /\ rxAge = 0 /\ up = 0 /\ minute = 1
  /\ ntp = FALSE /\ browser = Day /\ fired = FALSE /\ looked = FALSE
  /\ alarms = 0 /\ posts = 0 /\ hubTroubles = 0

HubTrouble == hubTroubles < MaxTroubles /\ hubTroubles' = hubTroubles + 1
Running == phase = "run"

-----------------------------------------------------------------------------
(* The Wi-Fi in the loop *)

(* web_server_maintain_wifi: the station is away, and half a minute has    *)
(* passed since the last attempt; WiFi.mode(WIFI_STA), whatever the mode.  *)
MaintainWifi ==
  /\ Running /\ mode # "ap" /\ conn = "down"
  /\ ap' = FALSE /\ conn' = "trying"
  /\ UNCHANGED <<flashVars, phase, submitted, restartDue, worldVars, rxAge, up,
                 clockVars, hubTroubles>>

(* ... and the attempt has lasted 15 s. *)
ReconnectTimeout ==
  /\ Running /\ conn = "trying" /\ ~Reachable(creds)
  /\ conn' = "down"
  /\ UNCHANGED <<flashVars, phase, ap, submitted, restartDue, worldVars, rxAge, up,
                 clockVars, hubTroubles>>

(* The station finds the router. *)
StationUp ==
  /\ Running /\ mode # "ap" /\ conn # "up" /\ Reachable(creds)
  /\ conn' = "up"
  /\ UNCHANGED <<flashVars, phase, ap, submitted, restartDue, worldVars, rxAge, up,
                 clockVars, hubTroubles>>

RouterTurns ==
  /\ HubTrouble
  /\ router' = ~router
  /\ conn' = IF conn = "up" THEN "down" ELSE conn
  /\ UNCHANGED <<flashVars, phase, ap, submitted, restartDue, paired, talking,
                 minute, rxAge, up, clockVars>>

(* Mistake: the portal waits for its user for ever. *)
PortalRunPatient ==
  /\ phase = "portal" /\ submitted
  /\ Boot(mode, creds)
  /\ UNCHANGED <<flashVars, worldVars, alarms, posts, hubTroubles>>

(* captive_portal_run: settings were sent, or five minutes have passed. *)
PortalRun ==
  /\ phase = "portal"
  /\ Boot(mode, creds)
  /\ UNCHANGED <<flashVars, worldVars, alarms, posts, hubTroubles>>

-----------------------------------------------------------------------------
(* What people do: web server and console *)

(* POST /api/config/mode, in the portal too, and console key m: saved, and *)
(* a restart unless it is the mode already.                                *)
SetMode(m) ==
  /\ m # mode /\ HubTrouble
  /\ mode' = m
  /\ Boot(m, creds)
  /\ UNCHANGED <<creds, agendaOn, worldVars, alarms, posts>>

(* POST /api/config/wifi *)
ConfigWifi(c) ==
  /\ HubTrouble
  /\ creds' = c
  /\ Boot(mode, c)
  /\ UNCHANGED <<mode, agendaOn, worldVars, alarms, posts>>

(* POST /api/portal/setup, which is served outside the portal too. *)
PortalSetup(c) ==
  /\ HubTrouble
  /\ creds' = c /\ submitted' = TRUE
  /\ UNCHANGED <<mode, agendaOn, phase, ap, conn, restartDue, worldVars, rxAge, up,
                 clockVars>>

(* Console key w: web_server_wifi_setup(true). *)
ForcePortal ==
  /\ Running /\ HubTrouble
  /\ Portal
  /\ UNCHANGED <<flashVars, submitted, restartDue, worldVars, rxAge, up, clockVars>>

(* An update over the web succeeds: web_server_request_restart. *)
UpdateDone ==
  /\ ~restartDue /\ HubTrouble
  /\ restartDue' = TRUE
  /\ UNCHANGED <<flashVars, wifiVars, worldVars, rxAge, up, clockVars>>

(* web_server_loop: the restart that is due; in the portal nobody looks.   *)
ScheduledRestart ==
  /\ Running /\ restartDue
  /\ Boot(mode, creds)
  /\ UNCHANGED <<flashVars, worldVars, alarms, posts, hubTroubles>>

(* POST /api/restart, console key r *)
RestartByUser ==
  /\ HubTrouble
  /\ Boot(mode, creds)
  /\ UNCHANGED <<flashVars, worldVars, alarms, posts>>

(* POST /api/config/agenda *)
ConfigAgenda ==
  /\ HubTrouble
  /\ agendaOn' = ~agendaOn
  /\ UNCHANGED <<mode, creds, wifiVars, restartDue, worldVars, rxAge, up, clockVars>>

-----------------------------------------------------------------------------
(* Frames and the watchdog *)

HubHears ==
  /\ Running /\ paired /\ talking /\ rxAge > 0
  /\ rxAge' = 0
  /\ UNCHANGED <<flashVars, wifiVars, restartDue, worldVars, up, clockVars,
                 hubTroubles>>

TalkingTurns ==
  /\ HubTrouble
  /\ talking' = ~talking
  /\ UNCHANGED <<flashVars, wifiVars, restartDue, router, paired, minute, rxAge, up,
                 clockVars>>

(* loop: a hub with paired nodes that has heard none of them for five      *)
(* minutes restarts, but not in mode "ap".                                 *)
RxWatchdog ==
  /\ Running /\ mode # "ap" /\ paired /\ rxAge = RxLimit
  /\ Boot(mode, creds)
  /\ UNCHANGED <<flashVars, worldVars, alarms, posts, hubTroubles>>

-----------------------------------------------------------------------------
(* Clock and agenda *)

(* Mistake: the clock is asked at the start and not after NtpDelay. *)
NtpSyncAtOnce ==
  /\ Running /\ ~ntp
  /\ ntp' = TRUE
  /\ UNCHANGED <<flashVars, wifiVars, restartDue, worldVars, rxAge, up, browser,
                 fired, looked, alarms, posts, hubTroubles>>

(* The loop asks the system clock only every NTP_RETRY_INTERVAL_MS, the    *)
(* first time that long after the start.  Whether it is set by then, over  *)
(* the station or since before the restart, is left open.                  *)
NtpSync ==
  /\ Running /\ ~ntp /\ up = NtpDelay
  /\ ntp' = TRUE
  /\ UNCHANGED <<flashVars, wifiVars, restartDue, worldVars, rxAge, up, browser,
                 fired, looked, alarms, posts, hubTroubles>>

(* POST /api/time from an open page *)
BrowserSetsClock ==
  /\ Running /\ ~ntp /\ browser # minute /\ posts < 2 /\ HubTrouble
  /\ browser' = minute /\ posts' = posts + 1
  /\ UNCHANGED <<flashVars, wifiVars, restartDue, worldVars, rxAge, up, ntp, fired,
                 looked, alarms>>

(* gateway_ntp_epoch; Day when no clock was set *)
Epoch == IF ntp THEN minute ELSE browser

(* Every 15 s: the minute of the agenda, in which it has not restarted the *)
(* hub since the start.                                                    *)
AgendaStrikes ==
  /\ Running /\ agendaOn /\ Epoch = AgendaMinute /\ ~fired
  /\ Boot(mode, creds)
  /\ alarms' = IF alarms < 3 THEN alarms + 1 ELSE alarms
  /\ UNCHANGED <<flashVars, worldVars, posts, hubTroubles>>

(* ... and any other minute. *)
AgendaPasses ==
  /\ Running /\ ~looked
  /\ ~agendaOn \/ Epoch # AgendaMinute \/ fired
  /\ looked' = TRUE
  /\ UNCHANGED <<flashVars, wifiVars, restartDue, worldVars, rxAge, up, ntp,
                 browser, fired, alarms, posts, hubTroubles>>

(* The loop comes to the agenda in every minute. *)
MinutePasses ==
  /\ Running => looked
  /\ minute' = (minute + 1) % Day
  /\ up' = IF Running /\ up < NtpDelay THEN up + 1 ELSE up
  /\ rxAge' = IF Running /\ rxAge < RxLimit THEN rxAge + 1 ELSE rxAge
  /\ looked' = FALSE /\ fired' = FALSE /\ alarms' = 0 /\ posts' = 0
  /\ UNCHANGED <<flashVars, wifiVars, restartDue, router, paired, talking, ntp,
                 browser, hubTroubles>>

HNext ==
  \/ MaintainWifi \/ ReconnectTimeout \/ StationUp \/ RouterTurns \/ PortalRun
  \/ \E m \in Modes : SetMode(m)
  \/ \E c \in {"wrong", "good"} : ConfigWifi(c) \/ PortalSetup(c)
  \/ ForcePortal \/ UpdateDone \/ ScheduledRestart \/ RestartByUser \/ ConfigAgenda
  \/ HubHears \/ TalkingTurns \/ RxWatchdog
  \/ NtpSync \/ BrowserSetsClock \/ AgendaStrikes \/ AgendaPasses \/ MinutePasses

(* The loop runs, the portal ends, the router is found, frames are heard   *)
(* and time passes.                                                        *)
HFairness ==
  /\ WF_hubVars(MaintainWifi) /\ WF_hubVars(ReconnectTimeout) /\ WF_hubVars(StationUp)
  /\ WF_hubVars(PortalRun) /\ WF_hubVars(ScheduledRestart)
  /\ WF_hubVars(HubHears) /\ WF_hubVars(RxWatchdog)
  /\ WF_hubVars(AgendaStrikes) /\ WF_hubVars(AgendaPasses) /\ WF_hubVars(MinutePasses)

HSpec == HInit /\ [][HNext]_hubVars
HFairSpec == HSpec /\ HFairness

-----------------------------------------------------------------------------
HTypeOK ==
  /\ mode \in Modes /\ creds \in {"none", "wrong", "good"} /\ agendaOn \in BOOLEAN
  /\ phase \in {"run", "portal"} /\ ap \in BOOLEAN
  /\ conn \in {"up", "down", "trying"} /\ submitted \in BOOLEAN
  /\ restartDue \in BOOLEAN /\ router \in BOOLEAN
  /\ paired \in BOOLEAN /\ talking \in BOOLEAN /\ rxAge \in 0 .. RxLimit
  /\ minute \in 0 .. Day - 1 /\ up \in 0 .. NtpDelay
  /\ ntp \in BOOLEAN /\ browser \in 0 .. Day
  /\ fired \in BOOLEAN /\ looked \in BOOLEAN
  /\ alarms \in 0 .. 3 /\ posts \in 0 .. 2 /\ hubTroubles \in 0 .. MaxTroubles

(* The agenda restarts the hub once in its minute, although what it has    *)
(* done is forgotten in the restart: a hub that has just started has no    *)
(* clock for a while.  A page that sets the clock after the restart brings *)
(* one more restart each time.                                             *)
AgendaOnce == alarms <= 1 + posts

(* Once the router is there for good and the credentials are right, a hub  *)
(* in a mode with a station comes to be connected, also from the portal;   *)
(* and a hub that no longer hears its nodes restarts, in case it is the    *)
(* radio that hangs: the watchdog is armed before the first frame.         *)
HubRecovers ==
  /\ []<>(router /\ creds = "good" /\ mode # "ap" => conn = "up")
  /\ []<>(paired /\ ~talking /\ mode # "ap" => rxAge = 0)
=============================================================================
