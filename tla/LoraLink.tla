------------------------------- MODULE LoraLink -------------------------------
(***************************************************************************)
(* The LoRa side of the hub (lora_rx_cb of hub/src/main.cpp and            *)
(* hub/src/lora_handler.cpp) and the switch on an Arduino Nano that speaks *)
(* with it, nodes/onoff-lora-avr.  The radio hears one frame at a time and *)
(* only while it listens.  The timers of the node (state and heartbeat     *)
(* every minute, a pairing request every 5 s) fire at any time.  Of the    *)
(* registry there is whether it has the MAC of the switch; frames for and  *)
(* from others are left out.                                               *)
(***************************************************************************)
EXTENDS Naturals

CONSTANTS
  Attempts,    \* PAIR_MAX_ATTEMPTS
  MaxTroubles  \* bound: restarts, lost frames, repairings and commands

VARIABLES
  \* main.cpp of the node
  relay,    \* s_relay, which is in the EEPROM too
  paired,   \* s_paired of main.cpp
  flag,     \* EEPROM_PAIRED_FLAG
  asked,    \* s_pair_attempts
  \* lora_avr.cpp and lora_uart_driver.cpp of the node
  ready,    \* m_ready
  listens,  \* the radio is in SX_RX_CONT_MODE
  got,      \* the frame it has received, or "none"
  linked,   \* s_paired of lora_avr.cpp
  \* the air and the hub
  up, down, \* the frame on the air to the hub, and from it, or "none"
  listed,   \* the registry has the switch
  shown,    \* its state there
  pending,  \* its slot is in s_lora_pending_state_slots
  told,     \* its state as it was published by MQTT
  loraTroubles

nodeVars == <<relay, paired, flag, asked>>
radioVars == <<ready, listens, got, linked>>
hubSide == <<listed, shown, pending, told>>
loraVars == <<nodeVars, radioVars, up, down, hubSide, loraTroubles>>

UpFrames == {"pair", "on", "off", "heartbeat"}
Commands == {"command on", "command off", "command restart"}
DownFrames == {"response"} \cup Commands

LInit ==
  /\ relay = FALSE /\ paired = FALSE /\ flag = FALSE /\ asked = 0
  /\ ready = TRUE /\ listens = FALSE /\ got = "none" /\ linked = FALSE
  /\ up = "none" /\ down = "none"
  /\ listed = FALSE /\ shown = FALSE /\ pending = FALSE /\ told = FALSE
  /\ loraTroubles = 0

LoraTrouble == loraTroubles < MaxTroubles /\ loraTroubles' = loraTroubles + 1

-----------------------------------------------------------------------------
(* The node *)

(* setup: lora_init may fail and is not repeated; it leaves the radio in   *)
(* standby.                                                                *)
SetupAvr ==
  /\ paired' = flag /\ asked' = 0
  /\ ready' \in BOOLEAN /\ listens' = FALSE /\ got' = "none" /\ linked' = FALSE
  /\ UNCHANGED <<relay, flag>>

RestartAvr ==
  /\ LoraTrouble /\ SetupAvr
  /\ UNCHANGED <<up, down, hubSide>>

(* LoraUartDriver::send: standby, what was received is dropped, and        *)
(* standby again when the frame is out.                                    *)
Send(frame) ==
  IF ready THEN up = "none" /\ up' = frame /\ listens' = FALSE /\ got' = "none"
           ELSE UNCHANGED <<up, listens, got>>

(* loop: at most Attempts requests, PAIR_INTERVAL_MS apart. *)
PairAttempt ==
  /\ ~paired /\ asked < Attempts
  /\ asked' = asked + 1
  /\ Send("pair")
  /\ UNCHANGED <<relay, paired, flag, ready, linked, down, hubSide, loraTroubles>>

SendState ==
  /\ paired /\ Send(IF relay THEN "on" ELSE "off")
  /\ UNCHANGED <<nodeVars, ready, linked, down, hubSide, loraTroubles>>

SendHeartbeat ==
  /\ paired /\ Send("heartbeat")
  /\ UNCHANGED <<nodeVars, ready, linked, down, hubSide, loraTroubles>>

(* toggle_relay, by the button or the key l *)
ToggleRelay ==
  /\ relay' = ~relay
  /\ UNCHANGED <<paired, flag, asked, radioVars, up, down, hubSide, loraTroubles>>

(* The key p: paired_save writes that the node is paired. *)
PairKey ==
  /\ LoraTrouble
  /\ paired' = FALSE /\ asked' = 0 /\ flag' = TRUE
  /\ UNCHANGED <<relay, radioVars, up, down, hubSide>>

(* LoraHandler::send_command and send_restart leave payload_len at 0, and  *)
(* lora_loop takes for a command what has 1 there at least.                *)
CommandLength == 0

Obeyed(frame) == frame \in Commands /\ CommandLength >= 1

(* lora_loop: recv takes what was received and goes on listening. *)
LoraLoop ==
  /\ ready /\ got # "none"
  /\ IF Obeyed(got) /\ got = "command restart" THEN SetupAvr
     ELSE /\ got' = "none" /\ listens' = TRUE
          /\ linked' = (linked \/ got = "response")
          /\ relay' = IF Obeyed(got) THEN got = "command on" ELSE relay
          /\ UNCHANGED <<paired, flag, asked, ready>>
  /\ UNCHANGED <<up, down, hubSide, loraTroubles>>

-----------------------------------------------------------------------------
(* The air *)

Deliver ==
  /\ down # "none" /\ down' = "none"
  /\ got' = IF listens /\ got = "none" THEN down ELSE got
  /\ UNCHANGED <<nodeVars, ready, listens, linked, up, hubSide, loraTroubles>>

LoseFrame ==
  /\ LoraTrouble
  /\ \/ up # "none" /\ up' = "none" /\ UNCHANGED down
     \/ down # "none" /\ down' = "none" /\ UNCHANGED up
  /\ UNCHANGED <<nodeVars, radioVars, hubSide>>

-----------------------------------------------------------------------------
(* The hub *)

(* lora_rx_cb, MSG_PAIR_REQUEST, whether or not a pairing is going on: the *)
(* slot that the MAC has, or the first one that is free, if any.           *)
RxPairRequest ==
  /\ up = "pair" /\ down = "none"
  /\ up' = "none"
  /\ listed' \in {listed, TRUE}
  /\ shown' = (shown /\ listed)
  /\ down' = IF listed' THEN "response" ELSE "none"
  /\ UNCHANGED <<nodeVars, radioVars, pending, told, loraTroubles>>

(* Mistake: only a state that is new is queued for MQTT. *)
RxDataChanged ==
  /\ up \in {"on", "off", "heartbeat"} /\ up' = "none"
  /\ IF listed /\ up # "heartbeat"
       THEN shown' = (up = "on") /\ pending' = (pending \/ shown' # shown)
       ELSE UNCHANGED <<shown, pending>>
  /\ UNCHANGED <<nodeVars, radioVars, down, listed, told, loraTroubles>>

(* lora_rx_cb, MSG_SENSOR_DATA and MSG_HEARTBEAT; queue_bridge_state.      *)
RxData ==
  /\ up \in {"on", "off", "heartbeat"} /\ up' = "none"
  /\ IF listed /\ up # "heartbeat"
       THEN shown' = (up = "on") /\ pending' = TRUE
       ELSE UNCHANGED <<shown, pending>>
  /\ UNCHANGED <<nodeVars, radioVars, down, listed, told, loraTroubles>>

(* lora_process_bridge_queue: what waits is dropped without the broker. *)
ProcessBridge ==
  /\ pending
  /\ pending' = FALSE /\ told' \in {told, shown}
  /\ UNCHANGED <<nodeVars, radioVars, up, down, listed, shown, loraTroubles>>

(* LoraHandler::send_command and send_restart *)
SendLoraCommand ==
  /\ LoraTrouble /\ listed /\ down = "none"
  /\ down' \in Commands
  /\ UNCHANGED <<nodeVars, radioVars, up, hubSide>>

LNext ==
  \/ RestartAvr \/ PairAttempt \/ SendState \/ SendHeartbeat
  \/ ToggleRelay \/ PairKey \/ LoraLoop
  \/ Deliver \/ LoseFrame
  \/ RxPairRequest \/ RxData \/ ProcessBridge \/ SendLoraCommand

Published == ProcessBridge /\ told' = shown

(* The loops of both sides run; frames that are sent are over some time,   *)
(* so that the states get their turn between the heartbeats; the broker is *)
(* there now and then.                                                     *)
LFairness ==
  /\ WF_loraVars(PairAttempt) /\ WF_loraVars(LoraLoop) /\ SF_loraVars(SendState)
  /\ WF_loraVars(Deliver)
  /\ WF_loraVars(RxPairRequest \/ RxData) /\ SF_loraVars(Published)

LFairSpec == LInit /\ [][LNext]_loraVars /\ LFairness

-----------------------------------------------------------------------------
LTypeOK ==
  /\ relay \in BOOLEAN /\ paired \in BOOLEAN /\ flag \in BOOLEAN
  /\ asked \in 0 .. Attempts
  /\ ready \in BOOLEAN /\ listens \in BOOLEAN /\ linked \in BOOLEAN
  /\ got \in DownFrames \cup {"none"}
  /\ up \in UpFrames \cup {"none"} /\ down \in DownFrames \cup {"none"}
  /\ listed \in BOOLEAN /\ shown \in BOOLEAN /\ pending \in BOOLEAN
  /\ told \in BOOLEAN /\ loraTroubles \in 0 .. MaxTroubles

(* What MQTT shows of a switch that the hub has in its registry and that   *)
(* takes itself for paired is, in the end, what the relay is, however the  *)
(* frames, the restarts and the two tasks of the hub fall.                 *)
LoraTold ==
  <>[](paired /\ ready /\ listed) /\ <>[][UNCHANGED relay]_relay
    => <>[](told = relay)

(* nodes/onoff-lora-avr/README.md, line 70: "Pair Response | 0x03 |        *)
(* assigned_slot | Salva slot, marca pareado".  A switch that goes on      *)
(* asking until the hub answers comes to be paired, when no frame is lost  *)
(* and nobody interferes (MaxTroubles = 0).                                *)
LoraPairs == [](down = "response" => <>paired)
===============================================================================
