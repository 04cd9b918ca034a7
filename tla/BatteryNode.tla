----------------------------- MODULE BatteryNode -----------------------------
(***************************************************************************)
(* The nodes that run on a battery: nodes/acquiry-bat (built for ESP-NOW   *)
(* or for TCP), nodes/soil-moisture and nodes/presence-bat.  They share    *)
(* one state machine, copied into the three files: wake, pair if need be,  *)
(* read, send, wait for the hub's ACK, sleep.  What differs is the set-up, *)
(* the sensor and, with TCP, how data go out.                              *)
(*                                                                         *)
(* Deep sleep forgets everything but the EEPROM, so a wake-up is a boot.   *)
(* A node that somebody reaches by the serial port or by telnet suspends   *)
(* its machine and stays awake.                                            *)
(*                                                                         *)
(* Around the node: a hub that lets it in or not, frames that are lost or  *)
(* late, an access point that may be away, people.  A timer is known by    *)
(* whether it has run out.  The interval, names, payloads and LEDs are     *)
(* left out.                                                               *)
(***************************************************************************)
EXTENDS Naturals

CONSTANTS
  Kinds,          \* the builds: of {"acquiry", "acquiry_tcp", "soil", "pir"}
  MaxPair,        \* ESPNOW_MAX_PAIR_ATTEMPTS
  MaxReadRetries, \* the constant of that name
  OnSerial        \* bound: the builds whose serial port somebody uses

ASSUME BatteryAssumption ==
  /\ Kinds \subseteq {"acquiry", "acquiry_tcp", "soil", "pir"}
  /\ MaxPair \in Nat /\ MaxPair >= 2
  /\ MaxReadRetries \in Nat /\ MaxReadRetries >= 1

MaxDataRetries == 2

VARIABLES
  kind,      \* which firmware it is
  state,     \* s_state, or "OFF" while the node sleeps or restarts
  late,      \* the timeout of the state, counted from s_state_start, is over
  gateway,   \* s_has_gateway
  stored,    \* the EEPROM holds a gateway
  acked,     \* s_ack_received
  pairs,     \* s_pair_attempts
  retries,   \* s_data_retries
  reads,     \* s_read_attempts
  valid,     \* s_read_valid
  suspend,   \* s_suspend and s_suspend_from_telnet: "no", "serial", "telnet"
  air,       \* frames on their way
  known,     \* the hub has the node in its registry
  heard,     \* the hub has data the node sent since it woke
  nap        \* what the node last slept for

machine == <<state, late, gateway, stored, acked, pairs, retries, reads, valid>>
hub == <<known, heard>>
vars == <<kind, machine, suspend, air, hub, nap>>

Frames == {"request", "response", "data", "ack"}
Awake == state # "OFF"
Running == Awake /\ suspend = "no"
EspNow == kind # "acquiry_tcp"

Init ==
  /\ kind \in Kinds
  /\ state = "OFF" /\ late = FALSE
  /\ gateway = FALSE /\ stored = FALSE
  /\ acked = FALSE /\ pairs = 0 /\ retries = 0 /\ reads = 0 /\ valid = FALSE
  /\ suspend = "no"
  /\ air = {}
  /\ known = FALSE /\ heard = FALSE
  /\ nap = "none"

(* What RAM holds is lost; no frame stays in the air for so long. *)
PowerDown ==
  /\ state' = "OFF" /\ suspend' = "no" /\ air' = {}
  /\ late' = FALSE /\ gateway' = FALSE /\ acked' = FALSE /\ valid' = FALSE
  /\ pairs' = 0 /\ retries' = 0 /\ reads' = 0

DoDeepSleep(why) == PowerDown /\ nap' = why

(* A boot that gets through setup().  A mistake: the gateway is not read   *)
(* from the EEPROM.                                                        *)
BootUnpaired(first) ==
  /\ state' = first /\ gateway' = FALSE
  /\ valid' = (first = "WAIT_PAIR") /\ heard' = FALSE
  /\ UNCHANGED <<late, stored, acked, pairs, retries, reads, suspend, air,
                 known, nap>>

Boot(first) ==
  /\ state' = first /\ gateway' = (EspNow /\ stored)
  /\ valid' = (first = "WAIT_PAIR") /\ heard' = FALSE
  /\ UNCHANGED <<late, stored, acked, pairs, retries, reads, suspend, air,
                 known, nap>>

(* setup() ends in a sleep of the interval instead. *)
SleepInSetup ==
  /\ nap' = "interval"
  /\ UNCHANGED <<machine, suspend, air, hub>>

(* wifi_setup: with saved credentials it connects; otherwise, or when that *)
(* fails, or when told to, it opens the portal, which somebody fills in or *)
(* not.                                                                    *)
WifiSetup(force, saved, portal) == (~force /\ saved) \/ portal

(* setup() of acquiry-bat.  For ESP-NOW it needs no network: it looks for  *)
(* the access point for its channel only; the portal opens on the button.  *)
SetupAcquiry ==
  /\ state = "OFF" /\ kind = "acquiry"
  /\ \E button, portal \in BOOLEAN :
       IF button /\ ~WifiSetup(TRUE, FALSE, portal)
         THEN SleepInSetup
         ELSE Boot("WAIT_RADIO")
  /\ UNCHANGED kind

(* setup() of acquiry-bat for TCP: no network, no work. *)
SetupAcquiryTcp ==
  /\ state = "OFF" /\ kind = "acquiry_tcp"
  /\ \E button, saved, portal, connected \in BOOLEAN :
       IF WifiSetup(button, saved, portal) /\ connected
         THEN Boot("WAIT_PAIR")
         ELSE SleepInSetup
  /\ UNCHANGED kind

(* setup() of soil-moisture and presence-bat: the portal opens also when   *)
(* there is no gateway, and the network must be there.                     *)
SetupSoil ==
  /\ state = "OFF" /\ kind \in {"soil", "pir"}
  /\ \E button, portal, connected \in BOOLEAN :
       IF (button \/ ~stored => WifiSetup(TRUE, FALSE, portal)) /\ connected
         THEN Boot("INIT")
         ELSE SleepInSetup
  /\ UNCHANGED kind

-----------------------------------------------------------------------------
(* The radio and the hub *)

(* espnow_send_pair_request and espnow_send_data: broadcasts. *)
SendPairRequest == air' = air \cup {"request"}
SendData == air' = (air \cup {"request", "data"})

(* espnow_recv_cb: whoever answers becomes the gateway and is saved; any   *)
(* ACK is the one waited for.  The callback runs also in a suspended node. *)
RecvResponse ==
  /\ Awake /\ EspNow /\ "response" \in air
  /\ air' = air \ {"response"}
  /\ gateway' = TRUE /\ stored' = TRUE
  /\ UNCHANGED <<kind, state, late, acked, pairs, retries, reads, valid,
                 suspend, hub, nap>>

RecvAck ==
  /\ Awake /\ EspNow /\ "ack" \in air
  /\ air' = air \ {"ack"}
  /\ acked' = TRUE
  /\ UNCHANGED <<kind, state, late, gateway, stored, pairs, retries, reads,
                 valid, suspend, hub, nap>>

Restart ==
  /\ PowerDown /\ nap' = "none"
  /\ UNCHANGED <<kind, stored, hub>>

(* MSG_RESTART for this node, sent by hand; with TCP, on_restart. *)
RecvRestart ==
  /\ Awake /\ known
  /\ Restart

(* handle_rx: a known node is answered, and a new one that is let in.      *)
HubRequest ==
  /\ "request" \in air
  /\ known' \in {known, TRUE}
  /\ air' = (air \ {"request"}) \cup IF known' THEN {"response"} ELSE {}
  /\ UNCHANGED <<kind, machine, suspend, heard, nap>>

(* Data of an unknown node are refused, which the node ignores. *)
HubData ==
  /\ "data" \in air
  /\ heard' = (heard \/ known)
  /\ air' = (air \ {"data"}) \cup IF known THEN {"ack"} ELSE {}
  /\ UNCHANGED <<kind, machine, suspend, known, nap>>

(* The node is removed in the dashboard. *)
HubRemove ==
  /\ known /\ known' = FALSE
  /\ UNCHANGED <<kind, machine, suspend, air, heard, nap>>

Lose ==
  /\ \E f \in air : air' = air \ {f}
  /\ UNCHANGED <<kind, machine, suspend, hub, nap>>

(* NodeRadioType of shared/ in its own time: registered with the hub or    *)
(* not any more.                                                           *)
TcpRegister ==
  /\ Awake /\ ~EspNow
  /\ known' \in {known, TRUE} /\ gateway' = known'
  /\ UNCHANGED <<kind, state, late, stored, acked, pairs, retries, reads,
                 valid, suspend, air, heard, nap>>

-----------------------------------------------------------------------------
(* The sensors.  read_acquiry and read_pir give a value always, read_sensor *)
(* of soil-moisture none when the converter shows 0.                       *)
ReadAcquiry == {TRUE}
ReadPir == {TRUE}
ReadSoil == {TRUE, FALSE}

Reading == CASE kind = "soil" -> ReadSoil
             [] kind = "pir" -> ReadPir
             [] OTHER -> ReadAcquiry

-----------------------------------------------------------------------------
(* loop(), one action per state *)

Same(xs) == UNCHANGED <<kind, stored, suspend, hub, nap, xs>>

WaitRadio ==
  /\ Running /\ state = "WAIT_RADIO" /\ late
  /\ state' = "INIT"
  /\ Same(<<late, gateway, acked, pairs, retries, reads, valid, air>>)

StateInit ==
  /\ Running /\ state = "INIT" /\ EspNow
  /\ SendPairRequest
  /\ pairs' = 1 /\ late' = FALSE /\ reads' = 0
  /\ state' = IF gateway THEN "READ" ELSE "WAIT_PAIR"
  /\ Same(<<gateway, acked, retries, valid>>)

StateInitTcp ==
  /\ Running /\ state = "INIT" /\ ~EspNow
  /\ pairs' = 1 /\ late' = FALSE /\ reads' = 0
  /\ state' = IF gateway THEN "READ" ELSE "WAIT_PAIR"
  /\ Same(<<gateway, acked, retries, valid, air>>)

Paired ==
  /\ Running /\ state = "WAIT_PAIR" /\ gateway
  /\ state' = "READ"
  /\ Same(<<late, gateway, acked, pairs, retries, reads, valid, air>>)

(* Mistake: one attempt too many. *)
PairTimeoutPast ==
  /\ Running /\ state = "WAIT_PAIR" /\ ~gateway /\ late
  /\ pairs' = pairs + 1
  /\ IF pairs' > MaxPair
       THEN state' = "SLEEP" /\ UNCHANGED <<late, air>>
       ELSE /\ late' = FALSE /\ UNCHANGED state
            /\ IF EspNow THEN SendPairRequest ELSE UNCHANGED air
  /\ Same(<<gateway, acked, retries, reads, valid>>)

PairTimeout ==
  /\ Running /\ state = "WAIT_PAIR" /\ ~gateway /\ late
  /\ pairs' = pairs + 1
  /\ IF pairs' >= MaxPair
       THEN state' = "SLEEP" /\ UNCHANGED <<late, air>>
       ELSE /\ late' = FALSE /\ UNCHANGED state
            /\ IF EspNow THEN SendPairRequest ELSE UNCHANGED air
  /\ Same(<<gateway, acked, retries, reads, valid>>)

ReadSensor ==
  /\ Running /\ state = "READ"
  /\ valid' \in Reading
  /\ IF valid' THEN state' = "SEND" /\ UNCHANGED <<reads, retries, late>>
     ELSE /\ reads' = reads + 1
          /\ IF reads' >= MaxReadRetries
               THEN state' = "SLEEP" /\ retries' = 0 /\ UNCHANGED late
               ELSE late' = FALSE /\ UNCHANGED <<state, retries>>
  /\ Same(<<gateway, acked, pairs, air>>)

StateSend ==
  /\ Running /\ state = "SEND" /\ EspNow
  /\ IF valid THEN /\ SendData /\ acked' = FALSE
                   /\ late' = FALSE /\ state' = "WAIT_ACK"
              ELSE SendPairRequest /\ state' = "SLEEP" /\ UNCHANGED <<acked, late>>
  /\ retries' = 0
  /\ Same(<<gateway, pairs, reads, valid>>)

(* send_to_hub: the request may be lost, or its answer. *)
PostState ==
  \E got, told \in BOOLEAN :
    /\ heard' = (heard \/ (got /\ known))
    /\ acked' = (got /\ known /\ told)

StateSendTcp ==
  /\ Running /\ state = "SEND" /\ ~EspNow
  /\ PostState
  /\ retries' = 0 /\ late' = FALSE /\ state' = "WAIT_ACK"
  /\ UNCHANGED <<kind, gateway, stored, pairs, reads, valid, suspend, air,
                 known, nap>>

Acked ==
  /\ Running /\ state = "WAIT_ACK" /\ acked
  /\ retries' = 0 /\ state' = "SLEEP"
  /\ Same(<<late, gateway, acked, pairs, reads, valid, air>>)

(* No ACK in ACK_TIMEOUT_MS: once more with a new reading, then no more.   *)
AckTimeout ==
  /\ Running /\ state = "WAIT_ACK" /\ ~acked /\ late /\ EspNow
  /\ retries' = retries + 1
  /\ IF retries' >= MaxDataRetries
       THEN state' = "SLEEP" /\ UNCHANGED <<valid, acked, late, air>>
       ELSE /\ valid' \in Reading
            /\ IF valid' THEN /\ acked' = FALSE /\ late' = FALSE
                              /\ air' = air \cup {"data"} /\ UNCHANGED state
                         ELSE state' = "SLEEP" /\ UNCHANGED <<acked, late, air>>
  /\ Same(<<gateway, pairs, reads>>)

AckTimeoutTcp ==
  /\ Running /\ state = "WAIT_ACK" /\ ~acked /\ late /\ ~EspNow
  /\ retries' = retries + 1
  /\ IF retries' >= MaxDataRetries
       THEN state' = "SLEEP" /\ UNCHANGED <<acked, heard, late>>
       ELSE PostState /\ late' = FALSE /\ UNCHANGED state
  /\ UNCHANGED <<kind, gateway, stored, pairs, reads, valid, suspend, air,
                 known, nap>>

(* Mistake: who got no answer sleeps as long as the others. *)
SleepTimeAlways == "interval"

SleepTime == IF reads >= MaxReadRetries \/ retries >= MaxDataRetries
               THEN "retry" ELSE "interval"

StateSleep ==
  /\ Running /\ state = "SLEEP"
  /\ DoDeepSleep(SleepTime)
  /\ UNCHANGED <<kind, stored, hub>>

-----------------------------------------------------------------------------
(* The suspend, which loop() looks at first: while a telnet client is      *)
(* connected the machine does not go on.                                   *)

SuspendNode ==
  /\ Running
  /\ suspend' \in {"telnet"} \cup IF kind \in OnSerial THEN {"serial"} ELSE {}
  /\ UNCHANGED <<kind, machine, air, hub, nap>>

(* The telnet client is gone: restart. *)
TelnetGone == suspend = "telnet" /\ Restart

(* The key s reads the sensor; i and h change nothing the model has. *)
KeyStatus ==
  /\ suspend # "no"
  /\ valid' \in Reading
  /\ UNCHANGED <<kind, state, late, gateway, stored, acked, pairs, retries,
                 reads, suspend, air, hub, nap>>

KeyRestart == suspend # "no" /\ Restart

(* The key p: the gateway is forgotten in RAM, not in the EEPROM, and the  *)
(* machine goes on from its beginning, except that a node that was reached *)
(* by telnet is suspended again at once.                                   *)
KeyPair ==
  /\ suspend # "no"
  /\ gateway' = FALSE /\ state' = "INIT"
  /\ suspend' = IF suspend = "telnet" THEN "telnet" ELSE "no"
  /\ UNCHANGED <<kind, late, stored, acked, pairs, retries, reads, valid,
                 air, hub, nap>>

-----------------------------------------------------------------------------
(* The timeout of the state, if it has one, runs out. *)
Tick ==
  /\ state \in {"WAIT_RADIO", "WAIT_PAIR", "WAIT_ACK"} /\ ~late
  /\ late' = TRUE
  /\ UNCHANGED <<kind, state, gateway, stored, acked, pairs, retries, reads,
                 valid, suspend, air, hub, nap>>

Setup == SetupAcquiry \/ SetupAcquiryTcp \/ SetupSoil

Loop ==
  \/ WaitRadio \/ StateInit \/ StateInitTcp \/ Paired \/ PairTimeout
  \/ ReadSensor \/ StateSend \/ StateSendTcp \/ Acked \/ AckTimeout
  \/ AckTimeoutTcp \/ StateSleep

Console == SuspendNode \/ TelnetGone \/ KeyStatus \/ KeyRestart \/ KeyPair

Radio ==
  \/ RecvResponse \/ RecvAck \/ RecvRestart
  \/ HubRequest \/ HubData \/ HubRemove \/ Lose \/ TcpRegister

Next == Setup \/ Loop \/ Console \/ Radio \/ Tick

Spec == Init /\ [][Next]_vars

(* The loop runs and time passes; the battery lasts.  Frames get through   *)
(* now and then, and the node boots now and then without a delay.          *)
Fairness ==
  /\ WF_vars(Loop) /\ WF_vars(Tick)
  /\ SF_vars(Setup /\ Awake')
  /\ SF_vars(HubData)

FairSpec == Spec /\ Fairness

-----------------------------------------------------------------------------
TypeOK ==
  /\ kind \in Kinds
  /\ state \in {"OFF", "WAIT_RADIO", "INIT", "WAIT_PAIR", "READ", "SEND",
                "WAIT_ACK", "SLEEP"}
  /\ late \in BOOLEAN /\ gateway \in BOOLEAN /\ stored \in BOOLEAN
  /\ acked \in BOOLEAN /\ valid \in BOOLEAN
  /\ pairs \in 0 .. MaxPair /\ retries \in 0 .. MaxDataRetries
  /\ reads \in 0 .. MaxReadRetries
  /\ suspend \in {"no", "serial", "telnet"}
  /\ air \subseteq Frames
  /\ known \in BOOLEAN /\ heard \in BOOLEAN
  /\ nap \in {"none", "interval", "retry"}

(* A node sleeps for the whole interval only if the hub has heard it since *)
(* it woke, its sensor failed or nobody paired it; otherwise it comes back *)
(* after DEEP_SLEEP_RETRY_INTERVAL.  So it is through lost and late ACKs,  *)
(* repeated sends and somebody at the console (WAIT_ACK and SLEEP).        *)
QuietOnlyIfHeard ==
  [][state = "SLEEP" /\ nap' = "interval" /\ ~Awake'
       => heard \/ ~valid \/ pairs = MaxPair]_vars

(* Nobody at the console: every awake period ends, whatever is lost and    *)
(* whoever does not answer; the battery depends on it.                     *)
AwakeEnds == []<>(~Awake \/ suspend # "no")

(* A node that has been paired keeps delivering readings, from wake-up to  *)
(* wake-up, once it is left alone: the gateway survives deep sleep and a   *)
(* repairing that failed, and losses are made up for (acquiry-bat).        *)
PairedReports ==
  <>[](kind = "acquiry" /\ stored /\ known /\ suspend = "no" /\ nap # "none")
    => []<>heard
=============================================================================
