----------------------------- MODULE Nodes_proofs -----------------------------
(***************************************************************************)
(* What holds of a battery node, a relay node, a sensor node and a LoRa    *)
(* switch whatever their builds, their limits and the use of their         *)
(* consoles.                                                               *)
(***************************************************************************)
EXTENDS MCNodes, TLAPS

-----------------------------------------------------------------------------
(* The battery node *)

LEMMA Bounds ==
  /\ MaxPair \in Nat /\ MaxPair >= 2
  /\ MaxReadRetries \in Nat /\ MaxReadRetries >= 1
BY BatteryAssumption

USE Bounds

(* The counters, with what the state says of them: they are below their    *)
(* limits where they are going to be increased.                            *)
Counters ==
  /\ pairs \in 0 .. MaxPair /\ retries \in 0 .. 2 /\ reads \in 0 .. MaxReadRetries
  /\ state = "OFF" => pairs = 0 /\ retries = 0 /\ reads = 0
  /\ state = "WAIT_RADIO" => pairs = 0 /\ retries = 0 /\ reads = 0
  /\ state = "WAIT_PAIR" => pairs < MaxPair
  /\ state \in {"WAIT_PAIR", "READ"} => reads < MaxReadRetries
  /\ state = "WAIT_ACK" => retries < 2

States == {"OFF", "WAIT_RADIO", "INIT", "WAIT_PAIR", "READ", "SEND",
           "WAIT_ACK", "SLEEP"}

Flags ==
  /\ late \in BOOLEAN /\ gateway \in BOOLEAN /\ stored \in BOOLEAN
  /\ acked \in BOOLEAN /\ valid \in BOOLEAN
  /\ known \in BOOLEAN /\ heard \in BOOLEAN

Places ==
  /\ kind \in Kinds /\ state \in States
  /\ suspend \in {"no", "serial", "telnet"}
  /\ air \subseteq Frames
  /\ nap \in {"none", "interval", "retry"}

Shape == Flags /\ Places

LEMMA TypeIs == Counters /\ Shape => TypeOK
BY Zenon DEF Counters, Shape, Flags, Places, TypeOK, States, MaxDataRetries

LEMMA Readings == Reading \subseteq BOOLEAN
BY DEF Reading, ReadAcquiry, ReadPir, ReadSoil

LEMMA ShapeAtStart == Init => Counters /\ Shape
<1>. SUFFICES ASSUME Init PROVE Counters /\ Shape
  OBVIOUS
<1>1. Counters
  BY DEF Init, Counters
<1>2. Flags
  BY Zenon DEF Init, Flags
<1>3. Places
  BY DEF Init, Places, States
<1>. QED
  BY <1>1, <1>2, <1>3 DEF Shape

(* Every step keeps the flags flags, ...                                   *)
LEMMA FlagsKept == ASSUME Flags, Next PROVE Flags'
<1>. USE DEF Flags
<1>1. CASE Setup
  <2>1. CASE SetupAcquiry
    BY <2>1, Zenon DEF SetupAcquiry, Boot, SleepInSetup, machine, hub, EspNow
  <2>2. CASE SetupAcquiryTcp
    BY <2>2, Zenon DEF SetupAcquiryTcp, Boot, SleepInSetup, machine, hub, EspNow
  <2>3. CASE SetupSoil
    BY <2>3, Zenon DEF SetupSoil, Boot, SleepInSetup, machine, hub, EspNow
  <2>. QED
    BY <1>1, <2>1, <2>2, <2>3, Zenon DEF Setup
<1>2. CASE WaitRadio \/ StateInit \/ StateInitTcp \/ Paired
  BY <1>2, Zenon DEF WaitRadio, StateInit, StateInitTcp, Paired, Same, hub
<1>3. CASE PairTimeout
  BY <1>3, Zenon DEF PairTimeout, Same, hub
<1>4. CASE ReadSensor
  BY <1>4, Readings, Zenon DEF ReadSensor, Same, hub
<1>5. CASE StateSend \/ Acked
  BY <1>5, Zenon DEF StateSend, Acked, Same, hub
<1>6. CASE AckTimeout
  BY <1>6, Readings, Zenon DEF AckTimeout, Same, hub
<1>7. CASE StateSendTcp
  BY <1>7, Zenon DEF StateSendTcp, PostState
<1>8. CASE AckTimeoutTcp
  BY <1>8, Zenon DEF AckTimeoutTcp, PostState
<1>9. CASE StateSleep
  BY <1>9, Zenon DEF StateSleep, DoDeepSleep, PowerDown, hub
<1>10. CASE Console
  BY <1>10, Readings, Zenon DEF Console, SuspendNode, TelnetGone, KeyStatus,
     KeyRestart, KeyPair, Restart, PowerDown, machine, hub
<1>11. CASE Radio
  <2>1. CASE RecvResponse \/ RecvAck \/ RecvRestart
    BY <2>1, Zenon DEF RecvResponse, RecvAck, RecvRestart, Restart, PowerDown,
       machine, hub
  <2>2. CASE HubRequest
    BY <2>2, Zenon DEF HubRequest, machine
  <2>3. CASE HubData \/ HubRemove \/ Lose
    BY <2>3, Zenon DEF HubData, HubRemove, Lose, machine, hub
  <2>4. CASE TcpRegister
    BY <2>4, Zenon DEF TcpRegister
  <2>. QED
    BY <1>11, <2>1, <2>2, <2>3, <2>4, Zenon DEF Radio
<1>12. CASE Tick
  <2>1. late' = TRUE /\ UNCHANGED <<gateway, stored, acked, valid, known, heard>>
    BY <1>12, Zenon DEF Tick, hub
  <2>. QED
    BY <2>1, Zenon
<1>. QED
  BY <1>1, <1>2, <1>3, <1>4, <1>5, <1>6, <1>7, <1>8, <1>9, <1>10, <1>11, <1>12,
     Zenon DEF Next, Loop

(* What a boot does to the rest.                                           *)
LEMMA SetupStep ==
  ASSUME Setup
  PROVE  /\ state = "OFF" /\ kind' = kind
         /\ UNCHANGED <<pairs, retries, reads, air, acked, suspend>>
         /\ \/ state' \in {"WAIT_RADIO", "WAIT_PAIR", "INIT"} /\ nap' = nap
            \/ state' = state /\ nap' = "interval"
<1>1. ASSUME SleepInSetup
      PROVE  /\ UNCHANGED <<pairs, retries, reads, air, acked, suspend>>
             /\ state' = state /\ nap' = "interval"
  BY <1>1 DEF SleepInSetup, machine
<1>2. ASSUME NEW first \in {"WAIT_RADIO", "WAIT_PAIR", "INIT"}, Boot(first)
      PROVE  /\ UNCHANGED <<pairs, retries, reads, air, acked, suspend>>
             /\ state' = first /\ nap' = nap
  BY <1>2, Zenon DEF Boot
<1>3. CASE SetupAcquiry
  <2>1. SleepInSetup \/ Boot("WAIT_RADIO")
    BY <1>3, Zenon DEF SetupAcquiry
  <2>2. state = "OFF" /\ kind' = kind
    BY <1>3, Zenon DEF SetupAcquiry
  <2>. QED
    BY <2>1, <2>2, <1>1, <1>2
<1>4. CASE SetupAcquiryTcp
  <2>1. SleepInSetup \/ Boot("WAIT_PAIR")
    BY <1>4, Zenon DEF SetupAcquiryTcp
  <2>2. state = "OFF" /\ kind' = kind
    BY <1>4, Zenon DEF SetupAcquiryTcp
  <2>. QED
    BY <2>1, <2>2, <1>1, <1>2
<1>5. CASE SetupSoil
  <2>1. SleepInSetup \/ Boot("INIT")
    BY <1>5, Zenon DEF SetupSoil
  <2>2. state = "OFF" /\ kind' = kind
    BY <1>5, Zenon DEF SetupSoil
  <2>. QED
    BY <2>1, <2>2, <1>1, <1>2
<1>. QED
  BY <1>3, <1>4, <1>5, Zenon DEF Setup

(* ... the rest in its place, ...                                          *)
LEMMA PlacesKept == ASSUME Places, Next PROVE Places'
<1>. USE DEF Places, States
<1>1. CASE Setup
  BY <1>1, SetupStep
<1>2. CASE WaitRadio \/ StateInit \/ StateInitTcp \/ Paired \/ PairTimeout
  BY <1>2 DEF WaitRadio, StateInit, StateInitTcp, Paired, PairTimeout, Same,
     SendPairRequest, Frames
<1>3. CASE ReadSensor \/ StateSend \/ Acked \/ AckTimeout
  BY <1>3 DEF ReadSensor, StateSend, Acked, AckTimeout, Same,
     SendPairRequest, SendData, Frames
<1>4. CASE StateSendTcp \/ AckTimeoutTcp
  BY <1>4 DEF StateSendTcp, AckTimeoutTcp
<1>5. CASE StateSleep
  BY <1>5 DEF StateSleep, DoDeepSleep, PowerDown, SleepTime
<1>6. CASE Console
  BY <1>6 DEF Console, SuspendNode, TelnetGone, KeyStatus, KeyRestart,
     KeyPair, Restart, PowerDown, machine
<1>7. CASE Radio
  <2>1. CASE RecvResponse \/ RecvAck \/ RecvRestart
    BY <2>1 DEF RecvResponse, RecvAck, RecvRestart, Restart, PowerDown
  <2>2. CASE HubRequest \/ HubData
    BY <2>2 DEF HubRequest, HubData, machine, Frames
  <2>3. CASE HubRemove \/ Lose
    BY <2>3 DEF HubRemove, Lose, machine
  <2>4. CASE TcpRegister
    BY <2>4 DEF TcpRegister
  <2>. QED
    BY <1>7, <2>1, <2>2, <2>3, <2>4, Zenon DEF Radio
<1>8. CASE Tick
  BY <1>8 DEF Tick
<1>. QED
  BY <1>1, <1>2, <1>3, <1>4, <1>5, <1>6, <1>7, <1>8, Zenon DEF Next, Loop

(* ... and the counters within their limits.                               *)
LEMMA CountersKept == ASSUME Places, Counters, Next PROVE Counters'
<1>. USE DEF Counters
<1>1. CASE Setup
  BY <1>1, SetupStep
<1>2. CASE WaitRadio \/ StateInit \/ StateInitTcp \/ Paired \/ PairTimeout
  BY <1>2 DEF WaitRadio, StateInit, StateInitTcp, Paired, PairTimeout, Same
<1>3. CASE ReadSensor \/ StateSend \/ Acked \/ AckTimeout
  BY <1>3 DEF ReadSensor, StateSend, Acked, AckTimeout, Same, MaxDataRetries
<1>4. CASE StateSendTcp \/ AckTimeoutTcp
  BY <1>4 DEF StateSendTcp, AckTimeoutTcp, MaxDataRetries
<1>5. CASE StateSleep
  BY <1>5 DEF StateSleep, DoDeepSleep, PowerDown
<1>6. CASE Console
  BY <1>6 DEF Console, SuspendNode, TelnetGone, KeyStatus, KeyRestart, KeyPair,
     Restart, PowerDown, machine
<1>7. CASE Radio
  <2>1. CASE RecvRestart
    BY <2>1 DEF RecvRestart, Restart, PowerDown
  <2>2. CASE RecvResponse \/ RecvAck
    BY <2>2 DEF RecvResponse, RecvAck
  <2>3. CASE HubRequest \/ HubData \/ HubRemove \/ Lose
    <3>. UNCHANGED <<state, pairs, retries, reads>>
      BY <2>3, Zenon DEF HubRequest, HubData, HubRemove, Lose, machine
    <3>. QED
      OBVIOUS
  <2>4. CASE TcpRegister
    BY <2>4 DEF TcpRegister
  <2>. QED
    BY <1>7, <2>1, <2>2, <2>3, <2>4, Zenon DEF Radio
<1>8. CASE Tick
  BY <1>8 DEF Tick
<1>. QED
  BY <1>1, <1>2, <1>3, <1>4, <1>5, <1>6, <1>7, <1>8, Zenon DEF Next, Loop

LEMMA BatteryKept ==
  ASSUME Counters, Shape, [Next]_vars PROVE Counters' /\ Shape'
<1>1. CASE Next
  BY <1>1, FlagsKept, PlacesKept, CountersKept DEF Shape
<1>2. CASE UNCHANGED vars
  BY <1>2 DEF vars, machine, hub, Counters, Shape, Flags, Places
<1>. QED
  BY <1>1, <1>2

(* Type: in particular no counter runs past its limit.                     *)
THEOREM TypeCorrect == Spec => []TypeOK
<1>1. Counters /\ Shape /\ [Next]_vars => Counters' /\ Shape'
  BY BatteryKept
<1>. QED
  BY ShapeAtStart, <1>1, TypeIs, PTL DEF Spec

-----------------------------------------------------------------------------
(* An ACK, on its way or received, stands for data that the hub heard      *)
(* since the node woke: nothing of it outlives deep sleep.                 *)
AckMeansHeard ==
  /\ acked \/ "ack" \in air => heard
  /\ state = "OFF" => ~acked /\ air = {}

(* Who is about to sleep was heard, has nothing to say, was not paired, or *)
(* will sleep for the short time.  The console can give a suspended node a *)
(* reading, but that node does not go on to sleep.                         *)
SleepHasReason ==
  state = "SLEEP" /\ suspend = "no" =>
    \/ heard \/ ~valid \/ pairs = MaxPair
    \/ reads >= MaxReadRetries \/ retries >= MaxDataRetries

LEMMA AckKept == ASSUME Shape, AckMeansHeard, Next PROVE AckMeansHeard'
<1>. USE DEF AckMeansHeard, Shape, Flags, Places, States
<1>1. CASE Setup
  BY <1>1, SetupStep
<1>2. CASE WaitRadio \/ StateInit \/ StateInitTcp \/ Paired \/ PairTimeout
  <2>1. CASE PairTimeout
    <3>1. UNCHANGED <<acked, heard>>
      BY <2>1, Zenon DEF PairTimeout, Same, hub
    <3>2. air' \subseteq air \cup {"request"}
      BY <2>1 DEF PairTimeout, SendPairRequest
    <3>3. state' # "OFF"
      BY <2>1 DEF PairTimeout
    <3>. QED
      BY <3>1, <3>2, <3>3
  <2>2. CASE WaitRadio \/ StateInitTcp \/ Paired
    BY <2>2 DEF WaitRadio, StateInitTcp, Paired, Same, Running, Awake, hub
  <2>3. CASE StateInit
    BY <2>3 DEF StateInit, Same, SendPairRequest, Running, Awake, hub
  <2>. QED
    BY <1>2, <2>1, <2>2, <2>3
<1>3. CASE ReadSensor \/ StateSend \/ Acked \/ AckTimeout
  BY <1>3 DEF ReadSensor, StateSend, Acked, AckTimeout, Same,
     SendPairRequest, SendData, Running, Awake, hub
<1>4. CASE StateSendTcp \/ AckTimeoutTcp
  BY <1>4 DEF StateSendTcp, AckTimeoutTcp, PostState, Running, Awake
<1>5. CASE StateSleep
  BY <1>5 DEF StateSleep, DoDeepSleep, PowerDown, hub
<1>6. CASE Console
  BY <1>6 DEF Console, SuspendNode, TelnetGone, KeyStatus, KeyRestart,
     KeyPair, Restart, PowerDown, Running, Awake, machine, hub
<1>7. CASE Radio
  <2>1. CASE RecvRestart
    BY <2>1 DEF RecvRestart, Restart, PowerDown
  <2>2. CASE RecvResponse
    BY <2>2 DEF RecvResponse, Awake, hub
  <2>3. CASE RecvAck
    BY <2>3 DEF RecvAck, Awake, hub
  <2>4. CASE HubRequest
    BY <2>4 DEF HubRequest, machine
  <2>5. CASE HubData
    BY <2>5 DEF HubData, machine
  <2>6. CASE HubRemove
    BY <2>6 DEF HubRemove, machine
  <2>7. CASE Lose
    BY <2>7 DEF Lose, machine, hub
  <2>8. CASE TcpRegister
    BY <2>8 DEF TcpRegister, Awake
  <2>. QED
    BY <1>7, <2>1, <2>2, <2>3, <2>4, <2>5, <2>6, <2>7, <2>8, Zenon DEF Radio
<1>8. CASE Tick
  <2>1. UNCHANGED <<state, acked, air, heard>>
    BY <1>8, Zenon DEF Tick, hub
  <2>. QED
    BY <2>1
<1>. QED
  BY <1>1, <1>2, <1>3, <1>4, <1>5, <1>6, <1>7, <1>8, Zenon DEF Next, Loop

LEMMA SleepKept ==
  ASSUME Shape, Counters, Counters', AckMeansHeard, SleepHasReason, Next
  PROVE  SleepHasReason'
<1>. USE DEF SleepHasReason, MaxDataRetries
<1>1. CASE Setup
  BY <1>1, SetupStep
<1>2. CASE WaitRadio \/ StateInit \/ StateInitTcp \/ Paired \/ PairTimeout
  <2>1. CASE PairTimeout
    <3>1. pairs' = pairs + 1 /\ pairs' \in 0 .. MaxPair
      BY <2>1 DEF PairTimeout, Counters
    <3>2. pairs' >= MaxPair \/ state' = "WAIT_PAIR"
      BY <2>1, Zenon DEF PairTimeout
    <3>. QED
      BY <3>1, <3>2
  <2>2. CASE WaitRadio \/ StateInit \/ StateInitTcp \/ Paired
    BY <2>2, Zenon DEF WaitRadio, StateInit, StateInitTcp, Paired
  <2>. QED
    BY <1>2, <2>1, <2>2
<1>3. CASE ReadSensor \/ StateSend \/ Acked \/ AckTimeout
  BY <1>3, Readings DEF ReadSensor, StateSend, Acked, AckTimeout, Same, Running,
     AckMeansHeard, hub, Shape
<1>4. CASE StateSendTcp \/ AckTimeoutTcp
  BY <1>4 DEF StateSendTcp, AckTimeoutTcp, PostState, Running
<1>5. CASE StateSleep
  BY <1>5 DEF StateSleep, DoDeepSleep, PowerDown
<1>6. CASE Console
  BY <1>6 DEF Console, SuspendNode, TelnetGone, KeyStatus, KeyRestart,
     KeyPair, Restart, PowerDown, machine, hub
<1>7. CASE Radio
  BY <1>7 DEF Radio, RecvResponse, RecvAck, RecvRestart, HubRequest, HubData,
     HubRemove, Lose, TcpRegister, Restart, PowerDown, machine, hub
<1>8. CASE Tick
  BY <1>8 DEF Tick
<1>. QED
  BY <1>1, <1>2, <1>3, <1>4, <1>5, <1>6, <1>7, <1>8, Zenon DEF Next, Loop

(* The sleep after SLEEP is the whole interval for a reason only.          *)
LEMMA QuietStep ==
  ASSUME Shape, SleepHasReason, Next,
         state = "SLEEP", nap' = "interval", ~Awake'
  PROVE  heard \/ ~valid \/ pairs = MaxPair
<1>. USE DEF Awake
<1>1. CASE StateSleep
  BY <1>1 DEF StateSleep, DoDeepSleep, SleepTime, Running, SleepHasReason
<1>2. CASE Console \/ Radio
  BY <1>2 DEF Console, SuspendNode, TelnetGone, KeyStatus, KeyRestart,
     KeyPair, Restart, PowerDown, Radio, RecvResponse, RecvAck, RecvRestart,
     HubRequest, HubData, HubRemove, Lose, TcpRegister, machine
<1>3. CASE Setup
  BY <1>3 DEF Setup, SetupAcquiry, SetupAcquiryTcp, SetupSoil
<1>4. CASE Loop /\ ~StateSleep
  BY <1>4 DEF Loop, WaitRadio, StateInit, StateInitTcp, Paired, PairTimeout,
     ReadSensor, StateSend, StateSendTcp, Acked, AckTimeout, AckTimeoutTcp
<1>5. CASE Tick
  BY <1>5 DEF Tick
<1>. QED
  BY <1>1, <1>2, <1>3, <1>4, <1>5, Zenon DEF Next

(* Through lost and late ACKs, repeated sends and whatever is done at the  *)
(* console, a node that had something to say and was not heard comes back  *)
(* after the short time (WAIT_ACK and SLEEP).                              *)
THEOREM QuietOnlyIfHeardHolds == Spec => QuietOnlyIfHeard
<1>. DEFINE IInv == Shape /\ Counters /\ AckMeansHeard /\ SleepHasReason
<1>1. Init => IInv
  <2>. SUFFICES ASSUME Init PROVE IInv
    OBVIOUS
  <2>1. AckMeansHeard /\ SleepHasReason
    BY DEF Init, AckMeansHeard, SleepHasReason
  <2>. QED
    BY <2>1, ShapeAtStart
<1>2. IInv /\ [Next]_vars => IInv'
  <2>1. CASE Next
    BY <2>1, FlagsKept, PlacesKept, CountersKept, AckKept, SleepKept DEF Shape
  <2>2. CASE UNCHANGED vars
    BY <2>2 DEF vars, machine, hub, Shape, Flags, Places, Counters,
       AckMeansHeard, SleepHasReason
  <2>. QED
    BY <2>1, <2>2
<1>3. IInv /\ [Next]_vars
        => [state = "SLEEP" /\ nap' = "interval" /\ ~Awake'
              => heard \/ ~valid \/ pairs = MaxPair]_vars
  BY QuietStep
<1>. QED
  BY <1>1, <1>2, <1>3, PTL DEF Spec, QuietOnlyIfHeard

-----------------------------------------------------------------------------
(* The relay node *)

RelayFlags ==
  /\ relay \in BOOLEAN /\ relayStored \in BOOLEAN /\ synced \in BOOLEAN
  /\ apMode \in BOOLEAN /\ radio \in BOOLEAN /\ paired \in BOOLEAN
  /\ report \in BOOLEAN /\ people \in BOOLEAN

RelayPlaces ==
  /\ node \in RelayKinds /\ startup \in 0 .. 2
  /\ pulse \in {"none", "running", "over"} /\ pulseSet \in {"off", "on", "skip"}
  /\ cycle \in {"off", "waiting", "over"}
  /\ presses \in 0 .. 2 /\ ota \in {"idle", "busy", "stuck"}
  /\ net \in {"lost", "up", "portal"}

LEMMA RelayTypeIs == RelayFlags /\ RelayPlaces <=> RelayTypeOK
BY Zenon DEF RelayFlags, RelayPlaces, RelayTypeOK

(* The relay starts on or off. *)
LEMMA InitHardwareIs ==
  ASSUME startup \in 0 .. 2, relayStored \in BOOLEAN PROVE InitHardware \in BOOLEAN
<1>1. CASE startup = 0
  BY <1>1 DEF InitHardware
<1>2. CASE startup = 1
  BY <1>2 DEF InitHardware
<1>3. CASE startup = 2
  BY <1>3 DEF InitHardware
<1>. QED
  BY <1>1, <1>2, <1>3

(* What a start leaves, whichever build and however it came about.         *)
LEMMA StartStep ==
  ASSUME RelayFlags, startup \in 0 .. 2,
         SetupRelay \/ SetupLamp(~apMode) \/ SetupLamp(FALSE) \/ SetupLora
  PROVE  /\ \E on \in BOOLEAN : Started(on)
         /\ apMode' \in BOOLEAN /\ radio' \in BOOLEAN
<1>. USE DEF RelayFlags
<1>1. ASSUME NEW mode \in BOOLEAN, SetupLamp(mode)
      PROVE  /\ Started(InitHardware)
             /\ apMode' \in BOOLEAN /\ radio' \in BOOLEAN
  BY <1>1, Zenon DEF SetupLamp
<1>2. ASSUME SetupSwitch
      PROVE  /\ Started(InitHardware)
             /\ apMode' \in BOOLEAN /\ radio' \in BOOLEAN
  BY <1>2, Zenon DEF SetupSwitch
<1>3. ASSUME SetupLora
      PROVE  /\ Started(relayStored)
             /\ apMode' \in BOOLEAN /\ radio' \in BOOLEAN
  BY <1>3, Zenon DEF SetupLora
<1>4. apMode \in BOOLEAN /\ (~apMode) \in BOOLEAN /\ FALSE \in BOOLEAN
      /\ relayStored \in BOOLEAN /\ InitHardware \in BOOLEAN
  BY InitHardwareIs
<1>. QED
  BY <1>1, <1>2, <1>3, <1>4, Zenon DEF SetupRelay

(* What a change of the relay does, whoever asks for it; a countdown is    *)
(* left by no other change than the one that switches the relay on.        *)
LEMMA SetRelayStep ==
  ASSUME RelayFlags, RelayPlaces, NEW on \in BOOLEAN, NEW cyclic \in BOOLEAN,
         NEW timer \in BOOLEAN, SetRelay(on, cyclic, timer)
  PROVE  /\ relay' = on /\ relayStored' \in BOOLEAN /\ report' \in BOOLEAN
         /\ pulse' \in {"none", "running", "over"}
         /\ cycle' \in {"off", "waiting", "over"}
         /\ pulse' # "none" => relay'
<1>1. relay' = on /\ relayStored' = on
  BY Zenon DEF SetRelay
<1>2. report' \in BOOLEAN
  <2>1. CASE paired
    BY <2>1 DEF SetRelay, RelayFlags
  <2>2. CASE ~paired
    BY <2>2 DEF SetRelay, RelayFlags
  <2>. QED
    BY <2>1, <2>2
<1>3. /\ pulse' \in {"none", "running"}
      /\ cycle' \in {"off", "waiting", "over"}
  BY DEF SetRelay, PulseStart, CyclicReset, RelayPlaces
<1>4. pulse' # "none" => on
  BY Zenon DEF SetRelay
<1>. QED
  BY <1>1, <1>2, <1>3, <1>4, Zenon

(* A start stops the countdown; ...                                        *)
LEMMA StartTyped ==
  ASSUME RelayFlags, RelayPlaces, NEW on \in BOOLEAN, Started(on),
         apMode' \in BOOLEAN, radio' \in BOOLEAN
  PROVE  RelayFlags' /\ RelayPlaces' /\ pulse' = "none"
<1>1. RelayFlags'
  BY Zenon DEF RelayFlags, Started
<1>2. RelayPlaces' /\ pulse' = "none"
  BY DEF RelayPlaces, Started
<1>. QED
  BY <1>1, <1>2

(* ... whoever sets the relay leaves one only when it is on; ...           *)
LEMMA SetTyped ==
  ASSUME RelayFlags, RelayPlaces, NEW on \in BOOLEAN, NEW cyclic \in BOOLEAN,
         NEW timer \in BOOLEAN, SetRelay(on, cyclic, timer), Kept,
         presses' \in 0 .. 2
  PROVE  RelayFlags' /\ RelayPlaces' /\ (pulse' # "none" => relay')
<1>1. RelayFlags'
  BY SetRelayStep, Zenon DEF RelayFlags, Kept, netVars
<1>2. RelayPlaces'
  BY SetRelayStep DEF RelayPlaces, Kept, netVars
<1>. QED
  BY <1>1, <1>2, SetRelayStep

(* ... and nothing else starts one or touches the relay.                   *)
Bystanding ==
  relay' = relay /\ (pulse' = pulse \/ pulse = "running")

LEMMA TimesPass ==
  ASSUME RelayFlags, RelayPlaces,
         \/ Countdown \/ ApiTimers \/ ButtonWindow \/ RadioLoop \/ OnTimeSync
         \/ \E mode \in 0 .. 2 : ApiSettings(mode)
  PROVE  RelayFlags' /\ RelayPlaces' /\ Bystanding
<1>1. CASE Countdown
  <2>1. RelayFlags' /\ relay' = relay
    BY <1>1, Zenon DEF Countdown, RelayFlags, netVars
  <2>2. RelayPlaces' /\ (pulse' = pulse \/ pulse = "running")
    BY <1>1 DEF Countdown, RelayPlaces, netVars
  <2>. QED
    BY <2>1, <2>2 DEF Bystanding
<1>2. CASE ApiTimers
  <2>1. RelayFlags' /\ relay' = relay /\ pulse' = pulse
    BY <1>2, Zenon DEF ApiTimers, Untouched, RelayFlags
  <2>2. RelayPlaces'
    BY <1>2, RelayAssumption DEF ApiTimers, Untouched, RelayPlaces
  <2>. QED
    BY <2>1, <2>2 DEF Bystanding
<1>3. CASE ButtonWindow
  <2>1. RelayFlags' /\ relay' = relay /\ pulse' = pulse
    BY <1>3, Zenon DEF ButtonWindow, RelayFlags, netVars, timerVars
  <2>2. RelayPlaces'
    BY <1>3 DEF ButtonWindow, RelayPlaces, netVars, timerVars
  <2>. QED
    BY <2>1, <2>2 DEF Bystanding
<1>4. CASE RadioLoop
  <2>1. RelayFlags' /\ relay' = relay /\ pulse' = pulse
    BY <1>4, Zenon DEF RadioLoop, Payload, RelayFlags, netVars, timerVars
  <2>2. RelayPlaces'
    BY <1>4 DEF RadioLoop, RelayPlaces, netVars, timerVars
  <2>. QED
    BY <2>1, <2>2 DEF Bystanding
<1>5. CASE OnTimeSync
  <2>1. RelayFlags' /\ relay' = relay /\ pulse' = pulse
    BY <1>5, Zenon DEF OnTimeSync, RelayFlags, netVars
  <2>2. RelayPlaces'
    BY <1>5 DEF OnTimeSync, RelayPlaces, netVars
  <2>. QED
    BY <2>1, <2>2 DEF Bystanding
<1>6. ASSUME NEW mode \in 0 .. 2, ApiSettings(mode)
      PROVE  RelayFlags' /\ RelayPlaces' /\ Bystanding
  <2>1. RelayFlags' /\ relay' = relay /\ pulse' = pulse
    BY <1>6, Zenon DEF ApiSettings, Untouched, RelayFlags
  <2>2. RelayPlaces'
    BY <1>6 DEF ApiSettings, Untouched, RelayPlaces
  <2>. QED
    BY <2>1, <2>2 DEF Bystanding
<1>. QED
  BY <1>1, <1>2, <1>3, <1>4, <1>5, <1>6

LEMMA NetworksPass ==
  ASSUME RelayFlags, RelayPlaces,
         \/ ApiWifi \/ ApiWifiLora \/ ForceRepair \/ WifiLost \/ OnPairingFailed
         \/ PairedOrNot \/ OnWifiConnected
  PROVE  RelayFlags' /\ RelayPlaces' /\ Bystanding
<1>1. CASE ApiWifi \/ ApiWifiLora \/ ForceRepair \/ WifiLost \/ OnPairingFailed
  <2>1. RelayFlags' /\ relay' = relay /\ pulse' = pulse
    BY <1>1, Zenon DEF ApiWifi, ApiWifiLora, ForceRepair, WifiLost,
       OnPairingFailed, Untouched, RelayFlags
  <2>2. RelayPlaces'
    BY <1>1 DEF ApiWifi, ApiWifiLora, ForceRepair, WifiLost, OnPairingFailed,
       Untouched, RelayPlaces
  <2>. QED
    BY <2>1, <2>2 DEF Bystanding
<1>2. CASE PairedOrNot
  <2>1. RelayFlags' /\ relay' = relay /\ pulse' = pulse
    BY <1>2, Zenon DEF PairedOrNot, Untouched, RelayFlags
  <2>2. RelayPlaces'
    BY <1>2 DEF PairedOrNot, Untouched, RelayPlaces
  <2>. QED
    BY <2>1, <2>2 DEF Bystanding
<1>3. CASE OnWifiConnected
  <2>1. RelayFlags' /\ relay' = relay /\ pulse' = pulse
    BY <1>3, Zenon DEF OnWifiConnected, RelayFlags, timerVars
  <2>2. RelayPlaces'
    BY <1>3 DEF OnWifiConnected, RelayPlaces, timerVars
  <2>. QED
    BY <2>1, <2>2 DEF Bystanding
<1>. QED
  BY <1>1, <1>2, <1>3

LEMMA UploadsPass ==
  ASSUME RelayFlags, RelayPlaces,
         \/ UploadStart \/ HandleOtaError \/ HandleOtaErrorSwitch
         \/ UploadAborted \/ Leave
  PROVE  RelayFlags' /\ RelayPlaces' /\ Bystanding
<1>1. CASE Leave
  <2>1. RelayFlags' /\ relay' = relay /\ pulse' = pulse
    BY <1>1, Zenon DEF Leave, RelayFlags, netVars, timerVars
  <2>2. RelayPlaces'
    BY <1>1 DEF Leave, RelayPlaces, netVars, timerVars
  <2>. QED
    BY <2>1, <2>2 DEF Bystanding
<1>2. ASSUME NEW next \in {"idle", "busy", "stuck"}, OtaIs(next)
      PROVE  RelayFlags' /\ RelayPlaces' /\ Bystanding
  <2>1. RelayFlags' /\ relay' = relay /\ pulse' = pulse
    BY <1>2, Zenon DEF OtaIs, RelayFlags, netVars, timerVars
  <2>2. RelayPlaces'
    BY <1>2 DEF OtaIs, RelayPlaces, netVars, timerVars
  <2>. QED
    BY <2>1, <2>2 DEF Bystanding
<1>. QED
  BY <1>1, <1>2
  DEF UploadStart, HandleOtaError, HandleOtaErrorSwitch, UploadAborted

LEMMA RelaySet ==
  ASSUME RelayFlags, RelayPlaces,
         \/ \E on \in BOOLEAN : ApiRelay(on) \/ OnCommand(on) \/ TimerFire(on)
         \/ LoraToggle \/ ButtonSwitch \/ CyclicCheck \/ PulseCheck
         \/ ButtonLamp /\ presses # 2
  PROVE  RelayFlags' /\ RelayPlaces' /\ (pulse' # "none" => relay')
<1>1. TRUE \in BOOLEAN /\ FALSE \in BOOLEAN /\ (~relay) \in BOOLEAN
  BY Zenon DEF RelayFlags
<1>2. presses \in 0 .. 2
  BY DEF RelayPlaces
<1>3. ASSUME NEW on \in BOOLEAN, ApiRelay(on) \/ OnCommand(on) \/ TimerFire(on)
      PROVE  RelayFlags' /\ RelayPlaces' /\ (pulse' # "none" => relay')
  BY <1>1, <1>2, <1>3, SetTyped, Zenon DEF ApiRelay, OnCommand, TimerFire
<1>4. CASE LoraToggle \/ ButtonSwitch \/ CyclicCheck \/ PulseCheck
  BY <1>1, <1>2, <1>4, SetTyped, Zenon
  DEF LoraToggle, ButtonSwitch, CyclicCheck, PulseCheck
<1>5. CASE ButtonLamp /\ presses # 2
  <2>1. presses + 1 \in 0 .. 2
    BY <1>2, <1>5
  <2>2. presses' = presses + 1 /\ SetRelay(~relay, FALSE, FALSE) /\ Kept
    BY <1>5, Zenon DEF ButtonLamp
  <2>. QED
    BY <1>1, <2>1, <2>2, SetTyped, Zenon
<1>. QED
  BY <1>3, <1>4, <1>5, Zenon

LEMMA RelayStarts ==
  ASSUME RelayFlags, RelayPlaces,
         \/ RestartRelay \/ OpModeSave \/ Watchdog \/ HandleWifi \/ HandleOta
         \/ ButtonLamp /\ presses = 2
  PROVE  RelayFlags' /\ RelayPlaces' /\ (pulse' # "none" => relay')
<1>1. startup \in 0 .. 2
  BY DEF RelayPlaces
<1>2. SetupRelay \/ SetupLamp(~apMode) \/ SetupLamp(FALSE) \/ SetupLora
  BY Zenon DEF RestartRelay, OpModeSave, Watchdog, HandleWifi, HandleOta,
     ButtonLamp, SetupRelay
<1>3. /\ \E on \in BOOLEAN : Started(on)
      /\ apMode' \in BOOLEAN /\ radio' \in BOOLEAN
  BY <1>1, <1>2, StartStep
<1>. QED
  BY <1>3, StartTyped

LEMMA RelayKept ==
  ASSUME RelayFlags, RelayPlaces, RelayNext
  PROVE  RelayFlags' /\ RelayPlaces' /\ (Bystanding \/ (pulse' # "none" => relay'))
BY TimesPass, NetworksPass, UploadsPass, RelaySet, RelayStarts, Zenon
DEF RelayNext, HandleConsole, LoopRelay, Upload

LEMMA RelayUnchanged ==
  ASSUME RelayFlags, RelayPlaces, UNCHANGED relayVars
  PROVE  RelayFlags' /\ RelayPlaces' /\ Bystanding
<1>1. RelayFlags' /\ relay' = relay /\ pulse' = pulse
  BY Zenon DEF relayVars, RelayFlags, timerVars, netVars
<1>2. RelayPlaces'
  BY DEF relayVars, RelayPlaces, timerVars, netVars
<1>. QED
  BY <1>1, <1>2 DEF Bystanding

LEMMA RelayAtStart == RelayInit => RelayFlags /\ RelayPlaces /\ CountdownIsOurs
<1>. SUFFICES ASSUME RelayInit
              PROVE  RelayFlags /\ RelayPlaces /\ CountdownIsOurs
  OBVIOUS
<1>1. RelayFlags
  BY Zenon DEF RelayInit, RelayFlags
<1>2. RelayPlaces /\ CountdownIsOurs
  BY DEF RelayInit, RelayPlaces, CountdownIsOurs
<1>. QED
  BY <1>1, <1>2

(* A countdown never outlives the state of the relay that it belongs to,   *)
(* on a lamp, a switch or a LoRa node, through starts, updates and all who *)
(* set the relay (set_relay, pulse_cancel).                                *)
THEOREM CountdownIsOursHolds == RelaySpec => []CountdownIsOurs
<1>. DEFINE Inv == RelayFlags /\ RelayPlaces /\ CountdownIsOurs
<1>1. Inv /\ [RelayNext]_relayVars => Inv'
  <2>. SUFFICES ASSUME Inv, [RelayNext]_relayVars PROVE Inv'
    OBVIOUS
  <2>1. RelayFlags' /\ RelayPlaces' /\ (Bystanding \/ (pulse' # "none" => relay'))
    BY RelayKept, RelayUnchanged, Zenon
  <2>2. Bystanding => (pulse' # "none" => relay')
    BY DEF Bystanding, CountdownIsOurs
  <2>. QED
    BY <2>1, <2>2 DEF CountdownIsOurs
<1>. QED
  BY RelayAtStart, <1>1, PTL DEF RelaySpec

(* Every variable of a relay node keeps its type.                          *)
THEOREM RelayTypeCorrect == RelaySpec => []RelayTypeOK
<1>1. RelayFlags /\ RelayPlaces /\ [RelayNext]_relayVars
        => RelayFlags' /\ RelayPlaces'
  BY RelayKept, RelayUnchanged, Zenon
<1>. QED
  BY RelayAtStart, <1>1, RelayTypeIs, PTL DEF RelaySpec

-----------------------------------------------------------------------------
(* The sensor node *)

SensorFlags ==
  /\ ap \in BOOLEAN /\ sensorNet \in BOOLEAN /\ station \in BOOLEAN
  /\ deadline \in BOOLEAN /\ still \in BOOLEAN /\ led \in BOOLEAN
  /\ enabled \in BOOLEAN /\ saved \in BOOLEAN /\ sensorPaired \in BOOLEAN

SensorPlaces ==
  /\ build \in SensorKinds
  /\ phase \in {"boot", "portal", "run", "blocked"}
  /\ wifi \in {"IDLE", "RECONNECTING"}
  /\ tried \in 0 .. TryGap /\ opened \in 0 .. PortalGap + 1

Readouts ==
  world \in Sensor!Levels /\ level \in Sensor!Levels /\ sensorReport \in Sensor!Levels

SensorShape == SensorFlags /\ SensorPlaces /\ Readouts

LEMMA SensorTypeIs == SensorShape => Sensor!TypeOK
BY Zenon DEF SensorShape, SensorFlags, SensorPlaces, Readouts, Sensor!TypeOK

LEMMA SensorAtStart == Sensor!Init => SensorShape
<1>. SUFFICES ASSUME Sensor!Init PROVE SensorShape
  OBVIOUS
<1>1. SensorFlags
  BY Zenon DEF Sensor!Init, SensorFlags
<1>2. SensorPlaces /\ Readouts
  BY NodesAssumption DEF Sensor!Init, SensorPlaces, Readouts, Sensor!Levels
<1>. QED
  BY <1>1, <1>2 DEF SensorShape

LEMMA SensorFlagsKept == ASSUME SensorFlags, Sensor!Next PROVE SensorFlags'
<1>. USE DEF SensorFlags
<1>1. CASE Sensor!Setup \/ Sensor!Reboot
  BY <1>1, Zenon DEF Sensor!Setup, Sensor!Reboot, Sensor!senseVars
<1>2. ASSUME NEW filled \in BOOLEAN, Sensor!LeavePortal(filled) PROVE SensorFlags'
  BY <1>2, Zenon DEF Sensor!LeavePortal, Sensor!senseVars
<1>3. CASE Sensor!Maintain
  BY <1>3, Zenon
  DEF Sensor!Maintain, Sensor!TryReconnect, Sensor!ReconnectTimeout,
      Sensor!MaintainPresence, Sensor!OpenPortal, Sensor!Same, Sensor!senseVars
<1>4. CASE Sensor!Connect \/ Sensor!AccessPoint \/ Sensor!OnPairingFailed
  BY <1>4, Zenon
  DEF Sensor!Connect, Sensor!AccessPoint, Sensor!OnPairingFailed, Sensor!Same,
      Sensor!senseVars
<1>5. CASE Sensor!Work
  BY <1>5, Zenon
  DEF Sensor!Work, Sensor!WorkClimate, Sensor!WorkRain, Sensor!WorkPresence,
      Sensor!Worked, Sensor!netVars
<1>6. CASE Sensor!KeyRead
  BY <1>6, Zenon DEF Sensor!KeyRead, Sensor!Worked, Sensor!netVars
<1>7. CASE Sensor!Pair \/ Sensor!Settings \/ Sensor!World
  BY <1>7, Zenon
  DEF Sensor!Pair, Sensor!Settings, Sensor!World, Sensor!netVars, Sensor!senseVars
<1>8. CASE Sensor!Tick
  BY <1>8, Zenon DEF Sensor!Tick
<1>. QED
  BY <1>1, <1>2, <1>3, <1>4, <1>5, <1>6, <1>7, <1>8, Zenon DEF Sensor!Next

LEMMA SensorPlacesKept ==
  ASSUME SensorPlaces, Sensor!Next PROVE SensorPlaces' /\ build' = build
<1>. USE NodesAssumption DEF SensorPlaces
<1>1. CASE Sensor!Setup \/ Sensor!Reboot
  BY <1>1 DEF Sensor!Setup, Sensor!Reboot
<1>2. ASSUME NEW filled \in BOOLEAN, Sensor!LeavePortal(filled)
      PROVE  SensorPlaces' /\ build' = build
  BY <1>2 DEF Sensor!LeavePortal
<1>3. CASE Sensor!Maintain
  BY <1>3
  DEF Sensor!Maintain, Sensor!TryReconnect, Sensor!ReconnectTimeout,
      Sensor!MaintainPresence, Sensor!OpenPortal, Sensor!Same
<1>4. CASE Sensor!Connect \/ Sensor!AccessPoint \/ Sensor!OnPairingFailed
  BY <1>4
  DEF Sensor!Connect, Sensor!AccessPoint, Sensor!OnPairingFailed, Sensor!Same
<1>5. CASE Sensor!Work \/ Sensor!KeyRead
  BY <1>5
  DEF Sensor!Work, Sensor!WorkClimate, Sensor!WorkRain, Sensor!WorkPresence,
      Sensor!KeyRead, Sensor!Worked, Sensor!netVars
<1>6. CASE Sensor!Pair \/ Sensor!Settings \/ Sensor!World
  BY <1>6 DEF Sensor!Pair, Sensor!Settings, Sensor!World, Sensor!netVars
<1>7. CASE Sensor!Tick
  BY <1>7 DEF Sensor!Tick
<1>. QED
  BY <1>1, <1>2, <1>3, <1>4, <1>5, <1>6, <1>7, Zenon DEF Sensor!Next

(* What is read is a level the build knows.                                *)
LEMMA ReadingsKept ==
  ASSUME SensorPlaces, Readouts, build' = build, Sensor!Next PROVE Readouts'
<1>. USE DEF Readouts
<1>0. Sensor!Levels' = Sensor!Levels
  BY DEF Sensor!Levels
<1>1. 0 \in Sensor!Levels /\ 2 \in Sensor!Levels
  BY DEF Sensor!Levels
<1>2. Sensor!ReadSensors \in Sensor!Levels /\ Sensor!ReadRain \in Sensor!Levels
      /\ Sensor!ReadPir \in Sensor!Levels
  BY <1>1 DEF Sensor!ReadSensors, Sensor!ReadRain, Sensor!ReadPir
<1>3. ASSUME level' \in Sensor!Levels, world' = world,
             \/ Sensor!Publish(level') \/ UNCHANGED sensorReport
      PROVE  Readouts'
  BY <1>0, <1>3 DEF Sensor!Publish
<1>4. CASE Sensor!Setup \/ Sensor!Reboot
  BY <1>0, <1>1, <1>4 DEF Sensor!Setup, Sensor!Reboot, Sensor!senseVars
<1>5. ASSUME NEW filled \in BOOLEAN, Sensor!LeavePortal(filled) PROVE Readouts'
  BY <1>0, <1>5 DEF Sensor!LeavePortal, Sensor!senseVars
<1>6. CASE Sensor!Maintain
  BY <1>0, <1>6
  DEF Sensor!Maintain, Sensor!TryReconnect, Sensor!ReconnectTimeout,
      Sensor!MaintainPresence, Sensor!Same, Sensor!senseVars
<1>7. CASE Sensor!Connect \/ Sensor!AccessPoint \/ Sensor!OnPairingFailed
  BY <1>0, <1>7
  DEF Sensor!Connect, Sensor!AccessPoint, Sensor!OnPairingFailed, Sensor!Same,
      Sensor!senseVars
<1>8. CASE Sensor!Work
  BY <1>2, <1>3, <1>8
  DEF Sensor!Work, Sensor!WorkClimate, Sensor!WorkRain, Sensor!WorkPresence,
      Sensor!Worked
<1>9. CASE Sensor!KeyRead
  <2>1. level' \in Sensor!Levels
    BY <1>2, <1>9, NodesAssumption DEF Sensor!KeyRead, SensorPlaces
  <2>. QED
    BY <1>3, <1>9, <2>1 DEF Sensor!KeyRead, Sensor!Worked
<1>10. CASE Sensor!Pair \/ Sensor!Settings
  BY <1>0, <1>10 DEF Sensor!Pair, Sensor!Settings, Sensor!senseVars
<1>11. CASE Sensor!World
  BY <1>0, <1>11 DEF Sensor!World, Sensor!senseVars
<1>12. CASE Sensor!Tick
  BY <1>0, <1>12 DEF Sensor!Tick
<1>. QED
  BY <1>4, <1>5, <1>6, <1>7, <1>8, <1>9, <1>10, <1>11, <1>12, Zenon
  DEF Sensor!Next

LEMMA SensorKept ==
  ASSUME SensorShape, [Sensor!Next]_sensorVars PROVE SensorShape'
<1>1. CASE Sensor!Next
  BY <1>1, SensorFlagsKept, SensorPlacesKept, ReadingsKept DEF SensorShape
<1>2. CASE UNCHANGED sensorVars
  <2>1. SensorFlags'
    BY <1>2, Zenon DEF sensorVars, SensorShape, SensorFlags
  <2>2. SensorPlaces' /\ Readouts'
    BY <1>2 DEF sensorVars, SensorShape, SensorPlaces, Readouts, Sensor!Levels
  <2>. QED
    BY <2>1, <2>2 DEF SensorShape
<1>. QED
  BY <1>1, <1>2

-----------------------------------------------------------------------------
(* The LoRa switch and its hub *)

AvrFlags ==
  /\ avrRelay \in BOOLEAN /\ avrPaired \in BOOLEAN /\ flag \in BOOLEAN
  /\ ready \in BOOLEAN /\ listens \in BOOLEAN /\ linked \in BOOLEAN
  /\ listed \in BOOLEAN /\ shown \in BOOLEAN /\ pending \in BOOLEAN
  /\ told \in BOOLEAN

AvrPlaces ==
  /\ asked \in 0 .. Attempts
  /\ got \in Avr!DownFrames \cup {"none"}
  /\ up \in Avr!UpFrames \cup {"none"} /\ down \in Avr!DownFrames \cup {"none"}
  /\ loraTroubles \in 0 .. LoraTroubles

AvrShape == AvrFlags /\ AvrPlaces

LEMMA AvrTypeIs == AvrShape => Avr!LTypeOK
BY Zenon DEF AvrShape, AvrFlags, AvrPlaces, Avr!LTypeOK

LEMMA AvrAtStart == Avr!LInit => AvrShape
<1>. SUFFICES ASSUME Avr!LInit PROVE AvrShape
  OBVIOUS
<1>1. AvrFlags
  BY Zenon DEF Avr!LInit, AvrFlags
<1>2. AvrPlaces
  BY NodesAssumption DEF Avr!LInit, AvrPlaces
<1>. QED
  BY <1>1, <1>2 DEF AvrShape

LEMMA AvrFlagsKept == ASSUME AvrFlags, Avr!LNext PROVE AvrFlags'
<1>. USE DEF AvrFlags, Avr!nodeVars, Avr!radioVars, Avr!hubSide
<1>1. CASE Avr!RestartAvr
  BY <1>1, Zenon DEF Avr!RestartAvr, Avr!SetupAvr
<1>2. CASE Avr!PairAttempt \/ Avr!SendState \/ Avr!SendHeartbeat
  BY <1>2, Zenon DEF Avr!PairAttempt, Avr!SendState, Avr!SendHeartbeat, Avr!Send
<1>3. CASE Avr!ToggleRelay \/ Avr!PairKey
  BY <1>3, Zenon DEF Avr!ToggleRelay, Avr!PairKey
<1>4. CASE Avr!LoraLoop
  BY <1>4, Zenon DEF Avr!LoraLoop, Avr!SetupAvr
<1>5. CASE Avr!Deliver \/ Avr!LoseFrame
  BY <1>5, Zenon DEF Avr!Deliver, Avr!LoseFrame
<1>6. CASE Avr!RxPairRequest \/ Avr!RxData
  BY <1>6, Zenon DEF Avr!RxPairRequest, Avr!RxData
<1>7. CASE Avr!ProcessBridge \/ Avr!SendLoraCommand
  BY <1>7, Zenon DEF Avr!ProcessBridge, Avr!SendLoraCommand
<1>. QED
  BY <1>1, <1>2, <1>3, <1>4, <1>5, <1>6, <1>7, Zenon DEF Avr!LNext

(* What is on the air or received is a frame of that direction.            *)
AvrFrames ==
  /\ got \in Avr!DownFrames \cup {"none"}
  /\ up \in Avr!UpFrames \cup {"none"} /\ down \in Avr!DownFrames \cup {"none"}

AvrCounters == asked \in 0 .. Attempts /\ loraTroubles \in 0 .. LoraTroubles

LEMMA AvrSent ==
  ASSUME NEW frame \in Avr!UpFrames, AvrFrames, down' = down, Avr!Send(frame)
  PROVE  AvrFrames'
<1>1. "none" \in Avr!DownFrames \cup {"none"}
      /\ frame \in Avr!UpFrames \cup {"none"}
  OBVIOUS
<1>. QED
  BY <1>1, Zenon DEF Avr!Send, AvrFrames

LEMMA AvrFramesKept == ASSUME AvrFrames, Avr!LNext PROVE AvrFrames'
<1>. DEFINE Ups == Avr!UpFrames \cup {"none"}
            Downs == Avr!DownFrames \cup {"none"}
<1>0. /\ "none" \in Ups /\ "none" \in Downs /\ "response" \in Downs
      /\ \A c \in Avr!Commands : c \in Downs
  BY DEF Avr!DownFrames
<1>1. "pair" \in Avr!UpFrames /\ "heartbeat" \in Avr!UpFrames
      /\ (IF avrRelay THEN "on" ELSE "off") \in Avr!UpFrames
  BY DEF Avr!UpFrames
<1>2. got \in Downs /\ up \in Ups /\ down \in Downs
  BY Zenon DEF AvrFrames
<1>3. SUFFICES \/ got' \in Downs /\ up' \in Ups /\ down' \in Downs
               \/ AvrFrames'
  BY Zenon DEF AvrFrames, Avr!UpFrames, Avr!DownFrames, Avr!Commands
<1>. HIDE DEF Ups, Downs
<1>4. CASE Avr!RestartAvr
  BY <1>0, <1>2, <1>4, Zenon DEF Avr!RestartAvr, Avr!SetupAvr
<1>5. CASE Avr!PairAttempt
  BY <1>1, <1>5, AvrSent DEF Avr!PairAttempt
<1>6. CASE Avr!SendState
  BY <1>1, <1>6, AvrSent DEF Avr!SendState
<1>7. CASE Avr!SendHeartbeat
  BY <1>1, <1>7, AvrSent DEF Avr!SendHeartbeat
<1>8. CASE Avr!ToggleRelay \/ Avr!PairKey
  BY <1>2, <1>8, Zenon DEF Avr!ToggleRelay, Avr!PairKey, Avr!radioVars
<1>9. CASE Avr!LoraLoop
  BY <1>0, <1>2, <1>9, Zenon DEF Avr!LoraLoop, Avr!SetupAvr
<1>10. CASE Avr!Deliver
  BY <1>0, <1>2, <1>10, Zenon DEF Avr!Deliver
<1>11. CASE Avr!LoseFrame
  BY <1>0, <1>2, <1>11, Zenon DEF Avr!LoseFrame, Avr!radioVars
<1>12. CASE Avr!RxPairRequest
  BY <1>0, <1>2, <1>12, Zenon DEF Avr!RxPairRequest, Avr!radioVars
<1>13. CASE Avr!RxData \/ Avr!ProcessBridge
  BY <1>0, <1>2, <1>13, Zenon DEF Avr!RxData, Avr!ProcessBridge, Avr!radioVars
<1>14. CASE Avr!SendLoraCommand
  BY <1>0, <1>2, <1>14, Zenon DEF Avr!SendLoraCommand, Avr!radioVars
<1>. QED
  BY <1>4, <1>5, <1>6, <1>7, <1>8, <1>9, <1>10, <1>11, <1>12, <1>13, <1>14,
     Zenon
  DEF Avr!LNext

(* The requests count up to their bound and start again, and so do the     *)
(* troubles, which do not start again.                                     *)
LEMMA AvrCountersKept == ASSUME AvrCounters, Avr!LNext PROVE AvrCounters'
<1>1. \/ asked' = asked \/ asked' = 0
      \/ asked < Attempts /\ asked' = asked + 1
  <2>1. CASE Avr!RestartAvr \/ Avr!PairAttempt \/ Avr!PairKey \/ Avr!LoraLoop
    BY <2>1, Zenon
    DEF Avr!RestartAvr, Avr!SetupAvr, Avr!PairAttempt, Avr!PairKey, Avr!LoraLoop
  <2>2. CASE Avr!SendState \/ Avr!SendHeartbeat \/ Avr!ToggleRelay
             \/ Avr!Deliver \/ Avr!LoseFrame
    BY <2>2, Zenon
    DEF Avr!SendState, Avr!SendHeartbeat, Avr!ToggleRelay, Avr!Deliver,
        Avr!LoseFrame, Avr!nodeVars
  <2>3. CASE Avr!RxPairRequest \/ Avr!RxData \/ Avr!ProcessBridge
             \/ Avr!SendLoraCommand
    BY <2>3, Zenon
    DEF Avr!RxPairRequest, Avr!RxData, Avr!ProcessBridge, Avr!SendLoraCommand,
        Avr!nodeVars
  <2>. QED
    BY <2>1, <2>2, <2>3, Zenon DEF Avr!LNext
<1>2. loraTroubles' = loraTroubles \/ Avr!LoraTrouble
  BY Zenon
  DEF Avr!LNext, Avr!RestartAvr, Avr!PairAttempt, Avr!PairKey, Avr!LoraLoop,
      Avr!SendState, Avr!SendHeartbeat, Avr!ToggleRelay, Avr!Deliver,
      Avr!LoseFrame, Avr!RxPairRequest, Avr!RxData, Avr!ProcessBridge,
      Avr!SendLoraCommand
<1>. QED
  BY <1>1, <1>2, NodesAssumption DEF AvrCounters, Avr!LoraTrouble

LEMMA AvrPlacesKept == ASSUME AvrPlaces, Avr!LNext PROVE AvrPlaces'
<1>1. AvrFrames' /\ AvrCounters'
  BY AvrFramesKept, AvrCountersKept DEF AvrPlaces, AvrFrames, AvrCounters
<1>. QED
  BY <1>1 DEF AvrPlaces, AvrFrames, AvrCounters

LEMMA AvrKept == ASSUME AvrShape, [Avr!LNext]_avrVars PROVE AvrShape'
<1>1. CASE Avr!LNext
  BY <1>1, AvrFlagsKept, AvrPlacesKept DEF AvrShape
<1>2. CASE UNCHANGED avrVars
  <2>1. AvrFlags'
    BY <1>2, Zenon DEF avrVars, AvrShape, AvrFlags
  <2>2. AvrPlaces'
    BY <1>2 DEF avrVars, AvrShape, AvrPlaces
  <2>. QED
    BY <2>1, <2>2 DEF AvrShape
<1>. QED
  BY <1>1, <1>2

-----------------------------------------------------------------------------
(* The nodes side by side: each keeps its types, whichever of them runs.   *)
THEOREM NodesTypeCorrect == NodesFairSpec => []NodesTypeOK
<1>. DEFINE Inv == /\ Counters /\ Shape /\ RelayFlags /\ RelayPlaces
                  /\ SensorShape /\ AvrShape
<1>1. NodesInit => Inv
  BY ShapeAtStart, RelayAtStart, SensorAtStart, AvrAtStart DEF NodesInit
<1>2. Inv /\ [NodesNext]_allVars => Inv'
  <2>. SUFFICES ASSUME Inv, [NodesNext]_allVars PROVE Inv'
    OBVIOUS
  <2>1. [Next]_vars /\ [RelayNext]_relayVars
        /\ [Sensor!Next]_sensorVars /\ [Avr!LNext]_avrVars
    BY Zenon
    DEF NodesNext, OnlyBattery, OnlySensor, OnlyRelay, OnlyAvr, allVars
  <2>. QED
    BY <2>1, BatteryKept, RelayKept, RelayUnchanged, SensorKept, AvrKept
<1>3. Inv => NodesTypeOK
  BY TypeIs, RelayTypeIs, SensorTypeIs, AvrTypeIs DEF NodesTypeOK
<1>. QED
  BY <1>1, <1>2, <1>3, PTL DEF NodesFairSpec
===============================================================================
