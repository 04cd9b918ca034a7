--------------------------- MODULE PairingWindow ----------------------------
(***************************************************************************)
(* When the hub lets new devices in: the pairing mode of its radios        *)
(* (EspnowHandler, TcpRadioHandler, RadioManager), the setting             *)
(* pairing_required in the EEPROM, and what decides about a request in     *)
(* handle_rx (hub/src/espnow_handler.cpp).                                 *)
(*                                                                         *)
(* The main loop closes the window after PAIRING_WINDOW_MS and reads the   *)
(* button and the console; the receive callback decides; the web server    *)
(* opens and closes the window from a task of its own and writes the two   *)
(* fields of EspnowHandler one after the other.  The build is the hybrid   *)
(* one, with the radios ESP-NOW and TCP; the status LED is left out.       *)
(*                                                                         *)
(* What happens to an accepted request is in module SensorRegistry.  Time  *)
(* is counted in ticks and only as the time since something happened; the  *)
(* two writes of the web server fall into one tick.                        *)
(***************************************************************************)
EXTENDS Naturals

CONSTANTS
  Window,    \* PAIRING_WINDOW_MS, in ticks
  MaxStall,  \* bound: ticks between two visits of the loop
  Starters,  \* who opens the window, of {"button", "console", "web"}
  Fill,      \* whether the registry is full, of BOOLEAN
  Policies   \* what the setting may be, of BOOLEAN

ASSUME WindowAssumption ==
  /\ Window \in Nat /\ MaxStall \in Nat
  /\ Starters \subseteq {"button", "console", "web"}
  /\ Fill \subseteq BOOLEAN /\ Fill # {}
  /\ Policies \subseteq BOOLEAN /\ Policies # {}

VARIABLES
  mode,      \* EspnowHandler::m_pairing_mode
  age,       \* millis() - EspnowHandler::m_pairing_start
  tcp,       \* TcpRadioHandler::m_pairing_mode
  required,  \* the setting, as handle_rx reads it
  full,      \* sensor_registry_count_paired() >= MAX_VIRTUAL_SENSORS
  waiting,   \* a new device is in m_pending_pairs
  opening,   \* the web server has set the mode and not yet the start
  stall,     \* ticks since the loop last came by
  since,     \* ticks since somebody last opened the window
  closed     \* why it was last closed

modeVars == <<mode, age, tcp, since, closed>>
windowVars == <<modeVars, required, full, waiting, opening, stall>>

Last == Window + MaxStall + 1

(* A mistake, in the form of the definition that follows it: the clock     *)
(* does not stop.  The runs tell such mistakes from the code.              *)
LaterPast(t) == t + 1

Later(t) == IF t < Last THEN t + 1 ELSE t

WInit ==
  /\ mode = FALSE /\ tcp = FALSE /\ age = 0 /\ since = Last
  /\ required \in Policies /\ full \in Fill
  /\ waiting = FALSE /\ opening = FALSE /\ stall = 0
  /\ closed = "never"

(* RadioManager::any_pairing_active *)
Active == mode \/ tcp

(* Mistake: the former start stays.                                        *)
StartPairingAgain ==
  IF full
    THEN tcp' = TRUE /\ UNCHANGED <<mode, age, since, closed>>
    ELSE mode' = TRUE /\ since' = 0 /\ UNCHANGED <<age, tcp, closed>>

(* RadioManager::any_start_pairing: the first radio that agrees.  ESP-NOW  *)
(* refuses when the registry is full; TCP agrees always.                   *)
StartPairing ==
  IF full
    THEN tcp' = TRUE /\ UNCHANGED <<mode, age, since, closed>>
    ELSE mode' = TRUE /\ age' = 0 /\ since' = 0 /\ UNCHANGED <<tcp, closed>>

-----------------------------------------------------------------------------
(* The main loop *)

(* The button, held for three seconds. *)
PressButton ==
  /\ "button" \in Starters
  /\ ~Active
  /\ StartPairing
  /\ UNCHANGED <<required, full, waiting, opening, stall>>

(* The key p of the console: also while the window is open. *)
TypeP ==
  /\ "console" \in Starters
  /\ StartPairing
  /\ UNCHANGED <<required, full, waiting, opening, stall>>

Expired == mode /\ age > Window

(* EspnowHandler::loop: the timeout, then the pairing queue. *)
Visit ==
  /\ stall' = 0
  /\ IF Expired THEN mode' = FALSE /\ closed' = "expired"
                ELSE UNCHANGED <<mode, closed>>
  /\ waiting' = FALSE
  /\ UNCHANGED <<age, tcp, since, required, full, opening>>

-----------------------------------------------------------------------------
(* Mistake: the policy is commented out. *)
MayPairAlways == TRUE

MayPair == required => mode

(* handle_rx, MSG_PAIR_REQUEST of a new device: queued, or a NAK with      *)
(* NAK_REASON_PAIRING_DISABLED.                                            *)
Request ==
  /\ MayPair
  /\ waiting' = TRUE
  /\ UNCHANGED <<modeVars, required, full, opening, stall>>

-----------------------------------------------------------------------------
(* The web server *)

(* POST /api/pair/start, which answers 409 while a radio is pairing:       *)
(* m_pairing_mode = true of EspnowHandler::start_pairing, or TCP's.        *)
WebOpen ==
  /\ "web" \in Starters /\ ~opening
  /\ ~Active
  /\ IF full
       THEN tcp' = TRUE /\ UNCHANGED <<mode, since, opening>>
       ELSE /\ mode' = TRUE /\ since' = 0 /\ opening' = TRUE
            /\ UNCHANGED tcp
  /\ UNCHANGED <<age, closed, required, full, waiting, stall>>

(* m_pairing_start = millis() *)
WebOpened ==
  /\ opening
  /\ opening' = FALSE
  /\ age' = 0
  /\ UNCHANGED <<mode, tcp, since, closed, required, full, waiting, stall>>

(* POST /api/pair/stop: RadioManager::all_stop_pairing. *)
WebStop ==
  /\ ~opening
  /\ mode' = FALSE /\ tcp' = FALSE
  /\ closed' = "stopped"
  /\ UNCHANGED <<age, since, required, full, waiting, opening, stall>>

(* POST /api/config/pairing *)
WebPolicy ==
  /\ ~opening
  /\ required' \in Policies
  /\ UNCHANGED <<modeVars, full, waiting, opening, stall>>

-----------------------------------------------------------------------------
(* Devices come and go in the registry. *)
Occupy ==
  /\ full' \in Fill
  /\ UNCHANGED <<modeVars, required, waiting, opening, stall>>

Tick ==
  /\ stall < MaxStall /\ ~opening
  /\ stall' = stall + 1
  /\ age' = Later(age) /\ since' = Later(since)
  /\ UNCHANGED <<mode, tcp, closed, required, full, waiting, opening>>

WNext ==
  \/ PressButton \/ TypeP \/ Visit
  \/ Request
  \/ WebOpen \/ WebOpened \/ WebStop \/ WebPolicy
  \/ Occupy \/ Tick

WSpec == WInit /\ [][WNext]_windowVars

-----------------------------------------------------------------------------
WTypeOK ==
  /\ mode \in BOOLEAN /\ tcp \in BOOLEAN /\ required \in BOOLEAN
  /\ full \in BOOLEAN /\ waiting \in BOOLEAN /\ opening \in BOOLEAN
  /\ age \in 0 .. Last /\ since \in 0 .. Last /\ stall \in 0 .. MaxStall
  /\ closed \in {"never", "stopped", "expired"}

(* Where pairing must be allowed, a new device is let in only while the    *)
(* window is open and at most one visit of the loop after its end: the     *)
(* callback looks at a flag that only the loop takes back.                 *)
LateAtMostOneVisit ==
  [][~waiting /\ waiting' /\ required => since <= Window + MaxStall]_windowVars

(* A window stays open for all of its time unless somebody stops it        *)
(* (dashboard documentation of POST /api/pair/start: "starts the pairing   *)
(* mode for PAIRING_WINDOW_MS"), whoever opened it and the one before it.  *)
(* Left out is the moment between the two writes of the web server.        *)
WindowLasts ==
  [][mode /\ ~mode' /\ closed' = "expired" /\ ~opening => since > Window]_windowVars
=============================================================================
