------------------------------- MODULE TcpLamps -------------------------------
(***************************************************************************)
(* Lamps on the TCP radio, and the mirroring of one lamp by another.       *)
(*                                                                         *)
(* The hub (hub/src/tcp_radio_handler.cpp) keeps a queue of commands for   *)
(* every device, from which the device takes one at a time with            *)
(* GET /node/command.  A lamp (nodes/lamp/src/main.cpp) whose sync is      *)
(* enabled posts every change of its relay to the hub as a command for     *)
(* another lamp, which it names by a slot it has cached.                   *)
(*                                                                         *)
(* A handler of the hub's web server is one step, and so is set_relay, as  *)
(* a lamp does nothing while it posts.  The state reports of the lamps     *)
(* change nothing here and are left out.                                   *)
(***************************************************************************)
EXTENDS Naturals, Sequences

CONSTANTS
  Lamps,
  Target,      \* target_device_id of every lamp, NoLamp where sync is disabled
  NoLamp,
  Used,        \* the lamps whose button, API, timers, pulse or Alexa are used
  Startup,     \* s_startup_mode: 0 off, 1 on, 2 as it was
  N,           \* MAX_VIRTUAL_SENSORS
  MaxUse,      \* bound: uses of them
  MaxIssue,    \* bound: commands from the dashboard, MQTT and Telegram
  Faults,      \* what may go wrong: "post", "command", "hub", "removal",
               \* "restart"
  MaxTroubles  \* bound: how often

ASSUME TcpLampsAssumption ==
  /\ NoLamp \notin Lamps
  /\ Target \in [Lamps -> Lamps \cup {NoLamp}]
  /\ \A l \in Lamps : Target[l] # l
  /\ Used \subseteq Lamps
  /\ Startup \in [Lamps -> 0 .. 2]
  /\ N \in Nat \ {0} /\ MaxUse \in Nat /\ MaxIssue \in Nat
  /\ Faults \subseteq {"post", "command", "hub", "removal", "restart"}
  /\ MaxTroubles \in Nat

Slots == 1 .. N
NoSlot == 0

VARIABLES
  relay,     \* s_relay_state, also in the EEPROM
  last,      \* s_last_sync_state
  recent,    \* the last sync was sent less than 500 ms ago
  cached,    \* s_sync_target_slot
  slots,     \* bridge_device_id of the paired slots
  pending,   \* m_pending_commands, a queue for every device
  uses, issues, troubles

lampVars == <<relay, last, recent, cached>>
hubVars == <<slots, pending>>
boundVars == <<uses, issues, troubles>>
vars == <<lampVars, hubVars, boundVars>>

(* The lamps are off, registered in some order and know their targets.     *)
Init ==
  /\ relay = [l \in Lamps |-> FALSE]
  /\ last = [l \in Lamps |-> FALSE]
  /\ recent = [l \in Lamps |-> FALSE]
  /\ slots \in [Slots -> Lamps \cup {NoLamp}]
  /\ \A l \in Lamps : \E s \in Slots :
       \A t \in Slots : slots[t] = l <=> t = s
  /\ \E first \in [Lamps -> Slots] :
       /\ \A l \in Lamps : slots[first[l]] = l
       /\ cached = [l \in Lamps |-> IF Target[l] = NoLamp THEN NoSlot
                                                          ELSE first[Target[l]]]
  /\ pending = [l \in Lamps |-> << >>]
  /\ uses = 0 /\ issues = 0 /\ troubles = 0

Trouble(fault) ==
  fault \in Faults /\ troubles < MaxTroubles /\ troubles' = troubles + 1

-----------------------------------------------------------------------------
(* The hub *)

Command(on) == [on |-> on]

(* The queues after POST /api/sensor/<s>/command: it is refused when the   *)
(* slot is not paired, else stored for its device.                         *)
SendCommand(queues, s, on) ==
  IF s \in Slots /\ slots[s] # NoLamp
  THEN [queues EXCEPT ![slots[s]] = Append(@, Command(on))]
  ELSE queues

(* A command of the dashboard, of MQTT or of Telegram *)
Issue(s, on) ==
  /\ issues < MaxIssue /\ issues' = issues + 1
  /\ slots[s] # NoLamp
  /\ pending' = SendCommand(pending, s, on)
  /\ UNCHANGED <<lampVars, slots, uses, troubles>>

(* A command the lamp has not asked for in 30 s is removed; or it was      *)
(* given to the lamp, and removed, with an answer that is lost.            *)
Lose(l) ==
  /\ Trouble("command")
  /\ pending[l] # << >>
  /\ pending' = [pending EXCEPT ![l] = Tail(@)]
  /\ UNCHANGED <<lampVars, slots, uses, issues>>

(* The hub starts again: the registry is kept, the commands are not.       *)
HubRestart ==
  /\ Trouble("hub")
  /\ pending' = [l \in Lamps |-> << >>]
  /\ UNCHANGED <<lampVars, slots, uses, issues>>

(* Mistake: a device that registers again gets another slot. *)
FoundNever(l) == FALSE

(* find_slot_by_device_id *)
Found(l) == \E s \in Slots : slots[s] = l

First(set) == {s \in set : \A t \in set : s <= t}

Free == {s \in Slots : slots[s] = NoLamp}

(* handle_register: a lamp that is known keeps its slot, another one gets  *)
(* the first that is free.                                                 *)
Register(l) ==
  IF Found(l) \/ Free = {}
  THEN UNCHANGED slots
  ELSE \E s \in First(Free) : slots' = [slots EXCEPT ![s] = l]

(* The dashboard removes a device. *)
Remove(s) ==
  /\ Trouble("removal")
  /\ slots[s] # NoLamp
  /\ slots' = [slots EXCEPT ![s] = NoLamp]
  /\ UNCHANGED <<lampVars, pending, uses, issues>>

-----------------------------------------------------------------------------
(* The lamps *)

SyncDue(l, on) == Target[l] # NoLamp /\ on # last[l]

(* Mistake: s_last_sync_state is left alone. *)
MarkNothing(l, on) ==
  UNCHANGED last /\ recent' = [recent EXCEPT ![l] = TRUE]

Mark(l, on) ==
  last' = [last EXCEPT ![l] = on] /\ recent' = [recent EXCEPT ![l] = TRUE]

(* With these queues at the hub; arrives: whether a post reaches it.       *)
SetRelay(l, on, fromSync, queues, arrives) ==
  /\ relay' = [relay EXCEPT ![l] = on]
  /\ IF ~fromSync /\ SyncDue(l, on)
     THEN /\ Mark(l, on)
          /\ pending' = IF arrives
                        THEN SendCommand(queues, cached[l], on)
                        ELSE queues
     ELSE pending' = queues /\ UNCHANGED <<last, recent>>
  /\ arrives \/ Trouble("post")
  /\ arrives => UNCHANGED troubles
  /\ UNCHANGED <<cached, slots>>

(* The button, POST /api/relay, a timer, a pulse, Alexa, the console *)
Use(l, on, arrives) ==
  /\ uses < MaxUse /\ uses' = uses + 1
  /\ SetRelay(l, on, FALSE, pending, arrives)
  /\ UNCHANGED issues

(* handle_command_get gives the lamp its oldest command and forgets it;    *)
(* on_command takes it for an echo when a sync was sent a moment ago.      *)
Obey(l, arrives) ==
  /\ pending[l] # << >>
  /\ SetRelay(l, Head(pending[l]).on, recent[l],
              [pending EXCEPT ![l] = Tail(@)], arrives)
  /\ UNCHANGED <<uses, issues>>

(* The lamp asks and there is nothing for it. *)
PollEmpty(l) ==
  /\ pending[l] = << >>
  /\ UNCHANGED vars

(* 500 ms have passed since the last sync. *)
Settle(l) ==
  /\ recent[l]
  /\ recent' = [recent EXCEPT ![l] = FALSE]
  /\ UNCHANGED <<relay, last, cached, hubVars, boundVars>>

TargetSlots(l) == {s \in Slots : slots[s] = Target[l]}

(* Mistake: a target that is not found has the slot after the last. *)
SlotReadPast(l) ==
  IF TargetSlots(l) = {} THEN {N + 1} ELSE First(TargetSlots(l))

(* What is in the cache when the lamp has read /api/sensors *)
SlotRead(l) ==
  IF TargetSlots(l) = {} THEN {cached[l]} ELSE First(TargetSlots(l))

FetchSlot(l) ==
  /\ Target[l] # NoLamp
  /\ \E s \in SlotRead(l) : cached' = [cached EXCEPT ![l] = s]
  /\ UNCHANGED <<relay, last, recent, hubVars, boundVars>>

(* A lamp starts again and registers. *)
Restart(l) ==
  /\ Trouble("restart")
  /\ relay' = [relay EXCEPT ![l] = IF Startup[l] = 2 THEN @ ELSE Startup[l] = 1]
  /\ last' = [last EXCEPT ![l] = FALSE]
  /\ recent' = [recent EXCEPT ![l] = FALSE]
  /\ cached' = [cached EXCEPT ![l] = NoSlot]
  /\ Register(l)
  /\ UNCHANGED <<pending, uses, issues>>

Next ==
  \/ \E s \in Slots : Remove(s) \/ \E on \in BOOLEAN : Issue(s, on)
  \/ HubRestart
  \/ \E l \in Lamps :
       \/ Lose(l) \/ PollEmpty(l) \/ Settle(l) \/ FetchSlot(l) \/ Restart(l)
       \/ \E arrives \in BOOLEAN :
            \/ Obey(l, arrives)
            \/ l \in Used /\ \E on \in BOOLEAN : Use(l, on, arrives)

Spec == Init /\ [][Next]_vars

(* A lamp asks for its commands once a second. *)
FairSpec == Spec /\ \A l \in Lamps : WF_vars(Obey(l, TRUE))

-----------------------------------------------------------------------------
TypeOK ==
  /\ relay \in [Lamps -> BOOLEAN] /\ last \in [Lamps -> BOOLEAN]
  /\ recent \in [Lamps -> BOOLEAN] /\ cached \in [Lamps -> Slots \cup {NoSlot}]
  /\ slots \in [Slots -> Lamps \cup {NoLamp}]
  /\ pending \in [Lamps -> Seq([on : BOOLEAN])]
  /\ uses \in 0 .. MaxUse /\ issues \in 0 .. MaxIssue
  /\ troubles \in 0 .. MaxTroubles

(* No lamp has two slots (handle_register looks for the device_id first),  *)
(* although lamps are removed and register again in any order.             *)
OneSlotPerLamp ==
  \A s, t \in Slots : slots[s] # NoLamp /\ slots[s] = slots[t] => s = t

(* The state a lamp is in when it has taken all its commands *)
Final(l) ==
  IF pending[l] = << >> THEN relay[l] ELSE pending[l][Len(pending[l])].on

(* Nobody else gave commands and nothing went wrong. *)
Undisturbed == issues = 0 /\ troubles = 0

(* What lamp l mirrors will reach its target: once the target has taken    *)
(* all its commands it has the state of l (2026-07-21-timer-sync-design.md *)
(* 6: "Lamp A espelha estado em Lamp B").                                  *)
MirrorPending ==
  Undisturbed =>
    \A l \in Lamps : Target[l] # NoLamp => Final(Target[l]) = relay[l]

(* Lamps that stay undisturbed agree with their mirrors in the end.        *)
MirrorFollows ==
  []Undisturbed =>
    \A l \in Lamps : Target[l] # NoLamp => <>[](relay[Target[l]] = relay[l])

(* When the lamps are left alone, the mirroring comes to rest (comment in  *)
(* set_relay: "evita loop infinito A->B->A").                              *)
SyncSettles == <>[](\A l \in Lamps : pending[l] = << >>)
===============================================================================
