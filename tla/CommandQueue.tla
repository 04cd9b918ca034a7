---------------------------- MODULE CommandQueue ----------------------------
(***************************************************************************)
(* The "queue with hops" of the hub's ESP-NOW handler: m_pending_cmds,     *)
(* enqueue_cmd and process_pending_commands (hub/src/espnow_handler.cpp),  *)
(* fed by send_command / send_restart and drained by loop().               *)
(*                                                                         *)
(* Two tasks of the firmware touch the queue without a lock.  The main     *)
(* loop drains it and, between two drains, issues the commands that arrive *)
(* by MQTT or Telegram.  The asynchronous web server issues the commands   *)
(* of POST /api/sensor/<slot>/command from a task of its own, so each of   *)
(* its writes to an entry may fall between two entries of a drain.         *)
(*                                                                         *)
(* A command is known by the order in which it was issued, its number n;   *)
(* the frame of an entry is the number of the command it carries, 0 for an *)
(* entry that was never used.  The radio loses frames and reports nothing. *)
(***************************************************************************)
EXTENDS Integers, FiniteSets

CONSTANTS
  Targets,      \* MAC addresses of the actuators
  QMax,         \* PENDING_CMD_MAX
  MaxHops,      \* CMD_MAX_HOPS
  TTL,          \* CMD_TTL_MS, in clock ticks
  HopInterval,  \* CMD_HOP_INTERVAL_MS, in clock ticks
  Wrap,         \* millis() counts modulo this number (2^32 ms)
  Horizon,      \* bound: the clock stops here, unless it is Wrap - 1
  MaxStall,     \* bound: ticks the main loop may stay away from the queue
  MaxCmds,      \* bound: commands issued
  Orders,       \* the relay states commands ask for, of BOOLEAN
  Hearing,      \* whether an actuator hears a frame, of BOOLEAN
  Issuers       \* the tasks that issue commands, of {"loop", "web"}

Tasks   == {"loop", "web"}
Slots   == 0 .. QMax - 1
Clock   == 0 .. Wrap - 1
Cmds    == 1 .. MaxCmds
Entries == [active : BOOLEAN, frame : 0 .. MaxCmds, hops : 0 .. MaxHops,
            created : Clock, retry : Clock]

ASSUME QueueAssumption ==
  /\ QMax \in Nat \ {0} /\ MaxHops \in Nat \ {0} /\ MaxCmds \in Nat \ {0}
  /\ TTL \in Nat /\ HopInterval \in Nat /\ MaxStall \in Nat
  /\ Wrap \in Nat \ {0} /\ Horizon \in Clock /\ HopInterval < Wrap
  /\ Issuers \subseteq Tasks /\ Targets # {}
  /\ Orders \subseteq BOOLEAN /\ Hearing \subseteq BOOLEAN

VARIABLES
  q,         \* m_pending_cmds
  now,       \* millis()
  loopAt,    \* entry the drain has reached; QMax when loop() is elsewhere
  loopNow,   \* the "now" process_pending_commands read when it started
  stall,     \* ticks since the drain last started
  pc,        \* where each issuing task is in enqueue_cmd
  at,        \* the entry each issuing task has chosen
  cur,       \* the command each issuing task is storing
  cmd,       \* the commands issued so far: number -> target and state
  issued,    \* how many
  returned,  \* commands whose send_command has returned true
  evicted,   \* commands thrown out of a full queue
  refused,   \* commands that met a full queue
  sent,      \* times each command was transmitted
  relay,     \* state of each actuator
  applied    \* the newest command each actuator received

queueVars == <<loopAt, loopNow, stall>>
issueVars == <<pc, at, cur, cmd, issued, returned, evicted, refused>>
radioVars == <<sent, relay, applied>>
vars == <<q, now, queueVars, issueVars, radioVars>>

-----------------------------------------------------------------------------
(* unsigned long arithmetic *)

Plus(a, d) == IF a + d < Wrap THEN a + d ELSE a + d - Wrap
Minus(a, b) == IF a >= b THEN a - b ELSE a - b + Wrap

Outside == QMax
Draining == loopAt # Outside
Storing(t) == pc[t] # "idle"

(* What a task that looks for a free entry finds: the first inactive one. *)
FreeEntry(i) == ~q[i].active /\ \A j \in 0 .. i - 1 : q[j].active

(* The entry the search for the oldest command stops at: the first of the  *)
(* smallest stamps below the present, entry 0 when there is none.          *)
Victim(i) ==
  LET older == {j \in Slots : q[j].created < now}
  IN  IF older = {} THEN i = 0
      ELSE /\ i \in older
           /\ \A j \in older : /\ q[i].created <= q[j].created
                               /\ q[j].created = q[i].created => i <= j

-----------------------------------------------------------------------------
Init ==
  /\ q = [i \in Slots |-> [active |-> FALSE, frame |-> 0, hops |-> 0,
                           created |-> 0, retry |-> 0]]
  /\ now = 0 /\ loopAt = Outside /\ loopNow = 0 /\ stall = 0
  /\ pc = [t \in Tasks |-> "idle"]
  /\ at = [t \in Tasks |-> 0]
  /\ cur = [t \in Tasks |-> 0]
  /\ cmd = [n \in Cmds |-> [target |-> CHOOSE m \in Targets : TRUE, on |-> FALSE]]
  /\ issued = 0
  /\ returned = {} /\ evicted = {} /\ refused = {}
  /\ sent = [n \in Cmds |-> 0]
  /\ relay = [m \in Targets |-> FALSE]
  /\ applied = [m \in Targets |-> 0]

(* send_command(mac, state): the frame is built, enqueue_cmd is entered.   *)
(* The loop task issues only while it is not draining.                     *)
SendCommand(t, m, on) ==
  /\ ~Storing(t)
  /\ t = "loop" => ~Draining
  /\ issued < MaxCmds
  /\ issued' = issued + 1
  /\ cmd' = [cmd EXCEPT ![issued + 1] = [target |-> m, on |-> on]]
  /\ cur' = [cur EXCEPT ![t] = issued + 1]
  /\ pc' = [pc EXCEPT ![t] = "search"]
  /\ UNCHANGED <<q, now, queueVars, at, returned, evicted, refused, radioVars>>

(* The search meets an inactive entry. *)
FindEntry(t, i) ==
  /\ pc[t] = "search"
  /\ FreeEntry(i)
  /\ at' = [at EXCEPT ![t] = i]
  /\ pc' = [pc EXCEPT ![t] = "claim"]
  /\ UNCHANGED <<q, now, queueVars, cur, cmd, issued, returned, evicted,
                 refused, radioVars>>

(* pc.active = true, before any other field of the entry is written. *)
ClaimEntry(t) ==
  /\ pc[t] = "claim"
  /\ q' = [q EXCEPT ![at[t]].active = TRUE]
  /\ pc' = [pc EXCEPT ![t] = "fill"]
  /\ UNCHANGED <<now, queueVars, at, cur, cmd, issued, returned, evicted,
                 refused, radioVars>>

(* Destination, frame and length. *)
FillEntry(t) ==
  /\ pc[t] = "fill"
  /\ q' = [q EXCEPT ![at[t]].frame = cur[t]]
  /\ pc' = [pc EXCEPT ![t] = "stamp"]
  /\ UNCHANGED <<now, queueVars, at, cur, cmd, issued, returned, evicted,
                 refused, radioVars>>

(* A mistake, in the form of the definition that follows it: the age of    *)
(* the former occupant stays.  The runs tell such mistakes from the code.  *)
StampHopsOnly(t) ==
  /\ pc[t] = "stamp"
  /\ q' = [q EXCEPT ![at[t]].hops = 0, ![at[t]].retry = now]
  /\ pc' = [pc EXCEPT ![t] = "idle"]
  /\ returned' = returned \cup {cur[t]}
  /\ UNCHANGED <<now, queueVars, at, cur, cmd, issued, evicted, refused,
                 radioVars>>

(* hops = 0, created_at = millis(), next_retry_ms = created_at, return. *)
StampEntry(t) ==
  /\ pc[t] = "stamp"
  /\ q' = [q EXCEPT ![at[t]].hops = 0, ![at[t]].created = now,
                    ![at[t]].retry = now]
  /\ pc' = [pc EXCEPT ![t] = "idle"]
  /\ returned' = returned \cup {cur[t]}
  /\ UNCHANGED <<now, queueVars, at, cur, cmd, issued, evicted, refused,
                 radioVars>>

(* No inactive entry: the oldest command is deactivated and enqueue_cmd    *)
(* returns; the command that asked for room is not stored.                 *)
DropOldest(t, i) ==
  /\ pc[t] = "search"
  /\ \A j \in Slots : q[j].active
  /\ Victim(i)
  /\ q' = [q EXCEPT ![i].active = FALSE]
  /\ evicted' = evicted \cup {q[i].frame}
  /\ refused' = refused \cup {cur[t]}
  /\ returned' = returned \cup {cur[t]}
  /\ pc' = [pc EXCEPT ![t] = "idle"]
  /\ UNCHANGED <<now, queueVars, at, cur, cmd, issued, radioVars>>

-----------------------------------------------------------------------------
(* process_pending_commands *)

StartDrain ==
  /\ ~Draining /\ ~Storing("loop")
  /\ loopAt' = 0
  /\ loopNow' = now
  /\ stall' = 0
  /\ UNCHANGED <<q, now, issueVars, radioVars>>

(* Mistakes: no time to live; one hop too many.                            *)
AgedNever(i) == FALSE
SpentLate(i) == q[i].active /\ Minus(loopNow, q[i].created) <= TTL
                            /\ q[i].hops > MaxHops

Age(i) == Minus(loopNow, q[i].created)
Aged(i)  == q[i].active /\ Age(i) > TTL
Spent(i) == q[i].active /\ ~Aged(i) /\ q[i].hops >= MaxHops
Early(i) == q[i].active /\ ~Aged(i) /\ ~Spent(i) /\ loopNow < q[i].retry
Due(i)   == q[i].active /\ ~Aged(i) /\ ~Spent(i) /\ ~Early(i)

NextEntry(i) == loopAt = i /\ loopAt' = i + 1 /\ UNCHANGED <<loopNow, stall>>

(* An inactive entry, or one whose retry is not due, is passed over. *)
PassOver(i) ==
  /\ NextEntry(i)
  /\ ~q[i].active \/ Early(i)
  /\ UNCHANGED <<q, now, issueVars, radioVars>>

(* Too old, or out of hops: the entry is given up. *)
GiveUp(i) ==
  /\ NextEntry(i)
  /\ Aged(i) \/ Spent(i)
  /\ q' = [q EXCEPT ![i].active = FALSE]
  /\ UNCHANGED <<now, issueVars, radioVars>>

(* One hop: the frame is transmitted; its target may or may not hear it.   *)
(* An entry claimed but never filled holds no frame to act on.             *)
Transmit(i, heard) ==
  LET n == q[i].frame
      m == cmd[n].target
  IN  /\ NextEntry(i)
      /\ Due(i)
      /\ q' = [q EXCEPT ![i].hops = q[i].hops + 1,
                        ![i].retry = Plus(loopNow, HopInterval)]
      /\ sent' = IF n = 0 THEN sent ELSE [sent EXCEPT ![n] = @ + 1]
      /\ IF heard /\ n # 0
           THEN /\ relay' = [relay EXCEPT ![m] = cmd[n].on]
                /\ applied' = [applied EXCEPT ![m] = IF n > @ THEN n ELSE @]
           ELSE UNCHANGED <<relay, applied>>
      /\ UNCHANGED <<now, issueVars>>

(* A millisecond passes. *)
Tick ==
  /\ now # Horizon \/ Horizon = Wrap - 1
  /\ stall < MaxStall
  /\ now' = Plus(now, 1)
  /\ stall' = stall + 1
  /\ UNCHANGED <<q, loopAt, loopNow, issueVars, radioVars>>

Enqueue(t) ==
  \/ \E i \in Slots : FindEntry(t, i)
  \/ ClaimEntry(t)
  \/ FillEntry(t)
  \/ StampEntry(t)
  \/ \E i \in Slots : DropOldest(t, i)

Drain ==
  \/ StartDrain
  \/ \E i \in Slots : PassOver(i)
  \/ \E i \in Slots : GiveUp(i)
  \/ \E i \in Slots, heard \in Hearing : Transmit(i, heard)

Next ==
  \/ \E t \in Issuers, m \in Targets, on \in Orders : SendCommand(t, m, on)
  \/ \E t \in Issuers : Enqueue(t)
  \/ Drain
  \/ Tick

Spec == Init /\ [][Next]_vars

(* loop() keeps coming back to the queue, a web handler runs to its end    *)
(* and time passes.                                                        *)
FairSpec == /\ Spec
            /\ WF_vars(Drain)
            /\ \A t \in Tasks : WF_vars(t \in Issuers /\ Enqueue(t))
            /\ WF_vars(Tick)

-----------------------------------------------------------------------------
TypeOK ==
  /\ q \in [Slots -> Entries]
  /\ now \in Clock /\ loopNow \in Clock
  /\ loopAt \in 0 .. QMax
  /\ stall \in 0 .. MaxStall
  /\ pc \in [Tasks -> {"idle", "search", "claim", "fill", "stamp"}]
  /\ at \in [Tasks -> Slots]
  /\ cur \in [Tasks -> 0 .. MaxCmds]
  /\ cmd \in [Cmds -> [target : Targets, on : BOOLEAN]]
  /\ issued \in 0 .. MaxCmds
  /\ returned \subseteq 0 .. MaxCmds
  /\ evicted \subseteq 0 .. MaxCmds
  /\ refused \subseteq 0 .. MaxCmds
  /\ sent \in [Cmds -> Nat]
  /\ relay \in [Targets -> BOOLEAN]
  /\ applied \in [Targets -> 0 .. MaxCmds]

Queued(n) == \E i \in Slots : q[i].active /\ q[i].frame = n

(* A command is put on the air at most CMD_MAX_HOPS times, however its     *)
(* entry is reused, dropped and claimed again (header comment of           *)
(* m_pending_cmds: "re-transmitted for up to CMD_MAX_HOPS hops").          *)
HopBudget == \A n \in Cmds : sent[n] <= MaxHops

(* A command that was stored is transmitted at least once before the queue *)
(* forgets it, unless it was thrown out to make room: neither the TTL nor  *)
(* the hop count of the entry's former occupant may swallow it             *)
(* (enqueue_cmd: "dispatch immediately in loop()").                        *)
DispatchedBeforeDropped ==
  \A n \in returned \ (evicted \cup refused) : sent[n] > 0 \/ Queued(n)

(* When no command for an actuator is left in the queue, the newest it has *)
(* received prevails: the hops of older ones have not undone it (header    *)
(* comment of m_pending_cmds: commands are idempotent, "so redundant hops  *)
(* are harmless").                                                         *)
NewestPrevails ==
  \A m \in Targets :
    applied[m] # 0 /\ ~(\E n \in Cmds : cmd[n].target = m /\ Queued(n))
      => relay[m] = cmd[applied[m]].on

(* Every command that enters the queue leaves it: the hop and age limits   *)
(* empty every entry although nobody acknowledges a command, also when the *)
(* clock wraps and when the web server writes entries during a drain.      *)
QueueDrains == \A i \in Slots : []<>~q[i].active
=============================================================================
