-------------------------- MODULE SensorRegistry ---------------------------
(***************************************************************************)
(* The hub's device registry (hub/src/sensor_registry.cpp) and the tasks   *)
(* that change it: s_sensors, the dirty flag, the copy in flash, and the   *)
(* pairing queue m_pending_pairs of the ESP-NOW handler                    *)
(* (hub/src/espnow_handler.cpp).                                           *)
(*                                                                         *)
(* Three tasks of the firmware meet here.  "rx" is the ESP-NOW receive     *)
(* callback: it queues pairing requests and registers repeaters itself.    *)
(* "loop" is the main loop: it serves the pairing queue and flushes the    *)
(* registry to flash.  "web" is the asynchronous web server: it removes    *)
(* and renames devices and registers TCP nodes.  The mutex protects one    *)
(* call of the registry at a time; the search for a free slot takes no     *)
(* lock and what it finds may be stale when the insertion runs.            *)
(*                                                                         *)
(* A slot is taken while it holds a MAC address.                           *)
(***************************************************************************)
EXTENDS Integers, FiniteSets

CONSTANTS
  Macs,          \* the devices
  None,          \* a cleared slot
  NSlots,        \* MAX_VIRTUAL_SENSORS
  PendMax,       \* PENDING_PAIR_MAX
  Actors,        \* who uses the hub
  WriteOutcomes, \* whether a save may go well or fail, of BOOLEAN
  Hearing,       \* whether a device may hear a response, of BOOLEAN
  MaxRestarts    \* bound: restarts of the hub

Users   == {"pair", "repeater", "tcp", "rename", "remove"}
Tasks   == {"rx", "loop", "web"}
Savers  == {"loop", "web"}
Slots   == 0 .. NSlots - 1
Entries == 0 .. PendMax - 1
Tables  == [Slots -> Macs \cup {None}]

ASSUME RegistryAssumption ==
  /\ None \notin Macs /\ None \notin Slots
  /\ NSlots \in Nat \ {0} /\ PendMax \in Nat \ {0} /\ MaxRestarts \in Nat
  /\ Actors \subseteq Users
  /\ WriteOutcomes \subseteq BOOLEAN /\ Hearing \subseteq BOOLEAN

VARIABLES
  reg,      \* s_sensors: the device of each slot
  dirty,    \* s_dirty
  flash,    \* the slots config_sensors_save wrote last
  pend,     \* m_pending_pairs
  pc,       \* where each task is
  dev,      \* the device a task is about to add
  slot,     \* the slot a task works with
  entry,    \* the pending entry the loop serves
  snap,     \* the copy a saving task took under the lock
  told,     \* the slot each device was last told, None before
  restarts

taskVars == <<pc, dev, slot, entry, snap>>
vars == <<reg, dirty, flash, pend, taskVars, told, restarts>>

Empty == [s \in Slots |-> None]
Registered(m) == \E s \in Slots : reg[s] = m

(* Mistakes, each in the form of the definition that follows it; the runs  *)
(* tell them from the code.  Here: a search that skips slots without       *)
(* looking at the one it returns.                                          *)
FirstFreeUnseen(s) == \A r \in 0 .. s - 1 : reg[r] # None

FirstFree(s) == reg[s] = None /\ \A r \in 0 .. s - 1 : reg[r] # None
Full == \A s \in Slots : reg[s] # None
Idle(t) == pc[t] = "idle"

Init ==
  /\ reg = Empty /\ dirty = FALSE /\ flash = Empty
  /\ pend = [i \in Entries |-> [active |-> FALSE, mac |-> None]]
  /\ pc = [t \in Tasks |-> "idle"]
  /\ dev = [t \in Tasks |-> None]
  /\ slot = [t \in Tasks |-> 0]
  /\ entry = 0
  /\ snap = [t \in Savers |-> Empty]
  /\ told = [m \in Macs |-> None]
  /\ restarts = 0

(* A PAIR_RESPONSE for slot s goes out to m, who may not hear it. *)
Respond(m, s, heard) ==
  told' = IF heard THEN [told EXCEPT ![m] = s] ELSE told

(* A handler returns; its local variables are gone. *)
Return(t) ==
  /\ pc' = [pc EXCEPT ![t] = "idle"]
  /\ dev' = [dev EXCEPT ![t] = None]
  /\ slot' = [slot EXCEPT ![t] = 0]

(* Mistake: no check for a duplicate. *)
AddUnchecked(m, s) == reg' = [reg EXCEPT ![s] = m] /\ dirty' = TRUE

(* sensor_registry_add: refused when the device is known, otherwise the    *)
(* slot is overwritten, whatever it held.                                  *)
AddSensor(m, s) ==
  IF Registered(m)
    THEN UNCHANGED <<reg, dirty>>
    ELSE reg' = [reg EXCEPT ![s] = m] /\ dirty' = TRUE

-----------------------------------------------------------------------------
(* The receive callback *)

(* Mistake: a known device gets no answer. *)
RxKnownSilent(m, s, heard) ==
  /\ Idle("rx")
  /\ reg[s] = m
  /\ UNCHANGED vars

(* MSG_PAIR_REQUEST of a known device: answered at once. *)
RxKnown(m, s, heard) ==
  /\ Idle("rx")
  /\ reg[s] = m
  /\ Respond(m, s, heard)
  /\ UNCHANGED <<reg, dirty, flash, pend, taskVars, restarts>>

(* MSG_PAIR_REQUEST of a new device: queued in the first inactive entry,   *)
(* once; dropped when the queue is full, and when module PairingWindow has *)
(* it refused.                                                             *)
RxQueue(m, i) ==
  /\ Idle("rx")
  /\ ~Registered(m)
  /\ \A j \in Entries : ~(pend[j].active /\ pend[j].mac = m)
  /\ ~pend[i].active /\ \A j \in 0 .. i - 1 : pend[j].active
  /\ pend' = [pend EXCEPT ![i] = [active |-> TRUE, mac |-> m]]
  /\ UNCHANGED <<reg, dirty, flash, taskVars, told, restarts>>

(* MSG_GW_DISCOVER or MSG_REPEATER_STATUS of an unknown repeater: the      *)
(* search for a slot.                                                      *)
RxFindSlot(m, s) ==
  /\ Idle("rx")
  /\ ~Registered(m)
  /\ FirstFree(s)
  /\ pc' = [pc EXCEPT !["rx"] = "add"]
  /\ dev' = [dev EXCEPT !["rx"] = m]
  /\ slot' = [slot EXCEPT !["rx"] = s]
  /\ UNCHANGED <<reg, dirty, flash, pend, entry, snap, told, restarts>>

(* The insertion; the callback does not look at its result. *)
RxAdd ==
  /\ pc["rx"] = "add"
  /\ AddSensor(dev["rx"], slot["rx"])
  /\ Return("rx")
  /\ UNCHANGED <<flash, pend, entry, snap, told, restarts>>

(* A known device that turns out to be a repeater: its type and name are   *)
(* rewritten and the registry is marked dirty.                             *)
RxRetype(m) ==
  /\ Idle("rx")
  /\ Registered(m)
  /\ dirty' = TRUE
  /\ UNCHANGED <<reg, flash, pend, taskVars, told, restarts>>

-----------------------------------------------------------------------------
(* EspnowHandler::loop: the pairing queue, in the order of its entries *)

StartPairs ==
  /\ Idle("loop")
  /\ \E i \in Entries : pend[i].active
  /\ pc' = [pc EXCEPT !["loop"] = "scan"]
  /\ entry' = 0
  /\ UNCHANGED <<reg, dirty, flash, pend, dev, slot, snap, told, restarts>>

(* The next active entry is deactivated, before it is used. *)
TakePair(i) ==
  /\ pc["loop"] = "scan"
  /\ i >= entry /\ pend[i].active
  /\ \A j \in entry .. i - 1 : ~pend[j].active
  /\ pend' = [pend EXCEPT ![i].active = FALSE]
  /\ entry' = i
  /\ pc' = [pc EXCEPT !["loop"] = "find"]
  /\ UNCHANGED <<reg, dirty, flash, dev, slot, snap, told, restarts>>

EndPairs ==
  /\ pc["loop"] = "scan"
  /\ \A j \in entry .. PendMax - 1 : ~pend[j].active
  /\ Return("loop")
  /\ entry' = 0
  /\ UNCHANGED <<reg, dirty, flash, pend, snap, told, restarts>>

(* Mistake: the scan goes one too far. *)
NextPairSkip ==
  /\ entry' = entry + 2
  /\ slot' = [slot EXCEPT !["loop"] = 0]
  /\ pc' = [pc EXCEPT !["loop"] = "scan"]

NextPair ==
  /\ entry' = entry + 1
  /\ slot' = [slot EXCEPT !["loop"] = 0]
  /\ pc' = [pc EXCEPT !["loop"] = "scan"]

(* The search for a slot. *)
PairFindSlot(s) ==
  /\ pc["loop"] = "find"
  /\ FirstFree(s)
  /\ slot' = [slot EXCEPT !["loop"] = s]
  /\ pc' = [pc EXCEPT !["loop"] = "add"]
  /\ UNCHANGED <<reg, dirty, flash, pend, dev, entry, snap, told, restarts>>

(* No slot: the device is sent an ACK with PAIR_STATUS_FULL. *)
PairRefused ==
  /\ pc["loop"] = "find"
  /\ Full
  /\ NextPair
  /\ UNCHANGED <<reg, dirty, flash, pend, dev, snap, told, restarts>>

(* The insertion of the device the entry names by now. *)
PairAdd ==
  /\ pc["loop"] = "add"
  /\ AddSensor(pend[entry].mac, slot["loop"])
  /\ pc' = [pc EXCEPT !["loop"] = IF Registered(pend[entry].mac)
                                    THEN "lookup" ELSE "respond"]
  /\ UNCHANGED <<flash, pend, dev, slot, entry, snap, told, restarts>>

(* The device was known already: its slot is looked up. *)
PairLookup(s) ==
  /\ pc["loop"] = "lookup"
  /\ reg[s] = pend[entry].mac
  /\ slot' = [slot EXCEPT !["loop"] = s]
  /\ pc' = [pc EXCEPT !["loop"] = "respond"]
  /\ UNCHANGED <<reg, dirty, flash, pend, dev, entry, snap, told, restarts>>

PairGone ==
  /\ pc["loop"] = "lookup"
  /\ ~Registered(pend[entry].mac)
  /\ NextPair
  /\ UNCHANGED <<reg, dirty, flash, pend, dev, snap, told, restarts>>

PairRespond(heard) ==
  /\ pc["loop"] = "respond"
  /\ Respond(pend[entry].mac, slot["loop"], heard)
  /\ NextPair
  /\ UNCHANGED <<reg, dirty, flash, pend, dev, snap, restarts>>

-----------------------------------------------------------------------------
(* sensor_registry_save, by the flush of the loop or by a web handler *)

Flush ==
  /\ Idle("loop") /\ dirty
  /\ pc' = [pc EXCEPT !["loop"] = "save"]
  /\ UNCHANGED <<reg, dirty, flash, pend, dev, slot, entry, snap, told,
                 restarts>>

(* No memory for the copy: sensor_registry_save returns, and the registry  *)
(* stays dirty.                                                            *)
SaveFails(t) ==
  /\ pc[t] = "save"
  /\ FALSE \in WriteOutcomes
  /\ Return(t)
  /\ UNCHANGED <<reg, dirty, flash, pend, entry, snap, told, restarts>>

(* The copy is made under the lock. *)
TakeSnapshot(t) ==
  /\ pc[t] = "save"
  /\ snap' = [snap EXCEPT ![t] = reg]
  /\ pc' = [pc EXCEPT ![t] = "write"]
  /\ UNCHANGED <<reg, dirty, flash, pend, dev, slot, entry, told, restarts>>

(* Mistake: the live table is written instead of the copy. *)
WriteLive(t, ok) ==
  /\ pc[t] = "write"
  /\ flash' = IF ok THEN reg ELSE flash
  /\ snap' = [snap EXCEPT ![t] = Empty]
  /\ pc' = [pc EXCEPT ![t] = "clean"]
  /\ UNCHANGED <<reg, dirty, pend, dev, slot, entry, told, restarts>>

(* config_sensors_save runs after the lock is released. *)
WriteFlash(t, ok) ==
  /\ pc[t] = "write"
  /\ flash' = IF ok THEN snap[t] ELSE flash
  /\ snap' = [snap EXCEPT ![t] = Empty]
  /\ pc' = [pc EXCEPT ![t] = "clean"]
  /\ UNCHANGED <<reg, dirty, pend, dev, slot, entry, told, restarts>>

(* s_dirty = false, whatever the write returned. *)
ClearDirty(t) ==
  /\ pc[t] = "clean"
  /\ dirty' = FALSE
  /\ Return(t)
  /\ UNCHANGED <<reg, flash, pend, entry, snap, told, restarts>>

-----------------------------------------------------------------------------
(* The web server *)

(* POST /api/sensor/<slot>/remove *)
Remove(s) ==
  /\ Idle("web")
  /\ reg[s] # None
  /\ reg' = [reg EXCEPT ![s] = None]
  /\ dirty' = TRUE
  /\ UNCHANGED <<flash, pend, taskVars, told, restarts>>

(* POST /api/clear, or its key on the console of the loop. *)
ClearAll(t) ==
  /\ Idle(t)
  /\ reg' = Empty
  /\ dirty' = TRUE
  /\ UNCHANGED <<flash, pend, taskVars, told, restarts>>

(* POST /api/sensor/<slot>/name, and the registration of a TCP node that   *)
(* is known already: a field of the slot is written, then all is saved.    *)
Rename(s) ==
  /\ Idle("web")
  /\ reg[s] # None
  /\ pc' = [pc EXCEPT !["web"] = "save"]
  /\ UNCHANGED <<reg, dirty, flash, pend, dev, slot, entry, snap, told,
                 restarts>>

(* TcpRadioHandler::handle_register of a new node: the search.  Its mac    *)
(* may be known, when the node has paired by radio.                        *)
TcpFindSlot(m, s) ==
  /\ Idle("web")
  /\ FirstFree(s)
  /\ dev' = [dev EXCEPT !["web"] = m]
  /\ slot' = [slot EXCEPT !["web"] = s]
  /\ pc' = [pc EXCEPT !["web"] = "add"]
  /\ UNCHANGED <<reg, dirty, flash, pend, entry, snap, told, restarts>>

(* The insertion; saved when it succeeds. *)
TcpAdd ==
  /\ pc["web"] = "add"
  /\ AddSensor(dev["web"], slot["web"])
  /\ IF Registered(dev["web"])
       THEN Return("web")
       ELSE pc' = [pc EXCEPT !["web"] = "save"] /\ UNCHANGED <<dev, slot>>
  /\ UNCHANGED <<flash, pend, entry, snap, told, restarts>>

-----------------------------------------------------------------------------
(* Power loss, a watchdog or ESP.restart(): what is not in flash is gone   *)
(* and sensor_registry_load runs.                                          *)
Restart ==
  /\ restarts < MaxRestarts
  /\ restarts' = restarts + 1
  /\ reg' = flash /\ dirty' = FALSE
  /\ pend' = [i \in Entries |-> [active |-> FALSE, mac |-> None]]
  /\ pc' = [t \in Tasks |-> "idle"]
  /\ dev' = [t \in Tasks |-> None]
  /\ slot' = [t \in Tasks |-> 0]
  /\ entry' = 0
  /\ snap' = [t \in Savers |-> Empty]
  /\ UNCHANGED <<flash, told>>

PairQueue ==
  \/ StartPairs
  \/ \E i \in Entries : TakePair(i)
  \/ EndPairs
  \/ \E s \in Slots : PairFindSlot(s)
  \/ PairRefused
  \/ PairAdd
  \/ \E s \in Slots : PairLookup(s)
  \/ PairGone
  \/ \E heard \in Hearing : PairRespond(heard)

Save(t) ==
  \/ SaveFails(t)
  \/ TakeSnapshot(t)
  \/ \E ok \in WriteOutcomes : WriteFlash(t, ok)
  \/ ClearDirty(t)

RxPairing(m, heard) ==
  \/ \E s \in Slots : RxKnown(m, s, heard)
  \/ \E i \in Entries : RxQueue(m, i)

Repeaters ==
  \/ \E m \in Macs, s \in Slots : RxFindSlot(m, s)
  \/ RxAdd
  \/ \E m \in Macs : RxRetype(m)

TcpNodes ==
  \/ \E m \in Macs, s \in Slots : TcpFindSlot(m, s)
  \/ TcpAdd

Removals ==
  \/ \E s \in Slots : Remove(s)
  \/ \E t \in Savers : ClearAll(t)

Next ==
  \/ "pair" \in Actors /\ \E m \in Macs, heard \in Hearing : RxPairing(m, heard)
  \/ PairQueue
  \/ Flush
  \/ \E t \in Savers : Save(t)
  \/ "repeater" \in Actors /\ Repeaters
  \/ "tcp" \in Actors /\ TcpNodes
  \/ "rename" \in Actors /\ \E s \in Slots : Rename(s)
  \/ "remove" \in Actors /\ Removals
  \/ Restart

Spec == Init /\ [][Next]_vars

(* The loop comes back to the queue and to the flush, the receive callback *)
(* returns, and a device that keeps asking is heard and answered again and *)
(* again.                                                                  *)
Fairness ==
  /\ SF_vars(PairQueue) /\ SF_vars(Flush) /\ WF_vars(Save("loop"))
  /\ WF_vars(RxAdd)
  /\ \A m \in Macs : SF_vars("pair" \in Actors /\ RxPairing(m, TRUE))

FairSpec == Spec /\ Fairness

-----------------------------------------------------------------------------
TypeOK ==
  /\ reg \in Tables /\ flash \in Tables /\ dirty \in BOOLEAN
  /\ pend \in [Entries -> [active : BOOLEAN, mac : Macs \cup {None}]]
  /\ pc \in [Tasks -> {"idle", "scan", "find", "add", "lookup", "respond",
                       "save", "write", "clean"}]
  /\ dev \in [Tasks -> Macs \cup {None}]
  /\ slot \in [Tasks -> Slots]
  /\ entry \in 0 .. PendMax
  /\ snap \in [Savers -> Tables]
  /\ told \in [Macs -> Slots \cup {None}]
  /\ restarts \in 0 .. MaxRestarts

Injective(f) ==
  \A r, s \in Slots : f[r] = f[s] /\ f[r] # None => r = s

(* A device holds at most one slot, now and after a restart at any moment, *)
(* although three tasks insert and two tasks save: the check for a         *)
(* duplicate is under the lock of the insertion (sensor_registry_add) and  *)
(* a save copies the table under the lock.                                 *)
OneSlotPerDevice == Injective(reg) /\ Injective(flash)

NobodyRemoved ==
  [][\A s \in Slots : reg[s] # None => reg'[s] # None]_vars

(* A device that keeps asking has a slot for good and knows which, once    *)
(* devices are removed no more and when there are slots for all: requests  *)
(* lost with a full queue, overwritten while they are served, lost with a  *)
(* restart or forgotten with a registry that was not saved are made up     *)
(* for, and so is a device put out of its slot by another task's insertion *)
(* (the search of EspnowHandler::loop, of the receive callback and of      *)
(* handle_register takes no lock).                                         *)
AskersGetPaired ==
  <>NobodyRemoved =>
    \A m \in Macs : <>[](told[m] # None /\ reg[told[m]] = m)

(* The registry implements the abstract map: who inserts has found its     *)
(* slot free, though maybe not free any more, a save writes a table that   *)
(* was once whole, and a restart returns to one.                           *)
Map == INSTANCE RegistryMap
         WITH Claimants <- Tasks, map <- reg, saved <- flash,
              claim <- [t \in Tasks |-> IF pc[t] = "add" THEN slot[t] ELSE None],
              copies <- {snap[t] : t \in {u \in Savers : pc[u] = "write"}}
MapSpec == Map!Spec
=============================================================================
