------------------------------- MODULE MqttLink -------------------------------
(***************************************************************************)
(* The hub's side of Home Assistant (hub/src/mqtt_client.cpp): when it     *)
(* tries to reach the broker, which entities it announces for a device,    *)
(* which states it publishes, and how an order given in Home Assistant     *)
(* finds its device.                                                       *)
(*                                                                         *)
(* An entity is a device, the slot the device had when the entity was      *)
(* announced, and a suffix.  Announcements are retained by the broker and  *)
(* never withdrawn.  An order may be lost between the hub and its device;  *)
(* the queues and radios it passes are in CommandQueue, LoraLink, TcpLamps *)
(* and Extender.  A paired device reports again and again.                 *)
(***************************************************************************)
EXTENDS Naturals, Sequences

CONSTANTS
  Macs,         \* the devices
  None,
  TypeOf,       \* virtual_sensor_t::type of a device
  NSlots,       \* MAX_VIRTUAL_SENSORS
  FirstWait,    \* MQTT_RECONNECT_INITIAL_MS
  LastWait,     \* MQTT_RECONNECT_MAX_MS, in the same unit
  MaxTroubles   \* bound: what happens to broker, memory, devices, settings

VARIABLES
  occ,      \* the device registered at a slot, or None
  known,    \* the state of a slot in the registry
  dev,      \* the state a device really has
  due,      \* slots whose state waits for the bridge
  host,     \* the broker's settings: "none", "wrong" or "right"
  broker,   \* the broker can be reached
  session,  \* s_mqtt.connected()
  flag,     \* s_mqtt_connected
  fails,    \* s_consecutive_fails, up to the largest that counts
  wait,     \* time to the next attempt
  heap,     \* free memory: "ok", below 15000: "short", below 12000: "low"
  listed,   \* entities Home Assistant has been told of
  told,     \* entities whose availability it has been told
  shown,    \* the state it shows for an entity
  order,    \* an order on its way to the hub: an entity and a state
  troubles

slotVars == <<occ, known, dev, due>>
linkVars == <<host, broker, session, flag, fails, wait>>
haVars == <<listed, told, shown>>
mqttVars == <<slotVars, linkVars, heap, haVars, order, troubles>>

Slots == 1 .. NSlots

-----------------------------------------------------------------------------
(* Which entities a device has.  Three functions of the code each hold the *)
(* table for themselves.                                                   *)

(* mqtt_client_publish_discovery; every device has a battery, a repeater   *)
(* too, and an unknown type a plain value.                                 *)
Discovered(t) ==
  {"bat"} \cup
  CASE t = "temp_hum" -> {"temp", "hum"}
    [] t = "contact"  -> {"cnt"}
    [] t = "motion"   -> {"occ"}
    [] t = "gas"      -> {"gas", "alm"}
    [] t = "dht_gas"  -> {"temp", "hum", "gas", "alm"}
    [] t = "rain"     -> {"rain", "raind"}
    [] t = "soil"     -> {"soil"}
    [] t = "level"    -> {"lvl"}
    [] t = "onoff"    -> {"pwr"}
    [] t = "light"    -> {"lgt"}
    [] t = "acquiry"  -> {"acq"}
    [] t = "repeater" -> {}
    [] OTHER          -> {"value"}

(* mqtt_client_publish_state *)
StateSuffixes(t) ==
  CASE t = "temp_hum" -> {"temp", "hum", "bat"}
    [] t = "contact"  -> {"cnt", "bat"}
    [] t = "motion"   -> {"occ", "bat"}
    [] t = "gas"      -> {"gas", "alm", "bat"}
    [] t = "dht_gas"  -> {"temp", "hum", "gas", "alm", "bat"}
    [] t = "rain"     -> {"rain", "raind", "bat"}
    [] t = "soil"     -> {"soil", "bat"}
    [] t = "level"    -> {"lvl", "bat"}
    [] t = "onoff"    -> {"pwr", "bat"}
    [] t = "light"    -> {"lgt", "bat"}
    [] t = "acquiry"  -> {"acq", "bat"}
    [] t = "repeater" -> {"bat"}
    [] OTHER          -> {"value", "bat"}

(* mqtt_client_publish_availability: nothing for a repeater, not even for  *)
(* its battery.                                                            *)
AvailabilitySuffixes(t) ==
  CASE t = "repeater"         -> {}
    [] t = "temp_hum"         -> {"bat", "temp", "hum"}
    [] t = "contact"          -> {"bat", "cnt"}
    [] t = "motion"           -> {"bat", "occ"}
    [] t \in {"gas", "dht_gas"} ->
         {"bat", "gas", "alm"} \cup (IF t = "dht_gas" THEN {"temp", "hum"} ELSE {})
    [] t = "rain"             -> {"bat", "rain", "raind"}
    [] t = "soil"             -> {"bat", "soil"}
    [] t = "level"            -> {"bat", "lvl"}
    [] t = "onoff"            -> {"bat", "pwr"}
    [] t = "light"            -> {"bat", "lgt"}
    [] t = "acquiry"          -> {"bat", "acq"}
    [] OTHER                  -> {"bat", "value"}

(* build_entity_id; the component of its topics follows from the suffix. *)
Entity(m, s, suffixes) == {<<m, s, x>> : x \in suffixes}

AllEntities == UNION {Entity(m, s, Discovered(TypeOf[m])) : m \in Macs, s \in Slots}

(* publish_entity_config names a command topic for switches and lights. *)
Switchable == {e \in AllEntities : e[3] \in {"pwr", "lgt"}}

Paired == {s \in Slots : occ[s] # None}

(* What is published leaves the hub while the session stands. *)
Out == flag /\ session

(* publish_entity_config for the devices at slots S: retained, and skipped *)
(* when memory is low.                                                     *)
ListedAfter(S) ==
  IF Out /\ heap # "low"
  THEN listed \cup UNION {Entity(occ[s], s, Discovered(TypeOf[occ[s]])) : s \in S}
  ELSE listed

(* publish_entity_state for the entities in E *)
ShownAfter(E) ==
  [e \in AllEntities |-> IF Out /\ e \in E THEN known[e[2]] ELSE shown[e]]

(* mqtt_client_publish_availability(s, true) for the slots in S *)
ToldAfter(S) ==
  IF Out
  THEN told \cup UNION {Entity(occ[s], s, AvailabilitySuffixes(TypeOf[occ[s]])) : s \in S}
  ELSE told

(* mqtt_client_publish_discovery for the slots in S *)
Discover(S) ==
  /\ listed' = ListedAfter(S)
  /\ shown' = ShownAfter(UNION {Entity(occ[s], s, Discovered(TypeOf[occ[s]])) : s \in S})
  /\ UNCHANGED told

(* mqtt_client_publish_all: skipped when memory is short. *)
PublishAll ==
  IF flag /\ heap = "ok" THEN Discover(Paired) ELSE UNCHANGED haVars

Init ==
  /\ occ = [s \in Slots |-> None]
  /\ known = [s \in Slots |-> FALSE]
  /\ dev = [m \in Macs |-> FALSE]
  /\ due = {}
  /\ host \in {"none", "right"} /\ broker = TRUE
  /\ session = FALSE /\ flag = FALSE
  /\ fails = 0 /\ wait = 0
  /\ heap = "ok"
  /\ listed = {} /\ told = {}
  /\ shown = [e \in AllEntities |-> FALSE]
  /\ order = None
  /\ troubles = 0

Trouble == troubles < MaxTroubles /\ troubles' = troubles + 1

-----------------------------------------------------------------------------
(* The link *)

(* Mistake: the shift of the interval is not limited. *)
NextWaitUnlimited(f) == IF f > 0 THEN LastWait + 1 ELSE FirstWait

(* MQTT_RECONNECT_INITIAL_MS << min(s_consecutive_fails, 5), at most       *)
(* MQTT_RECONNECT_MAX_MS.                                                  *)
Shifted == <<1, 2, 4, 8, 16, 32>>
NextWait(f) ==
  LET w == FirstWait * Shifted[f + 1] IN IF w > LastWait THEN LastWait ELSE w

(* Mistake: the devices are not announced again. *)
ConnectSilently ==
  /\ host # "none" /\ ~session /\ wait = 0
  /\ broker /\ host = "right"
  /\ session' = TRUE /\ flag' = TRUE /\ fails' = 0
  /\ UNCHANGED <<slotVars, host, broker, wait, heap, haVars, order, troubles>>

(* mqtt_client_loop, mqtt_client_connect: the connection is made; every    *)
(* paired device is announced, with its state and as available, as far as  *)
(* memory allows.                                                          *)
Connect ==
  /\ host # "none" /\ ~session /\ wait = 0
  /\ broker /\ host = "right"
  /\ session' = TRUE /\ flag' = TRUE /\ fails' = 0
  /\ IF heap = "ok"
     THEN /\ listed' = listed \cup
               UNION {Entity(occ[s], s, Discovered(TypeOf[occ[s]])) : s \in Paired}
          /\ told' = told \cup
               UNION {Entity(occ[s], s, AvailabilitySuffixes(TypeOf[occ[s]])) : s \in Paired}
          /\ shown' = [e \in AllEntities |->
                         IF occ[e[2]] = e[1] THEN known[e[2]] ELSE shown[e]]
     ELSE UNCHANGED haVars
  /\ UNCHANGED <<slotVars, host, broker, wait, heap, order, troubles>>

(* The broker does not answer, or not to these credentials. *)
ConnectFails ==
  /\ host # "none" /\ ~session /\ wait = 0
  /\ ~broker \/ host = "wrong"
  /\ flag' = FALSE
  /\ fails' = IF fails = 5 \/ NextWait(fails) = LastWait THEN fails ELSE fails + 1
  /\ wait' = NextWait(fails')
  /\ UNCHANGED <<slotVars, host, broker, session, heap, haVars, order, troubles>>

(* The loop finds the session gone; the next attempt is not due. *)
Notice ==
  /\ host # "none" /\ ~session /\ wait > 0 /\ flag
  /\ flag' = FALSE
  /\ UNCHANGED <<slotVars, host, broker, session, fails, wait, heap, haVars,
                 order, troubles>>

Wait ==
  /\ ~session /\ wait > 0
  /\ wait' = wait - 1
  /\ UNCHANGED <<slotVars, host, broker, session, flag, fails, heap, haVars,
                 order, troubles>>

(* The broker or the network ends the session; the time since the last     *)
(* attempt may have passed already or not.                                 *)
SessionLost ==
  /\ session /\ Trouble
  /\ session' = FALSE
  /\ broker' \in BOOLEAN
  /\ wait' \in 0 .. FirstWait
  /\ order' = None
  /\ UNCHANGED <<slotVars, host, flag, fails, heap, haVars>>

BrokerTurns ==
  /\ ~session /\ Trouble
  /\ broker' = ~broker
  /\ UNCHANGED <<slotVars, host, session, flag, fails, wait, heap, haVars, order>>

(* mqtt_client_save_config, from the dashboard or the portal: the next     *)
(* attempt is due at once; a standing session stays as it is.              *)
SaveConfig(h) ==
  /\ h # host
  /\ Trouble
  /\ host' = h
  /\ fails' = 0 /\ wait' = 0
  /\ UNCHANGED <<slotVars, broker, session, flag, heap, haVars, order>>

(* The hub restarts: the settings and the pairings are in flash, the rest  *)
(* is gone, and setup connects.                                            *)
Restart ==
  /\ Trouble
  /\ session' = FALSE /\ flag' = FALSE /\ fails' = 0 /\ wait' = 0
  /\ known' = [s \in Slots |-> FALSE] /\ due' = {}
  /\ heap' = "ok" /\ order' = None
  /\ UNCHANGED <<occ, dev, host, broker, haVars>>

HeapTurns(h) ==
  /\ h # heap /\ Trouble
  /\ heap' = h
  /\ UNCHANGED <<slotVars, linkVars, haVars, order>>

-----------------------------------------------------------------------------
(* The devices *)

(* A device is paired: registered at a free slot, and announced if s_mqtt  *)
(* is taken for connected.                                                 *)
Pair(m, s) ==
  /\ \A t \in Slots : occ[t] # m
  /\ occ[s] = None /\ \A t \in 1 .. s - 1 : occ[t] # None
  /\ Trouble
  /\ occ' = [occ EXCEPT ![s] = m]
  /\ known' = [known EXCEPT ![s] = FALSE]
  /\ listed' = IF Out /\ heap # "low"
               THEN listed \cup Entity(m, s, Discovered(TypeOf[m])) ELSE listed
  /\ told' = IF Out THEN told \cup Entity(m, s, AvailabilitySuffixes(TypeOf[m])) ELSE told
  /\ shown' = [e \in AllEntities |->
                 IF Out /\ e[1] = m /\ e[2] = s THEN FALSE ELSE shown[e]]
  /\ UNCHANGED <<dev, due, linkVars, heap, order>>

(* sensor_registry_remove, sensor_registry_clear_all: Home Assistant is    *)
(* told nothing.                                                           *)
Remove(S) ==
  /\ S # {} /\ S \subseteq Paired
  /\ Trouble
  /\ occ' = [s \in Slots |-> IF s \in S THEN None ELSE occ[s]]
  /\ known' = [s \in Slots |-> IF s \in S THEN FALSE ELSE known[s]]
  /\ UNCHANGED <<dev, due, linkVars, heap, haVars, order>>

(* POST /api/sensor/*/name announces the device again. *)
Rename(s) ==
  /\ occ[s] # None /\ flag
  /\ Discover({s})
  /\ haVars' # haVars
  /\ UNCHANGED <<slotVars, linkVars, heap, order, troubles>>

(* Console key b, POST /api/broadcast *)
Broadcast ==
  /\ PublishAll
  /\ haVars' # haVars
  /\ UNCHANGED <<slotVars, linkVars, heap, order, troubles>>

(* The device changes its state by itself. *)
DeviceTurns(m) ==
  /\ Trouble
  /\ dev' = [dev EXCEPT ![m] = ~@]
  /\ UNCHANGED <<occ, known, due, linkVars, heap, haVars, order>>

(* Its report: sensor_registry_update_state, queue_bridge_state. *)
Report(s) ==
  /\ occ[s] # None
  /\ known[s] # dev[occ[s]] \/ s \notin due
  /\ known' = [known EXCEPT ![s] = dev[occ[s]]]
  /\ due' = due \cup {s}
  /\ UNCHANGED <<occ, dev, linkVars, heap, haVars, order, troubles>>

(* process_bridge_queue: a slot in use is published when the session is    *)
(* taken for up, and dropped otherwise.                                    *)
Bridge(s) ==
  /\ s \in due
  /\ due' = due \ {s}
  /\ shown' = IF occ[s] # None
              THEN ShownAfter(Entity(occ[s], s, StateSuffixes(TypeOf[occ[s]])))
              ELSE shown
  /\ UNCHANGED <<occ, known, dev, linkVars, heap, listed, told, order, troubles>>

-----------------------------------------------------------------------------
(* Orders *)

(* Someone switches an entity in Home Assistant. *)
Switch(e, v) ==
  /\ order = None /\ session
  /\ e \in listed
  /\ Trouble
  /\ order' = <<e, v>>
  /\ UNCHANGED <<slotVars, linkVars, heap, haVars>>

(* mqtt_callback: the number behind the last _ of the entity is the slot,  *)
(* and the order goes to the queue of the device that is there now         *)
(* (device_send_command), which carries it out or drops it.                *)
Callback ==
  /\ order # None /\ session /\ host # "none"
  /\ LET m == occ[order[1][2]] IN
     dev' \in {dev} \cup (IF m # None THEN {[dev EXCEPT ![m] = order[2]]} ELSE {})
  /\ order' = None
  /\ UNCHANGED <<occ, known, due, linkVars, heap, haVars, troubles>>

Next ==
  \/ Connect \/ ConnectFails \/ Notice \/ Wait
  \/ SessionLost \/ BrokerTurns \/ Restart
  \/ \E h \in {"none", "wrong", "right"} : SaveConfig(h)
  \/ \E h \in {"ok", "short", "low"} : HeapTurns(h)
  \/ \E m \in Macs, s \in Slots : Pair(m, s)
  \/ \E S \in SUBSET Slots : Remove(S)
  \/ \E s \in Slots : Rename(s) \/ Report(s) \/ Bridge(s)
  \/ Broadcast
  \/ \E m \in Macs : DeviceTurns(m)
  \/ \E e \in Switchable, v \in BOOLEAN : Switch(e, v)
  \/ Callback

(* The loop runs: it connects, waits, bridges and hands on orders; paired  *)
(* devices report again and again.                                         *)
Fairness ==
  /\ WF_mqttVars(Connect \/ ConnectFails) /\ WF_mqttVars(Wait)
  /\ WF_mqttVars(Notice) /\ WF_mqttVars(Callback)
  /\ \A s \in Slots : WF_mqttVars(Report(s)) /\ SF_mqttVars(Bridge(s))

FairSpec == Init /\ [][Next]_mqttVars /\ Fairness

-----------------------------------------------------------------------------
TypeOK ==
  /\ occ \in [Slots -> Macs \cup {None}]
  /\ known \in [Slots -> BOOLEAN] /\ dev \in [Macs -> BOOLEAN]
  /\ due \subseteq Slots
  /\ host \in {"none", "wrong", "right"} /\ broker \in BOOLEAN
  /\ session \in BOOLEAN /\ flag \in BOOLEAN
  /\ fails \in 0 .. 5 /\ wait \in 0 .. LastWait
  /\ heap \in {"ok", "short", "low"}
  /\ listed \subseteq AllEntities /\ told \subseteq AllEntities
  /\ shown \in [AllEntities -> BOOLEAN]
  /\ order \in {None} \cup (Switchable \X BOOLEAN)
  /\ troubles \in 0 .. MaxTroubles

(* Home Assistant knows the device at s: every entity is listed, is known  *)
(* to be available (a repeater's battery never is) and shows the state     *)
(* that the device has.                                                    *)
Mirrored(s) ==
  occ[s] # None =>
    \A e \in Entity(occ[s], s, Discovered(TypeOf[occ[s]])) :
      /\ e \in listed
      /\ TypeOf[occ[s]] = "repeater" \/ e \in told
      /\ shown[e] = dev[occ[s]]

Calm == broker /\ host = "right" /\ heap = "ok"

(* However the session was lost, from a loss on after which the broker can *)
(* be reached, the settings are right and memory suffices, Home Assistant  *)
(* comes to show every paired device as it is: what was paired, renamed or *)
(* reported during the loss, while s_mqtt_connected was still set, is not  *)
(* lost (mqtt_client_connect publishes all of it again).                   *)
HaCatchesUp ==
  [](~session /\ []Calm => <>[](\A s \in Slots : Mirrored(s)))
=============================================================================
