# Homeware in TLA+

Homeware is a home-automation system of ESP8266/ESP32 firmware: a hub that
speaks ESP-NOW, HTTP over Wi-Fi ("TCP") and LoRa with its nodes and MQTT with
Home Assistant, and the nodes themselves: lamps, switches, sensors, battery
devices and an extender that relays ESP-NOW frames.  This directory models the
parts of it whose correctness depends on orders and times that a test on the
bench does not meet, checks them with TLC and proves the main results with
TLAPS.

Paths below are relative to the repository.

## 1. The system

### How the hub runs

The hub has three actors, and every hazard of the hub comes from their number:

- the **loop** (`hub/src/main.cpp`, `loop`) visits the radios, MQTT, the
  Telegram bot, the button and the console one after the other;
- the **receive callback** of ESP-NOW (`EspnowHandler::handle_rx`) runs in the
  Wi-Fi task, between any two statements of the loop;
- the **web task** runs the handlers of the asynchronous web server
  (`hub/src/web_server.cpp`, and the node API of `tcp_radio_handler.cpp`),
  also between any two statements of the loop.

The hub is built for the ESP32 and the ESP8266; the models describe the ESP32,
whose tasks preempt each other.  On the ESP8266 callbacks run only where the
loop yields, which are some of the same interleavings.

LoRa frames are handled by the loop.  Only `sensor_registry.cpp` has a lock.

### Components

| Component | State | Operations | Talks to |
|---|---|---|---|
| Sensor registry `hub/src/sensor_registry.cpp`, `config_store.cpp` | `s_sensors`, `s_dirty`, the copy in flash | find, find free slot, add, remove, rename, save, flush, load | everyone, by shared memory |
| ESP-NOW command queue `espnow_handler.cpp:234-353` | `m_pending_cmds` | enqueue, drain | web task, MQTT, Telegram (enqueue), loop (drain) |
| ESP-NOW pairing `espnow_handler.cpp:70-145, 437-481`, `radio_manager.cpp` | `m_pairing_mode`, `m_pairing_start`, `m_pending_pairs` | open, close, expire, queue a request, answer it | callback, loop, web task, button |
| Bridge ring `espnow_handler.cpp:163-180` | a ring of slots, head, tail | queue, process | callback to loop |
| Availability: `online` and `last_seen` of every device, what the broker retains | `virtual_sensor_t`, `s_mqtt_connected` | handle a frame, scan, connect, publish | callback, web task, loop, broker |
| TCP radio `tcp_radio_handler.cpp` | `m_pending_commands`, pairing mode | register, state, heartbeat, command get, cleanup, discover | nodes by HTTP, loop |
| LoRa radio `lora_handler.cpp`, `main.cpp:216-280` | pairing | receive, send, scan | loop |
| MQTT client `mqtt_client.cpp` | session, `s_mqtt_connected`, back-off, the broker's settings | connect, announce, publish, command callback | broker, registry, command queues |
| Web server `web_server.cpp` | configuration | about forty handlers | everything |
| Telegram bot `telegram_bot.cpp` | throttles, `s_prev_online`, last poll | poll, alerts | registry, command queues |
| Main loop `main.cpp`, with the Wi-Fi half of `web_server.cpp` and `captive_portal.cpp` | operation mode, credentials, reconnection, portal, clock, agenda, watchdog | the visits, reconnect, portal, restart | everything |
| Extender `nodes/extender/src/main.cpp` | clients, sequence cache, forward queue, gateway, `s_last_gateway_comm` | receive, forward, discover, time out | clients, hub |
| Lamp `nodes/lamp/src/main.cpp` | relay, last mirrored state, cached target slot, timers, pulse, cycle, update | set relay, poll, mirror, fetch target, restart | hub |
| Switch `nodes/switch`, `nodes/onoff-lora` | relay, startup mode, timers, pulse, cycle, update | set relay, button, pages, restart | hub |
| Battery nodes `nodes/acquiry-bat`, `soil-moisture`, `presence-bat` | state machine, gateway in the EEPROM, attempts | wake, pair, read, send, wait for the ACK, sleep, console | hub |
| Sensor nodes `nodes/climate-gas`, `rain`, `presence` | Wi-Fi state, level, alarm | keep the Wi-Fi, read, report, portal | access point, hub |
| AVR switch `nodes/onoff-lora-avr` | relay, paired flag, radio mode | ask, report, receive | hub, by LoRa |
| `shared/` | message types, `EspnowRadio`, `TcpRadio`, timers | | a git submodule that is empty here |

### What is hard, and what would make each part correct

- **Registry**: tasks search and insert in separate critical sections, a save
  copies under the lock and writes after it.  Correct: no device in two slots,
  a slot that was taken when it was looked for is never overwritten, what
  flash holds was once the table, a device that asks to be paired is paired in
  the end.
- **Command queue**: filled by one task and drained by another without a lock,
  and clocks that wrap.  Correct: a bounded number of hops, well apart, no
  command dropped before it was sent, the queue empties.
- **Pairing**: requests cross from the callback to the loop through entries
  that are reused.  Correct: everyone who asks is paired; the window lasts as long as it says and
  closes by itself.
- **Bridge ring**: no lock.  Correct: a bounded FIFO.
- **Availability**: handler and scan both read `online` before they write it.
  Correct: offline only after silence, silence is noticed, Home Assistant is
  told.
- **Extender**: answers carry no address of the client; caches and queues are
  small.  Correct: a client is sent no more answers than it has asked for,
  alone or with all only to registered peers, and a lost gateway is given up.
- **TCP commands and mirrors**: commands are stored per device, lamps answer
  commands with commands.  Correct: no lamp has two slots, changes reach the
  mirror, the mirroring stops.
- **MQTT**: what is published while the session is gone but not yet missed, or
  while memory is low, is lost; entities name slots.  Correct: after the next
  connection Home Assistant shows what is.
- **Telegram**: one throttle for all nodes.  Correct: an alarm the user wants
  is never kept back by others.
- **Wi-Fi, clock and restarts of the hub**: the portal blocks the loop, and a
  restart forgets why it happened.  Correct: the hub comes back to a router
  that is there, and no restart repeats itself.
- **Relay nodes**: button, pages, hub, timers, pulse and cycle all switch one
  relay.  Correct: a countdown belongs to the relay that is on now, and the
  hub shows what the relay is.
- **Battery nodes**: deep sleep forgets everything.  Correct: awake periods
  end, a node is quiet for long only if it was heard, pairing survives.
- **Sensor nodes**: outages and portals.  Correct: the node comes back, and an
  alarm that lasts is shown.

`PROJECT.json` lists every hazard at its line, with the properties about it.

## 2. Modules

`X_proofs.tla` holds the theorems about `X.tla`, `MCX.tla` its instances;
`Nodes_proofs.tla` and `Hub_proofs.tla` hold those about the modules that
`MCNodes` and `MCHub` put side by side.

| Module | Models | State and actions |
|---|---|---|
| `CommandQueue` | `enqueue_cmd`, `process_pending_commands` | `q` is `m_pending_cmds`; the commands come from the loop (`Enqueue` between two drains) or from the web task, whose writes (`ClaimEntry`, `FillEntry`, `StampEntry`) fall between the loop's steps |
| `RegistryMap` | what the registry promises: a map of slots to devices, claims of free slots, and a durable copy | abstract |
| `SensorRegistry` | `sensor_registry.cpp` and its users | three tasks: callback, loop, web server (dashboard and TCP nodes); search and insertion are separate steps, as are copy, write and end of a save; refines `RegistryMap` |
| `BoundedFifo` | what the ring promises | abstract |
| `BridgeRing` | `queue_bridge_state`, `process_bridge_queue`, one step per shared access | refines `BoundedFifo` |
| `PairingWindow` | the window of ESP-NOW and of TCP, button, console, `POST /api/pair/*` | the web task's writes and the loop's checks are separate steps; its names begin with `W` where `SensorRegistry` has the same |
| `Extender` | `espnow_recv_cb`, `process_forward_queue`, gateway loss and discovery, with clients and a gateway around it | a frame of a client, of the gateway, a forward, a check are one step each: on the ESP8266 callback and loop share one thread and do not interrupt each other's statements |
| `Availability` | handlers of frames, scans of the three radios, connection to the broker | handlers and scan step by step; `Handler` says whether they can overlap, `Rereads` whether the clock is read per device |
| `MqttLink` | connection, back-off, announcements, states, availability and orders of `mqtt_client.cpp`; an order is handed to the queues of the radios, which may drop it | an entity is a device, the slot it had and a suffix; the three tables of the code that say which entities a type has are kept apart (`Discovered`, `StateSuffixes`, `AvailabilitySuffixes`); `flag` is `s_mqtt_connected`, `session` the truth |
| `TelegramBot` | `check_alerts` and the settings that enable alerts | a check is one step, its alerts the set `sent`: what was handed to the library, whose result the code does not use |
| `HubMain` | setup and loop of `main.cpp`, Wi-Fi, portal, clock, agenda, watchdog | `phase` "portal" is a loop that stands still; handlers of the web server run in either phase |
| `BatteryNode` | `acquiry-bat` (ESP-NOW and TCP), `soil-moisture`, `presence-bat` | one action per state of `loop()`, one per message of the callback, with the air, the hub and the console around it |
| `SensorNode` | `climate-gas`, `rain`, `presence` | `loop()` in parts: Wi-Fi, sensor with report and LED, console; an access point that goes and comes |
| `RelayNode` | `lamp`, `switch`, `onoff-lora` | every way to `set_relay`, what starts and ends countdowns, restarts and updates |
| `LoraLink` | `onoff-lora-avr` with its driver, and `lora_rx_cb`, `send_command` of the hub | the radio hears one frame and only while it listens |
| `TcpLamps` | queues of `tcp_radio_handler.cpp`, `set_relay`, `on_command` and the target cache of the lamp | a web handler is one step and `set_relay` one, since a lamp waits for its post |

Nodes of a kind, services of the hub and instances of one module that share no
state are checked side by side in one run: `MCNodes`, `MCHub`,
`MCSensorRegistry`, `MCCommandQueue` and `MCAvailability` choose which of them
a behaviour is of (`part`), so that each question costs one state space and a
run answers those that belong together.  `MCNodes` extends `BatteryNode` and
`RelayNode`, `MCHub` extends `BridgeRing` and `HubMain`, `MCSensorRegistry`
extends `SensorRegistry` and `PairingWindow`; the others are instances.  The
first two of these three declare the constants of their instances, so that
what is proved of them holds for every value and a configuration gives those
of its run.

Names follow the source (`Enqueue` is `enqueue_cmd`, `Flush` is
`sensor_registry_flush_if_dirty`); the variables' comments give their names in
the code, and `PROJECT.json` maps each definition to its lines.

Definitions that a comment introduces as a mistake are not part of the model:
each is a plausible error of the code, in the form of the definition that
follows it, and putting it in the place of that definition makes one of the
properties fail.  They show that the properties can tell the code from such
errors.

## 3. Runs

### Runs that pass

| Run | What it shows |
|---|---|
| `CommandQueue_loop` | The queue as MQTT and Telegram use it, from the loop alone: no command is sent more than `CMD_MAX_HOPS` times (`HopBudget`), and no command that was stored expires before it was sent (`DispatchedBeforeDropped`), through stalls of the loop and reuse of entries.  In a second instance the web task writes entries while the loop drains them and the clock wraps again and again: every entry empties (`QueueDrains_web`) |
| `SensorRegistry_all` | Three tasks inserting, two saving, more devices than slots: no device has two slots (`OneSlotPerDevice`), and the registry implements `RegistryMap` (`MapSpec`): whoever inserts has seen its slot free, saves and restarts keep or restore a table that was once whole.  In a second part the pairing window is opened by button, console and web server in any order: it lasts its time (`WindowLasts`) and lets nobody in later than one visit of the loop after its end (`LateAtMostOneVisit`) |
| `SensorRegistry_pairing` | Callback, loop and dashboard, the first two inserting, with failing saves, lost responses and a restart: again `MapSpec`, and devices that keep asking end up registered and informed (`AskersGetPaired`), also one that another task's insertion has put out of its slot |
| `Availability_loop` | Where the loop handles frames (LoRa): a device is taken offline only after silence (`OfflineOnlyWhenSilent`); one that keeps sending is shown available, through failures of broker and hub and announcements that stop for want of memory, if the last of them reached it (`AliveShownAvailable`).  In a second instance, where a task handles frames (ESP-NOW, TCP), one that keeps sending is taken for online again and again and one that stays away is taken offline for good (`PresenceNoticed`) |
| `TcpLamps_hub` | Lamps, their queues and the registry, with restarts, losses and removals: no lamp has two slots (`OneSlotPerLamp`); while nothing goes wrong every change is on its way to the mirror (`MirrorPending`) and gets there (`MirrorFollows`) |
| `Extender_routing` | Two clients that count from 0 alike, as all nodes do: whatever is late, repeated, lost or overwritten, and although answers go astray, no client is sent more under a number than it has sent itself (`AnsweredOnce`); unicasts go to registered peers (`UnicastToPeer`); a gateway that was heard is given up when nobody is heard any more (`LossNoticed`) |
| `Nodes` | A battery node sleeps its whole interval only if it was heard or has a reason (`QuietOnlyIfHeard`), always comes to sleep and, once paired, keeps reporting (`BatteryCycle`); a sensor node comes back to its network, and an alarm that lasts is lit and reported (`SensorRecovers`); a countdown never outlives the relay it is for (`CountdownIsOurs`); the hub agrees with the relay (`HubAgrees`), a cycle goes on (`CycleGoesOn`), and the state of a LoRa switch gets as far as MQTT (`LoraTold`) |
| `Hub_services` | For every interleaving of the memory accesses the ring implements `BoundedFifo` (`FifoSpec`) and what was put in is served (`EveryValueServed`); after a lost session Home Assistant comes to show what is (`HaCatchesUp`); smoke alarms and absences are reported if the user wants them (`AlertsSent`); the agenda restarts the hub once (`AgendaOnce`); the hub comes back to its router, also from the portal, and restarts when its radio hangs (`HubRecovers`) |

### Statements of the repository that the code does not keep

Four runs are expected to end with a counterexample; `PROJECT.json` quotes the
statements under `findings`.

| Run | What happens |
|---|---|
| `CommandQueue_hops` | ON, OFF, ON for a lamp that hears every frame.  After a stall of the loop, hops of two commands fall into one drain and are sent in the order of the entries, so that an older OFF in a higher entry undoes a newer ON (`NewestPrevails`; `espnow_handler.h:48` takes redundant hops to be harmless) |
| `Extender_shared` | Two clients send frames with the number 0, the gateway answers the first, and the answer goes to the second: the cache is searched by the number alone, the newest entry first (`RightClient`; `extender/SPEC.md:44` says the cache routes to the right client).  Every node counts from 0 after a start, and battery nodes start at every wake-up |
| `LoraLink_pairs` | The AVR switch asks for its slot and the hub answers, nothing is lost and nobody interferes.  The driver of the node leaves the chip in standby after every send and receives only after a first reception, so the answer is never heard and `LoraLoop` never enabled (`LoraPairs`; `onoff-lora-avr/README.md:70` says that a response marks the node paired) |
| `TcpLamps_pingpong` | Two lamps that mirror each other and are used at almost the same time pass the two states round for ever (`SyncSettles`; the comment in `set_relay` says the loop is avoided) |

### Other behaviours the models have

The models contain the following behaviours of the code, too.  Where the
property is one of a run, the change of its configuration that shows it is
given; the others are described by the actions named.

- Commands of the web task are written without a lock: with
  `Issuers = {"web"}` `DispatchedBeforeDropped` and `HopBudget` fail, as the
  loop reads a claimed entry before its new fields are there.
- `next_retry_ms` is compared by `<`: `DispatchedBeforeDropped` fails with
  `Wrap = 6`, for a command issued as `millis()` wraps.
- A full queue drops its oldest command and does not store the new one either
  (`DropOldest`; the comment at `espnow_handler.cpp:303` expects it stored).
- Two tasks that insert can fill the slot both found free; the device of the
  first is then in no slot, though it was told one (`PairFindSlot`,
  `RxFindSlot`, `TcpFindSlot`; `AddSensor` does not look at what the slot
  holds).  `RegistryMap` shows this as two claims of one slot; a device that
  goes on asking gets another (`AskersGetPaired`), one that does not is lost.
- What changes between a save's copy and its end is declared clean
  (`TakeSnapshot`, `ClearDirty`; `sensor_registry.cpp:337`) and is lost with a
  restart unless something else changes.  So is a device that was told it is
  paired before the next flush; it is registered again if it asks again.
- A pending pairing entry can be reused while it is served
  (`espnow_handler.cpp:80`), and the response then names the slot of another
  device.
- An answer that goes to the wrong client consumes that client's entry, so
  the answer of that client goes to all or to a third (`Route`); so do answers
  to frames whose number is not read and counts as 0 (`"bare"` in `Kinds`).
- A gateway that is gone stays configured while the clients send, since their
  frames count as contact, and after a restart of the extender, since it was
  never heard (`main.cpp:982`).  One that comes back just after it was given
  up is given up again, since its announcement does not count
  (`FromGatewayAnnounce`); and a pairing is refused with a working uplink when
  nobody has sent for a while (`Refusing`).
- A window that the web server opens can be closed between its two writes:
  `WindowLasts` leaves that moment out (`~opening`).
- With a full registry ESP-NOW refuses to pair and TCP agrees
  (`StartPairing`): the server answers 200 where 400 is meant, and the pairing
  mode of TCP has no timeout.
- The TCP scan reads the clock once and a handler may renew `last_seen`
  afterwards: `OfflineOnlyWhenSilent` fails with `Handler = "task"`, and the
  device is offline until its next frame.  Handler and scan publish after they
  decide: `AliveShownAvailable` fails with `Handler = "task"`, also with
  `Rereads = TRUE`.
- A device that is away when the hub connects to the broker is published as
  online (`Announce`; `mqtt_client.cpp:261`) and, as it is offline already,
  never corrected.  When the heap is low the announcement ends and leaves the
  devices that follow as the broker retains them (`mqtt_client.cpp:258`): one
  that came back while the broker was away is then shown as offline until it
  has been silent once more or there is another connection.
  `AliveShownAvailable` therefore leaves out the devices the last connection
  skipped for good (`skipped`).
- A lamp takes a command within 500 ms of its own sync for an echo and does
  not mirror it (`Obey`); a lamp restored to ON at start and switched off has
  nothing to mirror (`Restart` leaves `last` at FALSE); the slot of a target
  that was removed may be given to another lamp, which is then switched until
  the cache is renewed (`FetchSlot`).

Of the battery nodes (`BatteryNode`):

- The callback takes any ACK and any pairing response for its own
  (`acquiry-bat/src/main.cpp:199`, `:221`); in the model there is one node.
- A pairing that fails sleeps the normal interval, not the retry interval
  (`SleepTime` looks at readings and data only).
- The key `p` forgets the gateway in RAM and not in the EEPROM, and a node
  that was reached by telnet is suspended again at once (`KeyPair`).  A node
  reached by the serial port stays awake until somebody lets it go, so
  `AwakeEnds` is about nodes that are not suspended.
- Without a gateway `soil-moisture` and `presence-bat` open their portal at
  every wake-up (`SetupSoil`).

Of the sensor nodes (`SensorNode`):

- A connection that comes back leaves `s_wifi_state` RECONNECTING with its old
  deadline, so that the next outage, however short, finds it passed and may
  open the portal at once (`ReconnectTimeout`).  `presence` may open its
  portal at the first attempt.
- While the Wi-Fi is away the sensor is not read, and the gas alarm neither
  lit nor put out; `AlarmShown` is about a node with a network.

Of the relay nodes (`RelayNode`):

- A repeated ON cancels the running pulse, and the relay stays on
  (`SetRelay`; `switch/SPEC.md:126`).  A restart during a pulse with a startup
  mode that switches on leaves the relay on without one.
- An upload that is aborted leaves the loop at `s_ota_in_progress`
  (`UploadAborted`), as does a failed update of the switch
  (`HandleOtaErrorSwitch`); only pages, console and Alexa are still served.
- The watchdog of a lamp that has no hub restarts it, and with it a cycle and
  a pulse; `CycleGoesOn` is about a lamp that is connected.

Of the LoRa switch (`LoraLink`): the hub's commands have the length 0, which
the node ignores (`CommandLength`); the key `p` writes that the node is paired
(`PairKey`); after its attempts the node is silent until a restart.

Of the hub's services:

- An order goes to the device that is at the slot the entity names, and the
  queue it is handed to may drop it (`Callback`; `CommandQueue` and `TcpLamps`
  say when): no property promises that it is carried out.  Entities of a
  removed device stay in Home Assistant.  The battery of a repeater is
  announced and its availability never published.
- What is skipped for want of memory is made up for by the next connection
  only (`ListedAfter`).  New settings do not end a session (`SaveConfig`), and
  with the host removed `s_mqtt_connected` stays as it was.
- The throttles of the bot belong to kinds of alerts and not to nodes, so that
  of several absent nodes the first is reported again and again (`First`);
  `AbsenceReported` therefore says that somebody's absence is.  `s_prev_online`
  is renewed also when an alert was throttled, so a return may go unreported.
  After a start the throttles run as if alerts had just been sent.  A type or
  level that is turned off silences its alerts, and of smoke both count; the
  broker's absence has a level and no type (`BrokerOffline`); new settings
  count from the next start on (`Restarts`).  A message that the library
  fails to send is gone, and its throttle taken.
- The watchdog restarts a hub whose nodes are all silent for their own
  reasons, such as battery nodes, every five minutes (`RxWatchdog`).
- The access point of mode "hybrid" is dropped at the first reconnection
  (`MaintainWifi`; `web_server.cpp:1089`).  A form sent outside the portal
  leaves `s_submitted` set, and the next portal ends at once (`PortalSetup`).
- The clock a browser sets stands still (`BrowserSetsClock`), so a hub without
  NTP may be restarted once more for each page that sets it in the minute of
  the agenda: `AgendaOnce` counts them.

### Bounds

Two devices or clients are what every race here needs, and a third, in
`SensorRegistry_all`, makes more devices than slots.  In the instance of
`Availability` whose frames a task handles one device is enough: the handler
and the scan treat every device by itself, and meet only when they work on the
same one; the other instance has two, as the scan's clock ages from one to the
next.  `SensorRegistry_all` has all writers and no failing saves;
`SensorRegistry_pairing` has two inserting tasks, as TCP nodes insert in the
web task the way repeaters do in the callback, and saves that fail.  One
client of the extender sends the numbers 0 and 1, the other one 0, so that
they share a number and have one apart; `Extender_shared` leaves out commands,
whose number is 0 for all.  Queues, caches and the registry have one or two
entries, so they are full, reused and too small; the ring has four, one of
which stays empty.  Clocks count in ticks; timeouts are one
to three of them, enough for a deadline to be met, just missed and missed by
far.  The clock of the command queue wraps after four ticks in the instance
with the web task, so that wraps happen while commands wait; the other one and
`CommandQueue_hops` bound it by `Horizon` before the wrap.  Where only the
time since an event matters it is counted and held at the first value that
exceeds every limit.  Commands, uses of a lamp and faults
(losses, restarts, removals, turns of the broker) are counted and bounded by a
constant named in each module; the restarts and losses of the extender and the
visits of the loop are not bounded.

A battery node has its three attempts to pair and two to read (three in the
code), enough for both to be used up; builds differ by `Kinds`, and the build
of `presence-bat` differs from the others in its sensor only, which is why the
run leaves it out.  Losses, removals and the console are unbounded.  A sensor
node waits two ticks between attempts and four between portals, in the order
of the code's 15, 30 and 300 seconds.  A relay node chooses among all startup
modes and the pulse that depends on the timer, and may be left by everybody at
any time.  The AVR switch has two attempts of 20 and three faults.  MQTT has a
light and a repeater at two slots, a type that takes orders and one that has no
availability, and four faults: enough to lose a session, to run out of memory, to
pair and to remove in one behaviour.  The bot watches two nodes, of which one
can hide the other, under three settings: all alerts, some types and levels,
and the broker's absence alone.  The hub's day has two minutes, one of them the agenda's,
and two faults of people and router.  Those of its services whose faults run
out may stop; the run says `CHECK_DEADLOCK FALSE` for them.

### Fairness

- The loop runs for ever (`loop()` is called by the framework): weak fairness
  on its next step; strong fairness on a step that begins at the loop's start
  (`Flush`, `PairQueue`, `ScanStart`, `Connect`), which other tasks or other
  visits of the loop disable and enable in turn.
- A handler that has started ends: weak fairness on its steps, also on the
  insertion of the receive callback (`RxAdd`).
- A lamp polls about once a second: weak fairness on taking a command whose
  mirroring post arrives.
- A device that wants to pair, or is switched on, sends again and again:
  strong fairness on being heard.  In particular not every frame is lost.
- Time passes: weak fairness on the tick.
- A portal times out and a reconnection runs: weak fairness, since both are
  loops of the code that end by themselves.
- A node that sleeps wakes up by its timer, and now and then no portal keeps
  it from working: strong fairness.
- Frames and posts of a node that keeps trying get through now and then, and
  the broker is there when a LoRa state is due now and then: strong fairness.
- A browser that uploads ends in some way, by success, error or going away:
  weak fairness on the three together, none on success.

In `MCNodes` and `MCAvailability` some strong conditions of parts that never
run together are joined into one, which TLC handles faster and which means the
same, as one part runs in a behaviour.

Nothing is assumed about people, the web task's starts, or faults.

## 4. Proofs

TLAPS proves, for every value of the constants:

| Theorem | Says | Under |
|---|---|---|
| `CommandQueue_proofs!TypeCorrect` | type | |
| `...!HopBudgetHolds` | no command is sent more often than allowed | `Issuers \subseteq {"loop"}` |
| `...!DispatchedBeforeDroppedHolds` | no command is forgotten before it was sent | the same, `MaxStall <= TTL`, and a clock that does not wrap (`Horizon < Wrap - 1`) |
| `SensorRegistry_proofs!TypeCorrect`, `OneSlotPerDeviceHolds` | type; no device has two slots, in RAM or in flash | |
| `...!MapSpecHolds` | the registry implements `RegistryMap`, step by step, with all tasks inserting and saving | |
| `Extender_proofs!TypeCorrect`, `UnicastToPeerHolds` | type; unicasts go to registered peers | |
| `...!AnsweredOnceHolds` | no client is sent more under a number than it has sent, whoever shares it | |
| `PairingWindow_proofs!WTypeCorrect`, `WindowLastsHolds`, `LateAtMostOneVisitHolds` | type; the window's time and its end, whoever opens it | |
| `Nodes_proofs!TypeCorrect`, `QuietOnlyIfHeardHolds` | battery nodes: type; a node sleeps long only if it was heard or has a reason, for every number of attempts and whatever is lost or done at the console | |
| `...!RelayTypeCorrect`, `CountdownIsOursHolds` | relay nodes: type; a countdown runs only while the relay is on | |
| `...!NodesTypeCorrect` | the types of battery, sensor and relay nodes and of the LoRa switch with its hub | |
| `Hub_proofs!TypeCorrect`, `Implements` | type; the ring implements the bounded FIFO | |
| `...!HubMainTypeCorrect`, `AgendaOnceHolds` | the hub's loop: type; the agenda restarts the hub once, and once more for each time a page sets its clock | |
| `...!HubTypeCorrect` | the types of the MQTT client, of the bot and of the hub's loop | |
| `Availability_proofs!TypeCorrect` | type | |
| `...!OfflineOnlyWhenSilentHolds` | offline only after silence | `Handler = "loop"` |
| `TcpLamps_proofs!TypeCorrect`, `OneSlotPerLampHolds` | type; no lamp has two slots | |
| `...!MirrorPendingHolds` | all changes are on their way | `Paired`: a mirror is used by nobody and mirrors one lamp |

Further assumptions are the `...Assumption` of each module, which TLC
evaluates on its instances.

The inductive invariants and why they are needed:

- *HopBudget*: an entry's `hops` equals what was sent of its command, and an
  entry that waits has not used its budget.
- *OneSlotPerDevice*: the check in `sensor_registry_add` is under the lock, so
  the table never has a device twice; the copies (a save in progress, flash)
  are copies of such a table.
- *DispatchedBeforeDropped*: a command is due at the time it is stored, and
  the loop looks at its entry in the next drain, which is at most a stall
  away; so an entry that was never sent is no older than that stall when it is
  looked at, neither early nor aged, and its hop count, which `StampEntry`
  resets before the drain, is not spent.  At the wrap of the clock an entry
  that was stamped just before it is early until it is too old (section 3),
  hence the third hypothesis.
- *MapSpec*: a task's claim in the abstract map is the slot it goes to fill,
  from the search to the insertion, so that a search is a claim, an insertion
  the use of one (or its end, when the device is registered by then), and two
  claims may name one slot.  What a task is writing and what flash holds are
  copies of the table at the moment they were taken; so a write is that of a
  copy, and every other step a removal, a restart or a stutter.  It needs that
  the table has no device twice and that a task about to insert knows what.
- *Implements*: the producer owns the entry at the head and the consumer the
  one at the tail until they publish the move; the abstract queue is the part
  of the ring between the two.
- *AnsweredOnce*: for each client and number, the entries of the cache that
  are not consumed are no more than the frames not yet answered (`Backed`):
  a frame adds one of both (or neither bound is passed: `owed` stops at the
  size of the cache), overwriting and consuming take an entry away, and only
  an answer by a consumed entry takes a frame away.  It needs an entry
  counted exactly once, for any size of the cache (`GrowsByOne`).
- *UnicastToPeer*: every client in the cache is a peer, unless the table is
  full; a full table stays full until a restart, which empties the cache.
- *WindowLasts*, *LateAtMostOneVisit*: the start of an open window lies as far
  back as the window has been open, up to where the clock saturates, except
  while the web server has not written the start yet; the callback sees the
  flag at most one stall after it should have been taken back.
- *OfflineOnlyWhenSilent*: the age the scan reads is at least the time since
  the device was heard, and the scan, run by the same actor as the handlers,
  cannot find one half done.
- *MirrorPending*: while nothing went wrong, a mirrored lamp has mirrored its
  relay, has no commands of its own and knows its mirror's slot; the last
  command in the mirror's queue, or its relay if there is none, is the state
  of the lamp.
- *QuietOnlyIfHeard*: an ACK, in the air or received, stands for data that the
  hub heard since the node woke, since nothing of either outlives a sleep; and
  every way into SLEEP leaves a reason behind, which the console can spoil in
  a suspended node only, and that node does not go on to sleep.  Counters are
  below their limits wherever they are increased, which keeps `pairs = MaxPair`
  and the like exact.
- *CountdownIsOurs*: it is inductive with the types, once it is known of each
  way to switch that it goes through `set_relay`, which ends the countdown of
  a relay that is switched off, and of each restart that it ends them all.
- *AgendaOnce*: while the agenda has restarted the hub more often than a page
  has set its clock, the hub has no clock and has just started (`Forgetful`).
  A page sets it by being counted; NTP sets it `NtpDelay` minutes after the
  start, which is in another minute, where both counts are back at 0.
- *HubTypeOK*: that only entities with a device and a slot are announced needs
  that availability and state are published for suffixes that discovery
  announces, for every type (`TablesAgree`): the code keeps three tables.
  That an alert names a node needs that the first of a set of nodes is one of
  them (`FirstInLine`), from the library's well-foundedness of `<`.

Only model-checked: liveness (`QueueDrains_web`, `AskersGetPaired`,
`EveryValueServed`, `LossNoticed`, `PresenceNoticed`, `AliveShownAvailable`,
`MirrorFollows`, `HaCatchesUp`, `AlertsSent`, `HubRecovers`, `BatteryCycle`,
`SensorRecovers`, `HubAgrees`, `CycleGoesOn`, `LoraTold`), which is out of the
prover's reach; what `CommandQueue_loop` shows of a web task that writes
entries and of a clock that wraps; and the counterexamples to
`NewestPrevails`, `SyncSettles`, `LoraPairs` and `RightClient`.  What
recursive definitions compute for every input is out of reach too; no module
has any.

## 5. What the models take for granted

- A critical section of `sensor_registry.cpp` is one step.  The code ignores
  a lock that was not obtained within its timeout; a section would have to
  last that long for it to matter.
- The ring's stores become visible in program order.
- A visit's test of one queue entry is one step of the loop, its effect
  another.
- An MQTT publication is one step, kept by the broker if the session stands.
- `EspnowRadio`, `TcpRadio` and the timers are in `shared/`, which is absent:
  what the models say of them is what the callers in `src/` rely on.
- A report of a paired device reaches the hub now and then (`MqttLink`); an
  order may get lost, and how it does is in `CommandQueue`, `LoraLink`,
  `TcpLamps` and `Extender`.
- `millis()` at the time a frame is cached is not 0 (`Extender`).
- An attempt of the hub to reach its router takes no time in `HubMain`, whose
  clock counts minutes.
- `WiFi.status()`, `WiFiManager`, `PubSubClient`, `Update` and the LoRa
  library do what the code that calls them expects.
- A TCP node reports the same `device_id` and MAC for its lifetime: what a
  registration with another MAC does to the table (`tcp_radio_handler.cpp:306`)
  is left out of `Rename`, and part of the plan below.

## 6. Not modelled yet, and the plan

In this order:

1. Proofs: every safety property of a run has its theorem.  Next are the
   safety halves of the liveness properties, such as that a lamp that is
   mirrored and its mirror agree whenever nothing is under way
   (`MirrorFollows`), that Home Assistant shows what is when nothing is due
   (`HaCatchesUp`) and that a silent gateway's age grows (`LossNoticed`).
2. `TcpRegister`: registration of TCP nodes whose MACs change or clash, and
   the unlocked container of commands.
3. `Availability` and `MqttLink` joined: pairing publishes availability, and
   removal withdraws nothing.
4. `ExtenderPair`: two extenders in range of each other.
5. The refusals of the registry on the LoRa side.

Abstract specifications worth stating: a mailbox per device that delivers at
most once and in order (for `TcpLamps` and the command queue), and a register
of what Home Assistant shows (for `MqttLink`).

Not modelled at all: pages and their scripts (`pages.h`), display, log buffer,
build files, the commands and the daily report of the Telegram bot, the
payloads of sensors where no decision depends on them, and `shared/`, which is
not in the repository.
