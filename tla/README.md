# Verification of blescanner

blescanner is firmware for an ESP32: it listens to Bluetooth Low Energy
advertisements and tells an MQTT broker, over Ethernet (W5500) or WiFi, which
devices are near. This directory holds TLA+ models of it, TLC runs that check
them on small instances, and proofs that TLAPS checks for all values of the
constants.

    tlc -config Network.cfg Network.tla      # a run: see PROJECT.json "runs"
    tlapm PresenceProofs.tla                 # the proofs

`PROJECT.json` maps every definition to the source lines it stands for, and lists
runs, mutants (a plausible bug for every checked property, which the run finds),
hazards and findings.

## 1. Inventory

### Tasks

`setup()` (main.cpp:117) creates the objects, and `setupTasks()` the tasks ntw, scan,
prdet and mlchk; the libraries add two.

| Task | Runs | Core, priority | Period |
|---|---|---|---|
| ntw | 2 x `Network::update`, `WebCfgServer::update` | 1, 3 | 50 ms |
| prdet | `PresenceDetection::update` | 1, 5 | 2 s (delay inside) |
| scan | `Scanner::update` | 1, 2 | 20 ms |
| mlchk | `checkMillisTask` | 1, 1 | 60 s |
| NimBLE host | `Scanner::onResult`, from it `PresenceDetection::onResult` | 0 | each advertisement |
| mqttclient | `MqttClient::loop` (the internal task of espMqttClient) | 1, 1 | continuous |

Besides, GPIO interrupts, the WiFi event task (`WifiDevice::onDisconnected`), and
`loop()` of the MQTT client called a second time by ntw (`W5500Device::update`,
`WifiDevice::update`).

### Components

- **PresenceDetection** (PresenceDetection.cpp). State: the map `_devices` from
  address to name and time of the last advertisement, `_lastBeaconTs`, the buffer
  `_csv` with its index. Operations: `onResult` (host task), `update` (prdet):
  restart when no beacon came for a time, and build the list; `buildCsv`.
  Interaction: hands the buffer to Network by pointer, no lock anywhere. Hard: the
  map and the buffer are shared by tasks; arithmetic of stamps on `millis()`.
  Correct when: no write leaves the buffer, each fresh device is listed, nothing
  older is published, and silence restarts the device.
- **Overflow of millis()** (main.cpp:64-77). State: the clock. Correct when the
  clock never wraps while the firmware runs.
- **Network** (Network.cpp) with **network devices** (networkDevices/). State: link
  and lease, the client's connection, `_connectReplyReceived`, `_nextReconnect`,
  `_lastConnectedTs`, the fallback flag in RTC memory, what is waiting to be
  published. Operations: `update`, `reconnect` (blocks up to a minute), the MQTT
  callbacks, `disableAutoRestarts`, the fallback from W5500 to WiFi. Hard: replies of an earlier
  attempt, the blocked task, restarts by four rules. Correct when a device without
  MQTT restarts in time, and gets its connection back when it can.
- **MQTT client** (lib/espMqttClient: MqttClient, Outbox, Packets). State: the
  state of the connection, the outbox (linked list with a cursor), the bytes sent of the current
  packet, packet ids. Operations: `connect`, `publish`, `subscribe`,
  `disconnect(true)`, and `loop` = send, receive, keepalive, retry. Interaction: ntw
  publishes, the client's task and ntw run `loop`. Hard: lost connections, partial
  writes, late acknowledgements, failing allocation, two callers, a list from which
  packets are removed while a cursor and an iterator stand in it. Correct when no
  publish is lost and the byte stream is made of whole packets.
- **Web configuration** (WebCfgServer.cpp) and **firmware update** (Ota.cpp). State:
  preferences, `_enabled`, `_otaStartTs`, the update handle. Operations: `update`,
  the request handlers, `processArgs`, `waitAndProcess`, `handleOtaUpload`,
  `updateFirmware`. Hard: requests handled inside the wait of another, uploads that
  break off, straddle the first minute or follow one another, forms that never end. Correct when a whole
  image is booted, stored settings come into effect, and a failed upload leaves a device that recovers.
- **MQTT parser** (lib/espMqttClient/src/Packets/Parser.cpp, `_checkIncoming`). State:
  the function that takes the next byte, the packet so far, the length bytes, the
  topic and payload buffers. Hard: packets arrive cut at any byte, and a connection
  may end in the middle of one. Correct when what is handed to `_onPublish` and the
  other handlers is what the broker sent, in order, and nothing of an earlier packet
  or connection shows in it.
- **GPIO** (Gpio.cpp, Network.cpp:212). State: pin levels, pending interrupts,
  `Network::_pinStates`. Interrupts store pin states that ntw publishes and clears;
  messages on the topics of the outputs switch them. Hard: an interrupt between
  any two steps of the constructor or of ntw. Correct when an input at rest ends
  up published.
- **BLE scanner** (lib/BleScanner, NimBLEScan.cpp). State: the results of the scan
  with `m_callbackSent`, `m_ignoreResults`, GAP's operation and timer, the
  synchronisation of the host. Operations: `update` starts a scan when none runs,
  the host task stores reports, ends scans and resets itself. Interaction: calls
  `PresenceDetection::onResult`. Hard: two cores share the results with one flag;
  commands fail and cause a reset of the host in the middle of a start. Correct
  when nothing is stored in what is being deleted, every device heard is reported,
  and scanning never stops for good.
- **Settings, restart reasons, cookie, logger**: values, display and output.
- **Vendored libraries**: NimBLE, Ethernet, WebServer, WiFiManager, AsyncTCP, Crc16.

`PROJECT.json` "components" has the full list with what is left out and why.

## 2. Modules

| Module | Models | State and actions |
|---|---|---|
| `Millis` | unsigned and int arithmetic on stamps | pure operators over a word `Word` = 2^w |
| `PresenceDetection` | onResult, update, buildCsv; Network's publishing of the list | one `pc` per task: `host`, `pc` (prdet), `ntwPc`; an action per piece that another task may interleave with |
| `MCPresence` | - | values for the runs |
| `PresenceProofs` | - | theorems about PresenceDetection |
| `MillisWatch`, `MillisWatchProofs` | checkMillisTask; theorems | the clock and the delay of the task |
| `Network` | networkTask, Network::update and reconnect, the devices, the client's connection states | `pc` is ntw's place in update/reconnect, a delay is `due`; Dial..Callback are the client's task; Restart is setup() |
| `Outbox` | Outbox.h | a heap of nodes with `next`, and `_first`, `_last`, `_current`, `_prev` |
| `PacketQueue` | abstract: what the outbox promises | a sequence with a cursor |
| `MqttSession` | MqttClient with QoS 1 and a kept session; the broker external | EXTENDS Outbox; an action for each part of loop() that holds the semaphore |
| `MqttProofs` | - | theorems about MqttSession and its outbox |
| `NetworkProofs` | - | theorems about Network |
| `Scanner`, `ScannerProofs` | BleScanner, NimBLEScan, discovery in ble_gap.c, reset in ble_hs.c | `scan` is the place of task scan in update/start, `host` that of the host task in a report, in the end of a scan or in a reset; an action for each piece between two accesses to shared state |
| `PacketStream` | abstract: what the user of the client is promised of a connection | packets sent and not handed over, how much of the first was |
| `Parser`, `MCParser`, `ParserProofs` | Parser.cpp, RemainingLength.cpp, `_checkIncoming`; the broker external | `parse` names the state function, an action for each; packets are bytes on the wire |
| `Gpio`, `MCGpio`, `GpioProofs` | Gpio.cpp, the pins in Network::update, the dispatch in onMqttDataReceived | an action per interrupt, and per step of the constructor and of ntw's loop |
| `WebCfgServer`, `WebCfgProofs` | WebCfgServer.cpp, Ota.cpp, and how WebServer calls them and reads forms | `waits` is the stack of nested waitAndProcess; `upload` what is being read; `pc` is at a form, or in one that was cut off |

`MqttSession` composes the outbox with the client and the broker; it refines
`PacketQueue` by `items <- Contents(box), cursor <- Cursor(box)`. `PresenceDetection`
composes the presence detection with the part of Network that reads its buffer.
`Parser` refines `PacketStream` (`IsStream`), with what it has handed over of a payload as
`got`; `Gpio` builds on that promise: the commands come through an instance of `PacketStream`.

What is abstracted: a row of the list is its address and length; an advertisement
is its address and whether it names the device; a packet is type, id and size; an image is the
number of its buffers, the size class of the last one and whether it is valid;
the preferences are one value. Constants named as in the code stand for
milliseconds in ticks, small in the runs and arbitrary in the proofs.

Choices worth a reviewer's look:
- *Preemption.* prdet goes before ntw on their core, so ntw's steps need prdet
  asleep, but prdet may wake between any two of them. The host task runs on the
  other core and interleaves with everything. ntw goes before the client's task.
- *The racing map.* `std::map` without a lock: while `onResult` links a node the
  iterator of `update` may land on any entry or the end (`Rebalancing`), or panic. The
  history variable `raced` marks the passes that this has met.
- *Two cores.* In `Scanner` the tasks interleave at every access to what they share,
  except under `ble_hs_lock`. Two things rest on time: a start does not meet a report
  that was begun before the 20 ms sleep (guard of `Start`), and the timer of 10 s does
  not expire before `start()` has returned (`ScanTimer`). What is read of deleted
  results is any outcome, or a `Panic`.
- *Deleted nodes.* `Outbox` has the iterator as it is: `remove(it)` leaves the node it
  deletes as the iterator's predecessor. `RemoveUnless` is `wild` when `_remove` writes to
  such a node; the session is then `ruined` and nothing more is said of it.
- *Requests.* `handleClient` takes any time up to `WebTime` in `Network`, which has of the
  web server only its time and the beginning of an upload; that a form may hold ntw for
  ever is in `WebCfgServer`.
- *One step each.* In `Gpio` the storing of the initial state of an input is one step. In
  `Parser` a connection does not end in the middle of a read: the code drops the publishes
  of the rest of a read after a `disconnect(true)` (MqttClient.cpp:402) and handles its
  acknowledgements, which the outbox gets in `MqttSession` in any order of events.
  `packetId` stays below 2^16 in a boot of `MqttSession`: its wrap is left out.
- *Bytes.* In `Parser` types, lengths and ids are the numbers of the protocol and are
  decoded as the code does; topic and payload bytes only count. A payload is handed
  over in one step as far as the buffer reaches.
- *Time* is a clock with latenesses as constants (`Lag`, `NtwLag`): a task runs no
  later than that after it is due. Deadlines are safety properties over the clock.
- *connect blocks.* `transport->connect` in `loop()` takes time, and the state it
  then stores overwrites what ntw stored meanwhile (`Dialled`).
- *Restarts* are actions that set every variable but what survives: RTC memory, the
  preferences, what the broker has retained.

## 3. Runs

| Run | Question | Bounds, and why they are enough |
|---|---|---|
| presence_list | CsvInBounds, ListComplete, PublishedIsRecent | 2 addresses, rows of 3 bytes in 8 with a margin of 4: the second row fills the buffer, and an iteration that revisits an entry fills it before the other device is reached; timeout 3 and clock to 8: heard, aged, timed out and heard again; insertions race the reading; ntw as slow as it likes, publishes fail. States that differ in what the broker retains alone are one (VIEW): no guard and none of the three properties reads it. |
| presence_watchdog | TypeOK, WatchdogDeadline | 2 addresses, a word of 32 ticks and the clock to 24: the deadline in the whole lower half, stamps turn negative in the upper one, and the list is switched off. |
| millis_watch | NeverOverflows, NotBeforeTheEnd, RestartsForever | a word of 64 ticks, a check every 6, so several checks before the end, with every lateness. |
| network | TypeOK, TimeoutDeadline, ConnectsWhenHealthy | W5500 with fallback to WiFi, so both devices occur; every boot with or without broker and restart on disconnect. All delays 1 tick, clock to 9 in every boot: MQTT can be connected from 1 on, and a device that loses it at 1, 2 or 3 meets the limit of TimeoutDeadline, 5 later, in the run; network and broker may heal by 2 (`HealsUntil`), and every healing meets the limit of ConnectsWhenHealthy 6 later in the run. By 2 a connection may have come and gone, so a healing finds attempts woken by the stale reply of its loss and disconnects overwritten by the end of a blocked connect. |
| mqtt_session | TypeOK, ListSound, AtLeastOnce, IsQueue (refinement), EventuallyDelivered | both callers of loop(); 2 packet ids, 4 nodes, publishes of 2 units so that a write may be partial, one further small packet, allocation may fail: one publish behind another, behind a broken or a small packet, with the list emptied and filled again, and swept with a subscription and a small packet behind a publish, which ruins it. |
| parser | TypeOK, OnlyRefusalCloses, IsStream (refinement), AllHandedOver | 7 packets: a QoS 0 publish whose remaining length takes two bytes, retained and empty ones of QoS 1 with topics up to `MaxTopicLength` 3, PUBACK, SUBACK of 2 codes in a buffer of 4, PINGRESP, after an accepting or refusing CONNACK. 2 under way, so that a read ends in one and goes on in the next; reads of 1, 2, 3 and 100 bytes. |
| gpio | TypeOK, InputsFaithful, OutputFollows, SettledIsPublished | 2 inputs, so that one changes while ntw is at the other; the commands "1" and "10" for one output, which agree in their first byte. |
| scanner | TypeOK, StoresUnharmed, HeardIsReported, OnlyHeardIsReported, ScansAgain, KeepsReporting | 2 devices, so that the loop over the results is under way when something happens; any number of scans, failures and resets. |
| web_config | TypeOK, UploadTakesEffect, SettingsTakeEffect, RestartsAfterUpload | 2 settings, 2 requests handled inside one another, uploads of up to 3 buffers, any number of them, of forms, cut off or not, and of restarts. |

Each of these finds no error. The others show what the code does against what the
repository says of it (PROJECT.json "findings"):

| Run | Shows |
|---|---|
| presence_stale_list | When the last device of the list falls silent the list is empty, and empty lists are not published: the broker keeps the old one. |
| mqtt_two_loops | `loop()` in two tasks: between sending and advancing of one, the other handles the acknowledgement of the packet just sent, and the next packet is written from its middle. |
| mqtt_removals | A publish is buffered with two subscriptions behind it when the connection ends: `_clearQueue` removes both, the second by way of the first, which is deleted. |

`CHECK_DEADLOCK FALSE` is set for Network, where the clock's bound ends every
behaviour, and for WebCfgServer, which is never stuck (a restart is always possible).
Bounds that are not the program's: `MaxClock`, `HealsUntil`, `MaxId`, `MaxSmall`,
`MaxInFlight`, `Address`, `MaxWaits`, `MaxChunks`, `MaxWire`, and what the sets `Packet`, `Command`,
`ReadSizes`, `Device` and `Input` contain.

### The properties

- **CsvInBounds**: the test behind each row leaves room for the longest next row
  and the NUL, in whatever order the racing iteration visits the map.
- **ListComplete**: a device heard within the timeout before the pass is listed,
  once and by address, unless the buffer was full before or the reading of the map met
  an insertion (`raced`); which entries such a pass misses or repeats nothing bounds.
- **PublishedIsRecent**: a list published whole names no device silent for longer
  than the timeout, a period and the latenesses. prdet clears the buffer that ntw
  holds a pointer to: that is why an old list never goes out, however late ntw is.
- **WatchdogDeadline**: in the lower half of the range of millis() silence restarts the
  device in time.
- **NeverOverflows, NotBeforeTheEnd, RestartsForever**: the restart before the wrap.
- **TimeoutDeadline**: without MQTT for the timeout the device has restarted, at
  most the longest blocked update, a request of the web server with it, and one
  reconnect of the device later: an update
  looks at the time of its start, but only after it has reconnected the device.
- **ConnectsWhenHealthy**: from any state bad times leave (stale reply, overwritten
  disconnect, client hanging in connectingTcp2, lost lease, fallback) MQTT is
  connected within a reconnect of the device, one vain wait for a reply and two retries,
  each with the round of ntw before it.
- **AtLeastOnce**: a buffered publish stays in the outbox until the broker has it.
- **ListSound, IsQueue**: the linked list with its stale `_prev` is a queue, which
  `_clearQueue` may ruin only where two packets in a row behind a publish have to go.
  **NoWriteToDeletedNode** says that it never does, and is refuted. The other properties
  of the session hold until then (`~ruined`).
- **WholePackets**: the stream is a sequence of whole packets; stated for mqtt_two_loops,
  where no acknowledgement is late and nothing is sent again.
- **EventuallyDelivered**: once connections last, every buffered publish arrives if no sweep ruins the outbox,
  although a broken packet or a garbled stream may have cost a connection.
- **IsStream**: cut as they may be, the bytes yield the packets that were sent, in
  order, payloads without a gap, the PUBACK with the last piece, and nothing of a
  connection that is gone. **OnlyRefusalCloses**: a broker that keeps to the protocol
  never meets a protocol error. **AllHandedOver**: no byte is waited for that belongs to no packet.
- **InputsFaithful, SettledIsPublished**: the state of an input waits or is published
  unless dropped in one of three named ways; an input at rest ends up published.
- **OutputFollows**: a command of one character at most switches its output,
  whatever pieces came before.
- **StoresUnharmed, HeardIsReported, OnlyHeardIsReported**: no report is stored while
  the results are deleted, each device heard in a scan is reported by its end, and no other.
- **ScansAgain, KeepsReporting**: once failures stop, scan follows scan, and a device
  that is heard again and again is reported in scan after scan.
- **UploadTakesEffect**: an upload of a valid image is booted when it is accepted after the
  first minute and no buffer of an earlier one has reached the updater of this boot.
- **SettingsTakeEffect**: what was stored comes into effect, whatever is requested
  while the restart is due, unless the client of a form is gone in the middle of it.
- **RestartsAfterUpload**: an accepted upload that fails or is abandoned ends in a restart,
  with the same exception: not even the time limit gets ntw out of `_parseForm`.

### Fairness

- `MillisWatch`: WF of Next: time passes and the task runs within its lateness.
- `MqttSession`: each round of `loop()` calls every one of its parts (WF for
  sending, advancing and closing, SF for what depends on an incoming packet or the
  keepalive, since the guard may come and go between rounds); ntw tries to connect
  every 5 s while there is no connection; the broker answers. Retries, drops,
  allocation failures and the application are not fair; EventuallyDelivered is
  stated for behaviours in which the connection is dropped and CONNECT lacks memory only finitely often.
- `Scanner`: the task and the host go on (WF); the timer ends a scan and a queued reset
  is handled however many reports come in between (SF: the host's queue is served in
  order). ScansAgain and KeepsReporting are stated for behaviours with finitely many failures.
- `Parser`: as long as the connection lasts loop() reads what has come and parses what
  it has read. The broker and the end of connections are not fair.
- `Gpio`: pending interrupts are served, the constructor goes on, and MQTT is connected
  again and again for long enough to go through the pins. Edges and commands are not fair.
- `WebCfgServer`: time passes, the reading of an upload gets a byte or times out, and
  a form comes to its end or is cut off (SF: its client does not add files for ever). It
  is not assumed that `handleClient` returns: from a form that is cut off it does not.
  ntw calls the web server in every round, whatever Network::update returns. Requests
  and other restarts are not fair.

## 4. Proofs

Checked by tlapm for every value of the constants that satisfies the assumptions
(`WordAssumption`, `PresenceAssumption`, `BufferAssumption`, `WatchAssumption`,
`NetworkAssumption`, `AddressAssumption`, `SessionAssumption`, `GpioAssumption`,
`ParserAssumption`, `WebAssumption`; Scanner needs none).

| Theorem | States |
|---|---|
| `TypeCorrect` | Spec => []TypeOK for PresenceDetection |
| `CsvStaysInBounds` | Spec => []CsvInBounds |
| `WatchdogMeetsDeadline` | Spec => []WatchdogDeadline |
| `PublishedListIsRecent` | Spec => PublishedIsRecent |
| `ListIsComplete` | Spec => []ListComplete |
| `MillisNeverOverflows` | Spec => NeverOverflows for MillisWatch |
| `RestartsOnlyAtTheEnd` | Spec => NotBeforeTheEnd |
| `NetworkTypeCorrect` | Spec => []TypeOK for Network |
| `RestartsInTime` | Spec => []TimeoutDeadline |
| `ReconnectsInTime` | Spec => []ConnectsWhenHealthy |
| `SessionTypeCorrect` | Spec => []TypeOK for MqttSession |
| `OutboxIsSound` | Spec => []ListSound |
| `NoPublishIsLost` | Spec => []AtLeastOnce |
| `OutboxIsQueue` | Spec => IsQueue: the outbox, as MqttSession uses it, implements PacketQueue |
| `ScannerTypeCorrect` | Spec => []TypeOK for Scanner |
| `ResultsAreNotStoredWhileDeleted` | Spec => []StoresUnharmed |
| `EveryDeviceHeardIsReported`, `NoOtherDeviceIsReported` | Spec => []HeardIsReported, []OnlyHeardIsReported |
| `ParserTypeCorrect` | Spec => []TypeOK for Parser |
| `ErrorsAreRefusals` | Spec => []OnlyRefusalCloses |
| `ParserIsStream` | Spec => IsStream: Parser implements PacketStream |
| `GpioTypeCorrect` | Spec => []TypeOK for Gpio |
| `InputStatesAreFaithful` | Spec => []InputsFaithful |
| `OutputsFollowCommands` | Spec => []OutputFollows |
| `WebTypeCorrect` | Spec => []TypeOK for WebCfgServer |
| `ValidUploadsAreBooted` | Spec => UploadTakesEffect |

The arguments:
- *Buffer.* CsvInBounds is not inductive: in the loop `csvIndex` must leave the
  whole margin. `BufferInv` adds that; it needs no order of the visits, so the race
  is harmless for the bound. The assumption is that the longest row (53 bytes) is shorter than the margin (58).
- *Time.* `StampInv` says that stamps lie in the past and prdet keeps its period.
  With it, `WatchdogInv` says that no pass that went on had found the silence too
  long, and so much time has passed since. `clock < HalfWord` is where the int
  stamp still is what was stored; above it the watchdog never fires (section 5).
- *List.* `ListInv`: the rows in the buffer were fresh in the last pass that wrote
  it, and the next pass, which starts within a period and two latenesses, clears it.
  Publish sees prdet asleep, so an unchanged buffer is the one of the last pass.
- *Completeness of the list.* `PassInv`: as long as the pass has not raced an insertion, the
  loop has listed what was fresh and lies behind its cursor, and what it has yet to
  visit has not become fresh since, for a stamp that the host task is about to store is
  at most `Lag` old. A device that is linked in while the loop stands still was not fresh.
- *millis().* `WatchInv`: a check that let the clock run on saw it at or below the
  threshold, and `millis + left` bounds what has passed since. The assumption
  `Xor + CheckPeriod + RestartDelay + 2 * Lag < Guard` is five minutes against one
  minute, two seconds and the lateness of a task of the lowest priority.
- *Network timeout.* `NetInv` bounds what every step of ntw waits for from `Since`, the
  start of the update or the last time MQTT was connected in it: so `WaitInv` has a line
  for each place in `update` and `reconnect`. `BeforeDeadline` says that an update past
  its test began before the deadline. Two facts carry it: a failed attempt is not
  repeated in the same update, because ntw is not later than `RetryDelay` (`Lag <=
  RetryDelay`), and a blocked `connect` never takes a connection away unseen
  (`ClientInv`: while it blocks the client is not connected). The proof corrected the
  property: the reconnecting of the device before the test belongs to the bound, which
  instances with equal delays do not show.
- *Reconnection.* `PaceInv` says when ntw comes next and how old the state is that it
  waits for, `ConnectInv` how many attempts have failed since bad times ended: none,
  then at most one. The one that may fail is the one that met a stale reply, a client
  that hung in a connect or a disconnect that was overwritten. The proof corrected the bound: before
  each of the two attempts ntw's loop takes its 50 ms and a request (`RoundDelay`), which an instance
  whose delays hide one another does not show. Assumed is that a connect takes time
  and that the delay behind one (1 s, Network.cpp:364) is no longer than that between two
  (Network.cpp:337).
- *Outbox.* The heap is tied to sequences in two steps. `View` says which nodes and
  which packets a heap holds in which order, and each operation of Outbox.h has a lemma
  on what it makes of a view. `Holds` then forgets the nodes: an outbox holds a queue
  with a cursor, and nothing that is removed as soon as it is sent (CONNECT, PUBACK,
  PINGREQ) lies before the cursor, or before the node that a stale `_prev` points to. That is
  why `_prev`, which a retry does not reset, is the predecessor whenever `removeCurrent` uses it. The loops
  along the list take an induction on the least node not yet passed (`Least`, from the
  library's theorems on well-founded sets): the induction theorems themselves are out of reach.
- *Sweeps.* `RemoveUnless` is followed node by node: as long as it is not wild, the
  iterator's predecessor is listed or a node just deleted, and `_remove` follows it only in
  the first case; what is left is a list of what is kept. When it is wild, two packets in a row
  behind one that is kept were to go: that is what `Ruin` of PacketQueue allows. The cursor
  needs more: a sweep that removes the first packets leaves `_prev` at a deleted
  node, which is harmless because the cursor is at the first node then (`IsList`, `CursorSound`).
- *Queue.* For any callers of `loop()` each step of the session appends, puts CONNECT in
  front, moves the cursor, thins the queue or ruins it; each is a step of PacketQueue or none.
- *Publishes.* AtLeastOnce is not inductive: `QueueInv` adds that publishes lie in the
  outbox in the order of their ids, that they are the last that were buffered, and that the broker has
  what it acknowledged. So an acknowledgement removes a publish the broker has, and
  no other step removes any.
- *Parser.* `PlaceInv` says which byte of the first packet under way the state function
  is at and what has been made of those before it; `ConnInv` what the broker can have
  sent by then. From there every state function advances within the packet, completes
  it or hands over a piece, which is a lemma for each, and each of the three is
  a step of PacketStream or none. `ParserAssumption` is what the broker keeps to: the
  packet types and flags of the protocol, ids that are not 0, a remaining length of four bytes; and
  what the buffers of the client hold: topics of 1 to EMC_MAX_TOPIC_LENGTH bytes, SUBACKs for fewer
  subscriptions than EMC_PAYLOAD_BUFFER_SIZE. Section 5 says what happens outside of
  it. The sizes of reads are any numbers. That multiples of 128 decode to what was
  encoded is part of the proof (`LengthDecoded`).
- *Scanner.* HeardIsReported needs the whole life of a scan: `StartInv` says which
  places of the two tasks exclude one another, by GAP's operation and the flag, as long
  as no reset or loop met the start; `ScanInv` says what of `heard` is in the results,
  told already, or still to be visited by the loop.
- *Pins.* `PinInv`: ntw goes through the pins only when the constructor is done, and what
  it is about to clear is what it has published, or is counted as missed. OutputFollows
  rests on the pieces that `PacketStream` hands over: one of at most a byte is whole.
- *Upload.* That the buffers arrive in order says nothing of what is in the
  partition. `TakenInv` does: while an upload that was accepted before any buffer reached
  the updater is read, the updater is fresh or holds exactly the buffers sent; once all
  are sent, the image was not whole, for else the device had restarted. It rests on
  `uptime` only growing within a boot (an upload is not refused half way) and on the
  handlers of other requests not being called while an upload is read. Of a later upload of
  the same boot nothing is proved.

Only model-checked: everything under fairness (RestartsForever, EventuallyDelivered,
AllHandedOver, SettledIsPublished, ScansAgain, KeepsReporting, SettingsTakeEffect,
RestartsAfterUpload), which is out of the prover's reach. Every other property of a
passing run is stated by a theorem.

## 5. What the models tell beyond the runs

Deviations met while reading and modelling, for which no run is kept:
- The setting RSBC = -1 ("disable") becomes 60 s and is stored so
  (PresenceDetection.cpp:37): the beacon watchdog cannot be disabled.
- With no fresh device `_csv[_csvIndex - 1]` is `_csv[-1]` (PresenceDetection.cpp:89).
- From 2^31 ms of uptime on `_lastBeaconTs`, an int, is negative: the beacon watchdog is
  off until checkMillisTask restarts the device (PresenceDetection.cpp:54).
- A beacon that comes between `ts = millis()` and the test makes the unsigned
  difference wrap: the device restarts because of it, without any silence
  (PresenceDetection.cpp:54-60, `WatchdogFires` with a stamp above `ts`).
- While onResult inserts into the map, update reads it: a pass may skip a device or list it
  twice, and the iterator may be anywhere (PresenceDetection.cpp:75).
- ntw may copy the buffer while prdet clears and rewrites it: the payload is torn. A list
  handed over between the publishing and `_presenceCsv = nullptr` is dropped (Network.cpp:203-209).
- In the first `_timeout` after boot `ts - _timeout` wraps and the list is empty.
- `_lastConnectedTs` is the start of an update: after a long reconnect the network timeout restarts the device early.
- A renewed DHCP lease counts as a lost connection (W5500Device.cpp:169).
- An upload switches off the restarts of Network, not those of WifiDevice
  (WifiDevice.cpp:154) and of the beacon watchdog.
- After the fallback the web server is still the one of the W5500 (main.cpp:145).
- An image of a multiple of 1436 bytes is never finished (Ota.cpp:21); an upload
  that begins in the first minute and goes on after it is taken up in its middle,
  and without its start no time limit runs; the updater is used up until the next
  boot by the first upload that it takes (Ota.cpp:14). UploadTakesEffect excludes these.
- A second form handled while the first waits for its restart is answered as saved,
  but the preferences are closed (WebCfgServer.cpp:290).
- `_parseForm` reads a form in `while(1)` loops (Parsing.cpp:370 and 408) that look at neither the
  connection nor a time: a client that is gone in the head of a part, in a field or
  behind a file (`FormCutOff`) leaves ntw there, so that MQTT is served no more by it, a
  restart that is due does not come, and the time limit of an upload is not tested.
- When an upload has ended without a valid image the next ones of the boot are written to
  an ended handle, and an image of full buffers only, which never ends, is booted by
  whatever upload ends behind it (`Updated`).
- The error of a packet without memory for its data is lost in a copy
  (MqttClient.h:133): publish() returns an id for a payload that is nowhere
  (`PublishBroken`), which is why AtLeastOnce speaks of buffered publishes.
- "Set the flag to ignore the results while we are deleting the vector"
  (NimBLEScan.cpp:327): the loop at the end of a scan never tests the flag, and GAP has
  declared the scan over before it begins, so `start()` may delete what it visits
  (`LoopSpoiled`, `Panic`); and a reset of the host takes back the flag (`overlap`).
- A device that answered one scan request is not reported without a further answer, until
  the next scan (`m_callbackSent` is kept over reports).
- "Topics longer than this will be truncated" (docs/index.md:358 of espMqttClient): the
  rest of a topic longer than 128 bytes is parsed as packet id or payload, and the
  parser is out of step with the stream. A topic of length 0 has the same effect.
- Each piece of a payload is handed to the receivers as if it were all of it, with
  `index` where they expect a length (Network.cpp:414): "10" cut after its first byte
  switches an output on and off again. OutputFollows speaks of what cannot be cut.
- The receive buffer and the parser are used by both tasks that run `loop()`; Parser
  has one of them.
- The initial state published of an input is 0 whatever its level; an edge between the
  publishing of a state and its clearing is lost, as is a state whose publish is refused.
- A retry garbles the stream if the acknowledgement comes when the packet is half
  sent again, and may leave an older value retained.
- With two callers of `loop()` ntw may handle the acknowledgement of a publish while the
  client's task is between sending and advancing it: with three ids TLC finds publishes
  received out of their order; and when the next packet has the same size it is taken for
  sent although none of it was written, until its acknowledgement times out. No order
  of publishes is stated therefore: it would need a single caller and no retry.
## 6. Not modelled, and the plan

Done, in this order: `Millis`, `PresenceDetection` with proofs, `MillisWatch` with
proofs, `Network`, `Outbox` and `PacketQueue` and `MqttSession`, `WebCfgServer` with proofs,
`Scanner` with proofs, `PacketStream` and `Parser`, `Gpio` with proofs, the proofs about `Network`,
`Parser` and `MqttSession`.

Next:
1. The TCP states of the client with both callers of loop(), the receive buffer and
   parser they share, shown to implement the client of `Network`.
2. A composition of Network and WebCfgServer: which restarts an upload survives.
3. Proofs about these two. The refinement of 1 would carry `ClientInv` of the Network
   proofs over to the client as it is.

Not modelled:
- *Vendored libraries.* NimBLE, Ethernet, WebServer, WiFiManager and AsyncTCP are more
  than nine tenths of the lines under src/. The firmware scans and nothing else: it
  opens no connection, has no GATT service, no security, no mesh. Of NimBLE, `Scanner`
  has the discovery procedure and the reset of the host, `WebCfgServer` of WebServer
  when handlers are called; everything else is an outcome the modules choose. So the
  share of mapped lines is small, and grows only with code the firmware never runs.
- *Transports* (ClientSyncW5500.cpp, espMqttClientW5500.cpp): wrappers of sockets, whose
  outcomes are choices in Network and MqttSession.
- *QoS 0 and 2, unsubscribe, chunked payloads, the orderly DISCONNECT* of the MQTT
  client: the firmware does not use them.
- *Restart reasons, cookie, logger, pages, TLS settings, driver registers, the bytes of
  sent packets*: values for display, output, or pure encoding.
