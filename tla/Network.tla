------------------------------- MODULE Network -------------------------------
(***************************************************************************)
(* networkTask (ntw) of main.cpp: two Network::update and one update of the  *)
(* web server in every round, with the reconnecting of the device and of     *)
(* MQTT, and the restarts ntw decides on.                                    *)
(*                                                                           *)
(* The MQTT client is reduced to the states Network can tell apart; its      *)
(* steps are those of its own task and of the loop() ntw calls in            *)
(* _device->update().  Two things of it are kept because ntw, of higher      *)
(* priority, runs in between: transport->connect blocks, after which loop()  *)
(* stores the next state whatever was stored meanwhile; and the callbacks    *)
(* run after the state they announce was stored.                             *)
(*                                                                           *)
(* Time is millis() since boot, in ticks; checkMillisTask restarts the       *)
(* device before it wraps.  due is the time the delay of ntw ends, and ntw   *)
(* runs at most Lag ticks late.                                              *)
(***************************************************************************)
EXTENDS Integers

CONSTANTS
  SelectPin,        \* the device NETWORK_SELECT selects
  BrokerSettings,   \* whether a broker is set, at each boot one of these
  TimeoutPref,      \* preference_network_timeout, <= 0 when disabled
  RestartPrefs,     \* preference_restart_on_disconnect, at each boot one of these
  MinUptime,        \* 60000: no watchdog of ntw restarts the device earlier
  ConnectTimeout,   \* 60000: how long reconnect() waits for a reply
  RetryDelay,       \* 5000: from a failed attempt to the next
  SettleDelay,      \* the delays of reconnect() after a connection
  LinkDelay,        \* the longest _device->reconnect()
  LoopDelay,        \* delay(50) of networkTask
  WebTime,          \* the longest handleClient of the web server
  Lag,              \* how late ntw may run
  HealsUntil,       \* bound of the model: when network and broker may come
                    \* to be in order
  MaxClock          \* bound of the model

Devices == {"W5500", "WiFi"}

ASSUME NetworkAssumption ==
  /\ SelectPin \in Devices
  /\ BrokerSettings \subseteq BOOLEAN /\ BrokerSettings # {}
  /\ RestartPrefs \subseteq BOOLEAN /\ RestartPrefs # {}
  /\ TimeoutPref \in Int
  /\ {MinUptime, ConnectTimeout, RetryDelay, SettleDelay, LinkDelay, LoopDelay,
      WebTime, Lag, HealsUntil, MaxClock} \subseteq Nat
  /\ Lag <= RetryDelay  \* a failed attempt is not repeated in the same update
  /\ ConnectTimeout > 0 /\ SettleDelay <= RetryDelay

VARIABLES
  clock,
  wire,                 \* the cable or the access point is there
  healthy,              \* nothing fails any more: network and broker are there
  \* what a restart keeps
  WiFi_fallbackDetect,  \* RTC_NOINIT_ATTR: "wifi_fallback"
  \* set up at boot
  networkDeviceType, mqttBrokerAddr,
  eventRestart,         \* _restartOnDisconnect of the WifiDevice
  \* Network
  hasDHCPAddress, networkTimeout, restartOnDisconnect,
  connectReplyReceived, mqttConnectionState, nextReconnect, lastConnectedTs,
  \* ntw: where it is, its round's update, millis() read by it, its delay
  pc, round, ts, due,
  \* the client
  state, dialing, callback,
  \* history
  lastUp,               \* when the client last lost a connection, or 0: kept
                        \* while there is a network timeout and none is up
  healthySince

envVars == <<wire, healthy, healthySince>>
bootVars == <<WiFi_fallbackDetect, networkDeviceType, mqttBrokerAddr, eventRestart>>
prefVars == <<networkTimeout, restartOnDisconnect>>
mqttVars == <<connectReplyReceived, mqttConnectionState, nextReconnect>>
ntwVars == <<pc, round, ts, due>>
clientVars == <<state, dialing, callback, lastUp>>
vars == <<clock, envVars, bootVars, prefVars, hasDHCPAddress, mqttVars,
          lastConnectedTs, ntwVars, clientVars>>

Linked == wire /\ hasDHCPAddress
MqttConnected == state = "connected"

DeviceUnset(fallback) == IF fallback THEN "none" ELSE SelectPin  \* fault

(* Network::setupDevice: the fallback flag goes before the pin.              *)
DeviceSelected(fallback) == IF fallback THEN "WiFi" ELSE SelectPin

(* setup().  A WiFi device gets through it only when it has connected:       *)
(* initialize restarts it otherwise.  At power-on RTC memory does not hold   *)
(* the flag.                                                                 *)
Init ==
  /\ WiFi_fallbackDetect = FALSE
  /\ networkDeviceType = DeviceSelected(WiFi_fallbackDetect)
  /\ mqttBrokerAddr \in BrokerSettings
  /\ wire \in BOOLEAN /\ (networkDeviceType = "WiFi" => wire)
  /\ hasDHCPAddress \in {wire, networkDeviceType = "WiFi"}
  /\ restartOnDisconnect \in RestartPrefs /\ eventRestart = restartOnDisconnect
  /\ networkTimeout = TimeoutPref
  /\ connectReplyReceived = FALSE /\ mqttConnectionState = 0
  /\ nextReconnect = 0 /\ lastConnectedTs = 0
  /\ pc = "update" /\ round = 1 /\ ts = 0 /\ due = 0
  /\ state = "disconnected" /\ dialing = FALSE /\ callback = "none"
  /\ clock = 0 /\ lastUp = 0
  /\ healthy = FALSE /\ healthySince = 0

Restart(fallback) ==
  /\ WiFi_fallbackDetect' = fallback
  /\ networkDeviceType' = DeviceSelected(fallback)
  /\ mqttBrokerAddr' \in BrokerSettings
  /\ wire' \in BOOLEAN /\ (healthy \/ networkDeviceType' = "WiFi" => wire')
  /\ hasDHCPAddress' \in {wire', healthy \/ networkDeviceType' = "WiFi"}
  /\ restartOnDisconnect' \in RestartPrefs /\ eventRestart' = restartOnDisconnect'
  /\ networkTimeout' = TimeoutPref
  /\ connectReplyReceived' = FALSE /\ mqttConnectionState' = 0
  /\ nextReconnect' = 0 /\ lastConnectedTs' = 0
  /\ pc' = "update" /\ round' = 1 /\ ts' = 0 /\ due' = 0
  /\ state' = "disconnected" /\ dialing' = FALSE /\ callback' = "none"
  /\ clock' = 0 /\ lastUp' = 0 /\ healthySince' = 0
  /\ UNCHANGED healthy

-----------------------------------------------------------------------------
(* ntw: Network::update                                                      *)

At(label) == pc = label /\ clock >= due
GoTo(label, delay) == pc' = label /\ due' = clock + delay

(* What Ethernet.maintain() returns in _device->update(): a lease is renewed *)
(* now and then, or not.  isConnected asks for "nothing happened".           *)
MaintainResults ==
  IF networkDeviceType = "WiFi" \/ healthy THEN {"none"}
  ELSE {"none", "renewed", "renewFailed"}
IsConnected(maintainResult) == Linked /\ maintainResult = "none"

UpdateOnline ==
  /\ At("update") /\ IsConnected("none")
  /\ ts' = clock /\ GoTo("mqtt", 0)
  /\ UNCHANGED <<clock, envVars, bootVars, prefVars, hasDHCPAddress, mqttVars,
                 lastConnectedTs, round, clientVars>>

RestartsOnDisconnect == restartOnDisconnect /\ clock > MinUptime

DisconnectRestart ==
  /\ At("update") /\ RestartsOnDisconnect
  /\ \E result \in MaintainResults : ~IsConnected(result)
  /\ Restart(WiFi_fallbackDetect)

UpdateOffline ==
  /\ At("update") /\ ~RestartsOnDisconnect
  /\ \E result \in MaintainResults : ~IsConnected(result)
  /\ ts' = clock
  /\ \E d \in IF networkDeviceType = "WiFi" THEN {LinkDelay} ELSE 0 .. LinkDelay :
       GoTo("device", d)
  /\ hasDHCPAddress' = (networkDeviceType = "WiFi")
  /\ UNCHANGED <<clock, envVars, bootVars, prefVars, mqttVars, lastConnectedTs,
                 round, clientVars>>

(* DHCP needs the cable; with all in order the W5500 gets an address in one  *)
(* of its three tries.                                                       *)
DeviceReconnected ==
  /\ At("device") /\ wire
  /\ hasDHCPAddress' = TRUE /\ WiFi_fallbackDetect' = FALSE
  /\ GoTo("mqtt", 0)
  /\ UNCHANGED <<clock, envVars, networkDeviceType, mqttBrokerAddr, eventRestart,
                 prefVars, mqttVars, lastConnectedTs, round, ts, clientVars>>

DeviceNotReconnected ==
  /\ At("device")
  /\ IF networkDeviceType = "WiFi" THEN ~wire ELSE ~healthy
  /\ GoTo("mqtt", 0)
  /\ UNCHANGED <<clock, envVars, bootVars, prefVars, hasDHCPAddress, mqttVars,
                 lastConnectedTs, round, ts, clientVars>>

(* None of the three tries found the W5500.                                  *)
CriticalFailure ==
  /\ At("device") /\ networkDeviceType = "W5500" /\ ~healthy
  /\ Restart(TRUE)

AlreadyConnected ==
  /\ At("mqtt") /\ MqttConnected
  /\ GoTo("publish", 0)
  /\ UNCHANGED <<clock, envVars, bootVars, prefVars, hasDHCPAddress, mqttVars,
                 lastConnectedTs, round, ts, clientVars>>

TimedOutInMillis ==  \* fault: seconds multiplied twice
  networkTimeout > 0 /\ ts - lastConnectedTs > 1000 * networkTimeout /\ ts > MinUptime
TimedOut ==
  networkTimeout > 0 /\ ts - lastConnectedTs > networkTimeout /\ ts > MinUptime

NetworkTimeoutRestart ==
  /\ At("mqtt") /\ ~MqttConnected /\ TimedOut
  /\ Restart(WiFi_fallbackDetect)

BeginReconnect ==
  /\ At("mqtt") /\ ~MqttConnected /\ ~TimedOut
  /\ mqttConnectionState' = 0
  /\ GoTo("reconnect", 0)
  /\ UNCHANGED <<clock, envVars, bootVars, prefVars, hasDHCPAddress,
                 connectReplyReceived, nextReconnect, lastConnectedTs, round, ts,
                 clientVars>>

-----------------------------------------------------------------------------
(* ntw: Network::reconnect                                                   *)

RetryAt == clock + RetryDelay

MayConnect == ~MqttConnected /\ clock > nextReconnect

NoBroker ==
  /\ At("reconnect") /\ MayConnect /\ ~mqttBrokerAddr
  /\ nextReconnect' = RetryAt
  /\ GoTo("end", 0)
  /\ UNCHANGED <<clock, envVars, bootVars, prefVars, hasDHCPAddress,
                 connectReplyReceived, mqttConnectionState, lastConnectedTs, round,
                 ts, clientVars>>

ForgetReply == connectReplyReceived' = FALSE
AwaitTenfold == GoTo("await", 10 * ConnectTimeout)  \* fault: a zero too much
Await == GoTo("await", ConnectTimeout)

(* MqttClient::connect does nothing unless the client is disconnected, and   *)
(* nothing if there is too little memory for the packet.                     *)
Connect ==
  /\ At("reconnect") /\ MayConnect /\ mqttBrokerAddr
  /\ ForgetReply
  /\ \/ state' = IF state = "disconnected" THEN "connectingTcp1" ELSE state
     \/ ~healthy /\ UNCHANGED state
  /\ Await
  /\ UNCHANGED <<clock, envVars, bootVars, prefVars, hasDHCPAddress,
                 mqttConnectionState, nextReconnect, lastConnectedTs, round, ts,
                 dialing, callback, lastUp>>

ReplyAwaited == pc = "await" /\ (connectReplyReceived \/ clock >= due)

(* The subscriptions are sent again, after the first of the two delays.      *)
Reconnected ==
  /\ ReplyAwaited /\ MqttConnected
  /\ mqttConnectionState' = 1
  /\ GoTo("settle", SettleDelay)
  /\ UNCHANGED <<clock, envVars, bootVars, prefVars, hasDHCPAddress,
                 connectReplyReceived, nextReconnect, lastConnectedTs, round, ts,
                 clientVars>>

Settled ==
  /\ At("settle")
  /\ mqttConnectionState' = 2
  /\ GoTo("reconnect", 0)
  /\ UNCHANGED <<clock, envVars, bootVars, prefVars, hasDHCPAddress,
                 connectReplyReceived, nextReconnect, lastConnectedTs, round, ts,
                 clientVars>>

(* disconnect(true)                                                          *)
ForcedDisconnect ==
  IF state = "disconnected" THEN "disconnected" ELSE "disconnecting"

ConnectFailed ==
  /\ ReplyAwaited /\ ~MqttConnected
  /\ mqttConnectionState' = 0
  /\ nextReconnect' = RetryAt
  /\ state' = ForcedDisconnect
  /\ GoTo("reconnect", 0)
  /\ UNCHANGED <<clock, envVars, bootVars, prefVars, hasDHCPAddress,
                 connectReplyReceived, lastConnectedTs, round, ts, dialing,
                 callback, lastUp>>

EndReconnect ==
  /\ At("reconnect") /\ ~MayConnect
  /\ GoTo(IF mqttConnectionState > 0 THEN "publish" ELSE "end", 0)
  /\ UNCHANGED <<clock, envVars, bootVars, prefVars, hasDHCPAddress, mqttVars,
                 lastConnectedTs, round, ts, clientVars>>

(* What is published is the subject of PresenceDetection and of GpioPins.    *)
Publish ==
  /\ At("publish")
  /\ lastConnectedTs' = ts
  /\ GoTo("end", 0)
  /\ UNCHANGED <<clock, envVars, bootVars, prefVars, hasDHCPAddress, mqttVars,
                 round, ts, clientVars>>

SecondUpdate ==
  /\ At("end") /\ round = 1
  /\ round' = 2 /\ GoTo("update", 0)
  /\ UNCHANGED <<clock, envVars, bootVars, prefVars, hasDHCPAddress, mqttVars,
                 lastConnectedTs, ts, clientVars>>

(* The web server takes its time for what it is asked.                       *)
WebDelays == {LoopDelay + d : d \in 0 .. WebTime}

UpdateWebServer ==
  /\ At("end") /\ round = 2
  /\ round' = 1 /\ \E d \in WebDelays : GoTo("update", d)
  /\ UNCHANGED <<clock, envVars, bootVars, prefVars, hasDHCPAddress, mqttVars,
                 lastConnectedTs, ts, clientVars>>

DisableAutoRestarts == networkTimeout' = 0 /\ restartOnDisconnect' = FALSE

(* handleOtaUpload, in the first minute of which nothing is accepted.        *)
BeginOta ==
  /\ At("end") /\ round = 2 /\ clock >= MinUptime
  /\ DisableAutoRestarts
  /\ round' = 1 /\ \E d \in WebDelays : GoTo("update", d)
  /\ UNCHANGED <<clock, envVars, bootVars, hasDHCPAddress, mqttVars,
                 lastConnectedTs, ts, clientVars>>

-----------------------------------------------------------------------------
(* The client                                                                *)

clientOnly == <<clock, envVars, bootVars, prefVars, hasDHCPAddress,
                mqttConnectionState, nextReconnect, lastConnectedTs, ntwVars>>

Dial ==
  /\ state = "connectingTcp1" /\ ~dialing /\ callback = "none"
  /\ dialing' = TRUE
  /\ UNCHANGED <<clientOnly, connectReplyReceived, state, callback, lastUp>>

(* Whatever the state has become while connect blocked, it is overwritten.   *)
(* A connection that is gone at once leaves connectingTcp2, which only       *)
(* disconnect(true) ends.                                                    *)
Dialled(next) == dialing /\ dialing' = FALSE /\ state' = next
DialSucceeds ==
  /\ Linked
  /\ \E next \in {"connecting"} \cup (IF healthy THEN {} ELSE {"connectingTcp2"}) :
       Dialled(next)
  /\ UNCHANGED <<clientOnly, connectReplyReceived, callback, lastUp>>
DialFails ==
  /\ ~(healthy /\ Linked) /\ Dialled("disconnecting")
  /\ UNCHANGED <<clientOnly, connectReplyReceived, callback, lastUp>>

Connack ==
  /\ state = "connecting" /\ Linked /\ callback = "none"
  /\ state' = "connected" /\ callback' = "connect" /\ lastUp' = 0
  /\ UNCHANGED <<clientOnly, connectReplyReceived, dialing>>

(* The connection is refused, or lost.                                       *)
Drop ==
  /\ state \in {"connecting", "connected"}
  /\ ~(healthy /\ Linked)
  /\ state' = "disconnecting"
  /\ lastUp' = IF state = "connected" /\ networkTimeout > 0 THEN clock ELSE lastUp
  /\ UNCHANGED <<clientOnly, connectReplyReceived, dialing, callback>>

(* While the client's task is in connect only ntw can run loop().            *)
Closed ==
  /\ state = "disconnecting" /\ callback = "none"
  /\ dialing => At("update")
  /\ state' = "disconnected" /\ callback' = "disconnect"
  /\ UNCHANGED <<clientOnly, connectReplyReceived, dialing, lastUp>>

(* onMqttConnect and onMqttDisconnect do the same.                           *)
Callback ==
  /\ callback # "none"
  /\ connectReplyReceived' = TRUE /\ callback' = "none"
  /\ UNCHANGED <<clientOnly, state, dialing, lastUp>>

-----------------------------------------------------------------------------
(* The environment                                                           *)

EventRestarts == networkDeviceType = "WiFi" /\ eventRestart /\ clock > MinUptime

WireLost ==
  /\ wire /\ ~healthy /\ ~EventRestarts
  /\ wire' = FALSE
  /\ UNCHANGED <<clock, healthy, healthySince, bootVars, prefVars,
                 hasDHCPAddress, mqttVars, lastConnectedTs, ntwVars, clientVars>>

(* WifiDevice::onDisconnected, in the event task, which goes on restarting   *)
(* when an upload has begun.                                                 *)
EventRestart ==
  /\ wire /\ ~healthy /\ EventRestarts
  /\ Restart(WiFi_fallbackDetect)

WireBack ==
  /\ ~wire /\ wire' = TRUE
  /\ UNCHANGED <<clock, healthy, healthySince, bootVars, prefVars,
                 hasDHCPAddress, mqttVars, lastConnectedTs, ntwVars, clientVars>>

(* From now on the network and the broker are there.                         *)
Heal ==
  /\ clock <= HealsUntil /\ ~healthy
  /\ healthy' = TRUE /\ healthySince' = clock /\ wire' = TRUE
  /\ UNCHANGED <<clock, bootVars, prefVars, hasDHCPAddress, mqttVars,
                 lastConnectedTs, ntwVars, clientVars>>

(* A reply is seen within 200 ms, and in a healthy network the client never  *)
(* takes as long as a tick, unless it waits for disconnect(true).            *)
ClientSettled ==
  /\ callback = "none" /\ ~dialing
  /\ state \in {"disconnected", "connectingTcp2"} \/ (state = "connected" /\ Linked)
Tick ==
  /\ clock < MaxClock /\ clock < due + Lag
  /\ ~(pc = "await" /\ connectReplyReceived)
  /\ healthy => ClientSettled
  /\ clock' = clock + 1
  /\ UNCHANGED <<envVars, bootVars, prefVars, hasDHCPAddress, mqttVars,
                 lastConnectedTs, ntwVars, clientVars>>

Update ==
  \/ UpdateOnline \/ UpdateOffline \/ DeviceReconnected \/ DeviceNotReconnected
  \/ AlreadyConnected \/ BeginReconnect \/ Publish
Reconnect ==
  \/ NoBroker \/ Connect \/ Reconnected \/ Settled \/ ConnectFailed \/ EndReconnect
Restarts ==
  DisconnectRestart \/ CriticalFailure \/ NetworkTimeoutRestart \/ EventRestart
Client == Dial \/ DialSucceeds \/ DialFails \/ Connack \/ Drop \/ Closed \/ Callback

Next ==
  \/ Update \/ Reconnect \/ SecondUpdate \/ UpdateWebServer \/ BeginOta
  \/ Restarts \/ Client \/ WireLost \/ WireBack \/ Heal \/ Tick

Spec == Init /\ [][Next]_vars

-----------------------------------------------------------------------------
(* Properties                                                                *)

Pcs == {"update", "device", "mqtt", "reconnect", "await", "settle", "publish", "end"}
States == {"disconnected", "connectingTcp1", "connectingTcp2", "connecting",
           "connected", "disconnecting"}

TypeOK ==
  /\ clock \in Nat /\ healthySince \in Nat /\ lastUp \in Nat
  /\ wire \in BOOLEAN /\ healthy \in BOOLEAN /\ WiFi_fallbackDetect \in BOOLEAN
  /\ networkDeviceType \in Devices /\ mqttBrokerAddr \in BOOLEAN
  /\ eventRestart \in BOOLEAN
  /\ hasDHCPAddress \in BOOLEAN /\ connectReplyReceived \in BOOLEAN
  /\ networkTimeout \in {TimeoutPref, 0} /\ restartOnDisconnect \in BOOLEAN
  /\ mqttConnectionState \in 0 .. 2
  /\ nextReconnect \in Nat /\ lastConnectedTs \in Nat
  /\ ts \in Nat /\ due \in Nat
  /\ pc \in Pcs /\ round \in {1, 2}
  /\ state \in States /\ dialing \in BOOLEAN
  /\ callback \in {"none", "connect", "disconnect"}

Later(a, b) == IF a > b THEN a ELSE b

(* The longest time from the start of one update to that of the next one.    *)
RoundDelay == LoopDelay + WebTime
UpdateTime == LinkDelay + ConnectTimeout + SettleDelay + RoundDelay + 8 * Lag

(* MQTT was connected last, and the restart is due.                          *)
LastConnected == IF MqttConnected THEN clock ELSE lastUp
Deadline == Later(LastConnected + networkTimeout, MinUptime)

(* A device that has been without MQTT for the configured time has           *)
(* restarted, however the update that should notice was blocked by attempts  *)
(* to reconnect: the next one begins UpdateTime later, and looks at the time *)
(* after its own attempt to reconnect the device (Network.cpp:199).          *)
TimeoutDeadline ==
  networkTimeout > 0 /\ ~MqttConnected =>
    clock <= Deadline + UpdateTime + LinkDelay + 2 * Lag

(* With network and broker in order MQTT is connected again, whatever reply  *)
(* of an earlier attempt, lost disconnect or hanging client the bad times    *)
(* have left: they make one attempt fail, and it and the next wait for their *)
(* turn.                                                                     *)
ReconnectTime ==
  LinkDelay + ConnectTimeout + 2 * (RetryDelay + RoundDelay) + 12 * Lag
ConnectsWhenHealthy ==
  healthy /\ mqttBrokerAddr /\ clock > healthySince + ReconnectTime => MqttConnected

(* What NetworkProofs strengthens TimeoutDeadline with.  The time an update  *)
(* has begun, or MQTT was connected since, is before the deadline unless the *)
(* update has yet to test for it; and everything the update waits for is     *)
(* bounded from there.  After a failed attempt there is no other one.        *)
Since == Later(ts, LastConnected)

ClientInv == dialing => state \notin {"connecting", "connected"}

ConnectedInv ==
  /\ lastUp <= clock /\ ts <= clock
  /\ lastConnectedTs <= LastConnected
  /\ pc \in {"settle", "publish"} \/ (pc = "reconnect" /\ mqttConnectionState > 0)
       => ts <= LastConnected

BeforeDeadline ==
  ts <= Deadline + (IF pc \in {"device", "mqtt"} THEN UpdateTime ELSE 0)

WaitInv ==
  LET late == LinkDelay + SettleDelay
  IN /\ clock <= due + Lag
     /\ pc = "device" => due <= ts + LinkDelay
     /\ pc = "mqtt" => due <= ts + LinkDelay + Lag
     /\ pc = "settle" => due <= Since + SettleDelay
     /\ pc = "reconnect" =>
          \/ due <= Since + late + 2 * Lag
          \/ /\ due <= Since + late + ConnectTimeout + 4 * Lag
             /\ due + RetryDelay <= nextReconnect
     /\ pc = "await" => due <= Since + late + ConnectTimeout + 3 * Lag
     /\ pc = "publish" => due <= Since + late + ConnectTimeout + 5 * Lag
     /\ pc = "end" => due <= Since + late + ConnectTimeout + 6 * Lag
     /\ pc = "update" => due <= Since + UpdateTime - Lag

NetInv == ClientInv /\ (networkTimeout > 0 => ConnectedInv /\ BeforeDeadline /\ WaitInv)

(* What NetworkProofs strengthens ConnectsWhenHealthy with: ntw does not     *)
(* tarry, and once all is in order MQTT is connected, or no attempt has      *)
(* failed since, or one has.                                                 *)
PaceInv ==
  /\ clock <= due + Lag /\ nextReconnect <= clock + RetryDelay
  /\ pc = "update" => due <= clock + RoundDelay
  /\ pc = "device" => due <= clock + LinkDelay
  /\ pc = "await" => due <= clock + ConnectTimeout
  /\ pc = "settle" => due <= clock + SettleDelay
  /\ pc \in {"mqtt", "reconnect", "publish", "end"} => due <= clock

Up == MqttConnected /\ Linked

(* Whatever the client is in, the device is there from the next update on.   *)
NoneFailed ==
  LET base == healthySince + RetryDelay
      ifLinked == IF Linked THEN LinkDelay + RoundDelay + 4 * Lag ELSE 0
  IN /\ nextReconnect <= base
     /\ pc \in {"publish", "settle"} => due <= base
     /\ pc = "end" => due <= base + Lag
     /\ pc = "update" => due <= base + RoundDelay + 2 * Lag
     /\ pc = "device" => due <= base + LinkDelay + RoundDelay + 3 * Lag
     /\ pc = "mqtt" => due <= base + ifLinked
     /\ pc = "reconnect" => due <= base + ifLinked + Lag
     /\ pc = "await" => due <= base + ifLinked + ConnectTimeout + 2 * Lag

(* The client does not hang any more, and has settled before the next        *)
(* attempt, which then fails no more.                                        *)
Unhung ==
  IF pc = "await"
    THEN /\ Linked /\ state \in {"connectingTcp1", "connecting"}
         /\ callback = "none" /\ ~connectReplyReceived /\ clock < due
         /\ clock <= healthySince + ReconnectTime
    ELSE /\ state # "connectingTcp2"
         /\ clock > nextReconnect =>
              state = "disconnected" /\ ~dialing /\ callback = "none"
OneFailed ==
  LET base == healthySince + ConnectTimeout + 2 * RetryDelay
      latest == base + LinkDelay + RoundDelay + 7 * Lag
  IN /\ Unhung
     /\ healthySince <= nextReconnect /\ nextReconnect <= latest
     /\ ~Linked \/ pc = "device" => nextReconnect <= base + 3 * Lag
     /\ pc # "settle"
     /\ pc = "publish" => due <= nextReconnect
     /\ pc = "end" => due <= nextReconnect + Lag
     /\ pc = "update" => due <= nextReconnect + RoundDelay + 2 * Lag
     /\ pc = "device" => due <= nextReconnect + LinkDelay + RoundDelay + 3 * Lag
     /\ pc = "mqtt" => Linked /\ due <= latest + RoundDelay + 3 * Lag
     /\ pc = "reconnect" =>
          IF Linked THEN due <= latest + RoundDelay + 4 * Lag
                    ELSE due + RetryDelay <= nextReconnect

ConnectInv ==
  /\ PaceInv
  /\ healthy =>
       /\ wire /\ healthySince <= clock
       /\ MqttConnected /\ ~Linked => clock = healthySince
       /\ mqttBrokerAddr => Up \/ NoneFailed \/ OneFailed
=============================================================================
