---------------------------- MODULE NetworkProofs ----------------------------
(***************************************************************************)
(* TypeOK, TimeoutDeadline and ConnectsWhenHealthy of Network, for all       *)
(* delays and timeouts.                                                      *)
(***************************************************************************)
EXTENDS Network, TLAPS

LEMMA Constant ==
  /\ MinUptime \in Nat /\ ConnectTimeout \in Nat /\ RetryDelay \in Nat
  /\ SettleDelay \in Nat /\ LinkDelay \in Nat /\ LoopDelay \in Nat /\ Lag \in Nat
  /\ RoundDelay \in Nat /\ \A d \in WebDelays : d \in Nat /\ d <= RoundDelay
  /\ TimeoutPref \in Int /\ RestartPrefs \subseteq BOOLEAN /\ SelectPin \in Devices
  /\ BrokerSettings \subseteq BOOLEAN /\ Lag <= RetryDelay
  /\ ConnectTimeout > 0 /\ SettleDelay <= RetryDelay
  BY NetworkAssumption DEF RoundDelay, WebDelays

\* handleClient has an end.
LEMMA RoundTakes ==
  ASSUME clock \in Nat, \E d \in WebDelays : GoTo("update", d)
  PROVE  due' \in Nat /\ clock <= due' /\ due' <= clock + RoundDelay /\ pc' = "update"
  <1>1. PICK d \in WebDelays : GoTo("update", d)
    OBVIOUS
  <1>2. d \in Nat /\ d <= RoundDelay
    BY Constant
  <1> QED
    BY <1>1, <1>2, Constant DEF GoTo

LEMMA Selected == \A f \in BOOLEAN : DeviceSelected(f) \in Devices
  BY Constant DEF DeviceSelected, Devices

-----------------------------------------------------------------------------
(* Types                                                                     *)

LEMMA RestartTypeOK ==
  ASSUME TypeOK, NEW f \in BOOLEAN, Restart(f)
  PROVE  TypeOK'
  <1>1. networkDeviceType' \in Devices /\ WiFi_fallbackDetect' \in BOOLEAN
    BY Selected DEF Restart
  <1>2. hasDHCPAddress' \in BOOLEAN /\ wire' \in BOOLEAN
    BY DEF Restart, TypeOK
  <1>3. mqttBrokerAddr' \in BOOLEAN
    BY Constant DEF Restart
  <1>4. restartOnDisconnect' \in BOOLEAN /\ healthy' \in BOOLEAN /\ eventRestart' \in BOOLEAN
    BY Constant, Zenon DEF Restart, TypeOK
  <1>5. /\ connectReplyReceived' \in BOOLEAN
        /\ dialing' \in BOOLEAN
    BY DEF Restart
  <1>6. /\ clock' \in Nat /\ healthySince' \in Nat /\ lastUp' \in Nat
        /\ networkTimeout' \in {TimeoutPref, 0} /\ mqttConnectionState' \in 0 .. 2
        /\ nextReconnect' \in Nat /\ lastConnectedTs' \in Nat
        /\ ts' \in Nat /\ due' \in Nat /\ round' \in {1, 2}
    BY DEF Restart
  <1>7. /\ pc' \in Pcs /\ state' \in States
        /\ callback' \in {"none", "connect", "disconnect"}
    BY DEF Restart, Pcs, States
  <1> QED
    BY <1>1, <1>2, <1>3, <1>4, <1>5, <1>6, <1>7, Zenon DEF TypeOK

LEMMA InitTypeOK == Init => TypeOK
  <1> SUFFICES ASSUME Init PROVE TypeOK
    OBVIOUS
  <1>1. networkDeviceType \in Devices
    BY Selected DEF Init
  <1>2. hasDHCPAddress \in BOOLEAN
    BY DEF Init
  <1>3. mqttBrokerAddr \in BOOLEAN
    BY Constant DEF Init
  <1>4. restartOnDisconnect \in BOOLEAN /\ wire \in BOOLEAN /\ eventRestart \in BOOLEAN
    BY Constant, Zenon DEF Init
  <1>5. /\ connectReplyReceived \in BOOLEAN
        /\ dialing \in BOOLEAN
        /\ healthy \in BOOLEAN
        /\ WiFi_fallbackDetect \in BOOLEAN
    BY DEF Init
  <1>6. /\ clock \in Nat /\ healthySince \in Nat /\ lastUp \in Nat
        /\ networkTimeout \in {TimeoutPref, 0} /\ mqttConnectionState \in 0 .. 2
        /\ nextReconnect \in Nat /\ lastConnectedTs \in Nat
        /\ ts \in Nat /\ due \in Nat /\ round \in {1, 2}
    BY DEF Init
  <1>7. /\ pc \in Pcs /\ state \in States
        /\ callback \in {"none", "connect", "disconnect"}
    BY DEF Init, Pcs, States
  <1> QED
    BY <1>1, <1>2, <1>3, <1>4, <1>5, <1>6, <1>7, Zenon DEF TypeOK

LEMMA GoToType ==
  ASSUME TypeOK, NEW d \in Nat, NEW label \in Pcs, GoTo(label, d)
  PROVE  due' \in Nat /\ pc' \in Pcs
  BY DEF GoTo, TypeOK

LEMMA NextTypeOK == TypeOK /\ [Next]_vars => TypeOK'
  <1> SUFFICES ASSUME TypeOK, [Next]_vars PROVE TypeOK'
    OBVIOUS
  <1> USE Constant
  <1> USE DEF TypeOK, envVars, bootVars, prefVars, mqttVars, ntwVars, clientVars,
              clientOnly, Pcs
  <1>1. CASE Update
    <2>1. CASE UpdateOnline
      BY <2>1 DEF UpdateOnline, GoTo
    <2>2. CASE UpdateOffline
      <3>1. PICK d \in 0 .. LinkDelay : GoTo("device", d)
        BY <2>2 DEF UpdateOffline
      <3>2. hasDHCPAddress' \in BOOLEAN
        BY <2>2 DEF UpdateOffline
      <3>3. ts' = clock /\ pc' = "device" /\ due' \in Nat
        BY <2>2, <3>1 DEF UpdateOffline, GoTo
      <3>4. UNCHANGED <<clock, envVars, bootVars, prefVars, mqttVars,
                        lastConnectedTs, round, clientVars>>
        BY <2>2 DEF UpdateOffline
      <3> QED
        BY <3>2, <3>3, <3>4
    <2>3. CASE DeviceReconnected
      <3>1. hasDHCPAddress' \in BOOLEAN /\ WiFi_fallbackDetect' \in BOOLEAN
        BY <2>3 DEF DeviceReconnected
      <3>2. pc' = "mqtt" /\ due' \in Nat
        BY <2>3 DEF DeviceReconnected, GoTo
      <3>3. UNCHANGED <<clock, envVars, networkDeviceType, mqttBrokerAddr, eventRestart,
                        prefVars, mqttVars, lastConnectedTs, round, ts, clientVars>>
        BY <2>3 DEF DeviceReconnected
      <3> QED
        BY <3>1, <3>2, <3>3
    <2>4. CASE DeviceNotReconnected
      BY <2>4 DEF DeviceNotReconnected, GoTo
    <2>5. CASE AlreadyConnected
      BY <2>5 DEF AlreadyConnected, GoTo
    <2>6. CASE BeginReconnect
      BY <2>6 DEF BeginReconnect, GoTo
    <2>7. CASE Publish
      BY <2>7 DEF Publish, GoTo
    <2> QED
      BY <1>1, <2>1, <2>2, <2>3, <2>4, <2>5, <2>6, <2>7 DEF Update
  <1>2. CASE Reconnect
    <2>1. CASE NoBroker
      BY <2>1 DEF NoBroker, GoTo, RetryAt
    <2>2. CASE Connect
      <3>1. state' \in States
        BY <2>2 DEF Connect, Await, States
      <3>2. connectReplyReceived' = FALSE
        BY <2>2 DEF Connect, Await, ForgetReply
      <3>3. pc' = "await" /\ due' \in Nat
        BY <2>2 DEF Connect, Await, GoTo
      <3>4. UNCHANGED <<clock, envVars, bootVars, prefVars, hasDHCPAddress,
                        mqttConnectionState, nextReconnect, lastConnectedTs,
                        round, ts, dialing, callback, lastUp>>
        BY <2>2 DEF Connect, Await
      <3> QED
        BY <3>1, <3>2, <3>3, <3>4
    <2>3. CASE Reconnected
      BY <2>3 DEF Reconnected, GoTo
    <2>4. CASE Settled
      BY <2>4 DEF Settled, GoTo
    <2>5. CASE ConnectFailed
      BY <2>5 DEF ConnectFailed, GoTo, RetryAt, ForcedDisconnect, States
    <2>6. CASE EndReconnect
      BY <2>6 DEF EndReconnect, GoTo
    <2> QED
      BY <1>2, <2>1, <2>2, <2>3, <2>4, <2>5, <2>6 DEF Reconnect
  <1>3. CASE SecondUpdate
    BY <1>3 DEF SecondUpdate, GoTo
  <1>4. CASE UpdateWebServer
    BY <1>4 DEF UpdateWebServer, GoTo
  <1>5. CASE BeginOta
    <2>1. networkTimeout' = 0 /\ restartOnDisconnect' = FALSE
      BY <1>5 DEF BeginOta, DisableAutoRestarts
    <2>2. round' = 1 /\ pc' = "update" /\ due' \in Nat
      BY <1>5 DEF BeginOta, GoTo
    <2>3. UNCHANGED <<clock, envVars, bootVars, hasDHCPAddress, mqttVars,
                      lastConnectedTs, ts, clientVars>>
      BY <1>5 DEF BeginOta
    <2> QED
      BY <2>1, <2>2, <2>3
  <1>6. CASE Restarts
    BY <1>6, RestartTypeOK DEF Restarts, DisconnectRestart, CriticalFailure,
       NetworkTimeoutRestart, EventRestart
  <1>7. CASE Client
    <2> USE DEF States
    <2>1. CASE Dial
      BY <2>1 DEF Dial
    <2>2. CASE DialSucceeds
      <3>1. PICK next \in States : Dialled(next)
        BY <2>2 DEF DialSucceeds
      <3>2. state' \in States /\ dialing' \in BOOLEAN
        BY <3>1 DEF Dialled
      <3>3. UNCHANGED <<clientOnly, connectReplyReceived, callback, lastUp>>
        BY <2>2 DEF DialSucceeds
      <3> QED
        BY <3>2, <3>3
    <2>3. CASE DialFails
      <3>1. state' \in States /\ dialing' \in BOOLEAN
        BY <2>3 DEF DialFails, Dialled
      <3>2. UNCHANGED <<clientOnly, connectReplyReceived, callback, lastUp>>
        BY <2>3 DEF DialFails
      <3> QED
        BY <3>1, <3>2
    <2>4. CASE Connack
      BY <2>4 DEF Connack
    <2>5. CASE Drop
      BY <2>5 DEF Drop
    <2>6. CASE Closed
      BY <2>6 DEF Closed
    <2>7. CASE Callback
      BY <2>7 DEF Callback
    <2> QED
      BY <1>7, <2>1, <2>2, <2>3, <2>4, <2>5, <2>6, <2>7 DEF Client
  <1>8. CASE WireLost \/ WireBack \/ Heal \/ Tick
    <2>1. CASE WireLost
      <3>1. wire' \in BOOLEAN
        BY <2>1 DEF WireLost
      <3>2. UNCHANGED <<clock, healthy, healthySince, bootVars, prefVars,
                        hasDHCPAddress, mqttVars, lastConnectedTs, ntwVars, clientVars>>
        BY <2>1 DEF WireLost
      <3> QED
        BY <3>1, <3>2
    <2>2. CASE WireBack
      BY <2>2 DEF WireBack
    <2>3. CASE Heal
      BY <2>3 DEF Heal
    <2>4. CASE Tick
      BY <2>4 DEF Tick
    <2> QED
      BY <1>8, <2>1, <2>2, <2>3, <2>4
  <1>9. CASE UNCHANGED vars
    BY <1>9 DEF vars
  <1> QED
    BY <1>1, <1>2, <1>3, <1>4, <1>5, <1>6, <1>7, <1>8, <1>9 DEF Next

\* Every state the tasks of ntw and of the client reach is one the model names.
THEOREM NetworkTypeCorrect == Spec => []TypeOK
  BY InitTypeOK, NextTypeOK, PTL DEF Spec

-----------------------------------------------------------------------------
(* The deadline of the network timeout                                       *)

NetVars == <<clock, ts, due, pc, lastConnectedTs, nextReconnect,
             mqttConnectionState, networkTimeout>>

TimedInv == ConnectedInv /\ BeforeDeadline /\ WaitInv

\* Connected or not, MQTT was connected last at some time until now.
LEMMA LastConnectedType ==
  ASSUME TypeOK, lastUp <= clock
  PROVE  LastConnected \in Nat /\ LastConnected <= clock
  BY DEF TypeOK, LastConnected

\* With a timeout set the deadline follows the last connection, and an update that
\* is still to test for it began before it.
LEMMA SinceBounds ==
  ASSUME TypeOK, lastUp <= clock, networkTimeout > 0
  PROVE  /\ Since \in Nat /\ Since >= ts /\ Since >= LastConnected
         /\ Deadline \in Nat /\ Deadline >= LastConnected
         /\ ts <= Deadline => Since <= Deadline
         /\ Deadline >= LastConnected + networkTimeout /\ Deadline >= MinUptime
  BY LastConnectedType, Constant DEF TypeOK, Since, Deadline, Later

\* A later connection only moves the bounds on.
LEMMA QuietStep ==
  ASSUME TypeOK, TypeOK', TimedInv, networkTimeout > 0, UNCHANGED NetVars,
         LastConnected' >= LastConnected, LastConnected' \in Nat, lastUp' <= clock
  PROVE  TimedInv'
  <1>1. /\ clock' = clock /\ ts' = ts /\ due' = due /\ pc' = pc
        /\ lastConnectedTs' = lastConnectedTs /\ nextReconnect' = nextReconnect
        /\ mqttConnectionState' = mqttConnectionState
        /\ networkTimeout' = networkTimeout
    BY DEF NetVars
  <1>2. LastConnected \in Nat /\ LastConnected <= clock /\ lastUp <= clock
    BY LastConnectedType DEF TimedInv, ConnectedInv
  <1>3. PICK l \in Nat : LastConnected' = l
    OBVIOUS
  <1>4. ts \in Nat /\ networkTimeout \in Nat /\ MinUptime \in Nat /\ l >= LastConnected
    BY <1>3, Constant DEF TypeOK
  <1>5. PICK n \in Nat : Since' = n /\ n >= Since
    <2>1. Since = Later(ts, LastConnected) /\ Since' = Later(ts, l)
      BY <1>1, <1>3 DEF Since
    <2>2. Later(ts, l) \in Nat /\ Later(ts, LastConnected) <= Later(ts, l)
          /\ Later(ts, LastConnected) \in Nat
      BY <1>2, <1>4 DEF Later
    <2>3. Later(ts, l) >= Later(ts, LastConnected)
      BY <2>2
    <2> QED
      BY <2>1, <2>2, <2>3
  <1>6. PICK d \in Nat : Deadline' = d /\ d >= Deadline
    <2>1. /\ Deadline = Later(LastConnected + networkTimeout, MinUptime)
          /\ Deadline' = Later(l + networkTimeout, MinUptime)
      BY <1>1, <1>3 DEF Deadline
    <2>2. /\ LastConnected + networkTimeout \in Nat /\ l + networkTimeout \in Nat
          /\ LastConnected + networkTimeout <= l + networkTimeout
      BY <1>2, <1>4
    <2>3. /\ Later(l + networkTimeout, MinUptime) \in Nat
          /\ Later(l + networkTimeout, MinUptime)
               >= Later(LastConnected + networkTimeout, MinUptime)
      BY <1>4, <2>2 DEF Later
    <2> QED
      BY <2>1, <2>3
  <1>7. ConnectedInv'
    BY <1>1, <1>2, <1>3, <1>4 DEF TimedInv, ConnectedInv, TypeOK
  <1>8. BeforeDeadline'
    <2> DEFINE extra == IF pc \in {"device", "mqtt"} THEN UpdateTime ELSE 0
    <2>1. ts <= Deadline + extra /\ extra \in Nat /\ Deadline \in Nat
      BY <1>2, SinceBounds, Constant DEF TimedInv, BeforeDeadline, UpdateTime
    <2>2. ts <= d + extra
      <3> HIDE DEF extra
      <3> QED
        BY <1>4, <1>6, <2>1
    <2>3. BeforeDeadline' <=> ts <= d + extra
      BY <1>1, <1>6 DEF BeforeDeadline, UpdateTime
    <2> QED
      BY <2>2, <2>3
  <1>9. WaitInv'
    <2>1. /\ WaitInv /\ UpdateTime' = UpdateTime /\ Since \in Nat
          /\ due \in Nat /\ nextReconnect \in Nat /\ clock \in Nat /\ UpdateTime \in Nat
      BY <1>2, SinceBounds, Constant DEF TimedInv, TypeOK, UpdateTime
    <2> QED
      BY <1>1, <1>4, <1>5, <2>1, Constant DEF WaitInv
  <1> QED
    BY <1>7, <1>8, <1>9 DEF TimedInv

\* What a step of ntw goes to is bounded from the same times.
LEMMA NtwStep ==
  ASSUME TypeOK, TypeOK', TimedInv, networkTimeout > 0,
         UNCHANGED <<clock, lastUp, networkTimeout>>, MqttConnected' <=> MqttConnected
  PROVE  LastConnected' = LastConnected /\ Deadline' = Deadline
         /\ (ts' = ts => Since' = Since)
  BY DEF LastConnected, Deadline, Since, Later

LEMMA NtwTimed ==
  ASSUME TypeOK, TypeOK', TimedInv, networkTimeout > 0,
         Update \/ Reconnect \/ SecondUpdate \/ UpdateWebServer
  PROVE  TimedInv'
  <1> USE Constant, SinceBounds, LastConnectedType
  <1> USE DEF TypeOK, TimedInv, At, GoTo, MqttConnected, UpdateTime,
              envVars, bootVars, prefVars, mqttVars, ntwVars, clientVars
  <1>1. CASE UpdateOnline
    <2>1. /\ LastConnected' = LastConnected /\ Deadline' = Deadline
          /\ ts' = ts => Since' = Since
      BY <1>1, NtwStep DEF UpdateOnline
    <2>2. ConnectedInv'
      BY <1>1, <2>1 DEF UpdateOnline, ConnectedInv
    <2>3. BeforeDeadline'
      BY <1>1, <2>1 DEF UpdateOnline, ConnectedInv, BeforeDeadline, WaitInv
    <2>4. WaitInv'
      BY <1>1, <2>1 DEF UpdateOnline, ConnectedInv, BeforeDeadline, WaitInv
    <2> QED
      BY <2>2, <2>3, <2>4
  <1>2. CASE UpdateOffline
    <2>1. /\ LastConnected' = LastConnected /\ Deadline' = Deadline
          /\ ts' = ts => Since' = Since
      BY <1>2, NtwStep DEF UpdateOffline
    <2>2. ConnectedInv'
      BY <1>2, <2>1 DEF UpdateOffline, ConnectedInv
    <2>3. BeforeDeadline'
      BY <1>2, <2>1 DEF UpdateOffline, ConnectedInv, BeforeDeadline, WaitInv
    <2>4. WaitInv'
      BY <1>2, <2>1 DEF UpdateOffline, ConnectedInv, BeforeDeadline, WaitInv
    <2> QED
      BY <2>2, <2>3, <2>4
  <1>3. CASE DeviceReconnected
    <2>1. /\ LastConnected' = LastConnected /\ Deadline' = Deadline
          /\ ts' = ts => Since' = Since
      BY <1>3, NtwStep DEF DeviceReconnected
    <2>2. ConnectedInv'
      BY <1>3, <2>1 DEF DeviceReconnected, ConnectedInv
    <2>3. BeforeDeadline'
      BY <1>3, <2>1 DEF DeviceReconnected, ConnectedInv, BeforeDeadline, WaitInv
    <2>4. WaitInv'
      BY <1>3, <2>1 DEF DeviceReconnected, ConnectedInv, BeforeDeadline, WaitInv
    <2> QED
      BY <2>2, <2>3, <2>4
  <1>4. CASE DeviceNotReconnected
    <2>1. /\ LastConnected' = LastConnected /\ Deadline' = Deadline
          /\ ts' = ts => Since' = Since
      BY <1>4, NtwStep DEF DeviceNotReconnected
    <2>2. ConnectedInv'
      BY <1>4, <2>1 DEF DeviceNotReconnected, ConnectedInv
    <2>3. BeforeDeadline'
      BY <1>4, <2>1 DEF DeviceNotReconnected, ConnectedInv, BeforeDeadline, WaitInv
    <2>4. WaitInv'
      BY <1>4, <2>1 DEF DeviceNotReconnected, ConnectedInv, BeforeDeadline, WaitInv
    <2> QED
      BY <2>2, <2>3, <2>4
  <1>5. CASE AlreadyConnected
    <2>1. /\ LastConnected' = LastConnected /\ Deadline' = Deadline
          /\ ts' = ts => Since' = Since
      BY <1>5, NtwStep DEF AlreadyConnected
    <2>5. LastConnected = clock
      BY <1>5 DEF AlreadyConnected, LastConnected
    <2>2. ConnectedInv'
      BY <1>5, <2>1, <2>5 DEF AlreadyConnected, ConnectedInv
    <2>3. BeforeDeadline'
      BY <1>5, <2>1, <2>5 DEF AlreadyConnected, ConnectedInv, BeforeDeadline, WaitInv
    <2>4. WaitInv'
      BY <1>5, <2>1, <2>5 DEF AlreadyConnected, ConnectedInv, BeforeDeadline, WaitInv
    <2> QED
      BY <2>2, <2>3, <2>4
  <1>6. CASE BeginReconnect
    <2>1. /\ LastConnected' = LastConnected /\ Deadline' = Deadline
          /\ ts' = ts => Since' = Since
      BY <1>6, NtwStep DEF BeginReconnect, TimedOut
    <2>2. ConnectedInv'
      BY <1>6, <2>1 DEF BeginReconnect, TimedOut, ConnectedInv
    <2>3. BeforeDeadline'
      BY <1>6, <2>1 DEF BeginReconnect, TimedOut, ConnectedInv, BeforeDeadline, WaitInv
    <2>4. WaitInv'
      BY <1>6, <2>1 DEF BeginReconnect, TimedOut, ConnectedInv, BeforeDeadline, WaitInv
    <2> QED
      BY <2>2, <2>3, <2>4
  <1>7. CASE NoBroker
    <2>1. /\ LastConnected' = LastConnected /\ Deadline' = Deadline
          /\ ts' = ts => Since' = Since
      BY <1>7, NtwStep DEF NoBroker, RetryAt
    <2>2. ConnectedInv'
      BY <1>7, <2>1 DEF NoBroker, RetryAt, ConnectedInv
    <2>3. BeforeDeadline'
      BY <1>7, <2>1 DEF NoBroker, RetryAt, ConnectedInv, BeforeDeadline, WaitInv
    <2>4. WaitInv'
      BY <1>7, <2>1 DEF NoBroker, RetryAt, ConnectedInv, BeforeDeadline, WaitInv
    <2> QED
      BY <2>2, <2>3, <2>4
  <1>8. CASE Connect
    <2>1. /\ LastConnected' = LastConnected /\ Deadline' = Deadline
          /\ ts' = ts => Since' = Since
      BY <1>8, NtwStep DEF Connect, Await
    <2>2. ConnectedInv'
      BY <1>8, <2>1 DEF Connect, Await, ConnectedInv
    <2>3. BeforeDeadline'
      BY <1>8, <2>1 DEF Connect, Await, ConnectedInv, BeforeDeadline, WaitInv
    <2>4. WaitInv'
      <3>1. clock <= due + Lag /\ clock > nextReconnect /\ Lag <= RetryDelay
        BY <1>8 DEF Connect, Await, MayConnect, WaitInv
      <3>2. due <= Since + LinkDelay + SettleDelay + 2 * Lag
        BY <1>8, <3>1 DEF Connect, Await, WaitInv, ConnectedInv
      <3>3. pc' = "await" /\ due' = clock + ConnectTimeout /\ clock' = clock /\ Since' = Since
        BY <1>8, <2>1 DEF Connect, Await
      <3> QED
        BY <3>1, <3>2, <3>3 DEF WaitInv, ConnectedInv
    <2> QED
      BY <2>2, <2>3, <2>4
  <1>9. CASE Reconnected
    <2>1. /\ LastConnected' = LastConnected /\ Deadline' = Deadline
          /\ ts' = ts => Since' = Since
      BY <1>9, NtwStep DEF Reconnected, ReplyAwaited
    <2>5. LastConnected = clock
      BY <1>9 DEF Reconnected, LastConnected
    <2>2. ConnectedInv'
      BY <1>9, <2>1, <2>5 DEF Reconnected, ReplyAwaited, ConnectedInv
    <2>3. BeforeDeadline'
      BY <1>9, <2>1, <2>5 DEF Reconnected, ReplyAwaited, ConnectedInv, BeforeDeadline, WaitInv
    <2>4. WaitInv'
      BY <1>9, <2>1, <2>5 DEF Reconnected, ReplyAwaited, ConnectedInv, BeforeDeadline, WaitInv
    <2> QED
      BY <2>2, <2>3, <2>4
  <1>10. CASE Settled
    <2>1. /\ LastConnected' = LastConnected /\ Deadline' = Deadline
          /\ ts' = ts => Since' = Since
      BY <1>10, NtwStep DEF Settled
    <2>2. ConnectedInv'
      BY <1>10, <2>1 DEF Settled, ConnectedInv
    <2>3. BeforeDeadline'
      BY <1>10, <2>1 DEF Settled, ConnectedInv, BeforeDeadline, WaitInv
    <2>4. WaitInv'
      BY <1>10, <2>1 DEF Settled, ConnectedInv, BeforeDeadline, WaitInv
    <2> QED
      BY <2>2, <2>3, <2>4
  <1>11. CASE ConnectFailed
    <2>1. /\ LastConnected' = LastConnected /\ Deadline' = Deadline
          /\ ts' = ts => Since' = Since
      BY <1>11, NtwStep DEF ConnectFailed, ReplyAwaited, RetryAt, ForcedDisconnect
    <2>2. ConnectedInv'
      BY <1>11, <2>1 DEF ConnectFailed, ReplyAwaited, RetryAt, ForcedDisconnect, ConnectedInv
    <2>3. BeforeDeadline'
      BY <1>11, <2>1 DEF ConnectFailed, ReplyAwaited, RetryAt, ForcedDisconnect, ConnectedInv, BeforeDeadline, WaitInv
    <2>4. WaitInv'
      BY <1>11, <2>1 DEF ConnectFailed, ReplyAwaited, RetryAt, ForcedDisconnect, ConnectedInv, BeforeDeadline, WaitInv
    <2> QED
      BY <2>2, <2>3, <2>4
  <1>12. CASE EndReconnect
    <2>1. /\ LastConnected' = LastConnected /\ Deadline' = Deadline
          /\ ts' = ts => Since' = Since
      BY <1>12, NtwStep DEF EndReconnect
    <2>2. ConnectedInv'
      BY <1>12, <2>1 DEF EndReconnect, ConnectedInv
    <2>3. BeforeDeadline'
      BY <1>12, <2>1 DEF EndReconnect, ConnectedInv, BeforeDeadline, WaitInv
    <2>4. WaitInv'
      BY <1>12, <2>1 DEF EndReconnect, ConnectedInv, BeforeDeadline, WaitInv
    <2> QED
      BY <2>2, <2>3, <2>4
  <1>13. CASE Publish
    <2>1. /\ LastConnected' = LastConnected /\ Deadline' = Deadline
          /\ ts' = ts => Since' = Since
      BY <1>13, NtwStep DEF Publish
    <2>2. ConnectedInv'
      BY <1>13, <2>1 DEF Publish, ConnectedInv
    <2>3. BeforeDeadline'
      BY <1>13, <2>1 DEF Publish, ConnectedInv, BeforeDeadline, WaitInv
    <2>4. WaitInv'
      BY <1>13, <2>1 DEF Publish, ConnectedInv, BeforeDeadline, WaitInv
    <2> QED
      BY <2>2, <2>3, <2>4
  <1>14. CASE SecondUpdate
    <2>1. /\ LastConnected' = LastConnected /\ Deadline' = Deadline
          /\ ts' = ts => Since' = Since
      BY <1>14, NtwStep DEF SecondUpdate
    <2>2. ConnectedInv'
      BY <1>14, <2>1 DEF SecondUpdate, ConnectedInv
    <2>3. BeforeDeadline'
      BY <1>14, <2>1 DEF SecondUpdate, ConnectedInv, BeforeDeadline, WaitInv
    <2>4. WaitInv'
      BY <1>14, <2>1 DEF SecondUpdate, ConnectedInv, BeforeDeadline, WaitInv
    <2> QED
      BY <2>2, <2>3, <2>4
  <1>15. CASE UpdateWebServer
    <2>1. /\ LastConnected' = LastConnected /\ Deadline' = Deadline
          /\ ts' = ts => Since' = Since
      BY <1>15, NtwStep DEF UpdateWebServer
    <2>2. ConnectedInv'
      BY <1>15, <2>1 DEF UpdateWebServer, ConnectedInv
    <2>3. BeforeDeadline'
      BY <1>15, <2>1 DEF UpdateWebServer, ConnectedInv, BeforeDeadline, WaitInv
    <2>4. WaitInv'
      BY <1>15, <2>1 DEF UpdateWebServer, ConnectedInv, BeforeDeadline, WaitInv
    <2> QED
      BY <2>2, <2>3, <2>4
  <1> QED
    BY <1>1, <1>2, <1>3, <1>4, <1>5, <1>6, <1>7, <1>8, <1>9, <1>10, <1>11, <1>12, <1>13, <1>14, <1>15 DEF Update, Reconnect

LEMMA RestartTimed ==
  ASSUME TypeOK, NEW f, Restart(f)
  PROVE  TimedInv' /\ ClientInv'
  <1>1. /\ clock' = 0 /\ lastUp' = 0 /\ ts' = 0 /\ due' = 0 /\ lastConnectedTs' = 0
        /\ pc' = "update" /\ mqttConnectionState' = 0 /\ state' = "disconnected"
        /\ dialing' = FALSE /\ networkTimeout' = TimeoutPref
    BY DEF Restart
  <1>2. LastConnected' = 0 /\ Since' = 0
    BY <1>1 DEF LastConnected, MqttConnected, Since, Later
  <1>3. PICK d \in Nat : Deadline' = d
    BY <1>1, <1>2, Constant DEF Deadline, Later
  <1>4. ClientInv'
    BY <1>1 DEF ClientInv
  <1>5. ConnectedInv' /\ WaitInv'
    BY <1>1, <1>2, Constant DEF ConnectedInv, WaitInv, UpdateTime
  <1>6. BeforeDeadline'
    BY <1>1, <1>3 DEF BeforeDeadline
  <1> QED
    BY <1>4, <1>5, <1>6 DEF TimedInv

\* Connections begin and are lost; a blocked connect cannot take one away.
LEMMA ClientTimed ==
  ASSUME TypeOK, TypeOK', ClientInv, TimedInv, networkTimeout > 0, Client
  PROVE  TimedInv'
  <1>1. UNCHANGED NetVars
    <2> USE DEF clientOnly, ntwVars, prefVars, NetVars
    <2>1. CASE Dial
      BY <2>1 DEF Dial
    <2>2. CASE DialSucceeds
      BY <2>2 DEF DialSucceeds
    <2>3. CASE DialFails
      BY <2>3 DEF DialFails
    <2>4. CASE Connack
      BY <2>4 DEF Connack
    <2>5. CASE Drop
      BY <2>5 DEF Drop
    <2>6. CASE Closed
      BY <2>6 DEF Closed
    <2>7. CASE Callback
      BY <2>7 DEF Callback
    <2> QED
      BY <2>1, <2>2, <2>3, <2>4, <2>5, <2>6, <2>7 DEF Client
  <1>2. lastUp \in Nat /\ lastUp <= clock /\ clock \in Nat /\ clock' = clock
    BY <1>1 DEF TypeOK, TimedInv, ConnectedInv, NetVars
  <1>3. \/ lastUp' = lastUp /\ (state = "connected" => state' = "connected")
        \/ lastUp' = 0 /\ state' = "connected"
        \/ lastUp' = clock
    <2>1. CASE Dial
      BY <2>1 DEF Dial
    <2>2. CASE DialSucceeds
      BY <2>2 DEF DialSucceeds, Dialled, ClientInv
    <2>3. CASE DialFails
      BY <2>3 DEF DialFails, Dialled, ClientInv
    <2>4. CASE Connack
      BY <2>4 DEF Connack
    <2>5. CASE Drop
      BY <2>5 DEF Drop
    <2>6. CASE Closed
      BY <2>6 DEF Closed
    <2>7. CASE Callback
      BY <2>7 DEF Callback
    <2> QED
      BY <2>1, <2>2, <2>3, <2>4, <2>5, <2>6, <2>7 DEF Client
  <1>4. /\ LastConnected' >= LastConnected /\ LastConnected' \in Nat
        /\ lastUp' <= clock
    <2>1. LastConnected' = IF state' = "connected" THEN clock ELSE lastUp'
      BY <1>2 DEF LastConnected, MqttConnected
    <2>2. lastUp' \in {lastUp, 0, clock}
      BY <1>3
    <2>3. LastConnected' \in {lastUp, clock} /\ LastConnected' \in {LastConnected, clock}
      BY <1>2, <1>3, <2>1, <2>2 DEF LastConnected, MqttConnected
    <2> QED
      BY <1>2, <2>2, <2>3, LastConnectedType
  <1> QED
    BY <1>1, <1>4, QuietStep

\* Time passes only up to the end of what ntw waits for.
LEMMA TickTimed ==
  ASSUME TypeOK, TypeOK', TimedInv, networkTimeout > 0, Tick
  PROVE  TimedInv'
  <1>1. /\ clock' = clock + 1 /\ clock < due + Lag
        /\ lastUp' = lastUp /\ ts' = ts /\ due' = due /\ pc' = pc /\ state' = state
        /\ lastConnectedTs' = lastConnectedTs /\ nextReconnect' = nextReconnect
        /\ mqttConnectionState' = mqttConnectionState
        /\ networkTimeout' = networkTimeout
    BY DEF Tick, prefVars, mqttVars, ntwVars, clientVars
  <1>2. lastUp <= clock /\ ts <= clock
    BY DEF TimedInv, ConnectedInv
  <1>3. PICK l \in Nat : LastConnected' = l /\ l >= LastConnected /\ l <= clock + 1
    BY <1>1, <1>2 DEF TypeOK, LastConnected, MqttConnected
  <1>4. LastConnected \in Nat /\ LastConnected <= clock
    BY <1>2, LastConnectedType
  <1>5. PICK n \in Nat : Since' = n /\ n >= Since
    <2>1. Since = Later(ts, LastConnected) /\ Since' = Later(ts, l)
      BY <1>1, <1>3 DEF Since
    <2>2. Later(ts, l) \in Nat /\ Later(ts, LastConnected) <= Later(ts, l)
          /\ Later(ts, LastConnected) \in Nat
      BY <1>3, <1>4 DEF Later, TypeOK
    <2>3. Later(ts, l) >= Later(ts, LastConnected)
      BY <2>2
    <2> QED
      BY <2>1, <2>2, <2>3
  <1>6. PICK d \in Nat : Deadline' = d /\ d >= Deadline
    <2>1. /\ Deadline = Later(LastConnected + networkTimeout, MinUptime)
          /\ Deadline' = Later(l + networkTimeout, MinUptime)
      BY <1>1, <1>3 DEF Deadline
    <2>2. /\ Later(l + networkTimeout, MinUptime) \in Nat
          /\ Later(l + networkTimeout, MinUptime)
               >= Later(LastConnected + networkTimeout, MinUptime)
      BY <1>3, <1>4, Constant DEF Later, TypeOK
    <2> QED
      BY <2>1, <2>2
  <1>7. ConnectedInv'
    BY <1>1, <1>2, <1>3, <1>4 DEF TimedInv, ConnectedInv, TypeOK
  <1>8. BeforeDeadline'
    <2> DEFINE extra == IF pc \in {"device", "mqtt"} THEN UpdateTime ELSE 0
    <2>1. ts <= Deadline + extra /\ extra \in Nat /\ Deadline \in Nat /\ ts \in Nat
      BY <1>2, SinceBounds, Constant DEF TimedInv, BeforeDeadline, UpdateTime, TypeOK
    <2>2. ts <= d + extra
      <3> HIDE DEF extra
      <3> QED
        BY <1>6, <2>1
    <2>3. BeforeDeadline' <=> ts <= d + extra
      BY <1>1, <1>6 DEF BeforeDeadline, UpdateTime
    <2> QED
      BY <2>2, <2>3
  <1>9. WaitInv'
    <2>1. /\ WaitInv /\ UpdateTime' = UpdateTime /\ Since \in Nat /\ ts \in Nat
          /\ due \in Nat /\ nextReconnect \in Nat /\ clock \in Nat /\ UpdateTime \in Nat
      BY <1>2, SinceBounds, Constant DEF TimedInv, TypeOK, UpdateTime
    <2> QED
      BY <1>1, <1>5, <2>1, Constant DEF WaitInv
  <1> QED
    BY <1>7, <1>8, <1>9 DEF TimedInv

\* Only a connection that is being made blocks the client.
LEMMA NextClientInv == TypeOK /\ ClientInv /\ [Next]_vars => ClientInv'
  <1> SUFFICES ASSUME TypeOK, ClientInv, [Next]_vars PROVE ClientInv'
    OBVIOUS
  <1> USE DEF ClientInv
  <1>1. CASE UNCHANGED <<state, dialing>>
    BY <1>1
  <1>2. CASE Connect
    BY <1>2 DEF Connect, Await
  <1>3. CASE ConnectFailed
    BY <1>3 DEF ConnectFailed, ForcedDisconnect
  <1>4. CASE Restarts
    BY <1>4, RestartTimed DEF Restarts, DisconnectRestart, CriticalFailure,
       NetworkTimeoutRestart, EventRestart
  <1>5. CASE Client
    BY <1>5 DEF Client, Dial, DialSucceeds, DialFails, Dialled, Connack, Drop, Closed,
       Callback
  <1>6. CASE \/ UpdateOnline \/ UpdateOffline \/ DeviceReconnected
             \/ DeviceNotReconnected \/ AlreadyConnected \/ BeginReconnect \/ Publish
    BY <1>1, <1>6 DEF UpdateOnline, UpdateOffline, DeviceReconnected,
       DeviceNotReconnected, AlreadyConnected, BeginReconnect, Publish, clientVars
  <1>7. CASE NoBroker \/ Reconnected \/ Settled \/ EndReconnect
    BY <1>1, <1>7 DEF NoBroker, Reconnected, Settled, EndReconnect, clientVars
  <1>8. CASE SecondUpdate \/ UpdateWebServer \/ BeginOta
    BY <1>1, <1>8 DEF SecondUpdate, UpdateWebServer, BeginOta, clientVars
  <1>9. CASE WireLost \/ WireBack \/ Heal \/ Tick
    BY <1>1, <1>9 DEF WireLost, WireBack, Heal, Tick, clientVars
  <1>10. CASE UNCHANGED vars
    BY <1>1, <1>10 DEF vars, clientVars
  <1> QED
    BY <1>2, <1>3, <1>4, <1>5, <1>6, <1>7, <1>8, <1>9, <1>10
       DEF Next, Update, Reconnect

LEMMA NextNetInv == TypeOK /\ NetInv /\ [Next]_vars => NetInv'
  <1> SUFFICES ASSUME TypeOK, NetInv, [Next]_vars, networkTimeout' > 0 PROVE TimedInv'
    BY NextClientInv DEF NetInv, TimedInv
  <1>1. TypeOK' /\ ClientInv
    BY NextTypeOK DEF NetInv
  <1>2. CASE Restarts
    BY <1>2, RestartTimed DEF Restarts, DisconnectRestart, CriticalFailure,
       NetworkTimeoutRestart, EventRestart
  <1>3. CASE ~Restarts
    <2>1. networkTimeout' \in {networkTimeout, 0}
      <3> USE DEF envVars, bootVars, prefVars, mqttVars, ntwVars, clientVars, clientOnly
      <3>1. CASE Update
        BY <3>1 DEF Update, UpdateOnline, UpdateOffline, DeviceReconnected,
           DeviceNotReconnected, AlreadyConnected, BeginReconnect, Publish
      <3>2. CASE Reconnect
        BY <3>2 DEF Reconnect, NoBroker, Connect, Await, Reconnected, Settled, ConnectFailed,
           EndReconnect
      <3>3. CASE SecondUpdate \/ UpdateWebServer \/ BeginOta
        BY <3>3 DEF SecondUpdate, UpdateWebServer, BeginOta, DisableAutoRestarts
      <3>4. CASE Client
        BY <3>4 DEF Client, Dial, DialSucceeds, DialFails, Connack, Drop, Closed, Callback
      <3>5. CASE WireLost \/ WireBack \/ Heal \/ Tick
        BY <3>5 DEF WireLost, WireBack, Heal, Tick
      <3>6. CASE UNCHANGED vars
        BY <3>6 DEF vars
      <3> QED
        BY <1>3, <3>1, <3>2, <3>3, <3>4, <3>5, <3>6 DEF Next
    <2>2. networkTimeout > 0 /\ TimedInv
      BY <2>1 DEF NetInv, TimedInv
    <2>3. CASE Update \/ Reconnect \/ SecondUpdate \/ UpdateWebServer
      BY <1>1, <2>2, <2>3, NtwTimed
    <2>4. CASE BeginOta
      BY <2>4 DEF BeginOta, DisableAutoRestarts
    <2>5. CASE Client
      BY <1>1, <2>2, <2>5, ClientTimed
    <2>6. CASE Tick
      BY <1>1, <2>2, <2>6, TickTimed
    <2>7. CASE WireLost \/ WireBack \/ Heal \/ UNCHANGED vars
      <3>1. UNCHANGED NetVars /\ UNCHANGED <<state, lastUp>>
        BY <2>7 DEF WireLost, WireBack, Heal, vars, NetVars, prefVars, mqttVars,
           ntwVars, clientVars
      <3>2. LastConnected' = LastConnected
        BY <3>1 DEF LastConnected, MqttConnected, NetVars
      <3>3. lastUp <= clock
        BY <2>2 DEF TimedInv, ConnectedInv
      <3>4. LastConnected' >= LastConnected /\ LastConnected' \in Nat /\ lastUp' <= clock
        BY <3>1, <3>2, <3>3, LastConnectedType
      <3> QED
        BY <1>1, <2>2, <3>1, <3>4, QuietStep
    <2> QED
      BY <1>3, <2>3, <2>4, <2>5, <2>6, <2>7 DEF Next
  <1> QED
    BY <1>2, <1>3

LEMMA InitNetInv == Init => NetInv
  <1> SUFFICES ASSUME Init PROVE NetInv
    OBVIOUS
  <1>1. /\ clock = 0 /\ lastUp = 0 /\ ts = 0 /\ due = 0 /\ lastConnectedTs = 0
        /\ pc = "update" /\ mqttConnectionState = 0 /\ state = "disconnected"
        /\ dialing = FALSE /\ networkTimeout = TimeoutPref
    BY DEF Init
  <1>2. LastConnected = 0 /\ Since = 0
    BY <1>1 DEF LastConnected, MqttConnected, Since, Later
  <1>3. Deadline >= 0 /\ Deadline \in Int
    BY <1>1, <1>2, Constant DEF Deadline, Later
  <1>4. ClientInv
    BY <1>1 DEF ClientInv
  <1>5. ConnectedInv /\ WaitInv
    BY <1>1, <1>2, Constant DEF ConnectedInv, WaitInv, UpdateTime
  <1>6. BeforeDeadline
    BY <1>1, <1>3 DEF BeforeDeadline
  <1> QED
    BY <1>4, <1>5, <1>6 DEF NetInv

LEMMA DeadlineKept == TypeOK /\ NetInv => TimeoutDeadline
  <1> SUFFICES ASSUME TypeOK, NetInv, networkTimeout > 0
               PROVE  clock <= Deadline + UpdateTime + LinkDelay + 2 * Lag
    BY DEF TimeoutDeadline
  <1>1. /\ lastUp <= clock /\ BeforeDeadline /\ WaitInv
    BY DEF NetInv, ConnectedInv
  <1>2. /\ Since \in Nat /\ Deadline \in Nat /\ UpdateTime \in Nat
        /\ ts <= Deadline => Since <= Deadline
    BY <1>1, SinceBounds, Constant DEF UpdateTime
  <1>3. CASE pc \in {"device", "mqtt"}
    <2>1. ts <= Deadline + UpdateTime
      BY <1>1, <1>3 DEF BeforeDeadline
    <2>2. due <= ts + LinkDelay + Lag /\ clock <= due + Lag
      BY <1>1, <1>3, Constant DEF WaitInv, TypeOK
    <2> QED
      BY <1>2, <2>1, <2>2, Constant DEF TypeOK
  <1>4. CASE pc \notin {"device", "mqtt"}
    <2>1. Since <= Deadline
      BY <1>1, <1>2, <1>4 DEF BeforeDeadline, TypeOK
    <2>2. due <= Since + UpdateTime - Lag /\ clock <= due + Lag
      BY <1>1, <1>2, <1>4, Constant DEF WaitInv, TypeOK, Pcs, UpdateTime
    <2> QED
      BY <1>2, <2>1, <2>2, Constant DEF TypeOK
  <1> QED
    BY <1>3, <1>4

\* A device without MQTT for the configured time has restarted within the update in
\* which the time ran out and the test of the next, for all delays and timeouts.
THEOREM RestartsInTime == Spec => []TimeoutDeadline
  <1>1. Spec => []NetInv
    BY InitTypeOK, NextTypeOK, InitNetInv, NextNetInv, PTL DEF Spec
  <1> QED
    BY <1>1, NetworkTypeCorrect, DeadlineKept, PTL

-----------------------------------------------------------------------------
(* The connection once all is in order                                       *)

\* A restart forgets what the client was in.
LEMMA RestartConnects ==
  ASSUME TypeOK, NEW f, Restart(f)
  PROVE  ConnectInv'
  <1>1. /\ clock' = 0 /\ healthySince' = 0 /\ due' = 0 /\ nextReconnect' = 0
        /\ pc' = "update" /\ state' = "disconnected" /\ healthy' = healthy
    BY DEF Restart
  <1>2. healthy' => wire'
    BY DEF Restart
  <1>3. ~MqttConnected'
    BY <1>1 DEF MqttConnected
  <1>4. PaceInv'
    BY <1>1, Constant DEF PaceInv
  <1>5. NoneFailed'
    BY <1>1, Constant DEF NoneFailed
  <1> QED
    BY <1>1, <1>2, <1>3, <1>4, <1>5 DEF ConnectInv

\* ntw waits no longer than it means to, and Lag.
LEMMA NextPaceInv == TypeOK /\ PaceInv /\ [Next]_vars => PaceInv'
  <1> SUFFICES ASSUME TypeOK, PaceInv, [Next]_vars PROVE PaceInv'
    OBVIOUS
  <1>0. clock \in Nat /\ due \in Nat /\ nextReconnect \in Nat
    BY DEF TypeOK
  <1> USE <1>0, Constant
  <1> USE DEF PaceInv, At, GoTo, RetryAt, envVars, bootVars, prefVars, mqttVars,
              ntwVars, clientVars, clientOnly
  <1>1. CASE UNCHANGED <<clock, due, pc, nextReconnect>>
    BY <1>1
  <1>2. CASE UpdateOnline
    BY <1>2 DEF UpdateOnline
  <1>3. CASE UpdateOffline
    <2>1. PICK d \in 0 .. LinkDelay : GoTo("device", d)
      BY <1>3 DEF UpdateOffline
    <2> QED
      BY <1>3, <2>1 DEF UpdateOffline
  <1>4. CASE DeviceReconnected \/ DeviceNotReconnected \/ AlreadyConnected
             \/ BeginReconnect \/ Publish
    BY <1>4 DEF DeviceReconnected, DeviceNotReconnected, AlreadyConnected,
                BeginReconnect, Publish
  <1>5. CASE NoBroker
    BY <1>5 DEF NoBroker
  <1>6. CASE Connect \/ Reconnected \/ Settled
    BY <1>6 DEF Connect, Await, Reconnected, Settled
  <1>7. CASE ConnectFailed
    BY <1>7 DEF ConnectFailed
  <1>8. CASE EndReconnect
    BY <1>8 DEF EndReconnect
  <1>9. CASE SecondUpdate \/ UpdateWebServer \/ BeginOta
    BY <1>9 DEF SecondUpdate, UpdateWebServer, BeginOta
  <1>10. CASE Restarts
    BY <1>10, RestartConnects DEF Restarts, DisconnectRestart, CriticalFailure,
       NetworkTimeoutRestart, EventRestart, ConnectInv
  <1>11. CASE Client
    BY <1>1, <1>11 DEF Client, Dial, DialSucceeds, DialFails, Connack, Drop, Closed,
                       Callback
  <1>12. CASE WireLost \/ WireBack \/ Heal
    BY <1>1, <1>12 DEF WireLost, WireBack, Heal
  <1>13. CASE Tick
    BY <1>13 DEF Tick
  <1>14. CASE UNCHANGED vars
    BY <1>1, <1>14 DEF vars
  <1> QED
    BY <1>2, <1>3, <1>4, <1>5, <1>6, <1>7, <1>8, <1>9, <1>10, <1>11, <1>12, <1>13,
       <1>14 DEF Next, Update, Reconnect

HealedInv ==
  healthy =>
    /\ wire /\ healthySince <= clock
    /\ MqttConnected /\ ~Linked => clock = healthySince

\* A step that neither restarts nor heals, with all in order.
Goes == healthy /\ [Next]_vars /\ ~Restarts /\ ~Heal

LEMMA GoesOn ==
  ASSUME TypeOK, HealedInv, Goes
  PROVE  /\ healthy' = healthy /\ healthySince' = healthySince
         /\ mqttBrokerAddr' = mqttBrokerAddr /\ wire'
         /\ Linked => Linked'
  <1> USE DEF HealedInv, Linked, Goes, envVars, bootVars, prefVars, mqttVars,
              ntwVars, clientVars, clientOnly
  <1>1. CASE UNCHANGED <<envVars, mqttBrokerAddr, hasDHCPAddress>>
    BY <1>1
  <1>2. CASE UpdateOffline
    <2>1. ~Linked
      BY <1>2 DEF UpdateOffline, MaintainResults, IsConnected
    <2> QED
      BY <1>2, <2>1 DEF UpdateOffline
  <1>3. CASE DeviceReconnected
    BY <1>3 DEF DeviceReconnected
  <1>4. CASE \/ UpdateOnline \/ DeviceNotReconnected \/ AlreadyConnected
             \/ BeginReconnect \/ Publish
    BY <1>1, <1>4 DEF UpdateOnline, DeviceNotReconnected, AlreadyConnected,
                      BeginReconnect, Publish
  <1>5. CASE Reconnect
    BY <1>1, <1>5 DEF Reconnect, NoBroker, Connect, Await, Reconnected, Settled,
                      ConnectFailed, EndReconnect
  <1>6. CASE SecondUpdate \/ UpdateWebServer \/ BeginOta
    BY <1>1, <1>6 DEF SecondUpdate, UpdateWebServer, BeginOta
  <1>7. CASE Client
    BY <1>1, <1>7 DEF Client, Dial, DialSucceeds, DialFails, Connack, Drop, Closed,
                      Callback
  <1>8. CASE WireLost \/ WireBack
    BY <1>8 DEF WireLost, WireBack
  <1>9. CASE Tick
    BY <1>1, <1>9 DEF Tick
  <1>10. CASE UNCHANGED vars
    BY <1>1, <1>10 DEF vars
  <1> QED
    BY <1>2, <1>3, <1>4, <1>5, <1>6, <1>7, <1>8, <1>9, <1>10 DEF Next, Update

\* Nothing takes a connection away.
LEMMA StaysUp ==
  ASSUME TypeOK, ClientInv, HealedInv, Goes, Up
  PROVE  Up'
  <1>1. Linked' /\ healthy
    BY GoesOn DEF Up, Goes
  <1>2. state = "connected" /\ ~dialing
    BY DEF Up, MqttConnected, ClientInv
  <1>3. state' = "connected"
    <2> USE <1>2
    <2> USE DEF Goes, envVars, bootVars, prefVars, mqttVars, ntwVars, clientVars,
                clientOnly
    <2>1. CASE UNCHANGED state
      BY <2>1
    <2>2. CASE Update
      BY <2>2 DEF Update, UpdateOnline, UpdateOffline, DeviceReconnected,
         DeviceNotReconnected, AlreadyConnected, BeginReconnect, Publish
    <2>3. CASE Reconnect
      BY <2>3 DEF Reconnect, NoBroker, Connect, Await, Reconnected, Settled, ConnectFailed,
         EndReconnect, MqttConnected
    <2>4. CASE SecondUpdate \/ UpdateWebServer \/ BeginOta
      BY <2>4 DEF SecondUpdate, UpdateWebServer, BeginOta
    <2>5. CASE Client
      BY <1>1, <2>5 DEF Client, Dial, DialSucceeds, DialFails, Dialled, Connack, Drop,
         Closed, Callback, Up
    <2>6. CASE WireLost \/ WireBack \/ Tick
      BY <2>6 DEF WireLost, WireBack, Tick
    <2>7. CASE UNCHANGED vars
      BY <2>7 DEF vars
    <2> QED
      BY <2>2, <2>3, <2>4, <2>5, <2>6, <2>7 DEF Next
  <1> QED
    BY <1>1, <1>3 DEF Up, MqttConnected

\* A tick passes only when the client has settled, and only Connack, for which the
\* device must be there, connects it.
LEMMA HealedGoesOn ==
  ASSUME TypeOK, ClientInv, HealedInv, Goes
  PROVE  HealedInv'
  <1>1. /\ healthySince' = healthySince /\ wire'
        /\ Linked => Linked'
        /\ healthySince \in Nat /\ clock \in Nat /\ healthySince <= clock /\ healthy
    BY GoesOn DEF TypeOK, HealedInv, Goes
  <1> SUFFICES healthySince <= clock'
               /\ (MqttConnected' /\ ~Linked' => clock' = healthySince)
    BY <1>1, Zenon DEF HealedInv
  <1>2. CASE Tick
    <2>1. clock' = clock + 1 /\ state' = state /\ hasDHCPAddress' = hasDHCPAddress
          /\ wire' = wire /\ ClientSettled
      BY <1>1, <1>2 DEF Tick, clientVars, envVars
    <2> QED
      BY <1>1, <2>1 DEF ClientSettled, MqttConnected, Linked
  <1>3. CASE ~Tick
    <2>1. clock' = clock
      BY <1>3 DEF Goes, vars, Next, Update, Reconnect, Client, Restarts, UpdateOnline,
         UpdateOffline, DeviceReconnected, DeviceNotReconnected, AlreadyConnected,
         BeginReconnect, Publish, NoBroker, Connect, Await, Reconnected, Settled, ConnectFailed,
         EndReconnect, SecondUpdate, UpdateWebServer, BeginOta, Dial, DialSucceeds,
         DialFails, Connack, Drop, Closed, Callback, clientOnly, WireLost, WireBack
    <2>2. CASE MqttConnected
      BY <1>1, <2>1, <2>2 DEF HealedInv
    <2>3. CASE ~MqttConnected
      <3>1. CASE Connack
        <4>1. Linked
          BY <3>1 DEF Connack
        <4> QED
          BY <1>1, <2>1, <4>1
      <3>2. CASE ~Connack
        <4>1. ~MqttConnected'
          BY <2>3, <1>3, <3>2 DEF MqttConnected, Goes, vars, clientVars, Next, Update,
             Reconnect, Client, UpdateOnline, UpdateOffline, DeviceReconnected,
             DeviceNotReconnected, AlreadyConnected, BeginReconnect, Publish, NoBroker,
             Connect, Reconnected, Settled, ConnectFailed, ForcedDisconnect,
             EndReconnect, SecondUpdate, UpdateWebServer, BeginOta, Dial, DialSucceeds,
             DialFails, Dialled, Connack, Drop, Closed, Callback, clientOnly, WireLost,
             WireBack
        <4> QED
          BY <1>1, <2>1, <4>1
      <3> QED
        BY <3>1, <3>2
    <2> QED
      BY <2>2, <2>3
  <1> QED
    BY <1>2, <1>3

LEMMA HealConnects ==
  ASSUME TypeOK, PaceInv, Heal
  PROVE  HealedInv' /\ NoneFailed'
  <1>1. /\ clock' = clock /\ healthySince' = clock /\ wire' = TRUE
        /\ due' = due /\ pc' = pc /\ nextReconnect' = nextReconnect
        /\ clock \in Nat /\ due \in Nat /\ nextReconnect \in Nat
    BY DEF Heal, TypeOK, ntwVars, mqttVars
  <1>2. HealedInv'
    BY <1>1 DEF HealedInv
  <1>3. CASE Linked'
    BY <1>1, <1>2, <1>3, Constant DEF NoneFailed, PaceInv
  <1>4. CASE ~Linked'
    BY <1>1, <1>2, <1>4, Constant DEF NoneFailed, PaceInv
  <1> QED
    BY <1>2, <1>3, <1>4

\* Of an attempt in a healthy network.
Facts ==
  /\ healthy /\ healthySince \in Nat /\ clock \in Nat /\ due \in Nat
  /\ nextReconnect \in Nat /\ healthySince <= clock /\ clock <= due + Lag
  /\ healthySince' = healthySince
  /\ Linked => Linked'
  /\ MqttConnected => clock = healthySince

LEMMA FactsHold ==
  ASSUME TypeOK, ConnectInv, Goes, ~Up
  PROVE  Facts
  <1>1. HealedInv
    BY DEF ConnectInv, HealedInv
  <1> QED
    BY <1>1, GoesOn DEF Facts, Goes, TypeOK, HealedInv, ConnectInv, PaceInv, Up

\* A step of the client, or of time, leaves the bounds of the attempts alone.
LEMMA NoneFailedQuiet ==
  ASSUME Facts, NoneFailed, UNCHANGED <<due, pc, nextReconnect>>
  PROVE  NoneFailed'
  <1>1. CASE Linked
    BY <1>1, Constant DEF NoneFailed, Facts
  <1>2. CASE ~Linked /\ Linked'
    BY <1>2, Constant DEF NoneFailed, Facts
  <1>3. CASE ~Linked'
    BY <1>3, Constant DEF NoneFailed, Facts
  <1> QED
    BY <1>1, <1>2, <1>3

LEMMA FirstAttempt ==
  ASSUME TypeOK, ClientInv, ConnectInv, Goes, mqttBrokerAddr, ~Up, NoneFailed
  PROVE  Up' \/ NoneFailed' \/ OneFailed'
  <1>1. Facts
    BY FactsHold
  <1> USE Constant
  <1> USE DEF Facts, At, GoTo, RetryAt, envVars, bootVars, prefVars, mqttVars,
              ntwVars, clientVars, clientOnly
  <1>2. CASE UpdateOnline
    <2>1. Linked /\ Linked'
      BY <1>1, <1>2 DEF UpdateOnline, IsConnected
    <2> QED
      BY <1>1, <1>2, <2>1 DEF UpdateOnline, NoneFailed
  <1>3. CASE UpdateOffline
    <2>1. PICK d \in 0 .. LinkDelay : GoTo("device", d)
      BY <1>3 DEF UpdateOffline
    <2> QED
      BY <1>1, <1>3, <2>1 DEF UpdateOffline, NoneFailed
  <1>4. CASE DeviceReconnected
    <2>1. Linked'
      BY <1>1, <1>4 DEF DeviceReconnected, Linked
    <2> QED
      BY <1>1, <1>4, <2>1 DEF DeviceReconnected, NoneFailed
  <1>5. CASE DeviceNotReconnected
    <2>1. wire
      BY DEF ConnectInv, Goes
    <2> QED
      BY <1>1, <1>5, <2>1 DEF DeviceNotReconnected
  <1>6. CASE AlreadyConnected
    BY <1>1, <1>6 DEF AlreadyConnected, NoneFailed
  <1>7. CASE BeginReconnect
    <2>1. Linked' <=> Linked
      BY <1>7 DEF BeginReconnect, Linked
    <2>2. CASE Linked
      BY <1>1, <1>7, <2>1, <2>2 DEF BeginReconnect, NoneFailed
    <2>3. CASE ~Linked
      BY <1>1, <1>7, <2>1, <2>3 DEF BeginReconnect, NoneFailed
    <2> QED
      BY <2>2, <2>3
  <1>8. CASE Publish
    BY <1>1, <1>8 DEF Publish, NoneFailed
  <1>9. CASE NoBroker
    BY <1>9 DEF NoBroker
  <1>10. CASE Connect
    <2>1. Linked' <=> Linked
      BY <1>10 DEF Connect, Await, Linked
    <2>2. CASE Linked
      BY <1>1, <1>10, <2>1, <2>2 DEF Connect, Await, NoneFailed
    <2>3. CASE ~Linked
      BY <1>1, <1>10, <2>1, <2>3 DEF Connect, Await, NoneFailed
    <2> QED
      BY <2>2, <2>3
  <1>11. CASE Reconnected
    BY <1>1, <1>11 DEF Reconnected, NoneFailed
  <1>12. CASE Settled
    BY <1>1, <1>12 DEF Settled, NoneFailed
  <1>13. CASE ConnectFailed
    <2>1. /\ Linked' <=> Linked
          /\ clock' = clock /\ nextReconnect' = clock + RetryDelay /\ due' = clock
          /\ pc' = "reconnect" /\ pc = "await"
      <3>1. Linked' <=> Linked
        BY <1>13 DEF ConnectFailed, Linked
      <3> QED
        BY <1>1, <1>13, <3>1 DEF ConnectFailed, ReplyAwaited
    <2>2. state' # "connectingTcp2"
      BY <1>13 DEF ConnectFailed, ForcedDisconnect
    <2>3. Unhung'
      BY <1>1, <2>1, <2>2 DEF Unhung
    <2>4. CASE Linked
      BY <1>1, <2>1, <2>3, <2>4 DEF NoneFailed, OneFailed
    <2>5. CASE ~Linked
      BY <1>1, <2>1, <2>3, <2>5 DEF NoneFailed, OneFailed
    <2> QED
      BY <2>4, <2>5
  <1>14. CASE EndReconnect
    BY <1>1, <1>14 DEF EndReconnect, MayConnect, NoneFailed
  <1>15. CASE SecondUpdate \/ UpdateWebServer \/ BeginOta
    <2>1. /\ pc = "end" /\ pc' = "update" /\ nextReconnect' = nextReconnect
          /\ due' \in Nat /\ clock <= due' /\ due' <= clock + RoundDelay
      <3>1. CASE SecondUpdate
        BY <1>1, <3>1 DEF SecondUpdate
      <3>2. CASE UpdateWebServer
        BY <1>1, <3>2, RoundTakes DEF UpdateWebServer
      <3>3. CASE BeginOta
        BY <1>1, <3>3, RoundTakes DEF BeginOta
      <3> QED
        BY <1>15, <3>1, <3>2, <3>3
    <2>2. due' <= healthySince + RetryDelay + RoundDelay + 2 * Lag
      BY <1>1, <2>1 DEF NoneFailed
    <2> QED
      BY <1>1, <2>1, <2>2 DEF NoneFailed
  <1>16. CASE UNCHANGED <<due, pc, nextReconnect>>
    BY <1>1, <1>16, NoneFailedQuiet
  <1>17. CASE Client
    BY <1>16, <1>17 DEF Client, Dial, DialSucceeds, DialFails, Connack, Drop, Closed,
                        Callback
  <1>18. CASE WireLost \/ WireBack \/ Tick
    BY <1>16, <1>18 DEF WireLost, WireBack, Tick
  <1>19. CASE UNCHANGED vars
    BY <1>16, <1>19 DEF vars
  <1> QED
    BY <1>2, <1>3, <1>4, <1>5, <1>6, <1>7, <1>8, <1>9, <1>10, <1>11, <1>12, <1>13,
       <1>14, <1>15, <1>17, <1>18, <1>19 DEF Goes, Next, Update, Reconnect

\* A step of ntw leaves the client as it is.
LEMMA UnhungKept ==
  ASSUME Unhung, pc # "await", pc' # "await",
         UNCHANGED <<clock, nextReconnect, state, dialing, callback>>
  PROVE  Unhung'
  BY DEF Unhung

LEMMA SecondAttempt ==
  ASSUME TypeOK, ClientInv, ConnectInv, Goes, mqttBrokerAddr, ~Up, OneFailed
  PROVE  Up' \/ OneFailed'
  <1>1. Facts
    BY FactsHold
  <1>2. /\ Unhung /\ healthySince <= nextReconnect /\ pc # "settle"
        /\ MqttConnected => clock <= nextReconnect
    BY <1>1 DEF OneFailed, Facts
  <1> USE Constant
  <1> USE DEF Facts, At, GoTo, RetryAt, envVars, bootVars, prefVars, mqttVars,
              ntwVars, clientVars, clientOnly
  <1>3. CASE UpdateOnline
    <2>1. Linked /\ Linked'
      BY <1>1, <1>3 DEF UpdateOnline, IsConnected
    <2>2. Unhung'
      BY <1>2, <1>3, UnhungKept DEF UpdateOnline
    <2> QED
      BY <1>1, <1>3, <2>1, <2>2 DEF UpdateOnline, OneFailed
  <1>4. CASE UpdateOffline
    <2>1. PICK d \in 0 .. LinkDelay : GoTo("device", d)
      BY <1>4 DEF UpdateOffline
    <2>2. Unhung'
      BY <1>2, <1>4, <2>1, UnhungKept DEF UpdateOffline
    <2>3. ~Linked
      BY <1>1, <1>4 DEF UpdateOffline, MaintainResults, IsConnected
    <2> QED
      BY <1>1, <1>4, <2>1, <2>2, <2>3 DEF UpdateOffline, OneFailed
  <1>5. CASE DeviceReconnected
    <2>1. Linked'
      BY <1>1, <1>5 DEF DeviceReconnected, Linked
    <2>2. Unhung'
      BY <1>2, <1>5, UnhungKept DEF DeviceReconnected
    <2> QED
      BY <1>1, <1>5, <2>1, <2>2 DEF DeviceReconnected, OneFailed
  <1>6. CASE DeviceNotReconnected
    <2>1. wire
      BY DEF ConnectInv, Goes
    <2> QED
      BY <1>1, <1>6, <2>1 DEF DeviceNotReconnected
  <1>7. CASE AlreadyConnected
    <2>1. Unhung'
      BY <1>2, <1>7, UnhungKept DEF AlreadyConnected
    <2>2. clock <= nextReconnect
      BY <1>2, <1>7 DEF AlreadyConnected
    <2> QED
      BY <1>1, <1>7, <2>1, <2>2 DEF AlreadyConnected, OneFailed
  <1>8. CASE BeginReconnect
    <2>1. Linked /\ Linked'
      BY <1>1, <1>8 DEF BeginReconnect, OneFailed
    <2>2. Unhung'
      BY <1>2, <1>8, UnhungKept DEF BeginReconnect
    <2> QED
      BY <1>1, <1>8, <2>1, <2>2 DEF BeginReconnect, OneFailed
  <1>9. CASE Publish
    <2>1. Unhung'
      BY <1>2, <1>9, UnhungKept DEF Publish
    <2> QED
      BY <1>1, <1>9, <2>1 DEF Publish, OneFailed
  <1>10. CASE NoBroker
    BY <1>10 DEF NoBroker
  <1>11. CASE Connect
    <2>1. Linked
      <3>1. clock > nextReconnect /\ pc = "reconnect"
        BY <1>11 DEF Connect, Await, MayConnect
      <3> QED
        BY <1>1, <3>1 DEF OneFailed
    <2>2. state = "disconnected" /\ callback = "none"
      BY <1>2, <1>11 DEF Connect, Await, MayConnect, Unhung
    <2>3. /\ state' = "connectingTcp1" /\ callback' = "none"
          /\ connectReplyReceived' = FALSE /\ pc' = "await"
          /\ clock' = clock /\ due' = clock + ConnectTimeout
          /\ nextReconnect' = nextReconnect
      BY <1>11, <2>2 DEF Connect, Await, ForgetReply, Goes
    <2>4. due <= healthySince + ConnectTimeout + 2 * RetryDelay + LinkDelay
                   + RoundDelay + 7 * Lag + RoundDelay + 4 * Lag
      BY <1>1, <1>11, <2>1 DEF OneFailed, Connect
    <2>5. clock' <= healthySince' + ReconnectTime
      BY <1>1, <2>3, <2>4 DEF ReconnectTime
    <2>6. Unhung'
      BY <1>1, <2>1, <2>3, <2>5 DEF Unhung
    <2> QED
      BY <1>1, <1>2, <2>1, <2>3, <2>6 DEF OneFailed
  <1>12. CASE Reconnected \/ ConnectFailed
    <2>1. pc = "await"
      BY <1>12 DEF Reconnected, ConnectFailed, ReplyAwaited
    <2>2. ~MqttConnected /\ ~connectReplyReceived /\ ~(clock >= due)
      BY <1>1, <1>2, <2>1 DEF Unhung, MqttConnected
    <2> QED
      BY <1>12, <2>2 DEF Reconnected, ConnectFailed, ReplyAwaited
  <1>13. CASE Settled
    BY <1>2, <1>13 DEF Settled
  <1>14. CASE EndReconnect
    <2>1. Unhung'
      BY <1>2, <1>14, UnhungKept DEF EndReconnect
    <2>2. clock <= nextReconnect
      BY <1>1, <1>2, <1>14 DEF EndReconnect, MayConnect
    <2> QED
      BY <1>1, <1>14, <2>1, <2>2 DEF EndReconnect, OneFailed
  <1>15. CASE SecondUpdate \/ UpdateWebServer \/ BeginOta
    <2>1. /\ pc = "end" /\ pc' = "update" /\ nextReconnect' = nextReconnect
          /\ due' \in Nat /\ clock <= due' /\ due' <= clock + RoundDelay
      <3>1. CASE SecondUpdate
        BY <1>1, <3>1 DEF SecondUpdate
      <3>2. CASE UpdateWebServer
        BY <1>1, <3>2, RoundTakes DEF UpdateWebServer
      <3>3. CASE BeginOta
        BY <1>1, <3>3, RoundTakes DEF BeginOta
      <3> QED
        BY <1>15, <3>1, <3>2, <3>3
    <2>2. due' <= nextReconnect + RoundDelay + 2 * Lag
      BY <1>1, <2>1 DEF OneFailed
    <2>3. Unhung'
      BY <1>2, <1>15, <2>1, UnhungKept DEF SecondUpdate, UpdateWebServer, BeginOta
    <2> QED
      BY <1>1, <2>1, <2>2, <2>3 DEF OneFailed
  <1>16. ASSUME UNCHANGED <<due, pc, nextReconnect, wire, hasDHCPAddress>>, Unhung'
         PROVE  OneFailed'
    <2>1. Linked' <=> Linked
      BY <1>16 DEF Linked
    <2> QED
      BY <1>1, <1>16, <2>1 DEF OneFailed
  <1>17. CASE Client
    <2>1. UNCHANGED <<clock, due, pc, nextReconnect, wire, hasDHCPAddress, healthy,
                      healthySince>>
      BY <1>17 DEF Client, Dial, DialSucceeds, DialFails, Connack, Drop, Closed, Callback
    <2>2. CASE pc = "await"
      <3>1. Linked /\ Linked'
        BY <1>1, <1>2, <2>2 DEF Unhung
      <3>2. state \in {"connectingTcp1", "connecting"} /\ callback = "none"
        BY <1>2, <2>2 DEF Unhung
      <3>3. /\ state' \in {"connectingTcp1", "connecting"} /\ callback' = "none"
            /\ connectReplyReceived' = connectReplyReceived
            \/ state' = "connected"
        BY <1>1, <1>17, <3>1, <3>2 DEF Client, Dial, DialSucceeds, DialFails, Dialled,
           Connack, Drop, Closed, Callback
      <3>4. CASE state' = "connected"
        BY <3>1, <3>4 DEF Up, MqttConnected
      <3>5. CASE state' # "connected"
        <4>1. ReconnectTime' = ReconnectTime
          BY DEF ReconnectTime
        <4>2. Unhung'
          BY <1>2, <2>1, <2>2, <3>1, <3>3, <3>5, <4>1 DEF Unhung
        <4> QED
          BY <1>16, <2>1, <4>2
      <3> QED
        BY <3>4, <3>5
    <2>3. CASE pc # "await"
      <3>1. ~(clock > nextReconnect)
        BY <1>2, <1>17, <2>3 DEF Unhung, Client, Dial, DialSucceeds, DialFails, Dialled,
           Connack, Drop, Closed, Callback
      <3>2. state' # "connectingTcp2"
        BY <1>1, <1>2, <1>17, <2>3 DEF Unhung, Client, Dial, DialSucceeds, DialFails,
           Dialled, Connack, Drop, Closed, Callback
      <3>3. Unhung'
        BY <2>1, <2>3, <3>1, <3>2 DEF Unhung
      <3> QED
        BY <1>16, <2>1, <3>3
    <2> QED
      BY <2>2, <2>3
  <1>18. CASE Tick
    <2>1. /\ UNCHANGED <<due, pc, nextReconnect, wire, hasDHCPAddress, state, dialing,
                         callback>>
          /\ clock' = clock + 1 /\ ClientSettled
      BY <1>1, <1>18 DEF Tick
    <2>2. callback = "none" /\ ~dialing /\ state \in {"disconnected", "connectingTcp2"}
      BY <2>1 DEF ClientSettled, Up, MqttConnected
    <2>3. pc # "await" /\ state # "connectingTcp2"
      BY <1>2, <2>2 DEF Unhung
    <2>4. Unhung'
      BY <2>1, <2>2, <2>3 DEF Unhung
    <2> QED
      BY <1>16, <2>1, <2>4
  <1>19. CASE WireLost \/ WireBack
    <2>1. wire
      BY DEF ConnectInv, Goes
    <2> QED
      BY <1>1, <1>19, <2>1 DEF WireLost, WireBack
  <1>20. CASE UNCHANGED vars
    <2>1. UNCHANGED <<clock, due, pc, nextReconnect, wire, hasDHCPAddress, state, dialing,
                      callback, connectReplyReceived, healthySince>>
      BY <1>20 DEF vars
    <2>2. Linked' <=> Linked
      BY <2>1 DEF Linked
    <2>3. Unhung'
      BY <1>2, <2>1, <2>2 DEF Unhung, ReconnectTime
    <2> QED
      BY <1>16, <2>1, <2>3
  <1> QED
    BY <1>3, <1>4, <1>5, <1>6, <1>7, <1>8, <1>9, <1>10, <1>11, <1>12, <1>13, <1>14,
       <1>15, <1>17, <1>18, <1>19, <1>20 DEF Goes, Next, Update, Reconnect

LEMMA NextConnectInv == TypeOK /\ ClientInv /\ ConnectInv /\ [Next]_vars => ConnectInv'
  <1> SUFFICES ASSUME TypeOK, ClientInv, ConnectInv, [Next]_vars PROVE ConnectInv'
    OBVIOUS
  <1>1. PaceInv' /\ PaceInv /\ HealedInv
    BY NextPaceInv DEF ConnectInv, HealedInv
  <1>2. SUFFICES healthy' => /\ HealedInv'
                             /\ mqttBrokerAddr' => Up' \/ NoneFailed' \/ OneFailed'
    BY <1>1 DEF ConnectInv, HealedInv
  <1>3. CASE Restarts
    BY <1>3, RestartConnects DEF Restarts, DisconnectRestart, CriticalFailure,
       NetworkTimeoutRestart, EventRestart, ConnectInv, HealedInv
  <1>4. CASE Heal
    BY <1>1, <1>4, HealConnects
  <1>5. CASE Goes
    <2>1. HealedInv' /\ mqttBrokerAddr' = mqttBrokerAddr
      BY <1>1, <1>5, HealedGoesOn, GoesOn
    <2>2. mqttBrokerAddr => Up \/ NoneFailed \/ OneFailed
      BY <1>5 DEF ConnectInv, Goes
    <2>3. ASSUME mqttBrokerAddr PROVE Up' \/ NoneFailed' \/ OneFailed'
      BY <1>1, <1>5, <2>2, <2>3, StaysUp, FirstAttempt, SecondAttempt
    <2> QED
      BY <2>1, <2>3
  <1>6. CASE ~healthy /\ ~Restarts /\ ~Heal
    <2>1. ~healthy'
      BY <1>6 DEF vars, envVars, bootVars, prefVars, Next, Update, Reconnect, Client,
         UpdateOnline, UpdateOffline, DeviceReconnected, DeviceNotReconnected,
         AlreadyConnected, BeginReconnect, Publish, NoBroker, Connect, Await, Reconnected,
         Settled, ConnectFailed, EndReconnect, SecondUpdate, UpdateWebServer, BeginOta,
         Dial, DialSucceeds, DialFails, Connack, Drop, Closed, Callback, clientOnly,
         WireLost, WireBack, Tick
    <2> QED
      BY <2>1
  <1> QED
    BY <1>3, <1>4, <1>5, <1>6 DEF Goes

LEMMA ReconnectedInTime == TypeOK /\ ConnectInv => ConnectsWhenHealthy
  <1> SUFFICES ASSUME TypeOK, ConnectInv PROVE ConnectsWhenHealthy
    OBVIOUS
  <1>1. /\ clock \in Nat /\ due \in Nat /\ nextReconnect \in Nat /\ healthySince \in Nat
        /\ pc \in Pcs /\ clock <= due + Lag /\ ReconnectTime \in Nat
    BY Constant DEF TypeOK, ConnectInv, PaceInv, ReconnectTime
  <1> USE <1>1, Constant
  <1>2. CASE Linked /\ NoneFailed
    BY <1>2 DEF NoneFailed, ReconnectTime, Pcs, ConnectsWhenHealthy
  <1>3. CASE ~Linked /\ NoneFailed
    BY <1>3 DEF NoneFailed, ReconnectTime, Pcs, ConnectsWhenHealthy
  <1>4. CASE OneFailed /\ pc = "await"
    BY <1>4 DEF OneFailed, Unhung, ConnectsWhenHealthy
  <1>5. CASE OneFailed /\ pc # "await"
    BY <1>5 DEF OneFailed, ReconnectTime, Pcs, ConnectsWhenHealthy
  <1> QED
    BY <1>2, <1>3, <1>4, <1>5 DEF ConnectInv, Up, ConnectsWhenHealthy

\* With network and broker in order MQTT is connected again within ReconnectTime,
\* whatever the bad times have left: for all delays, however they compare.
THEOREM ReconnectsInTime == Spec => []ConnectsWhenHealthy
  <1>1. Init => ConnectInv
    BY Constant DEF Init, ConnectInv, PaceInv
  <1>2. Init => ClientInv
    BY DEF Init, ClientInv
  <1> QED
    BY <1>1, <1>2, NetworkTypeCorrect, NextClientInv, NextConnectInv, ReconnectedInTime,
       PTL DEF Spec
=============================================================================
