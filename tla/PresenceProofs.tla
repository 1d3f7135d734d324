---------------------------- MODULE PresenceProofs ----------------------------
(***************************************************************************)
(* Theorems about PresenceDetection, for every value of its constants.       *)
(* The invariants are proved one on top of the other: types, the bound of    *)
(* the buffer, the timing of the prdet task, then what timing implies.       *)
(***************************************************************************)
EXTENDS PresenceDetection, TLAPS

(* Half of an even word.                                                     *)
LEMMA HalfWordFact == HalfWord \in Nat /\ HalfWord > 1 /\ Word = HalfWord + HalfWord
  BY WordAssumption DEF HalfWord

(* The stamp that ToInt makes of a millis() value is an int.                 *)
LEMMA ToIntType ==
  ASSUME NEW u \in 0 .. Word - 1
  PROVE  ToInt(u) \in -HalfWord .. HalfWord - 1
  BY HalfWordFact DEF ToInt

LEMMA TimesInWord ==
  Times \subseteq 0 .. Word - 1 /\ Times \subseteq Nat /\ 0 \in Times /\ 1 \in Times
  BY PresenceAssumption, WordAssumption DEF Times

LEMMA ShortRows == <<>> \in Rows /\ NoDevice \in Rows
  BY DEF Rows, NoDevice

LEMMA InitTypeOK == Init => TypeOK
  <1> SUFFICES ASSUME Init PROVE TypeOK
    OBVIOUS
  <1>1. 1 \in Times /\ 0 \in Times /\ 1 + Period \in Nat
    BY PresenceAssumption DEF Times
  <1>2. 1 \in -HalfWord .. HalfWord - 1
    BY HalfWordFact
  <1>3. DOMAIN devices = {} /\ devices \in [DOMAIN devices -> Times]
    BY DEF Init
  <1>4. csv \in Rows /\ taken \in Rows /\ broker \in Rows
    BY ShortRows DEF Init
  <1> QED
    BY <1>1, <1>2, <1>3, <1>4 DEF Init, TypeOK, Pcs

(* Every step keeps the types: one step of the proof for each action.        *)
LEMMA NextTypeOK == TypeOK /\ [Next]_vars => TypeOK'
  <1> SUFFICES ASSUME TypeOK, [Next]_vars PROVE TypeOK'
    OBVIOUS
  <1> USE TimesInWord DEF TypeOK, prdetVars, ntwVars
  <1>1. ASSUME NEW a \in Addr, ReceiveBeacon(a) PROVE TypeOK'
    <2>1. lastBeaconTs' \in -HalfWord .. HalfWord - 1
      BY <1>1, ToIntType DEF ReceiveBeacon
    <2> QED
      BY <1>1, <2>1 DEF ReceiveBeacon
  <1>2. CASE Refresh
    BY <1>2 DEF Refresh, HostIdle
  <1>3. CASE IgnoreNameless
    BY <1>3 DEF IgnoreNameless, HostIdle
  <1>4. CASE Link
    <2>1. host.addr \in Addr /\ host.stamp \in Times
      BY <1>4 DEF Link, HostIdle
    <2>2. DOMAIN devices' \subseteq Addr /\ devices' \in [DOMAIN devices' -> Times]
      BY <1>4, <2>1 DEF Link
    <2>3. host' = [at |-> "link", addr |-> host.addr, stamp |-> clock]
      BY <1>4 DEF Link, HostIdle
    <2> QED
      BY <1>4, <2>2, <2>3 DEF Link
  <1>5. CASE Fill
    <2>1. host.stamp \in Times
      BY <1>5 DEF HostIdle
    <2>2. DOMAIN devices' \subseteq Addr /\ devices' \in [DOMAIN devices' -> Times]
      BY <1>5, <2>1 DEF Fill
    <2> QED
      BY <1>5, <2>2 DEF Fill
  <1>6. CASE Wake
    BY <1>6 DEF Wake, Pcs
  <1>7. CASE WatchdogFires
    BY <1>7 DEF WatchdogFires, Pcs
  <1>8. CASE Disabled
    BY <1>8, PresenceAssumption DEF Disabled, Pcs
  <1>9. CASE ClearBuffer
    BY <1>9, ShortRows DEF ClearBuffer, Pcs
  <1>10. CASE PublishNoDevice
    <2>0. clock \in Nat
      OBVIOUS
    <2> HIDE DEF TypeOK
    <2>1. wakeAt' \in Nat
      BY <1>10, <2>0, PresenceAssumption DEF PublishNoDevice
    <2>2. csv' \in Rows
      BY <1>10, ShortRows DEF PublishNoDevice
    <2>3. /\ UNCHANGED <<clock, devices, lastBeaconTs, host, ts, cursor, csvIndex,
                        raced, ntwVars>>
          /\ pc' = "delay" /\ handed' = TRUE
      BY <1>10 DEF PublishNoDevice
    <2> QED
      BY <2>1, <2>2, <2>3 DEF TypeOK, Pcs
  <1>11. CASE BeginRows
    BY <1>11 DEF BeginRows, Pcs
  <1>12. ASSUME NEW a \in DOMAIN devices, NEW len \in RowLens, AppendRow(a, len)
         PROVE  TypeOK'
    <2>1. csv' \in Rows
      BY <1>12 DEF AppendRow, Rows
    <2>2. csvIndex' \in Nat
      BY <1>12, BufferAssumption DEF AppendRow
    <2> QED
      BY <1>12, <2>1, <2>2 DEF AppendRow, AfterEntry, GoesOn, Pcs
  <1>13. ASSUME NEW a \in DOMAIN devices, SkipRow(a) PROVE TypeOK'
    BY <1>13 DEF SkipRow, AfterEntry, GoesOn, Pcs
  <1>14. CASE EndRows
    BY <1>14 DEF EndRows, GoesOn, Pcs
  <1>15. CASE HandOver
    BY <1>15, PresenceAssumption DEF HandOver, Pcs
  <1>16. CASE TakeList
    BY <1>16 DEF TakeList
  <1>17. CASE Publish
    BY <1>17, ShortRows DEF Publish, Torn
  <1>18. CASE PublishFails
    BY <1>18 DEF PublishFails
  <1>19. CASE ForgetList
    BY <1>19, ShortRows DEF ForgetList
  <1>20. CASE Tick
    BY <1>20, PresenceAssumption DEF Tick, Times
  <1>21. CASE Boot
    <2>1. 1 \in Times /\ 0 \in Times /\ 1 + Period \in Nat
      BY PresenceAssumption DEF Times
    <2>2. 1 \in -HalfWord .. HalfWord - 1
      BY HalfWordFact
    <2>3. DOMAIN devices' = {} /\ devices' \in [DOMAIN devices' -> Times]
      BY <1>21 DEF Boot
    <2> QED
      BY <1>21, <2>1, <2>2, <2>3, ShortRows DEF Boot, Pcs
  <1>22. CASE UNCHANGED vars
    BY <1>22 DEF vars
  <1> QED
    BY <1>1, <1>2, <1>3, <1>4, <1>5, <1>6, <1>7, <1>8, <1>9, <1>10, <1>11,
       <1>12, <1>13, <1>14, <1>15, <1>16, <1>17, <1>18, <1>19, <1>20, <1>21,
       <1>22
    DEF Next, Host, Prdet, Ntw, Restart, WatchdogRestart, Panic, OtherRestart

(* Every variable keeps its type in every behaviour of the tasks.            *)
THEOREM TypeCorrect == Spec => []TypeOK
  BY InitTypeOK, NextTypeOK, PTL DEF Spec

-----------------------------------------------------------------------------
(* The buffer                                                                *)

(* Only the rows loop moves csvIndex, and the test after an entry leaves the *)
(* loop when a longest row would no longer fit.                              *)
LEMMA NextBufferInv == TypeOK /\ BufferInv /\ [Next]_vars => BufferInv'
  <1> SUFFICES ASSUME TypeOK, BufferInv, [Next]_vars PROVE BufferInv'
    OBVIOUS
  <1> USE BufferAssumption DEF BufferInv, CsvInBounds
  <1> USE DEF prdetVars, ntwVars
  <1>1. CASE \E a \in Addr : ReceiveBeacon(a)
    BY <1>1 DEF ReceiveBeacon
  <1>2. CASE Refresh \/ IgnoreNameless \/ Link \/ Fill
    BY <1>2 DEF Refresh, IgnoreNameless, Link, Fill
  <1>3. CASE Wake \/ WatchdogFires \/ Disabled \/ ClearBuffer \/ PublishNoDevice
    BY <1>3 DEF Wake, WatchdogFires, Disabled, ClearBuffer, PublishNoDevice
  <1>4. CASE BeginRows \/ EndRows \/ HandOver
    BY <1>4 DEF BeginRows, EndRows, HandOver
  <1>5. ASSUME NEW a \in DOMAIN devices, NEW len \in RowLens, AppendRow(a, len)
        PROVE  BufferInv'
    BY <1>5 DEF AppendRow, AfterEntry, BufferFull, TypeOK
  <1>6. ASSUME NEW a \in DOMAIN devices, SkipRow(a) PROVE BufferInv'
    BY <1>6 DEF SkipRow, AfterEntry
  <1>7. CASE Ntw \/ Tick
    BY <1>7 DEF Ntw, Tick, TakeList, Publish, PublishFails, ForgetList
  <1>8. CASE Boot
    BY <1>8 DEF Boot
  <1>9. CASE UNCHANGED vars
    BY <1>9 DEF vars
  <1> QED
    BY <1>1, <1>2, <1>3, <1>4, <1>5, <1>6, <1>7, <1>8, <1>9
    DEF Next, Host, Prdet, Restart, WatchdogRestart, Panic, OtherRestart

(* "Prevent csv buffer overflow": whatever the devices, the lengths of their *)
(* rows and the order in which the racing iteration visits them, no write of *)
(* buildCsv reaches the end of _csv.                                         *)
THEOREM CsvStaysInBounds == Spec => []CsvInBounds
  <1>1. Init => BufferInv
    BY BufferAssumption DEF Init, BufferInv, CsvInBounds
  <1> QED
    BY <1>1, TypeCorrect, NextBufferInv, PTL DEF Spec, BufferInv

-----------------------------------------------------------------------------
(* The timing of prdet                                                       *)

LEMMA NextStampInv == TypeOK /\ StampInv /\ [Next]_vars => StampInv'
  <1> SUFFICES ASSUME TypeOK, StampInv, [Next]_vars PROVE StampInv'
    OBVIOUS
  <1>0. /\ clock \in Nat /\ ts \in Nat /\ wakeAt \in Nat /\ host.stamp \in Nat
        /\ Period \in Nat /\ Lag \in Nat /\ Lag > 0
        /\ \A a \in DOMAIN devices : devices[a] \in Nat
    BY PresenceAssumption, TimesInWord DEF TypeOK, HostIdle
  <1> USE <1>0 DEF StampInv
  <1> USE DEF prdetVars, ntwVars
  <1>1. CASE \E a \in Addr : ReceiveBeacon(a)
    BY <1>1 DEF ReceiveBeacon
  <1>2. CASE Refresh \/ IgnoreNameless
    BY <1>2 DEF Refresh, IgnoreNameless, HostIdle
  <1>3. CASE Link
    <2>1. host' = [at |-> "link", addr |-> host.addr, stamp |-> clock]
      BY <1>3 DEF Link, HostIdle, TypeOK
    <2>2. host.addr \in DOMAIN devices' /\ devices'[host.addr] = 0
      BY <1>3 DEF Link
    <2>3. \A a \in DOMAIN devices' : devices'[a] <= clock
      BY <1>3 DEF Link
    <2> QED
      BY <1>3, <2>1, <2>2, <2>3 DEF Link
  <1>4. CASE Fill
    BY <1>4 DEF Fill, HostIdle
  <1>5. CASE Wake
    BY <1>5 DEF Wake
  <1>6. CASE WatchdogFires \/ ClearBuffer
    BY <1>6 DEF WatchdogFires, ClearBuffer
  <1>13. CASE Disabled
    BY <1>13 DEF Disabled
  <1>14. CASE PublishNoDevice
    BY <1>14 DEF PublishNoDevice
  <1>15. CASE HandOver
    BY <1>15 DEF HandOver
  <1>7. CASE BeginRows \/ EndRows
    BY <1>7 DEF BeginRows, EndRows
  <1>8. CASE \E a \in DOMAIN devices :
               (\E len \in RowLens : AppendRow(a, len)) \/ SkipRow(a)
    BY <1>8 DEF AppendRow, SkipRow, AfterEntry
  <1>9. CASE Ntw
    BY <1>9 DEF Ntw, TakeList, Publish, PublishFails, ForgetList
  <1>10. CASE Tick
    BY <1>10 DEF Tick, PrdetOnTime
  <1>11. CASE Boot
    BY <1>11 DEF Boot, HostIdle
  <1>12. CASE UNCHANGED vars
    BY <1>12 DEF vars
  <1> QED
    BY <1>1, <1>2, <1>3, <1>4, <1>5, <1>6, <1>7, <1>8, <1>9, <1>10, <1>11, <1>12,
       <1>13, <1>14, <1>15
    DEF Next, Host, Prdet, Restart, WatchdogRestart, Panic, OtherRestart

LEMMA StampsPast == Spec => []StampInv
  <1>1. Init => StampInv
    BY PresenceAssumption DEF Init, StampInv, HostIdle
  <1> QED
    BY <1>1, TypeCorrect, NextStampInv, PTL DEF Spec

-----------------------------------------------------------------------------
(* The beacon watchdog                                                       *)

(* Below half of the word an int keeps the stamp, and the test of the        *)
(* watchdog finds any silence that is too long; a beacon that came after ts  *)
(* was read makes it fire as well.                                           *)
LEMMA WatchdogTest ==
  ASSUME clock < HalfWord, clock \in Nat, ts \in 0 .. clock, lastBeaconTs \in 1 .. clock,
         ~BeaconLost
  PROVE  SilenceWithin(0)
  BY HalfWordFact, PresenceAssumption
  DEF BeaconLost, SilenceWithin, USub, ToUnsigned, RestartBeaconTimeout, Times

LEMMA NextWatchdogInv ==
  TypeOK /\ StampInv /\ WatchdogInv /\ [Next]_vars => WatchdogInv'
  <1> SUFFICES ASSUME TypeOK, StampInv, WatchdogInv, [Next]_vars PROVE WatchdogInv'
    OBVIOUS
  <1> SUFFICES ASSUME ~Boot, clock < HalfWord PROVE WatchdogInv'
    <2>1. CASE Boot
      BY <2>1, PresenceAssumption DEF Boot, WatchdogInv, SilenceWithin
    <2>2. CASE ~Boot /\ ~(clock < HalfWord)
      <3>1. clock' \in {clock, clock + 1} /\ clock \in Nat
        <4> USE DEF prdetVars, ntwVars
        <4>0. clock \in Nat
          BY TimesInWord DEF TypeOK
        <4>1. CASE Host
          BY <4>0, <4>1 DEF Host, ReceiveBeacon, Refresh, IgnoreNameless, Link, Fill
        <4>2. CASE Prdet
          BY <4>0, <4>2 DEF Prdet, Wake, WatchdogFires, Disabled, ClearBuffer,
             PublishNoDevice, BeginRows, AppendRow, SkipRow, EndRows, HandOver
        <4>3. CASE Ntw \/ Tick
          BY <4>0, <4>3 DEF Ntw, TakeList, Publish, PublishFails, ForgetList, Tick
        <4>4. CASE UNCHANGED vars
          BY <4>0, <4>4 DEF vars
        <4> QED
          BY <2>2, <4>1, <4>2, <4>3, <4>4
          DEF Next, Restart, WatchdogRestart, Panic, OtherRestart
      <3>2. ~(clock' < HalfWord)
        BY <2>2, <3>1, HalfWordFact
      <3> QED
        BY <3>2 DEF WatchdogInv
    <2> QED
      BY <2>1, <2>2
  <1>1. /\ clock \in Nat /\ ts \in Nat /\ wakeAt \in Nat
        /\ lastBeaconTs \in Nat
        /\ Period \in Nat /\ Lag \in Nat /\ BootGrace \in Nat
        /\ RestartBeaconTimeout \in Int
    BY PresenceAssumption DEF TypeOK, Times, WatchdogInv, RestartBeaconTimeout
  <1>2. ~BeaconLost => SilenceWithin(0)
    BY <1>1, WatchdogTest DEF StampInv, WatchdogInv
  <1> USE <1>1 DEF WatchdogInv, SilenceWithin
  <1> USE DEF prdetVars, ntwVars
  <1>3. CASE \E a \in Addr : ReceiveBeacon(a)
    <2>1. lastBeaconTs' = clock
      BY <1>3, HalfWordFact DEF ReceiveBeacon, ToInt
    <2> QED
      BY <1>3, <2>1 DEF ReceiveBeacon, StampInv
  <1>4. CASE Refresh \/ IgnoreNameless \/ Link \/ Fill
    BY <1>4 DEF Refresh, IgnoreNameless, Link, Fill
  <1>5. CASE Wake
    BY <1>5 DEF Wake, StampInv
  <1>6. CASE WatchdogFires
    BY <1>6 DEF WatchdogFires
  <1>7. CASE Disabled \/ ClearBuffer
    BY <1>2, <1>7 DEF Disabled, ClearBuffer
  <1>8. CASE PublishNoDevice \/ BeginRows \/ EndRows \/ HandOver
    BY <1>8 DEF PublishNoDevice, BeginRows, EndRows, HandOver
  <1>9. CASE \E a \in DOMAIN devices :
               (\E len \in RowLens : AppendRow(a, len)) \/ SkipRow(a)
    BY <1>9 DEF AppendRow, SkipRow, AfterEntry
  <1>10. CASE Ntw
    BY <1>10 DEF Ntw, TakeList, Publish, PublishFails, ForgetList
  <1>11. CASE Tick
    BY <1>11 DEF Tick
  <1>13. CASE UNCHANGED vars
    BY <1>13 DEF vars
  <1> QED
    BY <1>3, <1>4, <1>5, <1>6, <1>7, <1>8, <1>9, <1>10, <1>11, <1>13
    DEF Next, Host, Prdet, Restart, WatchdogRestart, Panic, OtherRestart

(* "Restart if bluetooth beacons not received": the device never runs on     *)
(* longer than the grace after boot, or the configured silence, allow, as    *)
(* long as millis() stays below half of its range.                           *)
THEOREM WatchdogMeetsDeadline == Spec => []WatchdogDeadline
  <1>1. Init => WatchdogInv
    BY PresenceAssumption DEF Init, WatchdogInv, SilenceWithin
  <1>2. TypeOK /\ StampInv /\ WatchdogInv => WatchdogDeadline
    <2> SUFFICES ASSUME TypeOK, StampInv, WatchdogInv, clock < HalfWord
                 PROVE  WatchdogDeadline
      BY DEF WatchdogDeadline
    <2>1. /\ clock \in Nat /\ ts \in Nat /\ wakeAt \in Nat /\ lastBeaconTs \in Nat
          /\ Period \in Nat /\ Lag \in Nat /\ BootGrace \in Nat
          /\ RestartBeaconTimeout \in Int
      BY PresenceAssumption
      DEF TypeOK, Times, WatchdogInv, RestartBeaconTimeout
    <2>2. clock <= ts + Period + 2 * Lag
      BY <2>1 DEF StampInv
    <2>3. pc # "delay" => clock <= ts + Lag
      BY DEF StampInv
    <2> QED
      BY <2>1, <2>2, <2>3
      DEF WatchdogInv, SilenceWithin, WatchdogDeadline, ToUnsigned
  <1> QED
    BY <1>1, <1>2, TypeCorrect, StampsPast, NextWatchdogInv, PTL DEF Spec

-----------------------------------------------------------------------------
(* The age of what is published                                              *)

(* The unsigned test for freshness says what it seems to say: when ts is     *)
(* below the timeout the difference wraps to more than any stamp.            *)
LEMMA FreshMeansRecent ==
  ASSUME ts \in Times, NEW stamp \in Times, stamp <= ts + Lag, Timeout >= 0,
         Fresh(stamp)
  PROVE  ts < stamp + Timeout
  BY PresenceAssumption, WordAssumption DEF Fresh, USub, Timeout, Times

LEMMA NextListInv ==
  TypeOK /\ StampInv /\ ListInv /\ [Next]_vars => ListInv'
  <1> SUFFICES ASSUME TypeOK, StampInv, ListInv, [Next]_vars PROVE ListInv'
    OBVIOUS
  <1>1. /\ clock \in Nat /\ ts \in Nat /\ wakeAt \in Nat
        /\ Period \in Nat /\ Lag \in Nat /\ Timeout \in Int
        /\ \A a \in DOMAIN devices : devices[a] \in Nat
    BY PresenceAssumption, TimesInWord DEF TypeOK, Timeout
  <1> USE <1>1 DEF ListInv, RowAge
  <1> USE DEF prdetVars, ntwVars
  <1>2. CASE \E a \in Addr : ReceiveBeacon(a)
    BY <1>2 DEF ReceiveBeacon
  <1>3. CASE Refresh
    <2>1. \A a \in DOMAIN devices : a \in DOMAIN devices' /\ devices[a] <= devices'[a]
      BY <1>3 DEF Refresh, StampInv
    <2>2. devices' \in [DOMAIN devices -> Nat]
      BY <1>3, TimesInWord DEF Refresh, TypeOK
    <2> QED
      BY <1>3, <2>1, <2>2 DEF Refresh
  <1>4. CASE IgnoreNameless
    BY <1>4 DEF IgnoreNameless
  <1>5. CASE Link
    <2>1. \A a \in DOMAIN devices : a \in DOMAIN devices' /\ devices[a] = devices'[a]
      BY <1>5 DEF Link
    <2> QED
      BY <1>5, <2>1 DEF Link
  <1>6. CASE Fill
    <2>1. host.stamp \in Nat
      BY TimesInWord DEF TypeOK, HostIdle
    <2>2. \A a \in DOMAIN devices : a \in DOMAIN devices' /\ devices[a] <= devices'[a]
      BY <1>6, <2>1 DEF Fill, StampInv
    <2>3. \A a \in DOMAIN devices : devices'[a] \in Nat
      BY <1>6, <2>1, TimesInWord DEF Fill, TypeOK
    <2>4. pc' = pc /\ csv' = csv /\ ts' = ts
      BY <1>6 DEF Fill
    <2> QED
      BY <2>2, <2>3, <2>4
  <1>7. CASE Wake
    BY <1>7 DEF Wake, StampInv
  <1>8. CASE WatchdogFires
    BY <1>8 DEF WatchdogFires
  <1>9. CASE Disabled
    <2>1. Listed(csv) = {}
      BY <1>9 DEF Disabled, Listed
    <2> QED
      BY <1>9, <2>1 DEF Disabled
  <1>10. CASE ClearBuffer
    <2>1. Listed(csv') = {}
      BY <1>10 DEF ClearBuffer, Listed
    <2> QED
      BY <1>10, <2>1 DEF ClearBuffer
  <1>11. CASE PublishNoDevice
    <2>1. Listed(csv') = {}
      BY <1>11 DEF PublishNoDevice, NoDevice, Listed
    <2> QED
      BY <1>11, <2>1 DEF PublishNoDevice, StampInv
  <1>12. CASE BeginRows \/ EndRows \/ HandOver
    BY <1>12 DEF BeginRows, EndRows, HandOver
  <1>13. ASSUME NEW a \in DOMAIN devices, NEW len \in RowLens, AppendRow(a, len)
         PROVE  ListInv'
    <2>1. ts < devices[a] + Timeout
      BY <1>13, FreshMeansRecent DEF AppendRow, StampInv, TypeOK
    <2>2. Listed(csv') \subseteq Listed(csv) \cup {a}
      BY <1>13 DEF AppendRow, Listed, TypeOK, Rows
    <2> QED
      BY <1>13, <2>1, <2>2 DEF AppendRow, AfterEntry, StampInv
  <1>14. ASSUME NEW a \in DOMAIN devices, SkipRow(a) PROVE ListInv'
    BY <1>14 DEF SkipRow, AfterEntry
  <1>15. CASE Ntw
    BY <1>15 DEF Ntw, TakeList, Publish, PublishFails, ForgetList
  <1>16. CASE Tick
    BY <1>16 DEF Tick
  <1>17. CASE Boot
    <2>1. Listed(csv') = {}
      BY <1>17 DEF Boot, Listed
    <2> QED
      BY <1>17, <2>1 DEF Boot
  <1>18. CASE UNCHANGED vars
    BY <1>18 DEF vars
  <1> QED
    BY <1>2, <1>3, <1>4, <1>5, <1>6, <1>7, <1>8, <1>9, <1>10, <1>11, <1>12,
       <1>13, <1>14, <1>15, <1>16, <1>17, <1>18
    DEF Next, Host, Prdet, Restart, WatchdogRestart, Panic, OtherRestart

(* Whatever ntw does and however late it is, a list it publishes whole names *)
(* only devices heard within the timeout, one period and the latenesses.     *)
THEOREM PublishedListIsRecent == Spec => PublishedIsRecent
  <1>1. Init => ListInv
    BY DEF Init, ListInv, Listed
  <1>2. TypeOK /\ StampInv /\ ListInv =>
          (Publish /\ taken = csv => \A a \in Listed(csv) : RecentlyHeard(a))
    <2> SUFFICES ASSUME TypeOK, StampInv, ListInv, Publish,
                        NEW a \in Listed(csv)
                 PROVE  RecentlyHeard(a)
      OBVIOUS
    <2>1. a \in DOMAIN devices /\ ts < devices[a] + Timeout + RowAge
      BY DEF ListInv
    <2>2. /\ clock \in Nat /\ ts \in Nat /\ wakeAt \in Nat /\ devices[a] \in Nat
          /\ Period \in Nat /\ Lag \in Nat /\ Timeout \in Int
      BY <2>1, PresenceAssumption, TimesInWord DEF TypeOK, Timeout
    <2>3. CASE pc = "delay"
      BY <2>1, <2>2, <2>3 DEF StampInv, RowAge, RecentlyHeard
    <2>4. CASE pc = "restarting"
      BY <2>1, <2>2, <2>4 DEF StampInv, RowAge, RecentlyHeard
    <2> QED
      BY <2>3, <2>4 DEF Publish, PrdetSleeps
  <1> QED
    BY <1>1, <1>2, TypeCorrect, StampsPast, NextListInv, PTL
    DEF Spec, PublishedIsRecent

-----------------------------------------------------------------------------
(* The completeness of the list, in a pass that no insertion races           *)

(* What the host does to the map during a pass makes no device fresh: it     *)
(* stamps with a clock that has not fallen behind ts by more than Lag.       *)
LEMMA HostKeepsFresh ==
  ASSUME TypeOK, StampInv, PassInv, Host, pc # "delay", ts >= Timeout,
         NEW a \in DOMAIN devices', WasFresh(a)'
  PROVE  a \in DOMAIN devices /\ WasFresh(a)
  <1>1. /\ clock \in Nat /\ ts \in Nat /\ Lag \in Nat \ {0} /\ Timeout \in Int
        /\ host.stamp \in Nat /\ ts <= clock /\ ts' = ts
        /\ \A b \in DOMAIN devices : devices[b] \in Nat
    BY PresenceAssumption, TimesInWord
    DEF TypeOK, StampInv, Timeout, HostIdle, Host, ReceiveBeacon, Refresh,
        IgnoreNameless, Link, Fill, prdetVars
  <1>2. CASE (\E b \in Addr : ReceiveBeacon(b)) \/ IgnoreNameless
    BY <1>2 DEF ReceiveBeacon, IgnoreNameless, WasFresh, prdetVars
  <1>3. CASE Refresh
    BY <1>1, <1>3 DEF Refresh, WasFresh, prdetVars
  <1>4. CASE Link
    BY <1>1, <1>4 DEF Link, WasFresh, prdetVars
  <1>5. CASE Fill
    <2>1. clock <= host.stamp + Lag
      BY <1>5 DEF Fill, PassInv
    <2> QED
      BY <1>1, <1>5, <2>1 DEF Fill, WasFresh, prdetVars
  <1> QED
    BY <1>2, <1>3, <1>4, <1>5 DEF Host

LEMMA HostKeepsPassInv ==
  ASSUME TypeOK, StampInv, PassInv, Host
  PROVE  PassInv'
  <1>1. UNCHANGED <<clock, prdetVars>>
    BY DEF Host, ReceiveBeacon, Refresh, IgnoreNameless, Link, Fill
  <1>2. clock \in Nat /\ Lag \in Nat
    BY PresenceAssumption, TimesInWord DEF TypeOK
  <1>3. host'.at = "link" => clock' <= host'.stamp + Lag
    <2>1. CASE Link
      <3>1. host'.stamp = clock
        BY <2>1 DEF Link, TypeOK, HostIdle
      <3> QED
        BY <1>1, <1>2, <3>1
    <2>2. CASE ~Link
      BY <2>2 DEF Host, ReceiveBeacon, Refresh, IgnoreNameless, Fill, HostIdle
    <2> QED
      BY <2>1, <2>2
  <1>4. /\ pc' \notin {"rows", "finish"} => cursor' = 0
        /\ pc' = "count" => csv' = <<>>
        /\ pc' \in {"rows", "finish"} /\ ~raced' => (Increasing /\ ListedUpTo(cursor))'
    BY <1>1 DEF PassInv, Increasing, ListedUpTo, prdetVars
  <1>5. ASSUME pc \in {"rows", "finish"}, ~raced, ts >= Timeout,
               NEW a \in DOMAIN devices', WasFresh(a)', a <= cursor
        PROVE  a \in Listed(csv)
    BY <1>5, HostKeepsFresh DEF PassInv
  <1>6. ASSUME pc = "finish", ~raced, ts >= Timeout, ~BufferFull(csvIndex),
               NEW a \in DOMAIN devices', a > cursor
        PROVE  ~WasFresh(a)'
    BY <1>6, HostKeepsFresh DEF PassInv, After
  <1> QED
    BY <1>1, <1>3, <1>4, <1>5, <1>6 DEF PassInv, After, prdetVars, Listed

(* The step that visits the next address: nothing lies between the cursor    *)
(* and it.                                                                   *)
LEMMA VisitsNext ==
  ASSUME TypeOK, ~Rebalancing,
         NEW a \in DOMAIN devices, Rebalancing \/ a \in After(cursor), IsNext(a),
         NEW b \in DOMAIN devices, b <= a
  PROVE  a > cursor /\ (b <= cursor \/ b = a)
  <1>1. a \in Nat /\ b \in Nat /\ cursor \in Nat
    BY PresenceAssumption DEF TypeOK
  <1> QED
    BY <1>1 DEF Rebalancing, IsNext, After

LEMMA NextPassInv == TypeOK /\ StampInv /\ PassInv /\ [Next]_vars => PassInv'
  <1> SUFFICES ASSUME TypeOK, StampInv, PassInv, [Next]_vars PROVE PassInv'
    OBVIOUS
  <1>1. /\ clock \in Nat /\ ts \in Nat /\ Lag \in Nat /\ Timeout \in Int
        /\ cursor \in Nat /\ host.stamp \in Nat
        /\ \A b \in DOMAIN devices : devices[b] \in Nat /\ b \in Nat \ {0}
    BY PresenceAssumption, TimesInWord DEF TypeOK, Timeout, HostIdle
  <1> USE DEF prdetVars, ntwVars
  <1>2. CASE Host
    BY <1>2, HostKeepsPassInv
  <1>3. CASE Wake \/ WatchdogFires \/ Disabled \/ PublishNoDevice
    BY <1>3 DEF Wake, WatchdogFires, Disabled, PublishNoDevice, PassInv
  <1>4. CASE ClearBuffer
    BY <1>4 DEF ClearBuffer, PassInv
  <1>5. CASE BeginRows
    <2>1. csv' = <<>> /\ cursor' = 0 /\ pc' = "rows"
      BY <1>5 DEF BeginRows, PassInv
    <2>2. Increasing' /\ ListedUpTo(cursor)'
      BY <2>1 DEF Increasing, ListedUpTo
    <2>3. \A a \in DOMAIN devices' : ~(a <= cursor')
      BY <1>1, <1>5, <2>1 DEF BeginRows
    <2> QED
      BY <1>5, <2>1, <2>2, <2>3 DEF BeginRows, PassInv
  <1>14. ASSUME pc = "rows", pc' \in {"rows", "finish"}, raced' = TRUE, UNCHANGED <<clock, host>>
         PROVE  PassInv'
    BY <1>14 DEF PassInv
  <1>6. ASSUME NEW a \in DOMAIN devices, NEW len \in RowLens, AppendRow(a, len)
        PROVE  PassInv'
    <2>1. /\ pc = "rows" /\ pc' \in {"rows", "finish"} /\ cursor' = a
          /\ csv' = Append(csv, a)
          /\ pc' = "finish" => BufferFull(csvIndex')
          /\ raced' = (raced \/ Rebalancing)
          /\ UNCHANGED <<clock, ts, host, devices>>
      BY <1>6 DEF AppendRow, AfterEntry, GoesOn
    <2> SUFFICES ASSUME ~raced, ~Rebalancing PROVE PassInv'
      BY <1>14, <2>1
    <2>2. csv \in Seq(Addr \cup {0})
      BY DEF TypeOK, Rows
    <2>3. a > cursor /\ a \in Nat
      BY <1>1, <1>6, VisitsNext DEF AppendRow
    <2>4. Increasing /\ ListedUpTo(cursor)
      BY <2>1 DEF PassInv
    <2>5. \A i \in DOMAIN csv' : csv'[i] \in 1 .. a /\ (i \in DOMAIN csv \/ i = Len(csv) + 1)
      BY <1>1, <2>1, <2>2, <2>3, <2>4 DEF ListedUpTo
    <2>6. \A i, j \in DOMAIN csv' : i < j => csv'[i] < csv'[j]
      BY <1>1, <2>1, <2>2, <2>3, <2>4 DEF Increasing, ListedUpTo
    <2>7. Listed(csv') = Listed(csv) \cup {a}
      BY <1>1, <2>1, <2>2 DEF Listed
    <2>8. ASSUME ts' >= Timeout, NEW b \in DOMAIN devices', WasFresh(b)', b <= cursor'
          PROVE  b \in Listed(csv')
      <3>1. b \in DOMAIN devices /\ WasFresh(b)
        BY <2>1, <2>8 DEF WasFresh
      <3>2. b <= cursor \/ b = a
        BY <1>6, <2>1, <2>8, <3>1, VisitsNext DEF AppendRow
      <3> QED
        BY <2>1, <2>7, <2>8, <3>1, <3>2 DEF PassInv
    <2> QED
      BY <2>1, <2>5, <2>6, <2>8 DEF PassInv, Increasing, ListedUpTo
  <1>7. ASSUME NEW a \in DOMAIN devices, SkipRow(a) PROVE PassInv'
    <2>1. /\ pc = "rows" /\ pc' \in {"rows", "finish"} /\ cursor' = a
          /\ pc' = "finish" => BufferFull(csvIndex')
          /\ raced' = (raced \/ Rebalancing)
          /\ UNCHANGED <<clock, ts, host, devices, csv>>
      BY <1>7 DEF SkipRow, AfterEntry, GoesOn
    <2> SUFFICES ASSUME ~raced, ~Rebalancing PROVE PassInv'
      BY <1>14, <2>1
    <2>2. a > cursor /\ a \in Nat
      BY <1>1, <1>7, VisitsNext DEF SkipRow
    <2>3. Increasing' /\ ListedUpTo(cursor)'
      BY <1>1, <2>1, <2>2 DEF PassInv, Increasing, ListedUpTo
    <2>4. ts >= Timeout => ~WasFresh(a)
      BY <1>1, <1>7, <2>1, WordAssumption DEF SkipRow, Fresh, USub, WasFresh, StampInv
    <2>5. ASSUME ts' >= Timeout, NEW b \in DOMAIN devices', WasFresh(b)', b <= cursor'
          PROVE  b \in Listed(csv')
      <3>1. b \in DOMAIN devices /\ WasFresh(b)
        BY <2>1, <2>5 DEF WasFresh
      <3>2. b <= cursor \/ b = a
        BY <1>7, <2>1, <2>5, <3>1, VisitsNext DEF SkipRow
      <3> QED
        BY <2>1, <2>4, <2>5, <3>1, <3>2 DEF PassInv
    <2> QED
      BY <2>1, <2>3, <2>5 DEF PassInv
  <1>8. CASE EndRows
    <2>0. pc = "rows" /\ pc' = "finish" /\ raced' = (raced \/ Rebalancing) /\ UNCHANGED <<clock, host>>
      BY <1>8 DEF EndRows, GoesOn
    <2> SUFFICES ASSUME ~raced, ~Rebalancing PROVE PassInv'
      BY <1>14, <2>0
    <2>1. After(cursor) = {}
      BY <1>8 DEF EndRows
    <2>2. After(cursor)' = {}
      BY <1>8, <2>1 DEF EndRows, After
    <2> QED
      BY <1>8, <2>2 DEF EndRows, PassInv, Increasing, ListedUpTo, WasFresh
  <1>9. CASE HandOver
    BY <1>9 DEF HandOver, PassInv
  <1>10. CASE Ntw
    BY <1>10 DEF Ntw, TakeList, Publish, PublishFails, ForgetList, PassInv,
                 Increasing, ListedUpTo, WasFresh, After
  <1>11. CASE Tick
    BY <1>1, <1>11 DEF Tick, HostOnTime, PassInv, Increasing, ListedUpTo,
                       WasFresh, After
  <1>12. CASE Boot
    BY <1>12 DEF Boot, HostIdle, PassInv
  <1>13. CASE UNCHANGED vars
    BY <1>13 DEF vars, PassInv, Increasing, ListedUpTo, WasFresh, After
  <1> QED
    BY <1>2, <1>3, <1>4, <1>5, <1>6, <1>7, <1>8, <1>9, <1>10, <1>11, <1>12, <1>13
    DEF Next, Prdet, Restart, WatchdogRestart, Panic, OtherRestart

(* A pass lists every device that was fresh before it, once and in the order *)
(* of the addresses, unless the buffer was full before or the loop went on   *)
(* while a device was being inserted; whatever other advertisements and      *)
(* insertions come in between its steps.                                     *)
THEOREM ListIsComplete == Spec => []ListComplete
  <1>1. Init => PassInv
    BY DEF Init, PassInv, HostIdle
  <1>2. TypeOK /\ PassInv => ListComplete
    <2> SUFFICES ASSUME TypeOK, PassInv, pc = "finish", ts >= Timeout, ~raced
                 PROVE  /\ Increasing
                        /\ \A a \in DOMAIN devices : WasFresh(a) =>
                             \/ a \in Listed(csv)
                             \/ BufferFull(csvIndex) /\ \A b \in Listed(csv) : b < a
      BY DEF ListComplete, Increasing
    <2>1. Increasing /\ ListedUpTo(cursor)
      BY DEF PassInv
    <2>2. ASSUME NEW a \in DOMAIN devices, WasFresh(a), a \notin Listed(csv)
          PROVE  BufferFull(csvIndex) /\ \A b \in Listed(csv) : b < a
      <3>1. a \in Nat /\ cursor \in Nat
        BY PresenceAssumption DEF TypeOK
      <3>2. a > cursor
        BY <2>2, <3>1 DEF PassInv
      <3>3. BufferFull(csvIndex)
        BY <2>2, <3>2 DEF PassInv, After
      <3>4. \A b \in Listed(csv) : b \in 1 .. cursor
        BY <2>1 DEF Listed, ListedUpTo
      <3> QED
        BY <3>1, <3>2, <3>3, <3>4
    <2> QED
      BY <2>1, <2>2
  <1> QED
    BY <1>1, <1>2, TypeCorrect, StampsPast, NextPassInv, PTL DEF Spec
=============================================================================
