--------------------------- MODULE PresenceDetection ---------------------------
(***************************************************************************)
(* PresenceDetection.cpp and the part of Network::update that publishes the  *)
(* list it builds.  Three tasks of the firmware meet here:                   *)
(*                                                                           *)
(*   host   the NimBLE host task, on the other core: onResult, once for      *)
(*          every advertisement received;                                    *)
(*   prdet  the presence detection task, priority 5: update, every 2 s;      *)
(*   ntw    the network task, priority 3, on the core of prdet: it reads     *)
(*          the buffer that prdet hands over by pointer, with no lock.       *)
(*                                                                           *)
(* host interleaves with everything.  ntw runs only while prdet sleeps, but  *)
(* prdet may wake at any point of ntw's reading.                             *)
(***************************************************************************)
EXTENDS Millis, Sequences, FiniteSets

CONSTANTS
  Addr,            \* the 48 bit addresses, keys of the map _devices
  BeaconPref,      \* the stored preference for the beacon watchdog
  TimeoutPref,     \* the stored preference for the presence timeout
  MinBeacon, DefaultBeacon,   \* 20 and 60 in initialize
  DefaultTimeout,  \* 60 in the constructor
  BootGrace,       \* 60000: the watchdog is off this long after boot
  Period,          \* 2000: the delay at the head of update
  Lag,             \* how late prdet may wake, how long a pass may take, and
                   \* how long host may take from the stamp to the map
  NtwLag,          \* how long ntw may leave a list it could publish
  PublishMayFail,  \* whether the MQTT client may refuse a publish
  MaxClock,        \* the device is restarted before millis() passes this
  BufSize,         \* presence_detection_buffer_size
  Margin,          \* sizeof(name) + sizeof(address) + 10
  RowLens          \* the lengths a row of the list can have

ASSUME PresenceAssumption ==
  /\ Addr \subseteq Nat \ {0}
  /\ BeaconPref \in Int /\ TimeoutPref \in Int
  /\ {MinBeacon, DefaultBeacon, DefaultTimeout, BootGrace, Period, Lag}
       \subseteq Nat \ {0}
  /\ MinBeacon <= DefaultBeacon
  /\ NtwLag \in Nat
  /\ PublishMayFail \in BOOLEAN
  /\ MaxClock \in Nat \ {0} /\ MaxClock < Word
  /\ BeaconPref < Word /\ DefaultBeacon < Word
  /\ TimeoutPref + Lag < Word /\ DefaultTimeout + Lag < Word

(* A row is at most 17+1+29+1+4+1 = 53 bytes, the margin is 30+18+10 = 58.   *)
ASSUME BufferAssumption ==
  /\ BufSize \in Nat /\ Margin \in Nat /\ Margin < BufSize
  /\ RowLens \subseteq 1 .. (Margin - 1)

(* the effective settings, as initialize and the constructor correct them    *)
RestartBeaconTimeout ==
  IF BeaconPref < MinBeacon THEN DefaultBeacon ELSE BeaconPref
Timeout == IF TimeoutPref = 0 THEN DefaultTimeout ELSE TimeoutPref

VARIABLES
  clock,         \* millis()
  devices,       \* _devices: address -> timestamp of the last advertisement
  lastBeaconTs,  \* _lastBeaconTs, an int
  host,          \* where the host task is in onResult
  pc,            \* where prdet is in update
  ts,            \* the local ts of update
  wakeAt,        \* when the delay of prdet ends
  cursor,        \* the address the loop visited last, 0 before the first
  csvIndex,      \* _csvIndex
  csv,           \* the rows in the buffer _csv
  raced,         \* history: the loop went on while an insertion was under way
  handed,        \* _presenceCsv # nullptr
  ntwPc,         \* where ntw is in the publishing of the list
  taken,         \* the rows in the buffer when ntw measured its length
  broker         \* the last payload the broker received (retained)

prdetVars == <<pc, ts, wakeAt, cursor, csvIndex, csv, raced>>
ntwVars == <<ntwPc, taken, broker>>
vars == <<clock, devices, lastBeaconTs, host, prdetVars, handed, ntwVars>>

(* the list ";;" that stands for "no device": no address is 0                *)
NoDevice == <<0>>
(* a payload of which prdet rewrote a part while ntw was copying it          *)
Torn == <<>>

HostIdle == [at |-> "idle", addr |-> 0, stamp |-> 0]

Init ==
  /\ clock = 1
  /\ devices = [a \in {} |-> 0]
  /\ lastBeaconTs = 1
  /\ host = HostIdle
  /\ pc = "delay" /\ ts = 0 /\ wakeAt = 1 + Period
  /\ cursor = 0 /\ csvIndex = 0 /\ csv = <<>> /\ raced = FALSE
  /\ handed = FALSE
  /\ ntwPc = "idle" /\ taken = <<>> /\ broker = NoDevice

-----------------------------------------------------------------------------
(* host: onResult                                                            *)

(* The watchdog is fed first, for every advertisement, named or not.         *)
ReceiveBeacon(a) ==
  /\ host.at = "idle"
  /\ lastBeaconTs' = ToInt(clock)
  /\ host' = [at |-> "find", addr |-> a, stamp |-> 0]
  /\ UNCHANGED <<clock, devices, prdetVars, handed, ntwVars>>

Refresh ==
  /\ host.at = "find" /\ host.addr \in DOMAIN devices
  /\ devices' = [devices EXCEPT ![host.addr] = clock]
  /\ host' = HostIdle
  /\ UNCHANGED <<clock, lastBeaconTs, prdetVars, handed, ntwVars>>

(* Whether the advertisement carries a name is open: a device is added to    *)
(* the map only by one that does.                                            *)
IgnoreNameless ==
  /\ host.at = "find" /\ host.addr \notin DOMAIN devices
  /\ host' = HostIdle
  /\ UNCHANGED <<clock, devices, lastBeaconTs, prdetVars, handed, ntwVars>>

(* operator[] links a value-initialised entry and rebalances the tree ...    *)
Link ==
  /\ host.at = "find" /\ host.addr \notin DOMAIN devices
  /\ devices' = [a \in DOMAIN devices \cup {host.addr} |->
                   IF a = host.addr THEN 0 ELSE devices[a]]
  /\ host' = [host EXCEPT !.at = "link", !.stamp = clock]
  /\ UNCHANGED <<clock, lastBeaconTs, prdetVars, handed, ntwVars>>

(* ... and the assignment then fills it with the stamp taken before.         *)
Fill ==
  /\ host.at = "link"
  /\ devices' = [devices EXCEPT ![host.addr] = host.stamp]
  /\ host' = HostIdle
  /\ UNCHANGED <<clock, lastBeaconTs, prdetVars, handed, ntwVars>>

-----------------------------------------------------------------------------
(* prdet: update                                                             *)

Wake ==
  /\ pc = "delay" /\ clock >= wakeAt
  /\ pc' = "watchdog" /\ ts' = clock
  /\ UNCHANGED <<clock, devices, lastBeaconTs, host, wakeAt, cursor, csvIndex,
                 csv, raced, handed, ntwVars>>

(* ts was read before lastBeaconTs: ts - lastBeaconTs may be negative, and   *)
(* the subtraction is unsigned.                                              *)
BeaconLostOnceHeard ==   \* fault: the stamp a boot begins with does not count
  /\ ts > BootGrace
  /\ lastBeaconTs > 1
  /\ USub(ts, ToUnsigned(lastBeaconTs)) > RestartBeaconTimeout
BeaconLost ==
  /\ ts > BootGrace
  /\ lastBeaconTs > 0
  /\ USub(ts, ToUnsigned(lastBeaconTs)) > RestartBeaconTimeout

WatchdogFires ==
  /\ pc = "watchdog" /\ BeaconLost
  /\ pc' = "restarting"
  /\ UNCHANGED <<clock, devices, lastBeaconTs, host, ts, wakeAt, cursor,
                 csvIndex, csv, raced, handed, ntwVars>>

Disabled ==
  /\ pc = "watchdog" /\ ~BeaconLost /\ Timeout < 0
  /\ pc' = "delay" /\ wakeAt' = clock + Period
  /\ UNCHANGED <<clock, devices, lastBeaconTs, host, ts, cursor, csvIndex,
                 csv, raced, handed, ntwVars>>

ClearBufferSkipped ==    \* fault: no memset
  /\ pc = "watchdog" /\ ~BeaconLost /\ Timeout >= 0
  /\ pc' = "count" /\ csv' = csv
  /\ UNCHANGED <<clock, devices, lastBeaconTs, host, ts, wakeAt, cursor,
                 csvIndex, raced, handed, ntwVars>>
ClearBuffer ==
  /\ pc = "watchdog" /\ ~BeaconLost /\ Timeout >= 0
  /\ pc' = "count" /\ csv' = <<>>
  /\ UNCHANGED <<clock, devices, lastBeaconTs, host, ts, wakeAt, cursor,
                 csvIndex, raced, handed, ntwVars>>

PublishNoDevice ==
  /\ pc = "count" /\ DOMAIN devices = {}
  /\ csv' = NoDevice /\ handed' = TRUE
  /\ pc' = "delay" /\ wakeAt' = clock + Period
  /\ UNCHANGED <<clock, devices, lastBeaconTs, host, ts, cursor, csvIndex,
                 raced, ntwVars>>

BeginRows ==
  /\ pc = "count" /\ DOMAIN devices # {}
  /\ pc' = "rows" /\ csvIndex' = 0 /\ raced' = FALSE
  /\ UNCHANGED <<clock, devices, lastBeaconTs, host, ts, wakeAt, cursor, csv,
                 handed, ntwVars>>

(* The map is iterated by increasing address.  While host rebalances it the  *)
(* iterator may land on any entry, one it has visited already included, or   *)
(* on the end, because the map has no lock.                                  *)
After(c) == {a \in DOMAIN devices : a > c}
Rebalancing == host.at = "link"
GoesOn == raced' = (raced \/ Rebalancing)
IsNext(a) == Rebalancing \/ \A b \in After(cursor) : a <= b

FreshThisPass(stamp) == ts < stamp    \* fault: the timeout is forgotten
Fresh(stamp) == USub(ts, Timeout) < stamp

(* the test after every entry: break out of the loop                         *)
BufferFullAtEnd(index) == index > BufSize    \* fault: no margin for a row
BufferFull(index) == index > BufSize - Margin
AfterEntry(index) == IF BufferFull(index) THEN "finish" ELSE "rows"

AppendRow(a, len) ==
  /\ pc = "rows"
  /\ Rebalancing \/ a \in After(cursor)
  /\ IsNext(a)
  /\ Fresh(devices[a])
  /\ csv' = Append(csv, a) /\ csvIndex' = csvIndex + len
  /\ cursor' = a /\ pc' = AfterEntry(csvIndex + len) /\ GoesOn
  /\ UNCHANGED <<clock, devices, lastBeaconTs, host, ts, wakeAt, handed,
                 ntwVars>>

SkipRow(a) ==
  /\ pc = "rows"
  /\ Rebalancing \/ a \in After(cursor)
  /\ IsNext(a)
  /\ ~Fresh(devices[a])
  /\ cursor' = a /\ pc' = AfterEntry(csvIndex) /\ GoesOn
  /\ UNCHANGED <<clock, devices, lastBeaconTs, host, ts, wakeAt, csvIndex, csv,
                 handed, ntwVars>>

EndRows ==
  /\ pc = "rows" /\ (Rebalancing \/ After(cursor) = {})
  /\ pc' = "finish" /\ GoesOn
  /\ UNCHANGED <<clock, devices, lastBeaconTs, host, ts, wakeAt, cursor,
                 csvIndex, csv, handed, ntwVars>>

(* _csv[_csvIndex-1] = 0 drops the last newline; the pointer is handed over. *)
HandOver ==
  /\ pc = "finish"
  /\ handed' = TRUE
  /\ pc' = "delay" /\ wakeAt' = clock + Period /\ cursor' = 0
  /\ UNCHANGED <<clock, devices, lastBeaconTs, host, ts, csvIndex, csv,
                 raced, ntwVars>>

-----------------------------------------------------------------------------
(* ntw: the publishing of the list in Network::update                        *)

PrdetSleeps == pc \in {"delay", "restarting"}
Publishable == handed /\ csv # <<>>    \* strlen(_presenceCsv) > 0

TakeList ==
  /\ ntwPc = "idle" /\ PrdetSleeps /\ Publishable
  /\ ntwPc' = "copy" /\ taken' = csv
  /\ UNCHANGED <<clock, devices, lastBeaconTs, host, prdetVars, handed, broker>>

(* The client copies as many bytes as it measured, from the buffer as it is  *)
(* now: the payload is whole only when prdet has not rewritten it.           *)
Publish ==
  /\ ntwPc = "copy" /\ PrdetSleeps
  /\ broker' = IF taken = csv THEN csv ELSE Torn
  /\ ntwPc' = "clear"
  /\ UNCHANGED <<clock, devices, lastBeaconTs, host, prdetVars, handed, taken>>

PublishFails ==
  /\ PublishMayFail
  /\ ntwPc = "copy" /\ PrdetSleeps
  /\ ntwPc' = "clear"
  /\ UNCHANGED <<clock, devices, lastBeaconTs, host, prdetVars, handed, taken,
                 broker>>

ForgetList ==
  /\ ntwPc = "clear" /\ PrdetSleeps
  /\ handed' = FALSE /\ ntwPc' = "idle" /\ taken' = <<>>
  /\ UNCHANGED <<clock, devices, lastBeaconTs, host, prdetVars, broker>>

-----------------------------------------------------------------------------
(* Time and restarts                                                         *)

PrdetOnTime == clock < Lag + (IF pc = "delay" THEN wakeAt ELSE ts)
HostOnTime == host.at = "link" => clock < host.stamp + Lag
NtwOnTime == (Publishable \/ ntwPc # "idle") => clock < ts + Lag + NtwLag

Tick ==
  /\ clock < MaxClock
  /\ PrdetOnTime /\ HostOnTime /\ NtwOnTime
  /\ clock' = clock + 1
  /\ UNCHANGED <<devices, lastBeaconTs, host, prdetVars, handed, ntwVars>>

(* Everything but what the broker retained is lost.                          *)
Boot ==
  /\ clock' = 1 /\ devices' = [a \in {} |-> 0]
  /\ lastBeaconTs' = 1 /\ host' = HostIdle
  /\ pc' = "delay" /\ ts' = 0 /\ wakeAt' = 1 + Period
  /\ cursor' = 0 /\ csvIndex' = 0 /\ csv' = <<>> /\ raced' = FALSE
  /\ handed' = FALSE
  /\ ntwPc' = "idle" /\ taken' = <<>> /\ UNCHANGED broker

WatchdogRestart == pc = "restarting" /\ Boot

(* The iterator follows a pointer that host is rewriting: a panic.           *)
Panic == pc = "rows" /\ Rebalancing /\ Boot

(* checkMillisTask, the watchdogs of Network, an update, the web interface   *)
OtherRestart == Boot

Host == \/ \E a \in Addr : ReceiveBeacon(a)
        \/ Refresh \/ IgnoreNameless \/ Link \/ Fill
Prdet == \/ Wake \/ WatchdogFires \/ Disabled \/ ClearBuffer
         \/ PublishNoDevice \/ BeginRows
         \/ \E a \in DOMAIN devices :
              (\E len \in RowLens : AppendRow(a, len)) \/ SkipRow(a)
         \/ EndRows \/ HandOver
Ntw == TakeList \/ Publish \/ PublishFails \/ ForgetList
Restart == WatchdogRestart \/ Panic \/ OtherRestart

Next == Host \/ Prdet \/ Ntw \/ Tick \/ Restart

Spec == Init /\ [][Next]_vars

-----------------------------------------------------------------------------
(* Properties                                                                *)

Times == 0 .. MaxClock
Pcs == {"delay", "watchdog", "count", "rows", "finish", "restarting"}
Rows == Seq(Addr \cup {0})

(* Every variable keeps its type; the stamps are millis() values of this     *)
(* boot, and _lastBeaconTs a 32 bit int.                                     *)
TypeOK ==
  /\ clock \in Times
  /\ DOMAIN devices \subseteq Addr
  /\ devices \in [DOMAIN devices -> Times]
  /\ lastBeaconTs \in -HalfWord .. HalfWord - 1
  /\ host \in {HostIdle} \cup [at : {"find", "link"}, addr : Addr, stamp : Times]
  /\ pc \in Pcs /\ ts \in Times /\ wakeAt \in Nat
  /\ cursor \in Addr \cup {0} /\ csvIndex \in Nat /\ csv \in Rows
  /\ handed \in BOOLEAN /\ raced \in BOOLEAN
  /\ ntwPc \in {"idle", "copy", "clear"} /\ taken \in Rows
  /\ broker \in Rows

(* The test after every row leaves room for the longest row and for the      *)
(* terminating NUL: no write of buildCsv goes past the end of _csv, in       *)
(* whatever order the racing iteration visits the map.                       *)
CsvInBounds == csvIndex < BufSize

(* When no advertisement has come for the configured time the device has     *)
(* restarted, at most one period and the latenesses of the task later, as    *)
(* long as an int can hold millis().                                         *)
WatchdogDeadline ==
  clock < HalfWord =>
    \/ clock <= BootGrace + Period + 3 * Lag
    \/ clock <= ToUnsigned(lastBeaconTs) + RestartBeaconTimeout + Period + 3 * Lag

(* While prdet sleeps, every device in the buffer was heard within the       *)
(* timeout, one period and the latenesses: what ntw publishes whole is       *)
(* never older, however late ntw is.                                         *)
Listed(rows) == {rows[i] : i \in DOMAIN rows} \ {0}
RecentlyHeard(a) ==
  a \in DOMAIN devices /\ clock < devices[a] + Timeout + Period + 3 * Lag
PublishedIsRecent ==
  [][Publish /\ taken = csv => \A a \in Listed(csv) : RecentlyHeard(a)]_vars

(* A device that was heard within the timeout before a pass, and whose       *)
(* advertisement had been handled when it began, is listed, and once, unless *)
(* the buffer was full before its address came, or the loop went on while a  *)
(* device was being inserted: what that made it miss or repeat, an earlier   *)
(* pass or a later one is free of.                                           *)
WasFresh(a) == devices[a] + Timeout > ts /\ devices[a] + Lag < ts
ListComplete ==
  pc = "finish" /\ ts >= Timeout /\ ~raced =>
    /\ \A i, j \in DOMAIN csv : i < j => csv[i] < csv[j]
    /\ \A a \in DOMAIN devices : WasFresh(a) =>
         \/ a \in Listed(csv)
         \/ BufferFull(csvIndex) /\ \A b \in Listed(csv) : b < a

(* A device that has been silent for the timeout leaves the list the broker  *)
(* has, as soon as the next pass and ntw have run.                           *)
StaleLeaves ==
  \A a \in Listed(broker) \cap DOMAIN devices :
    devices[a] > 0 =>
      clock <= devices[a] + Timeout + 2 * Period + 4 * Lag + NtwLag

-----------------------------------------------------------------------------
(* The inductive invariants that PresenceProofs builds on.                   *)

BufferInv == CsvInBounds /\ (pc = "rows" => csvIndex <= BufSize - Margin)

(* Stamps lie in the past, and prdet keeps its period.                       *)
StampInv ==
  /\ clock >= 1 /\ ts <= clock /\ host.stamp <= clock
  /\ \A a \in DOMAIN devices : devices[a] <= clock
  /\ host.at = "link" => host.addr \in DOMAIN devices /\ devices[host.addr] = 0
  /\ IF pc = "delay" THEN clock <= wakeAt + Lag ELSE clock <= ts + Lag
  /\ pc = "delay" => wakeAt <= ts + Period + Lag
  /\ pc \in {"count", "rows", "finish"} => Timeout >= 0

(* No pass but one that restarts has found the silence too long.             *)
SilenceWithin(d) ==
  \/ ts <= BootGrace + d
  \/ ts <= lastBeaconTs + RestartBeaconTimeout + d
WatchdogInv ==
  clock < HalfWord =>
    /\ lastBeaconTs \in 1 .. clock
    /\ IF pc \in {"watchdog", "restarting"}
         THEN SilenceWithin(Period + 2 * Lag) ELSE SilenceWithin(0)

(* The rows of the buffer were fresh in the last pass that wrote it.         *)
RowAge == IF pc \in {"watchdog", "restarting"} THEN Period + 2 * Lag ELSE 0
ListInv ==
  /\ csv # <<>> => Timeout >= 0
  /\ \A a \in Listed(csv) :
       a \in DOMAIN devices /\ ts < devices[a] + Timeout + RowAge

(* Up to the cursor every device that was fresh is listed, in the order of   *)
(* the addresses.  A device that comes to the map during a pass was not: the *)
(* host has not left its stamp behind by more than Lag.                      *)
Increasing == \A i, j \in DOMAIN csv : i < j => csv[i] < csv[j]
ListedUpTo(c) == \A i \in DOMAIN csv : csv[i] \in 1 .. c
PassInv ==
  /\ host.at = "link" => clock <= host.stamp + Lag
  /\ pc \notin {"rows", "finish"} => cursor = 0
  /\ pc = "count" => csv = <<>>
  /\ pc \in {"rows", "finish"} /\ ~raced => Increasing /\ ListedUpTo(cursor)
  /\ pc \in {"rows", "finish"} /\ ~raced /\ ts >= Timeout =>
       \A a \in DOMAIN devices : WasFresh(a) /\ a <= cursor => a \in Listed(csv)
  /\ pc = "finish" /\ ~raced /\ ts >= Timeout /\ ~BufferFull(csvIndex) =>
       \A a \in After(cursor) : ~WasFresh(a)
=============================================================================
