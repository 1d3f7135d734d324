---------------------------- MODULE ScannerProofs ----------------------------
(***************************************************************************)
(* Theorems about Scanner, for any set of devices.  StartInv says what the *)
(* host may do while start() is under way, ScanInv what the results of a   *)
(* scan have to do with what was heard and told in it; together they imply *)
(* the three invariants.                                                   *)
(***************************************************************************)
EXTENDS Scanner, TLAPS

Entries == [scannable : BOOLEAN, sent : BOOLEAN]

LEMMA NoReportIsNone == NoReport \notin Reports
  BY DEF NoReport, Reports, ReportTypes

LEMMA NoResultsType ==
  DOMAIN NoResults = {} /\ NoResults \in [DOMAIN NoResults -> Entries]
  BY DEF NoResults, Entries

LEMMA InitTypeOK == Init => TypeOK
  BY NoReportIsNone, NoResultsType DEF Init, TypeOK, Entries

\* What is kept of a device has its type.
LEMMA ReceivedType ==
  ASSUME TypeOK, host = "store"
  PROVE  report.addr \in Device /\ Received(report.addr) \in Entries
  <1> DEFINE d == report.addr
             device == IF d \in DOMAIN results THEN results[d]
                       ELSE [scannable |-> report.type = "scannable", sent |-> FALSE]
  <1>1. report \in Reports
    BY DEF TypeOK
  <1>2. device \in Entries
    BY DEF TypeOK, Entries
  <1>3. Received(d) = [device EXCEPT !.sent =
                         @ \/ ~device.scannable \/ report.type = "response"]
    BY DEF Received
  <1> HIDE DEF device
  <1>4. Received(d) \in Entries
    BY <1>2, <1>3 DEF Entries
  <1> QED
    BY <1>1, <1>4 DEF Reports

LEMMA StoreTypeOK ==
  ASSUME TypeOK, StoreReport
  PROVE  /\ DOMAIN results' \subseteq Device
         /\ results' \in [DOMAIN results' -> Entries]
         /\ heard' \subseteq Device /\ told' \subseteq Device
  <1> DEFINE d == report.addr
  <1>0. d \in Device /\ Received(d) \in Entries
    BY ReceivedType DEF StoreReport
  <1>1. CASE d \in DOMAIN results \/ report.type # "response"
    <2>1. /\ results' = [e \in DOMAIN results \cup {d} |->
                           IF e = d THEN Received(d) ELSE results[e]]
          /\ heard' = heard \cup {d} /\ told' \in {told, told \cup {d}}
      BY <1>1 DEF StoreReport
    <2>2. \A e \in DOMAIN results : results[e] \in Entries
      BY DEF TypeOK, Entries
    <2> HIDE DEF d
    <2> QED
      BY <2>1, <2>2, <1>0 DEF TypeOK
  <1>2. CASE ~(d \in DOMAIN results \/ report.type # "response")
    BY <1>2 DEF StoreReport, TypeOK, Entries
  <1> QED
    BY <1>1, <1>2

LEMMA NextTypeOK == TypeOK /\ [Next]_vars => TypeOK'
  <1> SUFFICES ASSUME TypeOK, [Next]_vars PROVE TypeOK'
    OBVIOUS
  <1> USE DEF TypeOK, hostVars, gapVars, syncVars, dataVars, ghosts
  <1>1. CASE Start
    BY <1>1 DEF Start, InReset
  <1>2. ASSUME NEW ok \in BOOLEAN, DiscParams(ok) PROVE TypeOK'
    BY <1>2 DEF DiscParams, CommandFails
  <1>3. ASSUME NEW ok \in BOOLEAN, DiscEnable(ok) PROVE TypeOK'
    BY <1>3 DEF DiscEnable, CommandFails
  <1>4. CASE ClearResults
    BY <1>4, NoResultsType DEF ClearResults, Entries
  <1>5. CASE StartReturns
    BY <1>5 DEF StartReturns
  <1>6. CASE ReceiveReport
    BY <1>6, NoReportIsNone DEF ReceiveReport
  <1>7. CASE CallHandler
    BY <1>7 DEF CallHandler
  <1>8. CASE StoreReport
    <2>1. /\ DOMAIN results' \subseteq Device
          /\ results' \in [DOMAIN results' -> Entries]
          /\ heard' \subseteq Device /\ told' \subseteq Device
      BY <1>8, StoreTypeOK
    <2>2. /\ host' = "idle" /\ report' = NoReport
          /\ UNCHANGED <<scan, todo, resetting, gapVars, syncVars, ignore, overlap>>
      BY <1>8 DEF StoreReport
    <2> QED
      BY <2>1, <2>2 DEF Entries
  <1>9. ASSUME NEW ok \in BOOLEAN, ScanTimer(ok) PROVE TypeOK'
    BY <1>9 DEF ScanTimer, CommandFails
  <1>10. CASE ScanComplete
    BY <1>10 DEF ScanComplete
  <1>11. CASE VisitResult
    BY <1>11 DEF VisitResult
  <1>12. CASE LoopDone
    BY <1>12 DEF LoopDone
  <1>13. CASE HardwareError
    BY <1>13 DEF HardwareError
  <1>14. CASE ResetHost \/ ResetState
    BY <1>14 DEF ResetHost, ResetState
  <1>15. CASE OnReset \/ OnSync
    BY <1>15 DEF OnReset, OnSync
  <1>16. ASSUME NEW ok \in BOOLEAN, Sync(ok) PROVE TypeOK'
    BY <1>16 DEF Sync
  <1>17. CASE Panic
    BY <1>17, NoResultsType, NoReportIsNone DEF Panic, Entries
  <1>18. CASE UNCHANGED vars
    BY <1>18 DEF vars
  <1> QED
    BY <1>1, <1>2, <1>3, <1>4, <1>5, <1>6, <1>7, <1>8, <1>9, <1>10, <1>11, <1>12,
       <1>13, <1>14, <1>15, <1>16, <1>17, <1>18
    DEF Next, ScanTask, HostTask

\* Every variable keeps its type, whatever fails and wherever the host is reset.
THEOREM ScannerTypeCorrect == Spec => []TypeOK
  BY InitTypeOK, NextTypeOK, PTL DEF Spec

-----------------------------------------------------------------------------
\* Only ScanTimer and ResetState take the host to "ended", the one when no start()
\* is under way, the other in a reset.
LEMMA NextStartInv == TypeOK /\ StartInv /\ [Next]_vars => StartInv'
  <1> SUFFICES ASSUME TypeOK, StartInv, [Next]_vars PROVE StartInv'
    OBVIOUS
  <1> USE DEF StartInv, hostVars, gapVars, syncVars, dataVars, ghosts
  <1>1. CASE Start
    BY <1>1 DEF Start, InReset, TypeOK
  <1>2. ASSUME NEW ok \in BOOLEAN, DiscParams(ok) PROVE StartInv'
    BY <1>2 DEF DiscParams
  <1>3. ASSUME NEW ok \in BOOLEAN, DiscEnable(ok) PROVE StartInv'
    BY <1>3 DEF DiscEnable
  <1>4. CASE ClearResults \/ StartReturns
    BY <1>4 DEF ClearResults, StartReturns
  <1>5. CASE ReceiveReport \/ CallHandler \/ StoreReport
    BY <1>5 DEF ReceiveReport, CallHandler, StoreReport
  <1>6. ASSUME NEW ok \in BOOLEAN, ScanTimer(ok) PROVE StartInv'
    BY <1>6 DEF ScanTimer
  <1>7. CASE ScanComplete
    BY <1>7 DEF ScanComplete
  <1>8. CASE VisitResult \/ LoopDone
    BY <1>8 DEF VisitResult, LoopDone
  <1>9. CASE HardwareError \/ ResetHost
    <2>1. CASE HardwareError
      BY <2>1 DEF HardwareError
    <2>2. CASE ResetHost
      <3>1. /\ host' = "resetting" /\ UNCHANGED <<scan, op>>
            /\ ~overlap' => ~overlap /\ scan = "idle"
        BY <2>2, Zenon DEF ResetHost
      <3> QED
        BY <3>1
    <2> QED
      BY <1>9, <2>1, <2>2
  <1>10. CASE ResetState
    BY <1>10 DEF ResetState
  <1>11. CASE OnReset \/ OnSync
    BY <1>11 DEF OnReset, OnSync
  <1>12. ASSUME NEW ok \in BOOLEAN, Sync(ok) PROVE StartInv'
    BY <1>12 DEF Sync
  <1>13. CASE Panic
    BY <1>13 DEF Panic
  <1>14. CASE UNCHANGED vars
    BY <1>14 DEF vars
  <1> QED
    BY <1>1, <1>2, <1>3, <1>4, <1>5, <1>6, <1>7, <1>8, <1>9, <1>10, <1>11, <1>12,
       <1>13, <1>14
    DEF Next, ScanTask, HostTask

LEMMA StartInvHolds == Spec => []StartInv
  <1>1. Init => StartInv
    BY DEF Init, StartInv
  <1> QED
    BY <1>1, ScannerTypeCorrect, NextStartInv, PTL DEF Spec

\* While start() deletes the results no report is stored, unless a reset of the
\* host met this start() and took its flag back.
THEOREM ResultsAreNotStoredWhileDeleted == Spec => []StoresUnharmed
  <1>1. StartInv => StoresUnharmed
    BY DEF StartInv, StoresUnharmed
  <1> QED
    BY <1>1, StartInvHolds, PTL

-----------------------------------------------------------------------------
\* A stored report keeps what the results say of what was told.
LEMMA StoreScanInv ==
  ASSUME TypeOK, StartInv, ScanInv, StoreReport
  PROVE  ScanInv'
  <1> SUFFICES ASSUME ~overlap PROVE ScanInv'
    BY DEF StoreReport, ScanInv
  <1> DEFINE d == report.addr
             now == ~Received(d).scannable \/ report.type = "response"
  <1>1. scan = "idle" /\ told \subseteq heard
    BY DEF StartInv, ScanInv, StoreReport
  <1>2. host' = "idle" /\ UNCHANGED <<scan, op, overlap>>
    BY DEF StoreReport, gapVars
  <1>3. CASE ~(d \in DOMAIN results \/ report.type # "response")
    BY <1>3, <1>2 DEF StoreReport, ScanInv
  <1>4. CASE d \in DOMAIN results \/ report.type # "response"
    <2>1. /\ results' = [e \in DOMAIN results \cup {d} |->
                           IF e = d THEN Received(d) ELSE results[e]]
          /\ heard' = heard \cup {d}
          /\ told' = IF now THEN told \cup {d} ELSE told
      BY <1>4 DEF StoreReport
    <2>2. ASSUME op = "disc" PROVE Received(d).sent => d \in told'
      <3> DEFINE device == IF d \in DOMAIN results THEN results[d]
                           ELSE [scannable |-> report.type = "scannable", sent |-> FALSE]
      <3>1. Received(d) = [device EXCEPT !.sent =
                             @ \/ ~device.scannable \/ report.type = "response"]
        BY DEF Received
      <3>2. device \in Entries
        BY DEF TypeOK, Entries
      <3>3. device.sent => d \in told
        BY <1>1, <2>2 DEF ScanInv
      <3> HIDE DEF device
      <3>4. /\ Received(d).scannable = device.scannable
            /\ Received(d).sent =
                 (device.sent \/ ~device.scannable \/ report.type = "response")
        BY <3>1, <3>2 DEF Entries
      <3> QED
        BY <3>3, <3>4, <2>1
    <2> HIDE DEF d, now
    <2> QED
      BY <1>1, <1>2, <2>1, <2>2 DEF ScanInv
  <1> QED
    BY <1>3, <1>4

\* The results change by StoreReport and ClearResults only, and begin to matter
\* when the one has deleted those of the scan before.
LEMMA NextScanInv == TypeOK /\ StartInv /\ ScanInv /\ [Next]_vars => ScanInv'
  <1> SUFFICES ASSUME TypeOK, StartInv, ScanInv, [Next]_vars PROVE ScanInv'
    OBVIOUS
  <1> USE DEF StartInv, ScanInv, hostVars, gapVars, syncVars, dataVars, ghosts
  <1>1. CASE Start
    BY <1>1 DEF Start
  <1>2. ASSUME NEW ok \in BOOLEAN, DiscParams(ok) PROVE ScanInv'
    BY <1>2 DEF DiscParams
  <1>3. ASSUME NEW ok \in BOOLEAN, DiscEnable(ok) PROVE ScanInv'
    BY <1>3 DEF DiscEnable
  <1>4. CASE ClearResults
    BY <1>4, NoResultsType DEF ClearResults
  <1>5. CASE StartReturns
    BY <1>5 DEF StartReturns
  <1>6. CASE ReceiveReport \/ CallHandler
    BY <1>6 DEF ReceiveReport, CallHandler
  <1>7. CASE StoreReport
    BY <1>7, StoreScanInv
  <1>8. ASSUME NEW ok \in BOOLEAN, ScanTimer(ok) PROVE ScanInv'
    BY <1>8 DEF ScanTimer
  <1>9. CASE ScanComplete
    BY <1>9 DEF ScanComplete
  <1>10. CASE VisitResult
    <2> SUFFICES ASSUME ~overlap PROVE ScanInv'
      BY <1>10 DEF VisitResult
    <2>1. ~LoopSpoiled
      BY <1>10 DEF VisitResult, LoopSpoiled
    <2> QED
      BY <1>10, <2>1 DEF VisitResult
  <1>11. CASE LoopDone
    BY <1>11 DEF LoopDone
  <1>12. CASE HardwareError \/ ResetHost \/ ResetState
    BY <1>12 DEF HardwareError, ResetHost, ResetState
  <1>13. CASE OnReset \/ OnSync
    BY <1>13 DEF OnReset, OnSync
  <1>14. ASSUME NEW ok \in BOOLEAN, Sync(ok) PROVE ScanInv'
    BY <1>14 DEF Sync
  <1>15. CASE Panic
    BY <1>15, NoResultsType DEF Panic
  <1>16. CASE UNCHANGED vars
    BY <1>16 DEF vars
  <1> QED
    BY <1>1, <1>2, <1>3, <1>4, <1>5, <1>6, <1>7, <1>8, <1>9, <1>10, <1>11, <1>12,
       <1>13, <1>14, <1>15, <1>16
    DEF Next, ScanTask, HostTask

LEMMA ScanInvHolds == Spec => []ScanInv
  <1>1. Init => ScanInv
    BY NoResultsType DEF Init, ScanInv
  <1> QED
    BY <1>1, ScannerTypeCorrect, StartInvHolds, NextScanInv, PTL DEF Spec

\* When the loop at the end of a scan is done, every device stored in the scan
\* has been reported to the subscribers.
THEOREM EveryDeviceHeardIsReported == Spec => []HeardIsReported
  <1>1. ScanInv => HeardIsReported
    BY DEF ScanInv, HeardIsReported
  <1> QED
    BY <1>1, ScanInvHolds, PTL

\* No device is reported in a scan that was not heard in it.
THEOREM NoOtherDeviceIsReported == Spec => []OnlyHeardIsReported
  <1>1. ScanInv => OnlyHeardIsReported
    BY DEF ScanInv, OnlyHeardIsReported
  <1> QED
    BY <1>1, ScanInvHolds, PTL
=============================================================================
