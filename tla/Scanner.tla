------------------------------- MODULE Scanner -------------------------------
(***************************************************************************)
(* The BLE scanner: the task scan, which starts a scan whenever none is    *)
(* running (BleScanner.cpp), NimBLEScan, which keeps the devices heard in  *)
(* a scan and decides when one is reported, and the part of the NimBLE     *)
(* host that runs the scan: the discovery procedure of GAP, its timer, and *)
(* the reset of the host when a command to the controller fails.           *)
(*                                                                         *)
(* Task scan runs on core 1, the host task on core 0.  They share the      *)
(* results, the flag m_ignoreResults and the operation of GAP; only the    *)
(* latter has a lock, which start() holds while it talks to the controller.*)
(***************************************************************************)

CONSTANT Device       \* the addresses that are heard

\* What an advertisement report may be: one that announces a scan response,
\* one that does not, and a scan response.
ReportTypes == {"scannable", "plain", "response"}
Reports == [addr : Device, type : ReportTypes]
NoReport == [addr |-> "none", type |-> "none"]

VARIABLES
  scan,       \* where task scan is in update() and start()
  host,       \* where the host task is
  report,     \* the report the host is handling
  todo,       \* the devices the loop over the results has still to visit
  resetting,  \* the completion handled by the host belongs to a reset
  op,         \* ble_gap_master.op
  expSet,     \* ble_gap_master.exp_set: the end of the scan is scheduled
  hsSynced,   \* ble_hs_sync_state is GOOD
  synced,     \* NimBLEDevice::m_synced
  resetDue,   \* a reset of the host is queued
  ignore,     \* m_ignoreResults
  results,    \* m_scanResults: is it scannable, and m_callbackSent
  heard,      \* ghost: devices stored in this scan
  told,       \* ghost: devices reported to the subscribers in this scan
  overlap     \* ghost: a reset or the loop at the end of a scan met this start()

hostVars == <<host, report, todo, resetting>>
gapVars == <<op, expSet>>
syncVars == <<hsSynced, synced, resetDue>>
dataVars == <<ignore, results>>
ghosts == <<heard, told, overlap>>
vars == <<scan, hostVars, gapVars, syncVars, dataVars, ghosts>>

NoResults == [d \in {} |-> [scannable |-> FALSE, sent |-> FALSE]]

Init ==
  /\ scan = "idle"
  /\ host = "idle" /\ report = NoReport /\ todo = {} /\ resetting = FALSE
  /\ op = "null" /\ expSet = FALSE
  /\ hsSynced = TRUE /\ synced = TRUE /\ resetDue = FALSE
  /\ ignore = FALSE /\ results = NoResults
  /\ heard = {} /\ told = {} /\ overlap = FALSE

\* The host is between the start of a reset and the end of onSync.
InReset == host \in {"resetting", "reset_cb", "sync", "sync_cb"} \/ resetting

\* start() holds ble_hs_lock from the first to the last command.
Locked == scan = "enable"

\* The loop over the results has still to visit some that are being deleted, or were.
LoopSpoiled == host = "complete" /\ todo # {}
                 /\ (scan = "clear" \/ ~(todo \subseteq DOMAIN results))

(***************************************************************************)
(* Task scan                                                               *)
(***************************************************************************)

\* A start() that forgets to have the results ignored.
StartHeeding ==
  /\ scan = "idle" /\ op = "null" /\ host \notin {"report", "store"}
  /\ scan' = "params"
  /\ heard' = {} /\ told' = {}
  /\ overlap' = (InReset \/ host = "complete")
  /\ UNCHANGED <<hostVars, gapVars, syncVars, dataVars>>

\* update() finds no scan running and calls start(), which first of all has
\* the results ignored.  Between two updates the task sleeps 20 ms: time enough
\* for the host task to finish a report it began to handle during the one before,
\* but not for a loop over all devices that begins at any time.
Start ==
  /\ scan = "idle" /\ op = "null"
  /\ host \notin {"report", "store"}
  /\ scan' = "params"
  /\ ignore' = TRUE
  /\ heard' = {} /\ told' = {}
  /\ overlap' = (InReset \/ host = "complete")
  /\ UNCHANGED <<hostVars, gapVars, syncVars, results>>

\* A command is not sent to a host that is not synchronised; one that is not
\* acknowledged, or wrongly, asks for a reset of the host.
CommandFails == IF hsSynced THEN resetDue' \in BOOLEAN /\ (resetDue => resetDue')
                            ELSE UNCHANGED resetDue

\* ble_gap_disc takes the lock, and sends the parameters of the scan.
DiscParams(ok) ==
  /\ scan = "params"
  /\ \/ /\ ok /\ hsSynced
        /\ scan' = "enable" /\ op' = "disc"
        /\ UNCHANGED resetDue
     \/ /\ ~ok /\ CommandFails
        /\ scan' = "end"
        /\ UNCHANGED op
  /\ UNCHANGED <<hostVars, expSet, hsSynced, synced, dataVars, ghosts>>

\* A failure that leaves the operation of GAP behind.
DiscEnableKeepsOp(ok) ==
  /\ scan = "enable"
  /\ \/ ok /\ hsSynced /\ scan' = "clear" /\ expSet' = TRUE /\ UNCHANGED resetDue
     \/ ~ok /\ CommandFails /\ scan' = "end" /\ expSet' = FALSE
  /\ UNCHANGED <<hostVars, op, hsSynced, synced, dataVars, heard, told, overlap>>

\* It then starts the scan in the controller and sets the timer, or gives up.
DiscEnable(ok) ==
  /\ scan = "enable"
  /\ \/ /\ ok /\ hsSynced
        /\ scan' = "clear" /\ expSet' = TRUE
        /\ UNCHANGED <<op, resetDue>>
     \/ /\ ~ok /\ CommandFails
        /\ scan' = "end" /\ op' = "null" /\ expSet' = FALSE
  /\ UNCHANGED <<hostVars, hsSynced, synced, dataVars, heard, told, overlap>>

\* The results are kept, as with is_continue.
KeepResults ==
  /\ scan = "clear"
  /\ scan' = "end"
  /\ UNCHANGED <<hostVars, gapVars, syncVars, dataVars, ghosts>>

\* The results of the last scan are deleted.
ClearResults ==
  /\ scan = "clear"
  /\ results' = NoResults
  /\ scan' = "end"
  /\ UNCHANGED <<hostVars, gapVars, syncVars, ignore, ghosts>>

\* start() returns, having failed or not.
StartReturns ==
  /\ scan = "end"
  /\ ignore' = FALSE
  /\ scan' = "idle"
  /\ UNCHANGED <<hostVars, gapVars, syncVars, results, ghosts>>

(***************************************************************************)
(* The host task: advertisement reports                                    *)
(***************************************************************************)

\* A report is dropped unless a scan is running, a test without the lock.
ReceiveReport ==
  /\ host = "idle" /\ op = "disc"
  /\ \E r \in Reports : report' = r
  /\ host' = "report"
  /\ UNCHANGED <<scan, todo, resetting, gapVars, syncVars, dataVars, ghosts>>

\* An ignored report that stays with the host.
CallHandlerKeepsReport ==
  /\ host = "report" /\ ~Locked
  /\ host' = IF ignore THEN "idle" ELSE "store"
  /\ UNCHANGED <<scan, report, todo, resetting, gapVars, syncVars, dataVars, ghosts>>

\* The callback is read under the lock; handleGapEvent tests the flag.
CallHandler ==
  /\ host = "report" /\ ~Locked
  /\ host' = IF ignore THEN "idle" ELSE "store"
  /\ report' = IF ignore THEN NoReport ELSE report
  /\ UNCHANGED <<scan, todo, resetting, gapVars, syncVars, dataVars, ghosts>>

\* The device is new in this scan or known; a response of an unknown device is
\* dropped.  A device that announces a response is reported when it comes, any
\* other one at once: duplicates are wanted.
Received(d) ==
  LET device == IF d \in DOMAIN results THEN results[d]
                ELSE [scannable |-> report.type = "scannable", sent |-> FALSE]
  IN [device EXCEPT !.sent = @ \/ ~device.scannable \/ report.type = "response"]

StoreReport ==
  /\ host = "store"
  /\ LET d == report.addr
     IN IF d \in DOMAIN results \/ report.type # "response"
        THEN /\ results' = [e \in DOMAIN results \cup {d} |->
                              IF e = d THEN Received(d) ELSE results[e]]
             /\ heard' = heard \cup {d}
             /\ told' = IF ~Received(d).scannable \/ report.type = "response"
                          THEN told \cup {d} ELSE told
        ELSE UNCHANGED <<results, heard, told>>
  /\ host' = "idle" /\ report' = NoReport
  /\ UNCHANGED <<scan, todo, resetting, gapVars, syncVars, ignore, overlap>>

(***************************************************************************)
(* The host task: the end of a scan                                        *)
(***************************************************************************)

\* The timer of the procedure: stop the scan in the controller; if that fails
\* the timer is set again.  It is set to 10 s, after which start() has returned.
ScanTimer(ok) ==
  /\ host = "idle" /\ op = "disc" /\ expSet /\ scan = "idle"
  /\ \/ /\ ok
        /\ host' = "ended"
        /\ UNCHANGED resetDue
     \/ /\ ~ok /\ CommandFails
        /\ UNCHANGED host
  /\ UNCHANGED <<scan, report, todo, resetting, gapVars, hsSynced, synced, dataVars, ghosts>>

\* ble_gap_disc_complete: under the lock the procedure is over, so that task
\* scan may start the next; the handler begins its loop after that.
ScanComplete ==
  /\ host = "ended" /\ ~Locked
  /\ op' = "null" /\ expSet' = FALSE
  /\ host' = "complete"
  /\ todo' = DOMAIN results
  /\ overlap' = (overlap \/ scan # "idle")
  /\ UNCHANGED <<scan, report, resetting, syncVars, dataVars, heard, told>>

\* The devices that did not answer are left unreported.
VisitWithoutReport ==
  /\ host = "complete"
  /\ \E d \in todo : todo' = todo \ {d}
  /\ UNCHANGED <<scan, host, report, resetting, gapVars, syncVars, dataVars, heard, told, overlap>>

\* A device that waited in vain for its response is reported now.  What the
\* loop finds where a device was deleted is anything, a device among it.
VisitResult ==
  /\ host = "complete"
  /\ \E d \in todo :
       /\ todo' = todo \ {d}
       /\ \/ /\ ~LoopSpoiled
             /\ told' = IF results[d].sent THEN told ELSE told \cup {d}
          \/ /\ LoopSpoiled
             /\ told' \in {told, told \cup {d}}
  /\ UNCHANGED <<scan, host, report, resetting, gapVars, syncVars, dataVars, heard, overlap>>

\* After the loop ble_gap_master_failed resets the procedure once more.
LoopDone ==
  /\ host = "complete" /\ todo = {}
  /\ \/ /\ resetting
        /\ host' = "reset_cb" /\ op' = "null" /\ expSet' = FALSE
     \/ /\ ~resetting
        /\ host' = "idle"
        /\ UNCHANGED gapVars
  /\ resetting' = FALSE
  /\ UNCHANGED <<scan, report, todo, syncVars, dataVars, heard, told, overlap>>

(***************************************************************************)
(* The host task: reset and synchronisation                                *)
(***************************************************************************)

\* The controller reports a hardware error.
HardwareError ==
  /\ ~resetDue
  /\ resetDue' = TRUE
  /\ UNCHANGED <<scan, hostVars, gapVars, hsSynced, synced, dataVars, ghosts>>

ResetHost ==
  /\ host = "idle" /\ resetDue
  /\ resetDue' = FALSE
  /\ hsSynced' = FALSE
  /\ host' = "resetting"
  /\ overlap' = (overlap \/ scan # "idle")
  /\ UNCHANGED <<scan, report, todo, resetting, gapVars, synced, dataVars, heard, told>>

\* ble_gap_reset_state: a running scan ends with the reset, a test without the lock.
ResetState ==
  /\ host = "resetting"
  /\ IF op = "disc" THEN host' = "ended" /\ resetting' = TRUE
                    ELSE host' = "reset_cb" /\ UNCHANGED resetting
  /\ UNCHANGED <<scan, report, todo, gapVars, syncVars, dataVars, ghosts>>

\* NimBLEDevice::onReset
OnReset ==
  /\ host = "reset_cb"
  /\ host' = "sync"
  /\ synced' = FALSE
  /\ ignore' = (ignore \/ synced)
  /\ UNCHANGED <<scan, report, todo, resetting, gapVars, hsSynced, resetDue, results, ghosts>>

\* The startup sequence; when it fails the host resets itself again.
Sync(ok) ==
  /\ host = "sync"
  /\ hsSynced' = ok
  /\ host' = IF ok THEN "sync_cb" ELSE "resetting"
  /\ overlap' = (overlap \/ scan # "idle")
  /\ UNCHANGED <<scan, report, todo, resetting, gapVars, synced, resetDue, dataVars, heard, told>>

\* NimBLEDevice::onSync and NimBLEScan::onHostSync; the duration is not 0, so
\* that starting the scan again is left to update().
OnSync ==
  /\ host = "sync_cb"
  /\ host' = "idle"
  /\ synced' = TRUE
  /\ ignore' = (ignore /\ synced)
  /\ UNCHANGED <<scan, report, todo, resetting, gapVars, hsSynced, resetDue, results, ghosts>>

\* Reading what is being deleted may end in a panic and a restart.
Panic ==
  /\ LoopSpoiled \/ (host = "store" /\ scan = "clear")
  /\ scan' = "idle"
  /\ host' = "idle" /\ report' = NoReport /\ todo' = {} /\ resetting' = FALSE
  /\ op' = "null" /\ expSet' = FALSE
  /\ hsSynced' = TRUE /\ synced' = TRUE /\ resetDue' = FALSE
  /\ ignore' = FALSE /\ results' = NoResults
  /\ heard' = {} /\ told' = {} /\ overlap' = FALSE

ScanTask == \/ Start \/ ClearResults \/ StartReturns
            \/ \E ok \in BOOLEAN : DiscParams(ok) \/ DiscEnable(ok)
HostTask == \/ CallHandler \/ StoreReport \/ ScanComplete \/ VisitResult \/ LoopDone
            \/ ResetHost \/ ResetState \/ OnReset \/ OnSync
            \/ \E ok \in BOOLEAN : ScanTimer(ok) \/ Sync(ok)

Next == ScanTask \/ HostTask \/ ReceiveReport \/ HardwareError \/ Panic

Spec == Init /\ [][Next]_vars

\* Both tasks run; the timer of a scan ends it however many reports come in between.
FairSpec == /\ Spec
            /\ WF_vars(ScanTask) /\ WF_vars(HostTask)
            /\ SF_vars(\E ok \in BOOLEAN : ScanTimer(ok))
            /\ SF_vars(ResetHost)

(***************************************************************************)
(* Properties                                                              *)
(***************************************************************************)

TypeOK ==
  /\ scan \in {"idle", "params", "enable", "clear", "end"}
  /\ host \in {"idle", "report", "store", "ended", "complete",
               "resetting", "reset_cb", "sync", "sync_cb"}
  /\ report \in Reports \cup {NoReport}
  /\ (report = NoReport) <=> (host \notin {"report", "store"})
  /\ todo \subseteq Device
  /\ op \in {"null", "disc"}
  /\ {resetting, expSet, hsSynced, synced, resetDue, ignore, overlap} \subseteq BOOLEAN
  /\ DOMAIN results \subseteq Device
  /\ results \in [DOMAIN results -> [scannable : BOOLEAN, sent : BOOLEAN]]
  /\ heard \subseteq Device /\ told \subseteq Device

\* No report is stored while the results are deleted, unless a reset of the host
\* met this start(): then onHostSync takes back the flag that start() has set.
\* (NimBLEScan.cpp:66 and :327; op is reset by the host task alone.)
StoresUnharmed == host = "store" /\ scan = "clear" => overlap

\* When the loop at the end of a scan is done, every device stored in the scan
\* has been reported, whether or not its response came (NimBLEScan.cpp:167).
HeardIsReported ==
  host = "complete" /\ todo = {} /\ ~overlap => heard \subseteq told

\* A device is reported in a scan only if it was heard in it: the results of the
\* scan before are gone (NimBLEScan.cpp:357).
OnlyHeardIsReported == ~overlap => told \subseteq heard

\* What goes wrong outside of the program, and loops that lose the race.
Failure ==
  \/ HardwareError \/ Panic
  \/ VisitResult /\ LoopSpoiled
  \/ hsSynced /\ (DiscParams(FALSE) \/ DiscEnable(FALSE))
  \/ ScanTimer(FALSE) \/ Sync(FALSE)

\* Once failures stop, one scan follows another: neither the flag nor the
\* operation of GAP nor the synchronisation stays behind from a reset.
ScansAgain == <>[][~Failure]_vars => []<>(scan = "clear")

\* A device of which reports go on being stored is reported in scan after scan,
\* even if it never answers a scan request.
KeepsReporting ==
  <>[][~Failure]_vars =>
    \A d \in Device :
      []<><<StoreReport /\ report.addr = d /\ d \in heard'>>_vars
        => []<>(d \in told) /\ []<>(d \notin told)

(***************************************************************************)
(* The inductive invariants that ScannerProofs builds on.                  *)
(***************************************************************************)

\* A start() that met no reset and no loop has the host to itself, but for
\* reports, which are ignored.
StartInv ==
  /\ scan # "idle" /\ ~overlap => ignore /\ ~resetting /\ host \in {"idle", "report"}
  /\ scan = "params" => op = "null"
  /\ host = "ended" /\ ~resetting => op = "disc" /\ scan = "idle"
  /\ host = "ended" /\ ~overlap => op = "disc"

\* While a scan runs, and in the loop at its end, the results are what was heard
\* in it, and m_callbackSent says what was told.
ScanInv ==
  ~overlap =>
    /\ scan \in {"params", "enable", "clear"} => heard = {} /\ told = {}
    /\ told \subseteq heard
    /\ (op = "disc" /\ scan \in {"end", "idle"}) \/ host = "complete" =>
         /\ DOMAIN results = heard
         /\ \A d \in heard : results[d].sent => d \in told
    /\ host = "complete" => todo \subseteq heard /\ heard \ told \subseteq todo
==============================================================================
