----------------------------- MODULE MillisWatch -----------------------------
(***************************************************************************)
(* checkMillisTask of main.cpp: once a minute it looks whether millis() is   *)
(* about to overflow, and restarts the device before it does.  The bound it  *)
(* compares with is written (2^32) - 5 * 60000; in C++ 2^32 is the exclusive *)
(* or of 2 and 32, so the bound is 34 - 300000, an int that the comparison   *)
(* with an unsigned long converts to 2^32 - 299966.                          *)
(***************************************************************************)
EXTENDS Millis

CONSTANTS
  Xor,          \* 34, the value of 2^32
  Guard,        \* 5 * 60000
  CheckPeriod,  \* delay(60000)
  RestartDelay, \* vTaskDelay(2000 / portTICK_PERIOD_MS)
  Lag           \* how late the task may run, its priority being the lowest

ASSUME WatchAssumption ==
  /\ {Xor, Guard, CheckPeriod, RestartDelay, Lag} \subseteq Nat
  /\ CheckPeriod > 0 /\ Guard < Word
  /\ Xor + CheckPeriod + RestartDelay + 2 * Lag < Guard

VARIABLES
  millis,   \* millis(), which wraps at Word
  mlchk,    \* where the task is
  left      \* the time its delay still takes, or minus its lateness

vars == <<millis, mlchk, left>>

Init == millis = 0 /\ mlchk = "delay" /\ left = CheckPeriod

ThresholdInSeconds == ToUnsigned(Xor - Guard \div CheckPeriod)  \* fault
ThresholdSigned == Xor - Guard  \* fault: the comparison of two signed values
Threshold == ToUnsigned(Xor - Guard)

Tick ==
  /\ left > -Lag
  /\ millis' = (IF millis = Word - 1 THEN 0 ELSE millis + 1)
  /\ left' = left - 1
  /\ UNCHANGED mlchk

CheckAgain ==
  /\ mlchk = "delay" /\ left <= 0 /\ millis <= Threshold
  /\ left' = CheckPeriod
  /\ UNCHANGED <<millis, mlchk>>

AboutToOverflow ==
  /\ mlchk = "delay" /\ left <= 0 /\ millis > Threshold
  /\ mlchk' = "restarting" /\ left' = RestartDelay
  /\ UNCHANGED millis

Restart ==
  /\ mlchk = "restarting" /\ left <= 0
  /\ millis' = 0 /\ mlchk' = "delay" /\ left' = CheckPeriod

Next == Tick \/ CheckAgain \/ AboutToOverflow \/ Restart

Spec == Init /\ [][Next]_vars /\ WF_vars(Next)

-----------------------------------------------------------------------------
TypeOK ==
  /\ millis \in 0 .. Word - 1
  /\ mlchk \in {"delay", "restarting"}
  /\ left \in -Lag .. CheckPeriod \cup -Lag .. RestartDelay

(* millis() never overflows: no tick takes it back to 0.                     *)
NeverOverflows == [][Tick => millis' > millis]_vars

(* Nor is the device restarted earlier than the comment intends.             *)
NotBeforeTheEnd == [][Restart => millis > Word - Guard]_vars

(* It is restarted, again and again.                                         *)
RestartsForever == []<><<Restart>>_vars

(* The inductive invariant: a check that let the clock run on saw it at or   *)
(* below the threshold, and so much time has passed since.                   *)
WatchInv ==
  /\ TypeOK
  /\ mlchk = "delay" => millis + left <= Threshold + CheckPeriod
  /\ mlchk = "restarting" =>
       /\ millis > Threshold
       /\ millis + left <= Threshold + CheckPeriod + Lag + RestartDelay
=============================================================================
