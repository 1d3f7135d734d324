-------------------------- MODULE MillisWatchProofs --------------------------
(* checkMillisTask restarts the device before millis() overflows, and not    *)
(* long before, for every period, guard and lateness that add up.            *)
EXTENDS MillisWatch, TLAPS

(* The exclusive or and the conversion leave the bound close to the end.     *)
LEMMA ThresholdValue ==
  /\ Word \in Nat /\ Threshold = Word + Xor - Guard
  /\ Threshold \in 0 .. Word - 1
  BY WordAssumption, WatchAssumption DEF Threshold, ToUnsigned

LEMMA InitWatchInv == Init => WatchInv
  BY ThresholdValue, WatchAssumption DEF Init, WatchInv, TypeOK

(* As long as the invariant holds a tick is far from the end of the range.   *)
LEMMA TickBelowEnd == WatchInv /\ Tick => millis < Word - 1
  BY ThresholdValue, WatchAssumption DEF WatchInv, TypeOK, Tick

LEMMA NextWatchInv == WatchInv /\ [Next]_vars => WatchInv'
  <1> SUFFICES ASSUME WatchInv, [Next]_vars PROVE WatchInv'
    OBVIOUS
  <1> USE ThresholdValue, WatchAssumption DEF WatchInv, TypeOK
  <1>1. CASE Tick
    BY <1>1, TickBelowEnd DEF Tick
  <1>2. CASE CheckAgain
    BY <1>2 DEF CheckAgain
  <1>3. CASE AboutToOverflow
    BY <1>3 DEF AboutToOverflow
  <1>4. CASE Restart
    BY <1>4 DEF Restart
  <1>5. CASE UNCHANGED vars
    BY <1>5 DEF vars
  <1> QED
    BY <1>1, <1>2, <1>3, <1>4, <1>5 DEF Next

(* millis() never wraps while the firmware runs.                             *)
THEOREM MillisNeverOverflows == Spec => NeverOverflows
  <1>1. WatchInv /\ Tick => millis' > millis
    BY TickBelowEnd, ThresholdValue DEF Tick, WatchInv, TypeOK
  <1> QED
    BY <1>1, InitWatchInv, NextWatchInv, PTL DEF Spec, NeverOverflows

(* The task restarts the device only in the last minutes of the range.       *)
THEOREM RestartsOnlyAtTheEnd == Spec => NotBeforeTheEnd
  <1>1. WatchInv /\ Restart => millis > Word - Guard
    BY ThresholdValue, WatchAssumption DEF Restart, WatchInv, TypeOK
  <1> QED
    BY <1>1, InitWatchInv, NextWatchInv, PTL DEF Spec, NotBeforeTheEnd
=============================================================================
