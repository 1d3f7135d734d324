------------------------------ MODULE MCPresence ------------------------------
(* Values of the constants of PresenceDetection that a .cfg cannot write.    *)
EXTENDS PresenceDetection

MinusOne == -1

(* Two states that differ in what the broker retains alone have the same     *)
(* steps: no guard reads it.  For properties that do not mention broker.     *)
ButBroker == <<clock, devices, lastBeaconTs, host, prdetVars, handed, ntwPc, taken>>
=============================================================================
