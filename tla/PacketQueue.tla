----------------------------- MODULE PacketQueue -----------------------------
(***************************************************************************)
(* What the outbox of espMqttClient promises: packets in the order in which  *)
(* they were added, only CONNECT before the others, and a cursor that passes *)
(* every packet it leaves behind.  items are the packets, the cursor is at   *)
(* the next one to send, and past the last when there is none.               *)
(*                                                                           *)
(* It is not promised for ever: to clear the queue but for the packets in    *)
(* Kept may ruin it.                                                         *)
(***************************************************************************)
EXTENDS Integers, SequencesExt

CONSTANTS Packet, Kept

VARIABLES items, cursor, ruined

Init == items = <<>> /\ cursor = 1 /\ ruined = FALSE

(* A packet added behind all others is not sent before them.                 *)
Add ==
  /\ Len(items') = Len(items) + 1 /\ Last(items') \in Packet
  /\ items' = Append(items, Last(items')) /\ UNCHANGED cursor

(* A packet added at the front is sent first, and then all others again.     *)
AddFront ==
  /\ Len(items') = Len(items) + 1 /\ Head(items') \in Packet
  /\ Tail(items') = items /\ cursor' = 1

(* Removing packets neither reorders the others nor makes the cursor skip    *)
(* or repeat one of them.                                                    *)
Delete ==
  /\ Len(items') < Len(items)
  /\ \E kept \in [DOMAIN items' -> DOMAIN items] :
       /\ \A i, j \in DOMAIN kept : i < j => kept[i] < kept[j]
       /\ \A i \in DOMAIN kept :
            items'[i] = items[kept[i]] /\ (i < cursor' <=> kept[i] < cursor)
  /\ cursor' \in 1 .. Len(items') + 1

Advance == cursor \in DOMAIN items /\ cursor' = cursor + 1 /\ UNCHANGED items

Rewind == cursor' = 1 /\ UNCHANGED items

(* Only where two packets in a row have to go, and one before them is kept.  *)
Ruin ==
  /\ ruined' /\ UNCHANGED <<items, cursor>>
  /\ \E h, i \in DOMAIN items :
       /\ h < i /\ i < Len(items)
       /\ items[h] \in Kept /\ items[i] \notin Kept /\ items[i + 1] \notin Kept

Next ==
  /\ ~ruined
  /\ \/ Ruin
     \/ UNCHANGED ruined /\ (Advance \/ Rewind \/ Add \/ AddFront \/ Delete)

Spec == Init /\ [][Next]_<<items, cursor, ruined>>
=============================================================================
