----------------------------- MODULE PacketStream -----------------------------
(***************************************************************************)
(* What the user of the MQTT client is promised of a connection: it is      *)
(* handed the packets the broker sent, in order, once and whole, but the    *)
(* payload of a PUBLISH in pieces that follow one another without a gap.    *)
(* With the last piece the PUBLISH is acknowledged.  The connection may     *)
(* break at any time; what was not handed over by then is gone, and nothing *)
(* of it shows in what the next connection brings.                          *)
(***************************************************************************)
EXTENDS Naturals, Sequences

CONSTANTS
  Packet,            \* what the broker sends; .body counts the payload's bytes
  InPieces(_),       \* whether the payload is handed over in pieces
  Acknowledged(_)    \* whether it is acknowledged

VARIABLES
  wire,     \* the packets sent and not yet handed over
  got,      \* bytes of the payload of the first of them already handed over
  handed    \* the last that was handed over

streamVars == <<wire, got, handed>>

Nothing == [packet |-> <<>>, from |-> 0, to |-> 0, ack |-> FALSE]

Init == wire = <<>> /\ got = 0 /\ handed = Nothing

Send(p) ==
  /\ wire' = Append(wire, p)
  /\ UNCHANGED <<got, handed>>

\* The next packet, or the payload of it up to byte n.
HandOver ==
  /\ wire # <<>>
  /\ LET p == Head(wire)
     IN \E n \in 0 .. p.body :
          /\ IF InPieces(p) /\ p.body > 0 THEN n > got ELSE n = p.body
          /\ handed' = [packet |-> p, from |-> got, to |-> n,
                        ack |-> Acknowledged(p) /\ n = p.body]
          /\ IF n = p.body THEN wire' = Tail(wire) /\ got' = 0
                           ELSE got' = n /\ UNCHANGED wire

Break == wire' = <<>> /\ got' = 0 /\ handed' = Nothing

Next == \/ \E p \in Packet : Send(p)
        \/ HandOver \/ Break

Spec == Init /\ [][Next]_streamVars
===============================================================================
