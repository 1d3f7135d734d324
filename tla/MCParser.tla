-------------------------------- MODULE MCParser --------------------------------
(* Packets for Parser: a QoS 0 PUBLISH whose remaining length takes two bytes, *)
(* retained and empty ones of QoS 1, and the acknowledgements.                 *)
EXTENDS Parser

Publish(flags, topic, id, body) ==
  [type |-> PUBLISH + flags, topic |-> topic, fixed |-> id, body |-> body]
Ack(type, id, codes) == [type |-> type, topic |-> 0, fixed |-> id, body |-> codes]

WellFormed ==
  {Publish(0, 1, 0, 130), Publish(1, 2, 0, 0), Publish(3, 2, 258, 3),
   Publish(10, 1, 1, 0), Ack(PUBACK, 257, 0), Ack(SUBACK, 2, 2), Ack(PINGRESP, 0, 0)}
=================================================================================
