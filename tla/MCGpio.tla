--------------------------------- MODULE MCGpio ---------------------------------
(* Commands for Gpio: "1", and one that may come in two pieces. *)
EXTENDS Gpio

On(pin, payload) == [pin |-> pin, payload |-> payload, body |-> Len(payload)]
Commands == {On("d", <<"1">>), On("d", <<"1", "0">>)}
=================================================================================
