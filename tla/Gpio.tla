--------------------------------- MODULE Gpio ---------------------------------
(***************************************************************************)
(* The pins: interrupts store the state of the inputs in                   *)
(* Network::_pinStates, which ntw publishes and clears; messages on the    *)
(* topics of the outputs switch them.                                      *)
(*                                                                         *)
(* An interrupt may fall between any two steps of ntw.  What the broker    *)
(* sends comes through PacketStream, whose promise Parser keeps: in pieces *)
(* of any size, each of which Network hands on as if it were the payload.  *)
(***************************************************************************)
EXTENDS Naturals, Integers, Sequences, SequencesExt, FiniteSets

CONSTANTS
  Input,       \* the input pins
  Command,     \* what may be published for the outputs: [pin, payload, body]
  MaxWire      \* bound: commands under way

ASSUME GpioAssumption ==
  /\ "none" \notin Input
  /\ \A c \in Command : c.payload \in Seq(STRING) /\ c.body = Len(c.payload)

Output == {c.pin : c \in Command}

VARIABLES
  level,       \* of the inputs, 0 or 1; they have pull-ups
  pending,     \* inputs whose interrupt is raised and not yet served
  toStore,     \* inputs the constructor has yet to store a 0 for
  pinStates,   \* Network::_pinStates, -1 for "nothing to publish"
  todo,        \* inputs the loop of update() has yet to visit
  at,          \* the input it is about to clear, or "none"
  published,   \* the state last published of each input, -1 for none
  edged,       \* ghost: inputs that had an interrupt since the start
  missed,      \* ghost: inputs whose latest state was dropped
  output,      \* the outputs that are HIGH
  wire, got, handed   \* the stream of commands, see PacketStream

inputVars == <<level, pending, toStore, pinStates, todo, at, published,
               edged, missed>>
stream == <<wire, got, handed>>
vars == <<inputVars, output, stream>>

Stream == INSTANCE PacketStream
            WITH Packet <- Command,
                 InPieces <- LAMBDA c : TRUE, Acknowledged <- LAMBDA c : TRUE

Init ==
  /\ level \in [Input -> {0, 1}]
  /\ pending = {} /\ toStore = Input
  /\ pinStates = [i \in {} |-> 0]
  /\ todo = {} /\ at = "none"
  /\ published = [i \in Input |-> -1]
  /\ edged = {} /\ missed = {}
  /\ output = {}
  /\ Stream!Init

(***************************************************************************)
(* The inputs                                                              *)
(***************************************************************************)

\* Edges while the interrupt is pending leave it pending.
Edge(i) ==
  /\ level' = [level EXCEPT ![i] = 1 - @]
  /\ pending' = pending \cup {i}
  /\ UNCHANGED <<toStore, pinStates, todo, at, published, edged, missed,
                 output, stream>>

\* A closed contact pulls the input to 0 and is published as 1.
State(i) == IF level[i] = 0 THEN 1 ELSE 0

Put(i, v) == [p \in DOMAIN pinStates \cup {i} |-> IF p = i THEN v ELSE pinStates[p]]

\* A state that waits for ntw is not replaced.
InterruptWaits(i) ==
  /\ i \in pending
  /\ pending' = pending \ {i}
  /\ pinStates' = IF i \in DOMAIN pinStates /\ pinStates[i] # -1 THEN pinStates
                                                              ELSE Put(i, State(i))
  /\ edged' = edged \cup {i}
  /\ missed' = IF at = i THEN missed \cup {i} ELSE missed \ {i}
  /\ UNCHANGED <<level, toStore, todo, at, published, output, stream>>

\* input_a, input_b and input_c.  A state stored while ntw is between its test
\* and its clearing is going to be cleared unseen.
Interrupt(i) ==
  /\ i \in pending
  /\ pending' = pending \ {i}
  /\ pinStates' = Put(i, State(i))
  /\ edged' = edged \cup {i}
  /\ missed' = IF at = i THEN missed \cup {i} ELSE missed \ {i}
  /\ UNCHANGED <<level, toStore, todo, at, published, output, stream>>

\* The constructor stores the initial states when the interrupts are attached.
StoreInitial(i) ==
  /\ i \in toStore
  /\ toStore' = toStore \ {i}
  /\ pinStates' = Put(i, 0)
  /\ missed' = IF i \in edged THEN missed \cup {i} ELSE missed
  /\ UNCHANGED <<level, pending, todo, at, published, edged, output, stream>>

\* update() gets as far as the pins when MQTT is connected, see Network: it may
\* take any time until it does.
BeginPins ==
  /\ toStore = {} /\ todo = {} /\ at = "none"
  /\ todo' = DOMAIN pinStates
  /\ UNCHANGED <<level, pending, toStore, pinStates, at, published, edged,
                 missed, output, stream>>

\* A test for true instead of -1.
PublishIfSet(i, ok) ==
  /\ i \in todo /\ at = "none"
  /\ todo' = todo \ {i}
  /\ at' = i
  /\ published' = IF pinStates[i] > 0 THEN [published EXCEPT ![i] = 1] ELSE published
  /\ UNCHANGED <<level, pending, toStore, pinStates, edged, missed, output, stream>>

\* The loop does not move on.
PublishAgain(i, ok) ==
  /\ i \in todo /\ at = "none"
  /\ at' = i
  /\ published' = IF pinStates[i] # -1 THEN [published EXCEPT ![i] = pinStates[i]]
                                       ELSE published
  /\ UNCHANGED <<level, pending, toStore, pinStates, todo, edged, missed,
                 output, stream>>

\* The result of publishInt is ignored: the client may be out of memory.
PublishPin(i, ok) ==
  /\ i \in todo /\ at = "none"
  /\ todo' = todo \ {i}
  /\ at' = i
  /\ \/ /\ pinStates[i] = -1
        /\ UNCHANGED <<published, missed>>
     \/ /\ pinStates[i] # -1 /\ ok
        /\ published' = [published EXCEPT ![i] = pinStates[i]]
        /\ UNCHANGED missed
     \/ /\ pinStates[i] # -1 /\ ~ok
        /\ missed' = missed \cup {i}
        /\ UNCHANGED published
  /\ UNCHANGED <<level, pending, toStore, pinStates, edged, output, stream>>

ClearPin ==
  /\ at # "none"
  /\ pinStates' = Put(at, -1)
  /\ at' = "none"
  /\ UNCHANGED <<level, pending, toStore, todo, published, edged, missed,
                 output, stream>>

(***************************************************************************)
(* The outputs                                                             *)
(***************************************************************************)

SendCommand(c) ==
  /\ Len(wire) < MaxWire
  /\ Stream!Send(c)
  /\ UNCHANGED <<inputVars, output>>

\* The buffer keeps the tail of the piece before.
ReceiveUncleared ==
  /\ Stream!HandOver
  /\ LET c == handed'.packet
         piece(h) == SubSeq(h.packet.payload, h.from + 1, h.to)
         value == IF handed = Stream!Nothing THEN piece(handed')
                  ELSE piece(handed') \o
                       SubSeq(piece(handed), Len(piece(handed')) + 1, Len(piece(handed)))
     IN output' = IF value = <<"1">> THEN output \cup {c.pin} ELSE output \ {c.pin}
  /\ UNCHANGED inputVars

\* Network copies the piece into a buffer of its own, Gpio compares the string.
Receive ==
  /\ Stream!HandOver
  /\ LET c == handed'.packet
         value == SubSeq(c.payload, handed'.from + 1, handed'.to)
     IN output' = IF value = <<"1">> THEN output \cup {c.pin} ELSE output \ {c.pin}
  /\ UNCHANGED inputVars

ConnectionBreaks ==
  /\ Stream!Break
  /\ UNCHANGED <<inputVars, output>>

\* Any restart of the device, see Network: what was published is retained.
Restart ==
  /\ pending' = {} /\ toStore' = Input
  /\ pinStates' = [i \in {} |-> 0]
  /\ todo' = {} /\ at' = "none"
  /\ edged' = {} /\ missed' = {}
  /\ output' = {}
  /\ Stream!Break
  /\ UNCHANGED <<level, published>>

Next ==
  \/ \E i \in Input : Edge(i) \/ Interrupt(i) \/ StoreInitial(i)
  \/ BeginPins \/ ClearPin
  \/ \E i \in Input, ok \in BOOLEAN : PublishPin(i, ok)
  \/ \E c \in Command : SendCommand(c)
  \/ Receive \/ ConnectionBreaks \/ Restart

Spec == Init /\ [][Next]_vars

Ntw == BeginPins \/ ClearPin \/ \E i \in Input, ok \in BOOLEAN : PublishPin(i, ok)
Constructor == \E i \in Input : StoreInitial(i)

\* Interrupts are served, the constructor goes on, and MQTT is connected again
\* and again for long enough to go through the pins.
FairSpec == /\ Spec
            /\ \A i \in Input : WF_vars(Interrupt(i))
            /\ WF_vars(Constructor) /\ WF_vars(Ntw)

(***************************************************************************)
(* Properties                                                              *)
(***************************************************************************)

TypeOK ==
  /\ level \in [Input -> {0, 1}]
  /\ pending \subseteq Input /\ toStore \subseteq Input
  /\ DOMAIN pinStates \subseteq Input /\ Input \ toStore \subseteq DOMAIN pinStates
  /\ pinStates \in [DOMAIN pinStates -> {-1, 0, 1}]
  /\ todo \subseteq DOMAIN pinStates /\ at \in DOMAIN pinStates \cup {"none"}
  /\ at \notin todo
  /\ published \in [Input -> {-1, 0, 1}]
  /\ edged \subseteq DOMAIN pinStates /\ missed \subseteq Input
  /\ output \subseteq Output
  /\ wire \in Seq(Command) /\ got \in Nat

\* The state of an input that had an interrupt waits for ntw or is the one
\* published last, and is dropped in three ways only: by an interrupt between the
\* test and the clearing (Network.cpp:218), by a publish that was refused, and
\* by the initial 0 stored after it (Gpio.cpp:28).
Latest(i) == IF pinStates[i] # -1 THEN pinStates[i] ELSE published[i]
InputsFaithful ==
  \A i \in edged \ (pending \cup missed) : Latest(i) = State(i)

\* Once an input is at rest, and no such loss happens any more, the broker has its
\* state, however the loop of ntw and the interrupts met before (Network.cpp:212).
SettledIsPublished ==
  <>[][level' = level /\ edged \subseteq edged' /\ missed' \subseteq missed]_vars
  => <>[](\A i \in edged \ missed : published[i] = State(i))

\* A command of one character or none switches its output, in whatever pieces the
\* commands around it came (Network.cpp:414).
OutputFollows ==
  handed # Stream!Nothing /\ handed.to = handed.packet.body /\ handed.to <= 1
    => (handed.packet.pin \in output <=> handed.packet.payload = <<"1">>)

\* What GpioProofs strengthens InputsFaithful with: ntw goes through the pins when
\* the constructor is done, and clears only what it has published, or loses.
PinInv ==
  /\ at # "none" \/ todo # {} => toStore = {}
  /\ at # "none" /\ pinStates[at] # -1 /\ at \notin missed
       => published[at] = pinStates[at]
===============================================================================
