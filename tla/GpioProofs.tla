------------------------------- MODULE GpioProofs -------------------------------
(***************************************************************************)
(* Theorems about Gpio, for any pins and commands.  PinInv adds to what    *)
(* InputsFaithful says what holds between the publishing of a state and    *)
(* its clearing.                                                           *)
(***************************************************************************)
EXTENDS Gpio, TLAPS

LEMMA PutType ==
  ASSUME TypeOK, NEW i \in Input, NEW v \in {-1, 0, 1}
  PROVE  /\ DOMAIN Put(i, v) = DOMAIN pinStates \cup {i}
         /\ Put(i, v) \in [DOMAIN Put(i, v) -> {-1, 0, 1}]
         /\ Put(i, v)[i] = v
         /\ \A p \in DOMAIN pinStates : p # i => Put(i, v)[p] = pinStates[p]
  BY DEF Put, TypeOK

LEMMA StateType ==
  ASSUME TypeOK, NEW i \in Input
  PROVE  State(i) \in {0, 1}
  BY DEF State, TypeOK

\* A boot, and a connection that breaks, leave an empty stream.
LEMMA EmptyStream ==
  /\ Stream!Init => wire \in Seq(Command) /\ got \in Nat
  /\ Stream!Break => wire' \in Seq(Command) /\ got' \in Nat
  <1>1. <<>> \in Seq(Command)
    OBVIOUS
  <1>2. Stream!Init => wire \in Seq(Command) /\ got \in Nat
    BY <1>1 DEF Stream!Init
  <1>3. Stream!Break => wire' \in Seq(Command) /\ got' \in Nat
    BY <1>1 DEF Stream!Break
  <1> QED
    BY <1>2, <1>3

\* A piece is of the command that is next, from where the last one ended.
LEMMA Piece ==
  ASSUME TypeOK, Stream!HandOver
  PROVE  /\ Head(wire) \in Command /\ Tail(wire) \in Seq(Command)
         /\ handed'.packet = Head(wire) /\ handed'.from = got
         /\ handed'.to \in 0 .. Head(wire).body /\ Head(wire).body \in Nat
         /\ handed'.to > got \/ handed'.to = Head(wire).body
         /\ Head(wire).body > 0 => handed'.to > got
         /\ IF handed'.to = Head(wire).body
              THEN wire' = Tail(wire) /\ got' = 0
              ELSE wire' = wire /\ got' = handed'.to
  <1> DEFINE p == Head(wire)
  <1>1. p \in Command /\ Tail(wire) \in Seq(Command)
    BY DEF TypeOK, Stream!HandOver
  <1>2. p.body \in Nat
    BY <1>1, GpioAssumption
  <1>3. PICK n \in 0 .. p.body :
          /\ IF p.body > 0 THEN n > got ELSE n = p.body
          /\ handed' = [packet |-> p, from |-> got, to |-> n, ack |-> n = p.body]
          /\ IF n = p.body THEN wire' = Tail(wire) /\ got' = 0
                           ELSE got' = n /\ UNCHANGED wire
    <2>1. \A P : (TRUE /\ P) <=> P
      OBVIOUS
    <2> QED
      BY Zenon DEF Stream!HandOver
  <1>4. handed'.packet = p /\ handed'.from = got /\ handed'.to = n
    BY <1>3
  <1> QED
    BY <1>1, <1>2, <1>3, <1>4

LEMMA HandOverType ==
  ASSUME TypeOK, Stream!HandOver
  PROVE  wire' \in Seq(Command) /\ got' \in Nat
  <1>1. wire' \in {wire, Tail(wire)} /\ got' \in Nat
    BY Piece
  <1> QED
    BY <1>1, Piece DEF TypeOK

LEMMA InitTypeOK == Init => TypeOK
  BY EmptyStream DEF Init, TypeOK

LEMMA NextTypeOK == TypeOK /\ [Next]_vars => TypeOK'
  <1> SUFFICES ASSUME TypeOK, [Next]_vars PROVE TypeOK'
    OBVIOUS
  <1> USE DEF inputVars, stream
  <1>1. ASSUME NEW i \in Input, Edge(i) PROVE TypeOK'
    BY <1>1 DEF Edge, TypeOK
  <1>2. ASSUME NEW i \in Input, Interrupt(i) PROVE TypeOK'
    <2>1. pinStates' = Put(i, State(i)) /\ State(i) \in {-1, 0, 1}
      BY <1>2, StateType DEF Interrupt
    <2>2. /\ DOMAIN pinStates' = DOMAIN pinStates \cup {i}
          /\ pinStates' \in [DOMAIN pinStates' -> {-1, 0, 1}]
      BY <2>1, PutType
    <2> QED
      BY <1>2, <2>2 DEF Interrupt, TypeOK
  <1>3. ASSUME NEW i \in Input, StoreInitial(i) PROVE TypeOK'
    <2>1. /\ DOMAIN pinStates' = DOMAIN pinStates \cup {i}
          /\ pinStates' \in [DOMAIN pinStates' -> {-1, 0, 1}]
      BY <1>3, PutType DEF StoreInitial
    <2> QED
      BY <1>3, <2>1 DEF StoreInitial, TypeOK
  <1>4. CASE BeginPins
    BY <1>4, GpioAssumption DEF BeginPins, TypeOK
  <1>5. ASSUME NEW i \in Input, NEW ok \in BOOLEAN, PublishPin(i, ok) PROVE TypeOK'
    <2>1. i \in DOMAIN pinStates /\ pinStates[i] \in {-1, 0, 1}
      BY <1>5 DEF PublishPin, TypeOK
    <2> QED
      BY <1>5, <2>1 DEF PublishPin, TypeOK
  <1>6. CASE ClearPin
    <2>1. /\ DOMAIN pinStates' = DOMAIN pinStates
          /\ pinStates' \in [DOMAIN pinStates' -> {-1, 0, 1}]
      BY <1>6, PutType DEF ClearPin, TypeOK
    <2> QED
      BY <1>6, <2>1, GpioAssumption DEF ClearPin, TypeOK
  <1>7. ASSUME NEW c \in Command, SendCommand(c) PROVE TypeOK'
    BY <1>7 DEF SendCommand, Stream!Send, TypeOK
  <1>8. CASE Receive
    <2>1. wire' \in Seq(Command) /\ got' \in Nat
      BY <1>8, HandOverType DEF Receive
    <2>2. handed'.packet \in Command
      BY <1>8, Piece DEF Receive
    <2>3. output' \subseteq Output /\ UNCHANGED inputVars
      BY <1>8, <2>2 DEF Receive, TypeOK, Output
    <2> QED
      BY <2>1, <2>3 DEF TypeOK
  <1>9. CASE ConnectionBreaks
    BY <1>9, EmptyStream DEF ConnectionBreaks, TypeOK
  <1>10. CASE Restart
    BY <1>10, EmptyStream DEF Restart, TypeOK
  <1>11. CASE UNCHANGED vars
    BY <1>11 DEF vars, TypeOK
  <1> QED
    BY <1>1, <1>2, <1>3, <1>4, <1>5, <1>6, <1>7, <1>8, <1>9, <1>10, <1>11 DEF Next

\* Every variable keeps its type, and the loop visits stored pins only.
THEOREM GpioTypeCorrect == Spec => []TypeOK
  BY InitTypeOK, NextTypeOK, PTL DEF Spec

-----------------------------------------------------------------------------
\* An input that had an interrupt keeps its latest state from the interrupt to the
\* publishing and beyond.
LEMMA NextFaithful ==
  TypeOK /\ PinInv /\ InputsFaithful /\ [Next]_vars => PinInv' /\ InputsFaithful'
  <1> SUFFICES ASSUME TypeOK, PinInv, InputsFaithful, [Next]_vars
               PROVE  PinInv' /\ InputsFaithful'
    OBVIOUS
  <1> USE DEF inputVars, stream, PinInv, InputsFaithful, Latest, State
  <1>1. ASSUME NEW i \in Input, Edge(i) PROVE PinInv' /\ InputsFaithful'
    BY <1>1 DEF Edge, TypeOK
  <1>2. ASSUME NEW i \in Input, Interrupt(i) PROVE PinInv' /\ InputsFaithful'
    <2>1. pinStates' = Put(i, State(i)) /\ State(i) \in {0, 1}
      BY <1>2, StateType DEF Interrupt
    <2>2. /\ DOMAIN pinStates' = DOMAIN pinStates \cup {i}
          /\ pinStates'[i] = State(i)
          /\ \A p \in DOMAIN pinStates : p # i => pinStates'[p] = pinStates[p]
      BY <2>1, PutType
    <2>3. PinInv'
      BY <1>2, <2>2 DEF Interrupt, TypeOK
    <2>4. InputsFaithful'
      BY <1>2, <2>1, <2>2 DEF Interrupt, TypeOK
    <2> QED
      BY <2>3, <2>4
  <1>3. ASSUME NEW i \in Input, StoreInitial(i) PROVE PinInv' /\ InputsFaithful'
    <2>1. /\ DOMAIN pinStates' = DOMAIN pinStates \cup {i}
          /\ \A p \in DOMAIN pinStates : p # i => pinStates'[p] = pinStates[p]
      BY <1>3, PutType DEF StoreInitial
    <2>2. at = "none" /\ todo = {}
      BY <1>3 DEF StoreInitial
    <2> QED
      BY <1>3, <2>1, <2>2 DEF StoreInitial, TypeOK
  <1>4. CASE BeginPins
    BY <1>4 DEF BeginPins
  <1>5. ASSUME NEW i \in Input, NEW ok \in BOOLEAN, PublishPin(i, ok)
        PROVE  PinInv' /\ InputsFaithful'
    BY <1>5 DEF PublishPin, TypeOK
  <1>6. CASE ClearPin
    <2>0. at \in DOMAIN pinStates /\ at \in Input /\ -1 \in {-1, 0, 1}
      BY <1>6 DEF ClearPin, TypeOK
    <2>1. /\ DOMAIN pinStates' = DOMAIN pinStates
          /\ pinStates'[at] = -1
          /\ \A p \in DOMAIN pinStates : p # at => pinStates'[p] = pinStates[p]
      BY <1>6, <2>0, PutType DEF ClearPin
    <2> QED
      BY <1>6, <2>0, <2>1 DEF ClearPin, TypeOK
  <1>7. ASSUME NEW c \in Command, SendCommand(c) PROVE PinInv' /\ InputsFaithful'
    BY <1>7 DEF SendCommand
  <1>8. CASE Receive \/ ConnectionBreaks
    BY <1>8 DEF Receive, ConnectionBreaks
  <1>9. CASE Restart
    BY <1>9 DEF Restart
  <1>10. CASE UNCHANGED vars
    BY <1>10 DEF vars
  <1> QED
    BY <1>1, <1>2, <1>3, <1>4, <1>5, <1>6, <1>7, <1>8, <1>9, <1>10 DEF Next

\* A state of an input is lost in the three ways only that missed counts: however
\* else interrupts and ntw interleave, it waits or is the one published last.
THEOREM InputStatesAreFaithful == Spec => []InputsFaithful
  <1>1. Init => PinInv /\ InputsFaithful
    BY DEF Init, PinInv, InputsFaithful
  <1> QED
    BY <1>1, GpioTypeCorrect, NextFaithful, PTL DEF Spec

-----------------------------------------------------------------------------
\* The first element of a sequence of one element is all of it.
LEMMA WholeOfOne ==
  ASSUME NEW S, NEW s \in Seq(S), Len(s) = 1
  PROVE  SubSeq(s, 1, 1) = s
  <1>1. s = [i \in 1..1 |-> s[i]]
    OBVIOUS
  <1>2. SubSeq(s, 1, 1) = [i \in 1..1 |-> s[i]]
    <2>1. SubSeq(s, 1, 1) = [i \in 1..1 |-> s[i + 1 - 1]]
      OBVIOUS
    <2>2. \A i \in 1..1 : s[i + 1 - 1] = s[i]
      OBVIOUS
    <2> QED
      BY <2>1, <2>2
  <1> QED
    BY <1>1, <1>2

\* A payload of one byte at most is handed over whole.
LEMMA ShortPayloadIsWhole ==
  ASSUME TypeOK, Receive,
         handed'.to = handed'.packet.body, handed'.to <= 1
  PROVE  /\ handed'.packet \in Command
         /\ SubSeq(handed'.packet.payload, handed'.from + 1, handed'.to)
              = handed'.packet.payload
  <1> DEFINE s == Head(wire).payload
  <1>1. /\ handed'.packet = Head(wire) /\ handed'.from = got
        /\ handed'.to = Head(wire).body
        /\ Head(wire) \in Command
        /\ Head(wire).body > 0 => handed'.to > got
    BY Piece DEF Receive
  <1>2. s \in Seq(STRING) /\ handed'.to = Len(s) /\ got \in Nat
    BY <1>1, GpioAssumption DEF TypeOK
  <1>3. CASE Len(s) = 0
    <2>1. SubSeq(s, got + 1, 0) = <<>> /\ s = <<>>
      BY <1>2, <1>3
    <2> QED
      BY <1>1, <1>2, <1>3, <2>1
  <1>4. CASE Len(s) = 1
    <2>1. got = 0
      <3>1. Head(wire).body = 1
        BY <1>1, <1>2, <1>4
      <3>2. 1 > got
        BY <1>1, <3>1
      <3> QED
        BY <1>2, <3>2
    <2>2. SubSeq(s, 1, 1) = s
      BY <1>2, <1>4, WholeOfOne
    <2> QED
      BY <1>1, <1>2, <1>4, <2>1, <2>2
  <1> QED
    BY <1>1, <1>2, <1>3, <1>4

LEMMA NextFollows == TypeOK /\ OutputFollows /\ [Next]_vars => OutputFollows'
  <1> SUFFICES ASSUME TypeOK, OutputFollows, [Next]_vars PROVE OutputFollows'
    OBVIOUS
  <1>1. CASE Receive
    <2> SUFFICES ASSUME handed'.to = handed'.packet.body, handed'.to <= 1
                 PROVE  handed'.packet.pin \in output'
                          <=> handed'.packet.payload = <<"1">>
      BY DEF OutputFollows
    <2>1. SubSeq(handed'.packet.payload, handed'.from + 1, handed'.to)
            = handed'.packet.payload
      BY <1>1, ShortPayloadIsWhole
    <2> QED
      BY <1>1, <2>1 DEF Receive
  <1>2. CASE ConnectionBreaks \/ Restart
    BY <1>2 DEF ConnectionBreaks, Restart, Stream!Break, OutputFollows
  <1>3. CASE handed' = handed /\ output' = output
    BY <1>3 DEF OutputFollows
  <1>4. ASSUME NEW i \in Input, Edge(i) \/ Interrupt(i) \/ StoreInitial(i)
        PROVE  handed' = handed /\ output' = output
    BY <1>4 DEF Edge, Interrupt, StoreInitial, stream
  <1>5. ASSUME NEW i \in Input, NEW ok \in BOOLEAN, PublishPin(i, ok)
        PROVE  handed' = handed /\ output' = output
    BY <1>5 DEF PublishPin, stream
  <1>6. CASE BeginPins \/ ClearPin
    BY <1>3, <1>6 DEF BeginPins, ClearPin, stream
  <1>7. ASSUME NEW c \in Command, SendCommand(c)
        PROVE  handed' = handed /\ output' = output
    BY <1>7 DEF SendCommand, Stream!Send
  <1>8. CASE UNCHANGED vars
    BY <1>3, <1>8 DEF vars, stream
  <1> QED
    BY <1>1, <1>2, <1>3, <1>4, <1>5, <1>6, <1>7, <1>8 DEF Next

\* A command of one character or none has switched its output when its last byte
\* is handed over, in whatever pieces the commands around it came.
THEOREM OutputsFollowCommands == Spec => []OutputFollows
  <1>1. Init => OutputFollows
    BY DEF Init, Stream!Init, OutputFollows
  <1> QED
    BY <1>1, GpioTypeCorrect, NextFollows, PTL DEF Spec
=============================================================================
