-------------------------------- MODULE Parser --------------------------------
(***************************************************************************)
(* The receiving side of the MQTT client: _checkIncoming reads what the    *)
(* transport has into a buffer and feeds it to the parser, a machine whose *)
(* state is the function that takes the next byte (Packets/Parser.cpp).    *)
(* Packets arrive cut at any byte; what the parser keeps of one must       *)
(* outlive the buffer, and nothing of it may reach the next packet or the  *)
(* next connection.                                                        *)
(*                                                                         *)
(* A step is one call of the state function, with what _checkIncoming does *)
(* on its result.  The numbers are those of the protocol: bytes, lengths   *)
(* in base 128, types with their flags.                                    *)
(***************************************************************************)
EXTENDS Integers, Sequences, SequencesExt

CONSTANTS
  Packet,          \* what the broker sends after its CONNACK
  Refusals,        \* the return codes its CONNACK may have, 0 among them
  MaxTopicLength,  \* EMC_MAX_TOPIC_LENGTH, 128
  PayloadBuffer,   \* EMC_PAYLOAD_BUFFER_SIZE, 32
  ReadSizes,       \* what one read may return, up to EMC_RX_BUFFER_SIZE
  MaxWire          \* bound: packets under way

CONNACK == 32
PUBLISH == 48
PUBACK == 64
SUBACK == 144
PINGRESP == 208

\* PUBACK, PUBREC, PUBREL, PUBCOMP and UNSUBACK with their reserved flags
IdOnly == {64, 80, 98, 112, 176}

IsPublish(type) == type \in PUBLISH .. PUBLISH + 15

\* the two bits of the QoS in the flags
HasId(type) == (type \div 2) % 4 # 0

(***************************************************************************)
(* The bytes of a packet.  The two bytes of "fixed" are a packet id, or in *)
(* a CONNACK the session flag and the return code, as in the union of      *)
(* IncomingPacket.  What the topic and the payload say is left out.        *)
(***************************************************************************)
Weight == <<1, 128, 16384, 2097152>>

LengthBytes(n) == IF n < 128 THEN 1 ELSE IF n < 16384 THEN 2
                  ELSE IF n < 2097152 THEN 3 ELSE 4

EncodeLength(n) ==
  [k \in 1 .. LengthBytes(n) |->
     ((n \div Weight[k]) % 128) + (IF k < LengthBytes(n) THEN 128 ELSE 0)]

DecodeLength(bytes) ==
  LET part(k) == IF k \in DOMAIN bytes THEN (bytes[k] % 128) * Weight[k] ELSE 0
  IN part(1) + part(2) + part(3) + part(4)

TwoBytes(n) == <<n \div 256, n % 256>>
Bytes(n, b) == [i \in 1 .. n |-> b]

VarHeader(p) ==
  CASE p.type = PINGRESP -> <<>>
    [] IsPublish(p.type) ->
         TwoBytes(p.topic) \o Bytes(p.topic, 116)
           \o (IF HasId(p.type) THEN TwoBytes(p.fixed) ELSE <<>>)
    [] OTHER -> TwoBytes(p.fixed)

\* A payload byte is a character, or a granted QoS of a SUBACK.
Encode(p) ==
  LET rest == VarHeader(p) \o Bytes(p.body, IF p.type = SUBACK THEN 1 ELSE 49)
  IN <<p.type>> \o EncodeLength(Len(rest)) \o rest

Size(p) == Len(Encode(p))

Connack(session, code) ==
  [type |-> CONNACK, topic |-> 0, fixed |-> 256 * session + code, body |-> 0]

Answers == {Connack(s, c) : s \in {0, 1}, c \in Refusals}

\* The broker keeps to the protocol, and to what the buffers of the client hold:
\* a topic of MaxTopicLength, the codes of PayloadBuffer - 1 subscriptions.
MostRemaining == 268435455
Byte8 == 0 .. 255
Byte16 == 0 .. 65535

Valid(p) ==
  /\ p \in [type : Byte8, topic : Byte16, fixed : Byte16, body : Nat]
  /\ p.topic + p.body + 4 <= MostRemaining
  /\ \/ /\ IsPublish(p.type) /\ p.type - PUBLISH \notin 6 .. 9
        /\ p.topic \in 1 .. MaxTopicLength
        /\ HasId(p.type) <=> p.fixed # 0
     \/ /\ p.topic = 0
        /\ \/ p.type = SUBACK /\ p.fixed # 0 /\ p.body \in 1 .. PayloadBuffer - 1
           \/ p.type \in IdOnly /\ p.fixed # 0 /\ p.body = 0
           \/ p.type = PINGRESP /\ p.fixed = 0 /\ p.body = 0

ASSUME ParserAssumption ==
  /\ \A p \in Packet : Valid(p)
  /\ Refusals \subseteq 0 .. 5
  /\ MaxTopicLength \in Nat /\ PayloadBuffer \in Nat /\ ReadSizes \subseteq Nat

VARIABLES
  state,    \* MqttClient::_state, as far as receiving goes
  parse,    \* Parser::_parse, the state function
  pkt,      \* Parser::_packet
  raw,      \* remainingLengthRaw; while it fills, _bytePos counts it
  bytePos,  \* Parser::_bytePos
  buf,      \* remainingBufferLength: bytes read and not yet parsed
  wire,     \* packets the broker sent of which a byte is not yet parsed
  off,      \* bytes of the first of them that are parsed
  greeted,  \* the broker has sent its CONNACK
  handed    \* what was handed over last, and whether a PUBACK went with it

parserVars == <<parse, pkt, raw, bytePos>>
streamVars == <<wire, off, greeted>>
vars == <<state, parserVars, buf, streamVars, handed>>

EmptyPacket == [type |-> 0, remaining |-> 0, topicLength |-> 0, fixed |-> 0,
                index |-> 0, length |-> 0, total |-> 0]

Nothing == [packet |-> <<>>, from |-> 0, to |-> 0, ack |-> FALSE]

Init ==
  /\ state = "down"
  /\ parse = "fixedHeader" /\ pkt = EmptyPacket /\ raw = <<>> /\ bytePos = 0
  /\ buf = 0
  /\ wire = <<>> /\ off = 0 /\ greeted = FALSE
  /\ handed = Nothing

\* IncomingPacket::reset leaves the remaining length and the total.
ResetPacket ==
  [pkt EXCEPT !.type = 0, !.topicLength = 0, !.fixed = 0, !.index = 0, !.length = 0]

(***************************************************************************)
(* The connection and the broker                                           *)
(***************************************************************************)

\* A reconnect that goes on in the middle of a packet.
ConnectUnreset ==
  /\ state = "down"
  /\ state' = "connectingMqtt"
  /\ UNCHANGED <<parserVars, buf, streamVars, handed>>

\* loop() in connectingTcp2
Connect ==
  /\ state = "down"
  /\ state' = "connectingMqtt"
  /\ parse' = "fixedHeader" /\ bytePos' = 0 /\ pkt' = ResetPacket
  /\ UNCHANGED <<raw, buf, streamVars, handed>>

\* A refused connection is closed by the broker.
Send(p) ==
  /\ state \in {"connectingMqtt", "connected"}
  /\ Len(wire) < MaxWire
  /\ IF greeted THEN state = "connected" /\ p \in Packet
                ELSE p \in Answers
  /\ wire' = Append(wire, p)
  /\ greeted' = TRUE
  /\ UNCHANGED <<state, parserVars, buf, off, handed>>

\* disconnectingTcp1 and 2, reached by an error or for a connection that is
\* gone; what was under way is lost.
Stop ==
  /\ state # "down" /\ buf = 0
  /\ state' = "down"
  /\ wire' = <<>> /\ off' = 0 /\ greeted' = FALSE
  /\ handed' = Nothing
  /\ UNCHANGED <<parserVars, buf>>

Arrived == FoldSeq(LAMBDA p, n : Size(p) + n, 0, wire) - off

\* _checkIncoming reads what is there of the bytes sent.
Read(n) ==
  /\ state \in {"connectingMqtt", "connected"}
  /\ buf = 0 /\ n <= Arrived
  /\ buf' = n
  /\ UNCHANGED <<state, parserVars, streamVars, handed>>

(***************************************************************************)
(* Results of a state function, and what _checkIncoming does on them       *)
(***************************************************************************)

\* The buffer is not empty; its bytes are the next of those sent.
More == buf > 0 /\ wire # <<>>
Byte == Encode(Head(wire))[off + 1]

\* n bytes are parsed.
Take(n) ==
  /\ greeted' = greeted
  /\ IF off + n < Size(Head(wire))
       THEN off' = off + n /\ UNCHANGED wire
       ELSE off' = off + n - Size(Head(wire)) /\ wire' = Tail(wire)

AwaitData == Take(1) /\ buf' = buf - 1 /\ UNCHANGED <<state, handed>>

\* The connection is given up and the rest of the buffer with it.
ProtocolError == Take(1) /\ buf' = 0 /\ state' = "closing" /\ UNCHANGED handed

\* What the handlers read of the packet: of a SUBACK the whole payload.
Decoded(k) ==
  [type |-> k.type, topic |-> k.topicLength, fixed |-> k.fixed,
   body |-> IF k.type = SUBACK \/ IsPublish(k.type) THEN k.total ELSE 0]

\* Every piece is acknowledged.
HandOverAcked(k) ==
  [packet |-> Decoded(k),
   from |-> IF IsPublish(k.type) THEN k.index ELSE 0,
   to |-> IF IsPublish(k.type) THEN k.index + k.length ELSE Decoded(k).body,
   ack |-> IsPublish(k.type) /\ (k.type \div 2) % 4 = 1]

HandOver(k) ==
  LET last == k.index + k.length = k.total
  IN [packet |-> Decoded(k),
      from |-> IF IsPublish(k.type) THEN k.index ELSE 0,
      to |-> IF IsPublish(k.type) THEN k.index + k.length ELSE Decoded(k).body,
      ack |-> IsPublish(k.type) /\ (k.type \div 2) % 4 = 1 /\ last]

\* The packet k, or a piece of it, with the n bytes it ended with: _onConnack
\* connects or gives up, any other packet is too early before it.
PacketResult(k, n) ==
  /\ Take(n)
  /\ IF k.type = CONNACK
       THEN /\ state' = IF k.fixed % 256 = 0 THEN "connected" ELSE "closing"
            /\ handed' = HandOver(k)
       ELSE IF state = "connectingMqtt"
         THEN state' = "closing" /\ UNCHANGED handed
         ELSE state' = state /\ handed' = HandOver(k)
  /\ buf' = IF state' = "closing" THEN 0 ELSE buf - n

(***************************************************************************)
(* The state functions                                                     *)
(***************************************************************************)

In(function) == parse = function /\ More

\* QoS 3 and a dup without a QoS are refused.
Variable(b) == b = SUBACK \/ (IsPublish(b) /\ b - PUBLISH \notin 6 .. 9)
Fixed(b) == b \in IdOnly \cup {CONNACK}

FixedHeader ==
  /\ In("fixedHeader")
  /\ pkt' = [ResetPacket EXCEPT !.type = Byte]
  /\ \/ /\ Variable(Byte)
        /\ parse' = "remainingLengthVariable" /\ raw' = <<>>
        /\ AwaitData
     \/ /\ Fixed(Byte)
        /\ parse' = "remainingLengthFixed" /\ UNCHANGED raw
        /\ AwaitData
     \/ /\ Byte = PINGRESP
        /\ parse' = "remainingLengthNone" /\ UNCHANGED raw
        /\ AwaitData
     \/ /\ ~(Variable(Byte) \/ Fixed(Byte) \/ Byte = PINGRESP)
        /\ UNCHANGED <<parse, raw>>
        /\ ProtocolError
  /\ UNCHANGED bytePos

RemainingLengthFixed ==
  /\ In("remainingLengthFixed")
  /\ pkt' = [pkt EXCEPT !.remaining = Byte]
  /\ IF Byte = 2
       THEN /\ parse' = IF pkt.type = CONNACK THEN "varHeaderConnack1"
                                              ELSE "varHeaderPacketId1"
            /\ AwaitData
       ELSE parse' = "fixedHeader" /\ ProtocolError
  /\ UNCHANGED <<raw, bytePos>>

\* A byte that another follows.
RemainingLengthMore ==
  /\ In("remainingLengthVariable") /\ Byte >= 128
  /\ raw' = Append(raw, Byte)
  /\ IF Len(raw') = 4 THEN ProtocolError ELSE AwaitData
  /\ UNCHANGED <<parse, pkt, bytePos>>

\* The last byte: the payload of a SUBACK must fit its buffer.
RemainingLengthLast ==
  /\ In("remainingLengthVariable") /\ Byte < 128
  /\ raw' = <<>>
  /\ LET n == DecodeLength(Append(raw, Byte))
         known == [pkt EXCEPT !.remaining = n]
     IN \/ /\ IsPublish(pkt.type)
           /\ pkt' = known /\ parse' = "varHeaderTopicLength1"
           /\ AwaitData /\ UNCHANGED bytePos
        \/ /\ ~IsPublish(pkt.type) /\ n - 2 \in 1 .. PayloadBuffer - 1
           /\ pkt' = [known EXCEPT !.index = 0, !.length = n - 2, !.total = n - 2]
           /\ parse' = "varHeaderPacketId1" /\ bytePos' = 0
           /\ AwaitData
        \/ /\ ~IsPublish(pkt.type) /\ n - 2 \notin 1 .. PayloadBuffer - 1
           /\ pkt' = known /\ parse' = "fixedHeader"
           /\ ProtocolError /\ UNCHANGED bytePos

RemainingLengthNone ==
  /\ In("remainingLengthNone")
  /\ pkt' = [pkt EXCEPT !.remaining = Byte]
  /\ parse' = "fixedHeader"
  /\ IF Byte = 0 THEN PacketResult(pkt', 1) ELSE ProtocolError
  /\ UNCHANGED <<raw, bytePos>>

VarHeaderConnack1 ==
  /\ In("varHeaderConnack1")
  /\ IF Byte < 2
       THEN /\ pkt' = [pkt EXCEPT !.fixed = 256 * Byte]
            /\ parse' = "varHeaderConnack2"
            /\ AwaitData
       ELSE parse' = "fixedHeader" /\ ProtocolError /\ UNCHANGED pkt
  /\ UNCHANGED <<raw, bytePos>>

VarHeaderConnack2 ==
  /\ In("varHeaderConnack2")
  /\ parse' = "fixedHeader"
  /\ IF Byte <= 5
       THEN pkt' = [pkt EXCEPT !.fixed = @ + Byte] /\ PacketResult(pkt', 1)
       ELSE ProtocolError /\ UNCHANGED pkt
  /\ UNCHANGED <<raw, bytePos>>

VarHeaderPacketId1 ==
  /\ In("varHeaderPacketId1")
  /\ pkt' = [pkt EXCEPT !.fixed = @ + 256 * Byte]
  /\ parse' = "varHeaderPacketId2"
  /\ AwaitData
  /\ UNCHANGED <<raw, bytePos>>

\* An empty payload that is waited for.
PacketId2ThenPayload ==
  /\ In("varHeaderPacketId2")
  /\ pkt' = [pkt EXCEPT !.fixed = @ + Byte,
                        !.total = IF IsPublish(pkt.type) THEN @ - 2 ELSE @]
  /\ IF pkt.type = SUBACK \/ IsPublish(pkt.type)
       THEN /\ parse' = IF pkt.type = SUBACK THEN "payloadSuback" ELSE "payloadPublish"
            /\ AwaitData
       ELSE parse' = "fixedHeader" /\ PacketResult(pkt', 1)
  /\ UNCHANGED <<raw, bytePos>>

\* What follows the id: the codes of a SUBACK, the payload of a PUBLISH unless
\* it is empty, or nothing.
VarHeaderPacketId2 ==
  /\ In("varHeaderPacketId2")
  /\ LET id == pkt.fixed + Byte
         known == [pkt EXCEPT !.fixed = id]
         left == IF IsPublish(pkt.type) THEN pkt.total - 2 ELSE 0
     IN \/ /\ id = 0
           /\ pkt' = known /\ parse' = "fixedHeader"
           /\ ProtocolError
        \/ /\ id # 0 /\ pkt.type = SUBACK
           /\ pkt' = known /\ parse' = "payloadSuback"
           /\ AwaitData
        \/ /\ id # 0 /\ IsPublish(pkt.type) /\ left # 0
           /\ pkt' = [known EXCEPT !.total = left] /\ parse' = "payloadPublish"
           /\ AwaitData
        \/ /\ id # 0 /\ pkt.type # SUBACK /\ left = 0
           /\ pkt' = IF IsPublish(pkt.type) THEN [known EXCEPT !.total = 0] ELSE known
           /\ parse' = "fixedHeader"
           /\ PacketResult(pkt', 1)
  /\ UNCHANGED <<raw, bytePos>>

VarHeaderTopicLength1 ==
  /\ In("varHeaderTopicLength1")
  /\ pkt' = [pkt EXCEPT !.topicLength = 256 * Byte]
  /\ parse' = "varHeaderTopicLength2"
  /\ AwaitData
  /\ UNCHANGED <<raw, bytePos>>

\* The id is subtracted of every PUBLISH.
TopicLength2LessId ==
  /\ In("varHeaderTopicLength2")
  /\ pkt' = [pkt EXCEPT !.topicLength = @ + Byte,
                        !.total = pkt.remaining - 4 - (pkt.topicLength + Byte)]
  /\ parse' = "varHeaderTopic" /\ bytePos' = 0
  /\ AwaitData
  /\ UNCHANGED raw

\* The topic must leave room for the id.  The code subtracts unsigned numbers; a
\* broker that keeps to the protocol leaves 2 bytes and the id at least.
VarHeaderTopicLength2 ==
  /\ In("varHeaderTopicLength2")
  /\ LET topicLength == pkt.topicLength + Byte
         left == pkt.remaining - 2 - topicLength
     IN IF left >= (IF HasId(pkt.type) THEN 2 ELSE 0)
          THEN /\ pkt' = [pkt EXCEPT !.topicLength = topicLength, !.total = left]
               /\ parse' = "varHeaderTopic" /\ bytePos' = 0
               /\ AwaitData
          ELSE /\ pkt' = [pkt EXCEPT !.topicLength = topicLength]
               /\ parse' = "fixedHeader"
               /\ ProtocolError /\ UNCHANGED bytePos
  /\ UNCHANGED raw

\* The topic ends, or its buffer does: what is left of the topic then is taken
\* for what follows it.
VarHeaderTopic ==
  /\ In("varHeaderTopic")
  /\ bytePos' = bytePos + 1
  /\ \/ /\ bytePos' \notin {pkt.topicLength, MaxTopicLength}
        /\ AwaitData /\ UNCHANGED parse
     \/ /\ bytePos' \in {pkt.topicLength, MaxTopicLength}
        /\ HasId(pkt.type) \/ pkt.total # 0
        /\ parse' = IF HasId(pkt.type) THEN "varHeaderPacketId1" ELSE "payloadPublish"
        /\ AwaitData
     \/ /\ bytePos' \in {pkt.topicLength, MaxTopicLength}
        /\ ~HasId(pkt.type) /\ pkt.total = 0
        /\ parse' = "fixedHeader"
        /\ PacketResult(pkt, 1)
  /\ UNCHANGED <<pkt, raw>>

PayloadSuback ==
  /\ In("payloadSuback")
  /\ IF Byte \in 0 .. 2 \cup {128}
       THEN /\ bytePos' = bytePos + 1
            /\ IF bytePos' = pkt.total
                 THEN parse' = "fixedHeader" /\ PacketResult(pkt, 1)
                 ELSE AwaitData /\ UNCHANGED parse
       ELSE parse' = "fixedHeader" /\ ProtocolError /\ UNCHANGED bytePos
  /\ UNCHANGED <<pkt, raw>>

\* As much of the payload as is in the buffer is handed over at once.
PayloadPublish ==
  /\ In("payloadPublish")
  /\ LET index == pkt.index + pkt.length
         left == pkt.total - index
         length == IF buf < left THEN buf ELSE left
     IN /\ pkt' = [pkt EXCEPT !.index = index, !.length = length]
        /\ parse' = IF length = left THEN "fixedHeader" ELSE parse
        /\ PacketResult(pkt', length)
  /\ UNCHANGED <<raw, bytePos>>

ParseByte ==
  \/ FixedHeader
  \/ RemainingLengthFixed \/ RemainingLengthMore \/ RemainingLengthLast
  \/ RemainingLengthNone
  \/ VarHeaderConnack1 \/ VarHeaderConnack2
  \/ VarHeaderPacketId1 \/ VarHeaderPacketId2
  \/ VarHeaderTopicLength1 \/ VarHeaderTopicLength2 \/ VarHeaderTopic
  \/ PayloadSuback \/ PayloadPublish

Next ==
  \/ Connect \/ Stop
  \/ \E p \in Packet \cup Answers : Send(p)
  \/ \E n \in ReadSizes : Read(n)
  \/ ParseByte

Spec == Init /\ [][Next]_vars

\* The client reads on as long as the connection lasts.
FairSpec == Spec /\ WF_vars(\E n \in ReadSizes : Read(n)) /\ WF_vars(ParseByte)

(***************************************************************************)
(* Properties                                                              *)
(***************************************************************************)

ParseStates ==
  {"fixedHeader", "remainingLengthFixed", "remainingLengthVariable",
   "remainingLengthNone", "varHeaderConnack1", "varHeaderConnack2",
   "varHeaderPacketId1", "varHeaderPacketId2", "varHeaderTopicLength1",
   "varHeaderTopicLength2", "varHeaderTopic", "payloadSuback", "payloadPublish"}

IncomingPacket ==
  [type : Byte8, remaining : Nat, topicLength : Byte16, fixed : Byte16,
   index : Nat, length : Nat, total : Nat]

ParserTypeOK ==
  /\ parse \in ParseStates /\ pkt \in IncomingPacket
  /\ raw \in Seq(Byte8) /\ Len(raw) <= 4 /\ bytePos \in Nat

TypeOK ==
  /\ state \in {"down", "connectingMqtt", "connected", "closing"}
  /\ ParserTypeOK
  /\ buf \in Nat
  /\ wire \in Seq(Packet \cup Answers)
  /\ off \in Nat /\ greeted \in BOOLEAN

\* However the bytes are cut, what the client is handed is what was sent: the
\* packets in order, the payload without a gap, the PUBACK with the last piece,
\* and nothing of a connection that is gone (Parser.cpp:304, MqttClient.cpp:508).
InPieces(p) == IsPublish(p.type)
Acknowledged(p) == IsPublish(p.type) /\ (p.type \div 2) % 4 = 1
Stream == INSTANCE PacketStream
            WITH Packet <- Packet \cup Answers,
                 got <- IF parse = "payloadPublish" /\ state # "down"
                          THEN pkt.index + pkt.length ELSE 0
IsStream == Stream!Spec

\* A broker that keeps to the protocol never meets a protocol error: the client
\* gives a connection up only when it was refused (MqttClient.cpp:428).
OnlyRefusalCloses ==
  state = "closing" =>
    /\ handed # Nothing
    /\ handed.packet.type = CONNACK /\ handed.packet.fixed % 256 # 0

\* Once the broker is silent all it sent has been handed over, or is gone with
\* its connection: the parser never waits for bytes that belong to no packet.
AllHandedOver ==
  <>[][Len(wire') <= Len(wire)]_vars =>
    <>[](state \in {"connectingMqtt", "connected"} =>
           wire = <<>> /\ parse = "fixedHeader")

(***************************************************************************)
(* The invariant of ParserProofs: how far the state function is in the      *)
(* packet, what it has made of the bytes so far, and what the broker can    *)
(* have sent by then.                                                       *)
(***************************************************************************)

Remaining(p) == Len(VarHeader(p)) + p.body
HeaderSize(p) == 1 + LengthBytes(Remaining(p))
High(n) == 256 * (n \div 256)

\* The states that read a packet id, a topic length, and a payload.
IdStates == {"varHeaderPacketId1", "varHeaderPacketId2"}
TopicLengthStates == {"varHeaderTopicLength1", "varHeaderTopicLength2"}
PayloadStates == {"payloadSuback", "payloadPublish"}

\* The bytes of p that are parsed end where the state function starts.
AtState(p) ==
  LET payload == Size(p) - p.body IN
  /\ parse = "remainingLengthFixed" => Fixed(p.type) /\ off = 1
  /\ parse = "remainingLengthNone" => p.type = PINGRESP /\ off = 1
  /\ parse = "remainingLengthVariable" =>
       /\ Variable(p.type)
       /\ off = 1 + Len(raw) /\ Len(raw) < LengthBytes(Remaining(p))
       /\ \A k \in 1 .. Len(raw) : raw[k] = EncodeLength(Remaining(p))[k]
  /\ parse = "varHeaderConnack1" => p.type = CONNACK /\ off = 2
  /\ parse = "varHeaderConnack2" => p.type = CONNACK /\ off = 3
  /\ parse \in IdStates =>
       /\ p.type \in IdOnly \cup {SUBACK} \/ (IsPublish(p.type) /\ HasId(p.type))
       /\ off = payload - (IF parse = "varHeaderPacketId1" THEN 2 ELSE 1)
       /\ p.type = SUBACK => bytePos = 0
  /\ parse \in TopicLengthStates =>
       /\ IsPublish(p.type)
       /\ off = HeaderSize(p) + (IF parse = "varHeaderTopicLength1" THEN 0 ELSE 1)
  /\ parse = "varHeaderTopic" =>
       /\ IsPublish(p.type)
       /\ off = HeaderSize(p) + 2 + bytePos /\ bytePos < p.topic
  /\ parse = "payloadSuback" =>
       /\ p.type = SUBACK
       /\ off = payload + bytePos /\ bytePos < p.body
  /\ parse = "payloadPublish" =>
       /\ IsPublish(p.type)
       /\ off = payload + pkt.index + pkt.length /\ pkt.index + pkt.length < p.body

\* What these bytes say is in the packet, and nothing of an earlier packet is.
Parsed(p) ==
  /\ pkt.type = p.type
  /\ parse \in TopicLengthStates => pkt.remaining = Remaining(p)
  /\ pkt.topicLength =
       IF parse \in IdStates \cup PayloadStates \cup {"varHeaderTopic"} THEN p.topic
       ELSE IF parse = "varHeaderTopicLength2" THEN High(p.topic) ELSE 0
  /\ pkt.fixed =
       IF parse \in PayloadStates THEN p.fixed
       ELSE IF parse \in {"varHeaderConnack2", "varHeaderPacketId2"}
              THEN High(p.fixed) ELSE 0
  /\ parse # "payloadPublish" =>
       /\ pkt.index = 0
       /\ pkt.length = IF parse \in IdStates \cup PayloadStates /\ p.type = SUBACK
                         THEN p.body ELSE 0
  /\ parse \in IdStates \cup PayloadStates \cup {"varHeaderTopic"} /\ p.type \notin IdOnly =>
       pkt.total = p.body + (IF /\ parse \in IdStates \cup {"varHeaderTopic"}
                                /\ IsPublish(p.type) /\ HasId(p.type) THEN 2 ELSE 0)

PlaceInv ==
  state \in {"connectingMqtt", "connected"} =>
    IF parse = "fixedHeader" THEN off = 0
    ELSE wire # <<>> /\ AtState(Head(wire)) /\ Parsed(Head(wire))

ConnInv ==
  /\ state = "down" => wire = <<>> /\ off = 0 /\ ~greeted
  /\ state = "connectingMqtt" =>
       IF greeted THEN wire # <<>> /\ Head(wire) \in Answers /\ Tail(wire) = <<>>
                  ELSE wire = <<>>
  /\ state = "connected" => greeted /\ wire \in Seq(Packet)
  /\ state = "closing" => buf = 0 /\ parse = "fixedHeader"
===============================================================================
