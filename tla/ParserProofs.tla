----------------------------- MODULE ParserProofs -----------------------------
(***************************************************************************)
(* Theorems about Parser, for any packets of a broker that keeps to the    *)
(* protocol, cut in any way.                                               *)
(*                                                                         *)
(* PlaceInv says where in the first packet under way the state function    *)
(* is, and what has been made of the bytes before.  First come lemmas on   *)
(* the bytes of a packet: its layout, by the shapes of packets there are.  *)
(* Then one for each state function: from that place it Advances within    *)
(* the packet p, Completes it or hands over a Piece of its payload, and in *)
(* no case meets an error.  Each of the three keeps the invariant and is a *)
(* step of PacketStream, or none.                                          *)
(***************************************************************************)
EXTENDS Parser, SequenceTheorems, TLAPS

Types == [type : Byte8, topic : Byte16, fixed : Byte16, body : Nat]

\* The numbers of a byte and of two.
LEMMA Ranges ==
  /\ Byte8 \subseteq Nat /\ Byte16 \subseteq Nat /\ Byte8 \subseteq Byte16
  /\ \A n \in Int : n \in Byte8 <=> 0 <= n /\ n <= 255
  /\ \A n \in Int : n \in Byte16 <=> 0 <= n /\ n <= 65535
  <1>1. \A n \in Int : n \in Byte8 <=> 0 <= n /\ n <= 255
    BY SMT DEF Byte8
  <1>2. \A n \in Int : n \in Byte16 <=> 0 <= n /\ n <= 65535
    BY SMT DEF Byte16
  <1>3. Byte8 \subseteq Nat /\ Byte16 \subseteq Nat
    BY SMT DEF Byte8, Byte16
  <1> QED
    BY <1>1, <1>2, <1>3

LEMMA Most == MostRemaining \in Nat /\ MostRemaining > 4
  BY SMT DEF MostRemaining

PublishShape(p) ==
  /\ IsPublish(p.type) /\ p.type - PUBLISH \notin 6 .. 9
  /\ p.topic \in 1 .. MaxTopicLength
  /\ HasId(p.type) <=> p.fixed # 0
SubackShape(p) ==
  /\ p.topic = 0 /\ p.type = SUBACK
  /\ p.fixed # 0 /\ p.body \in 1 .. PayloadBuffer - 1
AckShape(p) == p.topic = 0 /\ p.type \in IdOnly /\ p.fixed # 0 /\ p.body = 0
PingrespShape(p) == p.topic = 0 /\ p.type = PINGRESP /\ p.fixed = 0 /\ p.body = 0
ConnackShape(p) ==
  /\ p.topic = 0 /\ p.type = CONNACK /\ p.body = 0
  /\ p.fixed \div 256 < 2 /\ p.fixed % 256 <= 5

\* s is the m bytes of a, followed by the n bytes of b.
Joined(s, a, m, b, n) ==
  /\ s \in Seq(Byte8) /\ Len(s) = m + n
  /\ \A k \in 1 .. m : s[k] = a[k]
  /\ \A k \in 1 .. n : s[m + k] = b[k]

LEMMA Concat ==
  ASSUME NEW a, NEW b, a \in Seq(Byte8), b \in Seq(Byte8)
  PROVE  Joined(a \o b, a, Len(a), b, Len(b))
  <1> DEFINE m == Len(a)
             n == Len(b)
             s == a \o b
  <1>1. m \in Nat /\ n \in Nat
    OBVIOUS
  <1>2. /\ s \in Seq(Byte8) /\ Len(s) = m + n
        /\ \A k \in 1 .. m + n : s[k] = IF k <= m THEN a[k] ELSE b[k - m]
    BY ConcatProperties
  <1> HIDE DEF m, n, s
  <1>3. \A k \in 1 .. m : s[k] = a[k]
    BY <1>1, <1>2
  <1>4. \A k \in 1 .. n : m + k \in 1 .. m + n /\ ~(m + k <= m) /\ (m + k) - m = k
    BY <1>1
  <1>5. \A k \in 1 .. n : s[m + k] = b[k]
    BY <1>2, <1>4
  <1> QED
    BY <1>2, <1>3, <1>5 DEF Joined, m, n, s

\* What the broker sends is a packet of one of five shapes.
LEMMA PacketShape ==
  ASSUME NEW p \in Packet
  PROVE  /\ p \in Types /\ p.topic + p.body + 4 <= MostRemaining
         /\ PublishShape(p) \/ SubackShape(p) \/ AckShape(p) \/ PingrespShape(p)
  <1>1. Valid(p)
    BY ParserAssumption
  <1>2. p \in Types /\ p.topic + p.body + 4 <= MostRemaining
    BY <1>1 DEF Valid, Types
  <1>3. PublishShape(p) \/ SubackShape(p) \/ AckShape(p) \/ PingrespShape(p)
    BY <1>1 DEF Valid, PublishShape, SubackShape, AckShape, PingrespShape
  <1> QED
    BY <1>2, <1>3

LEMMA AnswerShape ==
  ASSUME NEW p \in Answers
  PROVE  /\ p \in Types /\ p.topic + p.body + 4 <= MostRemaining
         /\ ConnackShape(p)
  <1>1. PICK s \in {0, 1}, c \in Refusals : p = Connack(s, c)
    BY DEF Answers
  <1>2. c \in 0 .. 5
    BY ParserAssumption
  <1>3. p = [type |-> 32, topic |-> 0, fixed |-> 256 * s + c, body |-> 0]
    BY <1>1 DEF Connack, CONNACK
  <1>4. /\ 256 * s + c \in Byte16 /\ 32 \in Byte8 /\ 0 \in Byte16
        /\ (256 * s + c) \div 256 < 2 /\ (256 * s + c) % 256 <= 5
    BY <1>2, Ranges
  <1>5. p \in Types
    BY <1>3, <1>4 DEF Types
  <1>6. p.topic = 0 /\ p.type = 32 /\ p.body = 0 /\ p.fixed = 256 * s + c
    BY <1>3
  <1>7. p.topic + p.body + 4 <= MostRemaining
    BY <1>6, Most
  <1> QED
    BY <1>4, <1>5, <1>6, <1>7 DEF ConnackShape, CONNACK

\* A packet of one type is of no other.
LEMMA Disjoint ==
  /\ \A b \in IdOnly : b # CONNACK /\ b # SUBACK /\ b # PINGRESP /\ ~IsPublish(b)
  /\ ~IsPublish(CONNACK) /\ ~IsPublish(SUBACK) /\ ~IsPublish(PINGRESP)
  /\ CONNACK # SUBACK /\ CONNACK # PINGRESP /\ SUBACK # PINGRESP
  /\ CONNACK \notin IdOnly /\ SUBACK \notin IdOnly /\ PINGRESP \notin IdOnly
  BY DEF IdOnly, IsPublish, CONNACK, SUBACK, PINGRESP, PUBLISH

\* Two bytes are a number again.
LEMMA TwoBytesType ==
  ASSUME NEW n \in Byte16
  PROVE  /\ TwoBytes(n) \in Seq(Byte8) /\ Len(TwoBytes(n)) = 2
         /\ TwoBytes(n)[1] = n \div 256 /\ TwoBytes(n)[2] = n % 256
         /\ n = High(n) + (n % 256) /\ High(n) \in Byte16
         /\ n \div 256 \in Byte8 /\ n % 256 \in Byte8
  <1>1. n \in Nat /\ n <= 65535
    BY Ranges
  <1>2. /\ n \div 256 \in Nat /\ n \div 256 <= 255 /\ n % 256 \in Nat /\ n % 256 <= 255
        /\ n = 256 * (n \div 256) + (n % 256)
    BY <1>1
  <1>3. n \div 256 \in Byte8 /\ n % 256 \in Byte8
    BY <1>2, Ranges
  <1>4. High(n) \in Nat /\ High(n) <= 65535 /\ n = High(n) + (n % 256)
    BY <1>2, <1>1 DEF High
  <1>5. High(n) \in Byte16
    BY <1>4, Ranges
  <1> QED
    BY <1>3, <1>4, <1>5 DEF TwoBytes

LEMMA BytesType ==
  ASSUME NEW n \in Nat, NEW b \in Byte8
  PROVE  /\ Bytes(n, b) \in Seq(Byte8) /\ Len(Bytes(n, b)) = n
         /\ \A i \in 1 .. n : Bytes(n, b)[i] = b
  BY DEF Bytes

\* How many bytes a remaining length takes.
LEMMA LengthType ==
  ASSUME NEW n \in Nat, n <= MostRemaining
  PROVE  /\ LengthBytes(n) \in 1 .. 4
         /\ EncodeLength(n) \in Seq(Byte8) /\ Len(EncodeLength(n)) = LengthBytes(n)
         /\ \A k \in 1 .. LengthBytes(n) :
              /\ EncodeLength(n)[k] \in Byte8
              /\ EncodeLength(n)[k] >= 128 <=> k < LengthBytes(n)
  <1>1. LengthBytes(n) \in 1 .. 4
    BY SMT DEF LengthBytes
  <1>2. \A k \in 1 .. 4 : Weight[k] \in Nat \ {0}
    BY SMT DEF Weight
  <1>3. ASSUME NEW k \in 1 .. LengthBytes(n)
        PROVE  /\ EncodeLength(n)[k] = ((n \div Weight[k]) % 128)
                                         + (IF k < LengthBytes(n) THEN 128 ELSE 0)
               /\ EncodeLength(n)[k] \in Byte8
               /\ EncodeLength(n)[k] >= 128 <=> k < LengthBytes(n)
    <2>1. PICK w \in Nat \ {0} : w = Weight[k]
      BY <1>1, <1>2
    <2>2. (n \div w) \in Nat
      OBVIOUS
    <2>3. (n \div w) % 128 \in 0 .. 127
      BY <2>2
    <2>4. EncodeLength(n)[k] = ((n \div w) % 128)
                                  + (IF k < LengthBytes(n) THEN 128 ELSE 0)
      BY <2>1 DEF EncodeLength
    <2> QED
      BY <2>1, <2>3, <2>4, <1>1, Ranges
  <1>4. EncodeLength(n) \in Seq(Byte8) /\ Len(EncodeLength(n)) = LengthBytes(n)
    <2>1. EncodeLength(n) \in [1 .. LengthBytes(n) -> Byte8]
      BY <1>3 DEF EncodeLength
    <2> QED
      BY <2>1, <1>1
  <1> QED
    BY <1>1, <1>3, <1>4

\* decodeRemainingLength undoes encodeRemainingLength.
LEMMA LengthDecoded ==
  ASSUME NEW n \in Nat, n <= MostRemaining
  PROVE  DecodeLength(EncodeLength(n)) = n
  <1>1. /\ Weight[1] = 1 /\ Weight[2] = 128
        /\ Weight[3] = 16384 /\ Weight[4] = 2097152
    BY SMT DEF Weight
  <1>2. n = (n % 128) + 128 * ((n \div 128) % 128) + 16384 * ((n \div 16384) % 128)
              + 2097152 * ((n \div 2097152) % 128)
    BY SMT DEF MostRemaining
  <1> DEFINE digit(k) == (n \div Weight[k]) % 128
             part(k) == IF k \in DOMAIN EncodeLength(n)
                          THEN (EncodeLength(n)[k] % 128) * Weight[k] ELSE 0
  <1>3. DOMAIN EncodeLength(n) = 1 .. LengthBytes(n)
    BY DEF EncodeLength
  <1>4. \A k \in 1 .. 4 : digit(k) \in 0 .. 127
    BY SMT, <1>1
  <1>5. ASSUME NEW k \in 1 .. LengthBytes(n)
        PROVE  EncodeLength(n)[k] % 128 = digit(k)
    <2>1. k \in 1 .. 4
      BY LengthType
    <2>2. EncodeLength(n)[k] = digit(k) + (IF k < LengthBytes(n) THEN 128 ELSE 0)
      BY DEF EncodeLength
    <2> HIDE DEF digit
    <2> QED
      BY SMT, <2>1, <2>2, <1>4
  <1>6. \A k \in 1 .. 4 : k > LengthBytes(n) => digit(k) = 0
    BY SMT, <1>1 DEF LengthBytes, MostRemaining
  <1>7. \A k \in 1 .. 4 : part(k) = digit(k) * Weight[k]
    <2> HIDE DEF digit
    <2>1. LengthBytes(n) \in 1 .. 4
      BY LengthType
    <2> QED
      BY SMT, <1>1, <1>3, <1>5, <1>6, <2>1
  <1>8. DecodeLength(EncodeLength(n)) = part(1) + part(2) + part(3) + part(4)
    BY DEF DecodeLength
  <1>9. /\ digit(1) = n % 128 /\ digit(2) = (n \div 128) % 128
        /\ digit(3) = (n \div 16384) % 128 /\ digit(4) = (n \div 2097152) % 128
    BY SMT, <1>1
  <1> HIDE DEF part, digit
  <1> QED
    BY SMT, <1>1, <1>2, <1>7, <1>8, <1>9

(***************************************************************************)
(* Where what is in a packet.                                              *)
(***************************************************************************)

Shape(p) == \/ PublishShape(p) \/ SubackShape(p) \/ AckShape(p)
            \/ PingrespShape(p) \/ ConnackShape(p)

Sent(p) == p \in Types /\ p.topic + p.body + 4 <= MostRemaining /\ Shape(p)

\* Whatever is under way is of one of the five shapes.
LEMMA SentIs ==
  ASSUME NEW p \in Packet \cup Answers
  PROVE  Sent(p)
  BY PacketShape, AnswerShape DEF Sent, Shape

LEMMA SentType ==
  ASSUME NEW p, Sent(p)
  PROVE  /\ p.type \in Byte8 /\ p.topic \in Byte16 /\ p.fixed \in Byte16
         /\ p.type \in Nat /\ p.topic \in Nat /\ p.fixed \in Nat /\ p.body \in Nat
         /\ p = [type |-> p.type, topic |-> p.topic, fixed |-> p.fixed, body |-> p.body]
  <1>1. p \in Types
    BY DEF Sent
  <1>2. p = [type |-> p.type, topic |-> p.topic, fixed |-> p.fixed, body |-> p.body]
    BY <1>1 DEF Types
  <1>3. /\ p.type \in Byte8 /\ p.topic \in Byte16 /\ p.fixed \in Byte16
        /\ p.body \in Nat
    BY <1>1 DEF Types
  <1> QED
    BY <1>2, <1>3, Ranges

\* The variable header of a PUBLISH, with or without an id.
LEMMA PublishHeader ==
  ASSUME NEW p, Sent(p), IsPublish(p.type)
  PROVE  /\ VarHeader(p) \in Seq(Byte8)
         /\ Len(VarHeader(p)) = 2 + p.topic + (IF HasId(p.type) THEN 2 ELSE 0)
         /\ VarHeader(p)[1] = p.topic \div 256 /\ VarHeader(p)[2] = p.topic % 256
         /\ HasId(p.type) => /\ VarHeader(p)[p.topic + 3] = p.fixed \div 256
                             /\ VarHeader(p)[p.topic + 4] = p.fixed % 256
  <1> DEFINE id == IF HasId(p.type) THEN TwoBytes(p.fixed) ELSE <<>>
             a == TwoBytes(p.topic)
             b == Bytes(p.topic, 116)
  <1>0. p.topic \in Byte16 /\ p.fixed \in Byte16 /\ p.topic \in Nat /\ 116 \in Byte8
    BY SentType, Ranges
  <1>1. /\ a \in Seq(Byte8) /\ Len(a) = 2
        /\ a[1] = p.topic \div 256 /\ a[2] = p.topic % 256
    BY <1>0, TwoBytesType
  <1>2. b \in Seq(Byte8) /\ Len(b) = p.topic
    BY <1>0, BytesType
  <1>3. /\ id \in Seq(Byte8) /\ Len(id) = IF HasId(p.type) THEN 2 ELSE 0
        /\ HasId(p.type) => id[1] = p.fixed \div 256 /\ id[2] = p.fixed % 256
    <2>1. CASE HasId(p.type)
      <3>1. id = TwoBytes(p.fixed)
        BY <2>1
      <3> QED
        BY <2>1, <3>1, SentType, TwoBytesType
    <2>2. CASE ~HasId(p.type)
      BY <2>2
    <2> QED
      BY <2>1, <2>2
  <1>4. VarHeader(p) = (a \o b) \o id
    BY Disjoint DEF VarHeader
  <1> HIDE DEF a, b, id
  <1>5. Joined(a \o b, a, 2, b, p.topic)
    BY <1>1, <1>2, Concat
  <1> DEFINE n == IF HasId(p.type) THEN 2 ELSE 0
             c == a \o b
  <1>6. c \in Seq(Byte8) /\ Len(c) = 2 + p.topic
    BY <1>5 DEF Joined
  <1> HIDE DEF c, n
  <1>7. Joined(VarHeader(p), c, 2 + p.topic, id, n)
    BY <1>3, <1>4, <1>6, Concat DEF c, n
  <1>8. VarHeader(p)[1] = p.topic \div 256 /\ VarHeader(p)[2] = p.topic % 256
    <2>1. 1 \in 1 .. 2 /\ 2 \in 1 .. 2 /\ 1 \in 1 .. 2 + p.topic /\ 2 \in 1 .. 2 + p.topic
      BY <1>0
    <2>2. c[1] = a[1] /\ c[2] = a[2]
      BY <1>5, <2>1 DEF Joined, c
    <2>3. VarHeader(p)[1] = c[1] /\ VarHeader(p)[2] = c[2]
      BY <1>7, <2>1 DEF Joined
    <2> QED
      BY <1>1, <2>2, <2>3
  <1>9. ASSUME HasId(p.type)
        PROVE  /\ VarHeader(p)[p.topic + 3] = p.fixed \div 256
               /\ VarHeader(p)[p.topic + 4] = p.fixed % 256
    <2>1. 1 \in 1 .. n /\ 2 \in 1 .. n
      BY <1>9 DEF n
    <2>2. VarHeader(p)[2 + p.topic + 1] = id[1] /\ VarHeader(p)[2 + p.topic + 2] = id[2]
      BY <1>7, <2>1 DEF Joined
    <2>3. 2 + p.topic + 1 = p.topic + 3 /\ 2 + p.topic + 2 = p.topic + 4
      BY <1>0
    <2> QED
      BY <1>3, <1>9, <2>2, <2>3
  <1>10. VarHeader(p) \in Seq(Byte8) /\ Len(VarHeader(p)) = 2 + p.topic + n
    BY <1>7 DEF Joined
  <1> QED
    BY <1>8, <1>9, <1>10 DEF n

\* That of any other packet is its id, or nothing.
LEMMA OtherHeader ==
  ASSUME NEW p, Sent(p), ~IsPublish(p.type)
  PROVE  /\ VarHeader(p) \in Seq(Byte8)
         /\ p.type = PINGRESP => Len(VarHeader(p)) = 0
         /\ p.type # PINGRESP =>
              /\ Len(VarHeader(p)) = 2
              /\ VarHeader(p)[1] = p.fixed \div 256 /\ VarHeader(p)[2] = p.fixed % 256
  <1>1. CASE p.type = PINGRESP
    <2>1. VarHeader(p) = <<>>
      BY <1>1 DEF VarHeader
    <2> QED
      BY <1>1, <2>1
  <1>2. CASE p.type # PINGRESP
    <2>1. VarHeader(p) = TwoBytes(p.fixed)
      BY <1>2 DEF VarHeader
    <2> QED
      BY <1>2, <2>1, SentType, TwoBytesType
  <1> QED
    BY <1>1, <1>2

\* The packet is its type, the remaining length, the variable header and the
\* payload, one after the other.
LEMMA Layout ==
  ASSUME NEW p, Sent(p)
  PROVE  /\ Remaining(p) \in Nat /\ Remaining(p) <= MostRemaining
         /\ Remaining(p) = Len(VarHeader(p)) + p.body
         /\ HeaderSize(p) = 1 + LengthBytes(Remaining(p))
         /\ Size(p) = HeaderSize(p) + Remaining(p)
         /\ Encode(p)[1] = p.type
         /\ \A k \in 1 .. LengthBytes(Remaining(p)) :
              Encode(p)[1 + k] = EncodeLength(Remaining(p))[k]
         /\ \A k \in 1 .. Len(VarHeader(p)) :
              Encode(p)[HeaderSize(p) + k] = VarHeader(p)[k]
         /\ \A k \in 1 .. p.body :
              Encode(p)[HeaderSize(p) + Len(VarHeader(p)) + k]
                = IF p.type = SUBACK THEN 1 ELSE 49
  <1> DEFINE x == IF p.type = SUBACK THEN 1 ELSE 49
             v == VarHeader(p)
             b == Bytes(p.body, x)
             l == EncodeLength(Len(v \o b))
             t == <<p.type>>
  <1> DEFINE m == Len(v)
  <1>0. /\ p.type \in Byte8 /\ p.topic \in Nat /\ p.body \in Nat /\ MostRemaining \in Nat
        /\ p.topic + p.body + 4 <= MostRemaining
    BY SentType, Most DEF Sent
  <1>1. v \in Seq(Byte8) /\ m \in Nat /\ m <= p.topic + 4
    <2>1. CASE IsPublish(p.type)
      BY <1>0, <2>1, PublishHeader
    <2>2. CASE ~IsPublish(p.type)
      <3>1. v \in Seq(Byte8) /\ (m = 0 \/ m = 2)
        BY <2>2, OtherHeader
      <3> HIDE DEF m, v
      <3> QED
        BY <1>0, <3>1
    <2> QED
      BY <2>1, <2>2
  <1>2. b \in Seq(Byte8) /\ Len(b) = p.body /\ \A k \in 1 .. p.body : b[k] = x
    <2>1. x \in Byte8
      BY Ranges
    <2> QED
      BY <1>0, <2>1, BytesType
  <1> HIDE DEF v, b, x, m
  <1> DEFINE c == v \o b
             r == m + p.body
  <1>3. Joined(c, v, m, b, p.body)
    BY <1>1, <1>2, Concat DEF m
  <1>4. /\ c \in Seq(Byte8) /\ Len(c) = r
        /\ Remaining(p) = r /\ r \in Nat /\ r <= MostRemaining
    BY <1>0, <1>1, <1>3 DEF Joined, Remaining, v, m
  <1> DEFINE n == LengthBytes(r)
  <1>5. l \in Seq(Byte8) /\ Len(l) = n /\ n \in Nat
    BY <1>4, LengthType
  <1>6. t \in Seq(Byte8) /\ Len(t) = 1 /\ t[1] = p.type
    BY <1>0
  <1>7. Encode(p) = (t \o l) \o c
    BY DEF Encode, v, b, x
  <1>8. l = EncodeLength(Remaining(p))
    BY <1>4
  <1> HIDE DEF l, t, r, n, c
  <1> DEFINE e == t \o l
             h == 1 + n
  <1>9. Joined(e, t, 1, l, n)
    BY <1>5, <1>6, Concat
  <1>10. e \in Seq(Byte8) /\ Len(e) = h
    BY <1>9 DEF Joined
  <1> HIDE DEF e, h
  <1>11. Joined(Encode(p), e, h, c, r)
    BY <1>4, <1>7, <1>10, Concat DEF e
  <1>12. HeaderSize(p) = h /\ Size(p) = h + r
    BY <1>4, <1>11 DEF HeaderSize, Size, n, h, Joined
  <1>13. \A k \in 1 .. h : Encode(p)[k] = e[k]
    BY <1>11 DEF Joined
  <1>14. Encode(p)[1] = p.type
    <2>1. 1 \in 1 .. h /\ 1 \in 1 .. 1
      BY <1>5 DEF h
    <2> QED
      BY <1>6, <1>9, <1>13, <2>1 DEF Joined
  <1>15. \A k \in 1 .. n : Encode(p)[1 + k] = l[k]
    <2> TAKE k \in 1 .. n
    <2>1. 1 + k \in 1 .. h
      BY <1>5 DEF h
    <2> QED
      BY <1>9, <1>13, <2>1 DEF Joined
  <1>16. \A k \in 1 .. m : Encode(p)[h + k] = v[k]
    <2> TAKE k \in 1 .. m
    <2>1. k \in 1 .. r
      BY <1>0, <1>1 DEF r
    <2> QED
      BY <1>3, <1>11, <2>1 DEF Joined
  <1>17. \A k \in 1 .. p.body : Encode(p)[h + m + k] = x
    <2> TAKE k \in 1 .. p.body
    <2>1. m + k \in 1 .. r
      BY <1>0, <1>1 DEF r
    <2>2. Encode(p)[h + (m + k)] = c[m + k] /\ c[m + k] = b[k]
      BY <1>3, <1>11, <2>1 DEF Joined
    <2>3. h + (m + k) = h + m + k
      BY <1>0, <1>1, <1>5 DEF h
    <2> QED
      BY <1>2, <2>2, <2>3
  <1> QED
    <2>1. HeaderSize(p) = 1 + LengthBytes(Remaining(p)) /\ h = HeaderSize(p)
      BY <1>12 DEF HeaderSize
    <2>2. n = LengthBytes(Remaining(p))
      BY <1>4 DEF n
    <2> QED
      BY <1>4, <1>8, <1>12, <1>14, <1>15, <1>16, <1>17, <2>1, <2>2 DEF v, m, x, r

\* The kinds of packets are told apart by their type.
LEMMA Kinds ==
  ASSUME NEW p, Sent(p)
  PROVE  /\ Variable(p.type) <=> IsPublish(p.type) \/ p.type = SUBACK
         /\ Fixed(p.type) <=> p.type \in IdOnly \/ p.type = CONNACK
         /\ \/ IsPublish(p.type) \/ p.type = SUBACK
            \/ p.type \in IdOnly \/ p.type = CONNACK \/ p.type = PINGRESP
         /\ IsPublish(p.type) => PublishShape(p)
         /\ p.type = SUBACK => SubackShape(p)
         /\ p.type \in IdOnly => AckShape(p)
         /\ p.type = PINGRESP => PingrespShape(p)
         /\ p.type = CONNACK => ConnackShape(p)
  <1>1. IsPublish(p.type) => PublishShape(p)
    BY Disjoint DEF Sent, Shape, SubackShape, AckShape, PingrespShape, ConnackShape
  <1>2. p.type = SUBACK => SubackShape(p)
    BY Disjoint DEF Sent, Shape, PublishShape, AckShape, PingrespShape, ConnackShape
  <1>3. p.type \in IdOnly => AckShape(p)
    BY Disjoint DEF Sent, Shape, PublishShape, SubackShape, PingrespShape, ConnackShape
  <1>4. p.type = PINGRESP => PingrespShape(p)
    BY Disjoint DEF Sent, Shape, PublishShape, SubackShape, AckShape, ConnackShape
  <1>5. p.type = CONNACK => ConnackShape(p)
    BY Disjoint DEF Sent, Shape, PublishShape, SubackShape, AckShape, PingrespShape
  <1>6. \/ IsPublish(p.type) \/ p.type = SUBACK
        \/ p.type \in IdOnly \/ p.type = CONNACK \/ p.type = PINGRESP
    BY DEF Sent, Shape, PublishShape, SubackShape, AckShape, PingrespShape, ConnackShape
  <1>7. Variable(p.type) <=> IsPublish(p.type) \/ p.type = SUBACK
    BY <1>1 DEF Variable, PublishShape
  <1>8. Fixed(p.type) <=> p.type \in IdOnly \/ p.type = CONNACK
    BY DEF Fixed
  <1> QED
    BY <1>1, <1>2, <1>3, <1>4, <1>5, <1>6, <1>7, <1>8

PublishBytes(p) ==
  LET id == IF HasId(p.type) THEN 2 ELSE 0 IN
  /\ Remaining(p) = 2 + p.topic + id + p.body
  /\ Size(p) = HeaderSize(p) + 2 + p.topic + id + p.body
  /\ Encode(p)[HeaderSize(p) + 1] = p.topic \div 256
  /\ Encode(p)[HeaderSize(p) + 2] = p.topic % 256

\* The two bytes of "fixed" come last before the payload.
FixedBytes(p) ==
  /\ Encode(p)[Size(p) - p.body - 1] = p.fixed \div 256
  /\ Encode(p)[Size(p) - p.body] = p.fixed % 256

\* A PUBLISH from its topic length on.
LEMMA PublishLayout ==
  ASSUME NEW p, Sent(p), IsPublish(p.type)
  PROVE  PublishBytes(p) /\ (HasId(p.type) => FixedBytes(p))
  <1> DEFINE id == IF HasId(p.type) THEN 2 ELSE 0
             m == Len(VarHeader(p))
             h == HeaderSize(p)
             e == Encode(p)
  <1>1. p.topic \in Nat /\ p.body \in Nat /\ m = 2 + p.topic + id
    BY SentType, PublishHeader
  <1>2. /\ Remaining(p) = m + p.body /\ Size(p) = h + Remaining(p)
        /\ h = 1 + LengthBytes(Remaining(p)) /\ LengthBytes(Remaining(p)) \in 1 .. 4
    BY Layout, LengthType
  <1>3. \A k \in 1 .. m : e[h + k] = VarHeader(p)[k]
    BY Layout
  <1> HIDE DEF m, h, e
  <1>4. e[h + 1] = p.topic \div 256 /\ e[h + 2] = p.topic % 256
    <2>1. 1 \in 1 .. m /\ 2 \in 1 .. m
      BY <1>1
    <2> QED
      BY <1>3, <2>1, PublishHeader
  <1>5. ASSUME HasId(p.type)
        PROVE  /\ e[Size(p) - p.body - 1] = p.fixed \div 256
               /\ e[Size(p) - p.body] = p.fixed % 256
    <2>1. p.topic + 3 \in 1 .. m /\ p.topic + 4 \in 1 .. m
      BY <1>1, <1>5
    <2>2. /\ Size(p) - p.body - 1 = h + (p.topic + 3)
          /\ Size(p) - p.body = h + (p.topic + 4)
      BY <1>1, <1>2, <1>5
    <2>3. e[h + (p.topic + 3)] = p.fixed \div 256 /\ e[h + (p.topic + 4)] = p.fixed % 256
      BY <1>3, <1>5, <2>1, PublishHeader
    <2> QED
      BY <2>2, <2>3
  <1>6. /\ Remaining(p) = 2 + p.topic + id + p.body
        /\ Size(p) = h + 2 + p.topic + id + p.body
    BY <1>1, <1>2
  <1> QED
    BY <1>4, <1>5, <1>6 DEF PublishBytes, FixedBytes, h, e

\* A packet that has two bytes after its remaining length.
LEMMA OtherLayout ==
  ASSUME NEW p, Sent(p), ~IsPublish(p.type)
  PROVE  /\ p.type = PINGRESP => Remaining(p) = 0 /\ Size(p) = HeaderSize(p)
         /\ p.type # PINGRESP =>
              /\ Remaining(p) = 2 + p.body /\ Size(p) = HeaderSize(p) + 2 + p.body
              /\ FixedBytes(p)
         /\ p.type = SUBACK =>
              \A k \in 1 .. p.body : Encode(p)[Size(p) - p.body + k] = 1
  <1> DEFINE m == Len(VarHeader(p))
             h == HeaderSize(p)
             e == Encode(p)
  <1>1. /\ p.body \in Nat /\ Remaining(p) = m + p.body /\ Size(p) = h + Remaining(p)
        /\ h = 1 + LengthBytes(Remaining(p)) /\ LengthBytes(Remaining(p)) \in 1 .. 4
    BY SentType, Layout, LengthType
  <1>2. /\ \A k \in 1 .. m : e[h + k] = VarHeader(p)[k]
        /\ p.type = SUBACK => \A k \in 1 .. p.body : e[h + m + k] = 1
    BY Layout
  <1>3. CASE p.type = PINGRESP
    <2>1. m = 0 /\ p.body = 0
      BY <1>3, OtherHeader, Kinds DEF PingrespShape
    <2>2. p.type # SUBACK
      BY <1>3, Disjoint
    <2> HIDE DEF m, h, e
    <2> QED
      BY <1>1, <1>3, <2>1, <2>2 DEF h
  <1>4. CASE p.type # PINGRESP
    <2>1. /\ m = 2
          /\ VarHeader(p)[1] = p.fixed \div 256 /\ VarHeader(p)[2] = p.fixed % 256
      BY <1>4, OtherHeader
    <2> HIDE DEF m, h, e
    <2>2. /\ Remaining(p) = 2 + p.body /\ Size(p) = h + 2 + p.body
          /\ Size(p) - p.body - 1 = h + 1 /\ Size(p) - p.body = h + 2
      BY <1>1, <2>1
    <2>3. e[h + 1] = p.fixed \div 256 /\ e[h + 2] = p.fixed % 256
      <3>1. 1 \in 1 .. m /\ 2 \in 1 .. m
        BY <2>1
      <3> QED
        BY <1>2, <2>1, <3>1
    <2>4. FixedBytes(p)
      BY <2>2, <2>3 DEF FixedBytes, e
    <2>5. p.type = SUBACK => \A k \in 1 .. p.body : e[Size(p) - p.body + k] = 1
      BY <1>2, <2>1, <2>2
    <2> QED
      BY <1>4, <2>2, <2>4, <2>5 DEF h, e
  <1> QED
    BY <1>3, <1>4

\* The remaining length of the short packets takes one byte.
LEMMA ShortLayout ==
  ASSUME NEW p, Sent(p), Fixed(p.type) \/ p.type = PINGRESP
  PROVE  /\ HeaderSize(p) = 2
         /\ Fixed(p.type) => Size(p) = 4 /\ Encode(p)[2] = 2 /\ p.body = 0 /\ FixedBytes(p)
         /\ p.type = PINGRESP => Size(p) = 2 /\ Encode(p)[2] = 0 /\ p.body = 0
  <1> DEFINE r == Remaining(p)
  <1>1. p.body = 0 /\ ~IsPublish(p.type)
    BY Kinds, Disjoint DEF AckShape, ConnackShape, PingrespShape
  <1>2. /\ p.type = PINGRESP => r = 0 /\ Size(p) = HeaderSize(p)
        /\ p.type # PINGRESP => r = 2 /\ Size(p) = HeaderSize(p) + 2 /\ FixedBytes(p)
    <2>1. HeaderSize(p) \in Nat
      BY Layout, LengthType
    <2>2. /\ p.type = PINGRESP => r = 0 /\ Size(p) = HeaderSize(p)
          /\ p.type # PINGRESP =>
               /\ r = 2 + p.body /\ Size(p) = HeaderSize(p) + 2 + p.body
               /\ FixedBytes(p)
      BY <1>1, OtherLayout
    <2> HIDE DEF r
    <2> QED
      BY <1>1, <2>1, <2>2
  <1>3. r \in {0, 2}
    BY <1>2
  <1>4. LengthBytes(r) = 1
    BY <1>3 DEF LengthBytes
  <1>5. EncodeLength(r)[1] = r
    <2>1. EncodeLength(r)[1] = ((r \div Weight[1]) % 128) + 0
      BY <1>4 DEF EncodeLength
    <2>2. Weight[1] = 1
      BY SMT DEF Weight
    <2> HIDE DEF r
    <2> QED
      BY <2>1, <2>2, <1>3
  <1>6. HeaderSize(p) = 2
    BY <1>4, Layout
  <1>7. Encode(p)[2] = r
    <2>1. 1 \in 1 .. LengthBytes(r)
      BY <1>4
    <2>2. Encode(p)[1 + 1] = EncodeLength(r)[1]
      BY <2>1, Layout
    <2> QED
      BY <1>5, <2>2
  <1>8. Fixed(p.type) => p.type # PINGRESP
    BY Kinds, Disjoint
  <1> QED
    BY <1>1, <1>2, <1>6, <1>7, <1>8

(***************************************************************************)
(* One call of a state function, in the packet p.                          *)
(***************************************************************************)

\* Where the parser is when it is called.
Here(p) ==
  /\ ParserTypeOK /\ Sent(p) /\ off \in Nat /\ buf \in Nat \ {0}
  /\ wire # <<>> /\ Head(wire) = p
  /\ IF parse = "fixedHeader" THEN off = 0 ELSE AtState(p) /\ Parsed(p)

Got == IF parse = "payloadPublish" THEN pkt.index + pkt.length ELSE 0

\* It takes a byte and waits for the next.
Advance(p) ==
  /\ off + 1 < Size(p) /\ AwaitData
  /\ parse' # "fixedHeader"
  /\ off' = off + 1 => AtState(p)' /\ Parsed(p)'
  /\ Got = 0 /\ Got' = 0

\* It ends the packet, which it has read as it was sent.
Complete(p) ==
  /\ parse' = "fixedHeader" /\ Decoded(pkt') = p /\ Got' = 0
  /\ IsPublish(p.type) => pkt'.index = Got /\ pkt'.index + pkt'.length = p.body
  /\ IsPublish(p.type) => pkt'.total = p.body
  /\ \E n \in 1 .. buf : off + n = Size(p) /\ PacketResult(pkt', n)

LEMMA SizeType ==
  ASSUME NEW p, Sent(p)
  PROVE  /\ Remaining(p) \in Nat /\ LengthBytes(Remaining(p)) \in 1 .. 4
         /\ HeaderSize(p) = 1 + LengthBytes(Remaining(p))
         /\ Size(p) = HeaderSize(p) + Remaining(p)
  BY Layout, LengthType

\* It hands over a piece of the payload of p, and not the last.
Piece(p) ==
  /\ parse = "payloadPublish" /\ parse' = parse /\ Decoded(pkt') = p
  /\ pkt'.index = Got /\ pkt'.length > 0
  /\ pkt'.index + pkt'.length < p.body /\ pkt'.total = p.body
  /\ \E n \in 1 .. buf :
       /\ off + n < Size(p) /\ PacketResult(pkt', n)
       /\ off' = off + n => AtState(p)' /\ Parsed(p)'

RawOK(r) == r \in Seq(Byte8) /\ Len(r) <= 4

\* raw apart from the rest: the provers see it best as one predicate.
LEMMA ParserTypes ==
  /\ ParserTypeOK <=> /\ parse \in ParseStates /\ pkt \in IncomingPacket
                      /\ RawOK(raw) /\ bytePos \in Nat
  /\ ParserTypeOK' <=> /\ parse' \in ParseStates /\ pkt' \in IncomingPacket
                       /\ RawOK(raw') /\ bytePos' \in Nat
  BY DEF ParserTypeOK, RawOK

\* The bytes of p that are parsed are those before off.
LEMMA ByteIs ==
  ASSUME NEW p, Here(p)
  PROVE  Byte = Encode(p)[off + 1]
  BY DEF Here, Byte

LEMMA ByteIsThere ==
  ASSUME NEW p, Here(p)
  PROVE  1 \in 1 .. buf
  BY DEF Here

\* The state functions, one by one.
LEMMA FixedHeaderStep ==
  ASSUME NEW p, Here(p), FixedHeader
  PROVE  ParserTypeOK' /\ Advance(p)
  <1>1. parse = "fixedHeader" /\ off = 0
    BY DEF FixedHeader, In, Here
  <1>2. Byte = p.type
    BY <1>1, ByteIs, Layout DEF Here
  <1>3. pkt' = [[pkt EXCEPT !.type = 0, !.topicLength = 0, !.fixed = 0, !.index = 0,
                           !.length = 0] EXCEPT !.type = p.type]
    BY <1>2 DEF FixedHeader, ResetPacket
  <1>4. pkt \in IncomingPacket /\ p.type \in Byte8 /\ 0 \in Byte16
    BY SentType, Ranges DEF Here, ParserTypeOK
  <1>5. /\ pkt' \in IncomingPacket /\ pkt'.type = p.type
        /\ pkt'.topicLength = 0 /\ pkt'.fixed = 0 /\ pkt'.index = 0 /\ pkt'.length = 0
    BY <1>3, <1>4 DEF IncomingPacket
  <1>6. off + 1 < Size(p)
    <2>1. Sent(p)
      BY DEF Here
    <2> QED
      BY <1>1, <2>1, SizeType
  <1>7. /\ parse' \in {"remainingLengthVariable", "remainingLengthFixed",
                       "remainingLengthNone"}
        /\ parse' = "remainingLengthVariable" => Variable(p.type) /\ raw' = <<>>
        /\ parse' = "remainingLengthFixed" => Fixed(p.type) /\ raw' = raw
        /\ parse' = "remainingLengthNone" => p.type = PINGRESP /\ raw' = raw
        /\ AwaitData /\ bytePos' = bytePos
    BY <1>2, Kinds DEF FixedHeader, Here
  <1>8. ParserTypeOK'
    <2>1. RawOK(raw) /\ bytePos \in Nat
      BY ParserTypes DEF Here
    <2>2. RawOK(<<>>)
      BY DEF RawOK
    <2>3. raw' = raw \/ raw' = <<>>
      BY <1>7
    <2>4. RawOK(raw')
      BY <2>1, <2>2, <2>3
    <2>5. parse' \in ParseStates
      BY <1>7 DEF ParseStates
    <2> QED
      BY <1>5, <1>7, <2>1, <2>4, <2>5, ParserTypes
  <1>9. ASSUME off' = off + 1 PROVE AtState(p)'
    <2>1. Sent(p)
      BY DEF Here
    <2> QED
      BY <1>1, <1>7, <1>9, <2>1, SizeType DEF AtState, IdStates, TopicLengthStates
  <1>10. Parsed(p)'
    BY <1>5, <1>7 DEF Parsed, IdStates, TopicLengthStates, PayloadStates
  <1> QED
    BY <1>1, <1>6, <1>7, <1>8, <1>9, <1>10 DEF Advance, Got

\* What a packet that is not at its beginning has to do with its place.
LEMMA InPacket ==
  ASSUME NEW p, Here(p), parse # "fixedHeader"
  PROVE  /\ AtState(p) /\ Parsed(p) /\ Sent(p) /\ Byte = Encode(p)[off + 1]
         /\ pkt \in IncomingPacket /\ RawOK(raw) /\ bytePos \in Nat
         /\ off \in Nat /\ buf \in Nat \ {0}
  BY ParserTypes, ByteIs DEF Here

LEMMA RemainingLengthFixedStep ==
  ASSUME NEW p, Here(p), RemainingLengthFixed
  PROVE  ParserTypeOK' /\ Advance(p)
  <1>0. parse = "remainingLengthFixed"
    BY DEF RemainingLengthFixed, In
  <1>1. /\ AtState(p) /\ Parsed(p) /\ Sent(p) /\ Byte = Encode(p)[off + 1]
        /\ pkt \in IncomingPacket /\ RawOK(raw) /\ bytePos \in Nat
    BY <1>0, InPacket
  <1>2. Fixed(p.type) /\ off = 1
    BY <1>0, <1>1 DEF AtState
  <1>3. Size(p) = 4 /\ Byte = 2 /\ p.body = 0
    BY <1>1, <1>2, ShortLayout
  <1>4. /\ pkt' = [pkt EXCEPT !.remaining = 2]
        /\ parse' = IF pkt.type = CONNACK THEN "varHeaderConnack1"
                                          ELSE "varHeaderPacketId1"
        /\ AwaitData /\ raw' = raw /\ bytePos' = bytePos
    BY <1>3 DEF RemainingLengthFixed
  <1>5. /\ pkt.type = p.type /\ pkt.topicLength = 0 /\ pkt.fixed = 0
        /\ pkt.index = 0 /\ pkt.length = 0
    BY <1>0, <1>1 DEF Parsed, IdStates, PayloadStates
  <1>6. /\ pkt' \in IncomingPacket /\ pkt'.type = p.type
        /\ pkt'.topicLength = 0 /\ pkt'.fixed = 0 /\ pkt'.index = 0 /\ pkt'.length = 0
    BY <1>1, <1>4, <1>5 DEF IncomingPacket
  <1>7. /\ parse' \in {"varHeaderConnack1", "varHeaderPacketId1"}
        /\ parse' = "varHeaderConnack1" => p.type = CONNACK
        /\ parse' = "varHeaderPacketId1" => p.type \in IdOnly
        /\ p.topic = 0
    BY <1>1, <1>2, <1>4, <1>5, Kinds DEF AckShape, ConnackShape
  <1>8. p.type # SUBACK
    BY <1>7, Disjoint
  <1>9. parse' \in ParseStates
    BY <1>7 DEF ParseStates
  <1>10. ParserTypeOK'
    BY <1>1, <1>4, <1>6, <1>9, ParserTypes
  <1>11. ASSUME off' = off + 1 PROVE AtState(p)'
    BY <1>2, <1>3, <1>7, <1>8, <1>11 DEF AtState, IdStates, TopicLengthStates
  <1>12. Parsed(p)'
    BY <1>6, <1>7, <1>8 DEF Parsed, IdStates, TopicLengthStates, PayloadStates
  <1>13. off + 1 < Size(p)
    BY <1>2, <1>3
  <1> QED
    BY <1>0, <1>4, <1>7, <1>10, <1>11, <1>12, <1>13 DEF Advance, Got

LEMMA RemainingLengthNoneStep ==
  ASSUME NEW p, Here(p), RemainingLengthNone
  PROVE  ParserTypeOK' /\ Complete(p)
  <1>0. parse = "remainingLengthNone"
    BY DEF RemainingLengthNone, In
  <1>1. /\ AtState(p) /\ Parsed(p) /\ Sent(p) /\ Byte = Encode(p)[off + 1]
        /\ pkt \in IncomingPacket /\ RawOK(raw) /\ bytePos \in Nat
    BY <1>0, InPacket
  <1>2. p.type = PINGRESP /\ off = 1
    BY <1>0, <1>1 DEF AtState
  <1>3. Size(p) = 2 /\ Byte = 0
    BY <1>1, <1>2, ShortLayout
  <1>4. /\ pkt' = [pkt EXCEPT !.remaining = 0]
        /\ parse' = "fixedHeader" /\ PacketResult(pkt', 1)
        /\ raw' = raw /\ bytePos' = bytePos
    BY <1>3 DEF RemainingLengthNone
  <1>5. pkt.type = p.type /\ pkt.topicLength = 0 /\ pkt.fixed = 0
    BY <1>0, <1>1 DEF Parsed, IdStates, PayloadStates
  <1>6. /\ pkt' \in IncomingPacket /\ pkt'.type = p.type
        /\ pkt'.topicLength = 0 /\ pkt'.fixed = 0
    BY <1>1, <1>4, <1>5 DEF IncomingPacket
  <1>7. ~IsPublish(p.type) /\ p.type # SUBACK /\ PingrespShape(p)
    BY <1>1, <1>2, Kinds, Disjoint
  <1>8. Decoded(pkt') = p
    <2>1. Decoded(pkt') = [type |-> p.type, topic |-> p.topic, fixed |-> p.fixed,
                           body |-> p.body]
      BY <1>6, <1>7 DEF Decoded, PingrespShape
    <2>2. p = [type |-> p.type, topic |-> p.topic, fixed |-> p.fixed, body |-> p.body]
      BY <1>1, SentType
    <2> QED
      BY <2>1, <2>2
  <1>9. parse' \in ParseStates
    BY <1>4 DEF ParseStates
  <1>10. ParserTypeOK'
    BY <1>1, <1>4, <1>6, <1>9, ParserTypes
  <1>11. off + 1 = Size(p)
    BY <1>2, <1>3
  <1> QED
    BY <1>4, <1>7, <1>8, <1>10, <1>11, ByteIsThere DEF Complete, Got

\* The byte where the remaining length is read.
LEMMA LengthByte ==
  ASSUME NEW p, Here(p), parse = "remainingLengthVariable"
  PROVE  LET r == Remaining(p)
             k == Len(raw) + 1
         IN /\ Variable(p.type) /\ RawOK(raw) /\ raw \in Seq(Byte8)
            /\ k \in 1 .. LengthBytes(r) /\ k \in 1 .. 4 /\ off = k
            /\ Byte \in Byte8 /\ Byte = EncodeLength(r)[k]
            /\ Byte >= 128 <=> k < LengthBytes(r)
            /\ \A i \in 1 .. Len(raw) : raw[i] = EncodeLength(r)[i]
            /\ Append(raw, Byte) \in Seq(Byte8) /\ Len(Append(raw, Byte)) = k
            /\ \A i \in 1 .. k : Append(raw, Byte)[i] = EncodeLength(r)[i]
  <1> DEFINE r == Remaining(p)
             k == Len(raw) + 1
             n == LengthBytes(r)
  <1>1. /\ AtState(p) /\ Sent(p) /\ Byte = Encode(p)[off + 1] /\ RawOK(raw)
    BY InPacket
  <1>2. /\ Variable(p.type) /\ off = 1 + Len(raw) /\ Len(raw) < n
        /\ \A i \in 1 .. Len(raw) : raw[i] = EncodeLength(r)[i]
    BY <1>1 DEF AtState
  <1>3. /\ r \in Nat /\ r <= MostRemaining /\ n \in 1 .. 4
        /\ \A i \in 1 .. n : Encode(p)[1 + i] = EncodeLength(r)[i]
    BY <1>1, Layout, LengthType
  <1>4. raw \in Seq(Byte8) /\ Len(raw) \in Nat
    BY <1>1 DEF RawOK
  <1> HIDE DEF r, n
  <1>5. k \in 1 .. n /\ k \in 1 .. 4 /\ off = k
    BY <1>2, <1>3, <1>4
  <1>6. Byte = EncodeLength(r)[k]
    <2>1. Encode(p)[1 + k] = EncodeLength(r)[k] /\ 1 + k = off + 1
      BY <1>3, <1>5
    <2> QED
      BY <1>1, <2>1
  <1>7. Byte \in Byte8 /\ (Byte >= 128 <=> k < n)
    BY <1>3, <1>5, <1>6, LengthType DEF n
  <1>8. /\ Append(raw, Byte) \in Seq(Byte8) /\ Len(Append(raw, Byte)) = k
        /\ \A i \in 1 .. Len(raw) : Append(raw, Byte)[i] = raw[i]
        /\ Append(raw, Byte)[k] = Byte
    BY <1>4, <1>7, AppendProperties
  <1>9. ASSUME NEW i \in 1 .. k PROVE Append(raw, Byte)[i] = EncodeLength(r)[i]
    <2>1. i \in 1 .. Len(raw) \/ i = k
      BY <1>4
    <2> QED
      BY <1>2, <1>6, <1>8, <2>1
  <1> QED
    BY <1>1, <1>2, <1>4, <1>5, <1>6, <1>7, <1>8, <1>9 DEF r, n

LEMMA RemainingLengthMoreStep ==
  ASSUME NEW p, Here(p), RemainingLengthMore
  PROVE  ParserTypeOK' /\ Advance(p)
  <1> DEFINE r == Remaining(p)
             k == Len(raw) + 1
             n == LengthBytes(r)
  <1>0. parse = "remainingLengthVariable" /\ Byte >= 128 /\ raw' = Append(raw, Byte)
    BY DEF RemainingLengthMore, In
  <1>1. /\ AtState(p) /\ Parsed(p) /\ Sent(p) /\ Byte = Encode(p)[off + 1]
        /\ pkt \in IncomingPacket /\ RawOK(raw) /\ bytePos \in Nat
    BY <1>0, InPacket
  <1>2. /\ Variable(p.type) /\ k \in 1 .. 4 /\ k < n /\ off = k
        /\ raw' \in Seq(Byte8) /\ Len(raw') = k
        /\ \A i \in 1 .. k : raw'[i] = EncodeLength(r)[i]
    BY <1>0, LengthByte
  <1>3. n \in 1 .. 4 /\ off + 1 < Size(p)
    BY <1>1, <1>2, SizeType
  <1> HIDE DEF n, k, r
  <1>4. Len(raw') # 4 /\ Len(raw') <= 4
    BY <1>2, <1>3
  <1>5. AwaitData /\ parse' = parse /\ pkt' = pkt /\ bytePos' = bytePos
    BY <1>4 DEF RemainingLengthMore
  <1>6. RawOK(raw') /\ parse' \in ParseStates
    BY <1>0, <1>2, <1>4, <1>5 DEF RawOK, ParseStates
  <1>7. ParserTypeOK'
    BY <1>1, <1>5, <1>6, ParserTypes
  <1>8. ASSUME off' = off + 1 PROVE AtState(p)'
    <2>1. off' = 1 + Len(raw') /\ Len(raw') < n
      BY <1>2, <1>8
    <2> QED
      BY <1>0, <1>2, <1>5, <2>1 DEF AtState, IdStates, TopicLengthStates, r, n
  <1>9. Parsed(p)'
    BY <1>0, <1>1, <1>5 DEF Parsed, IdStates, TopicLengthStates, PayloadStates
  <1> QED
    BY <1>0, <1>3, <1>5, <1>7, <1>8, <1>9 DEF Advance, Got

LEMMA RemainingLengthLastStep ==
  ASSUME NEW p, Here(p), RemainingLengthLast
  PROVE  ParserTypeOK' /\ Advance(p)
  <1> DEFINE r == Remaining(p)
             k == Len(raw) + 1
             n == LengthBytes(r)
             known == [pkt EXCEPT !.remaining = r]
  <1>0. parse = "remainingLengthVariable" /\ Byte < 128 /\ raw' = <<>>
    BY DEF RemainingLengthLast, In
  <1>1. /\ AtState(p) /\ Parsed(p) /\ Sent(p) /\ Byte = Encode(p)[off + 1]
        /\ pkt \in IncomingPacket /\ RawOK(raw) /\ bytePos \in Nat /\ p.body \in Nat
    BY <1>0, InPacket, SentType
  <1>2. /\ r \in Nat /\ r <= MostRemaining /\ n \in 1 .. 4 /\ HeaderSize(p) = 1 + n
        /\ Size(p) = HeaderSize(p) + r
    BY <1>1, SizeType, Layout
  <1>3. k = n /\ off = n /\ Variable(p.type)
    <2>1. /\ Variable(p.type) /\ k \in 1 .. n /\ off = k /\ Byte \in Byte8
          /\ Byte >= 128 <=> k < n
      BY <1>0, LengthByte
    <2> HIDE DEF k, n
    <2> QED
      BY <1>0, <1>2, <2>1, Ranges
  <1>4. Append(raw, Byte) = EncodeLength(r)
    <2>1. /\ Append(raw, Byte) \in Seq(Byte8) /\ Len(Append(raw, Byte)) = n
          /\ \A i \in 1 .. n : Append(raw, Byte)[i] = EncodeLength(r)[i]
      BY <1>0, <1>3, LengthByte
    <2>2. EncodeLength(r) \in Seq(Byte8) /\ Len(EncodeLength(r)) = n
      BY <1>2, LengthType
    <2> HIDE DEF r, n
    <2> QED
      BY <2>1, <2>2, SeqEqual
  <1>5. DecodeLength(Append(raw, Byte)) = r
    BY <1>2, <1>4, LengthDecoded
  <1>6. /\ pkt.type = p.type /\ pkt.topicLength = 0 /\ pkt.fixed = 0
        /\ pkt.index = 0 /\ pkt.length = 0
    BY <1>0, <1>1 DEF Parsed, IdStates, PayloadStates
  <1> HIDE DEF r, k, n
  <1>7. RawOK(raw')
    BY <1>0 DEF RawOK
  <1>8. CASE IsPublish(p.type)
    <2>1. /\ pkt' = known /\ parse' = "varHeaderTopicLength1"
          /\ AwaitData /\ bytePos' = bytePos
      BY <1>5, <1>6, <1>8 DEF RemainingLengthLast
    <2>2. /\ pkt' \in IncomingPacket /\ pkt'.type = p.type /\ pkt'.remaining = r
          /\ pkt'.topicLength = 0 /\ pkt'.fixed = 0 /\ pkt'.index = 0 /\ pkt'.length = 0
      BY <1>1, <1>2, <1>6, <2>1 DEF IncomingPacket
    <2>3. parse' \in ParseStates
      BY <2>1 DEF ParseStates
    <2>4. ParserTypeOK'
      BY <1>1, <1>7, <2>1, <2>2, <2>3, ParserTypes
    <2>5. off + 1 < Size(p)
      <3>1. r = 2 + p.topic + (IF HasId(p.type) THEN 2 ELSE 0) + p.body /\ p.topic \in Nat
        BY <1>1, <1>8, PublishLayout, SentType DEF PublishBytes, r
      <3> QED
        BY <1>1, <1>2, <1>3, <3>1
    <2>6. ASSUME off' = off + 1 PROVE AtState(p)'
      BY <1>2, <1>3, <1>8, <2>1, <2>6 DEF AtState, IdStates, TopicLengthStates
    <2>7. Parsed(p)'
      BY <2>1, <2>2 DEF Parsed, IdStates, TopicLengthStates, PayloadStates, r
    <2> QED
      BY <1>0, <2>1, <2>4, <2>5, <2>6, <2>7 DEF Advance, Got
  <1>9. CASE p.type = SUBACK
    <2>1. /\ ~IsPublish(p.type) /\ p.type # PINGRESP /\ p.topic = 0
          /\ p.body \in 1 .. PayloadBuffer - 1 /\ r = 2 + p.body
      BY <1>1, <1>9, Disjoint, Kinds, OtherLayout DEF SubackShape, r
    <2>2. r - 2 = p.body
      BY <1>1, <2>1
    <2>3. /\ pkt' = [known EXCEPT !.index = 0, !.length = p.body, !.total = p.body]
          /\ parse' = "varHeaderPacketId1" /\ bytePos' = 0 /\ AwaitData
      BY <1>5, <1>6, <2>1, <2>2 DEF RemainingLengthLast
    <2>4. /\ pkt' \in IncomingPacket /\ pkt'.type = p.type
          /\ pkt'.topicLength = 0 /\ pkt'.fixed = 0 /\ pkt'.index = 0
          /\ pkt'.length = p.body /\ pkt'.total = p.body
      BY <1>1, <1>2, <1>6, <2>3 DEF IncomingPacket
    <2>5. parse' \in ParseStates
      BY <2>3 DEF ParseStates
    <2>6. ParserTypeOK'
      BY <1>7, <2>3, <2>4, <2>5, ParserTypes
    <2>7. off + 1 < Size(p)
      BY <1>1, <1>2, <1>3, <2>1
    <2>8. ASSUME off' = off + 1 PROVE AtState(p)'
      <3>1. off' = Size(p) - p.body - 2
        BY <1>1, <1>2, <1>3, <2>1, <2>8
      <3> QED
        BY <1>9, <2>3, <3>1 DEF AtState, IdStates, TopicLengthStates
    <2>9. Parsed(p)'
      BY <1>1, <1>9, <2>1, <2>3, <2>4 DEF Parsed, IdStates, TopicLengthStates, PayloadStates
    <2> QED
      BY <1>0, <2>3, <2>6, <2>7, <2>8, <2>9 DEF Advance, Got
  <1> QED
    BY <1>1, <1>3, <1>8, <1>9, Kinds

LEMMA VarHeaderConnack1Step ==
  ASSUME NEW p, Here(p), VarHeaderConnack1
  PROVE  ParserTypeOK' /\ Advance(p)
  <1>0. parse = "varHeaderConnack1"
    BY DEF VarHeaderConnack1, In
  <1>1. /\ AtState(p) /\ Parsed(p) /\ Sent(p) /\ Byte = Encode(p)[off + 1]
        /\ pkt \in IncomingPacket /\ RawOK(raw) /\ bytePos \in Nat
    BY <1>0, InPacket
  <1>2. p.type = CONNACK /\ off = 2
    BY <1>0, <1>1 DEF AtState
  <1>3. /\ Size(p) = 4 /\ p.body = 0 /\ FixedBytes(p)
        /\ ConnackShape(p) /\ p.type # SUBACK
    BY <1>1, <1>2, ShortLayout, Kinds, Disjoint
  <1>4. Byte = p.fixed \div 256 /\ Byte < 2
    BY <1>1, <1>2, <1>3 DEF FixedBytes, ConnackShape
  <1>5. 256 * Byte = High(p.fixed) /\ High(p.fixed) \in Byte16
    BY <1>1, <1>4, SentType, TwoBytesType DEF High
  <1>6. /\ pkt' = [pkt EXCEPT !.fixed = High(p.fixed)] /\ parse' = "varHeaderConnack2"
        /\ AwaitData /\ raw' = raw /\ bytePos' = bytePos
    BY <1>4, <1>5 DEF VarHeaderConnack1
  <1>7. pkt.type = p.type /\ pkt.topicLength = 0 /\ pkt.index = 0 /\ pkt.length = 0
    BY <1>0, <1>1, <1>3 DEF Parsed, IdStates, PayloadStates
  <1>8. /\ pkt' \in IncomingPacket /\ pkt'.type = p.type /\ pkt'.topicLength = 0
        /\ pkt'.fixed = High(p.fixed) /\ pkt'.index = 0 /\ pkt'.length = 0
    BY <1>1, <1>5, <1>6, <1>7 DEF IncomingPacket
  <1>9. parse' \in ParseStates
    BY <1>6 DEF ParseStates
  <1>10. ParserTypeOK'
    BY <1>1, <1>6, <1>8, <1>9, ParserTypes
  <1>11. ASSUME off' = off + 1 PROVE AtState(p)'
    BY <1>2, <1>6, <1>11 DEF AtState, IdStates, TopicLengthStates
  <1>12. Parsed(p)'
    BY <1>6, <1>8 DEF Parsed, IdStates, TopicLengthStates, PayloadStates
  <1>13. off + 1 < Size(p)
    BY <1>2, <1>3
  <1> QED
    BY <1>0, <1>6, <1>10, <1>11, <1>12, <1>13 DEF Advance, Got

\* What the handlers read of a packet that is complete.
LEMMA DecodedIs ==
  ASSUME NEW p, NEW k, Sent(p),
         k.type = p.type, k.topicLength = p.topic, k.fixed = p.fixed,
         IF p.type = SUBACK \/ IsPublish(p.type) THEN k.total = p.body ELSE p.body = 0
  PROVE  Decoded(k) = p
  <1>1. p = [type |-> p.type, topic |-> p.topic, fixed |-> p.fixed, body |-> p.body]
    BY SentType
  <1>2. Decoded(k) = [type |-> p.type, topic |-> p.topic, fixed |-> p.fixed,
                      body |-> p.body]
    BY DEF Decoded
  <1> QED
    BY <1>1, <1>2

LEMMA VarHeaderConnack2Step ==
  ASSUME NEW p, Here(p), VarHeaderConnack2
  PROVE  ParserTypeOK' /\ Complete(p)
  <1>0. parse = "varHeaderConnack2" /\ parse' = "fixedHeader"
    BY DEF VarHeaderConnack2, In
  <1>1. /\ AtState(p) /\ Parsed(p) /\ Sent(p) /\ Byte = Encode(p)[off + 1]
        /\ pkt \in IncomingPacket /\ RawOK(raw) /\ bytePos \in Nat /\ p.fixed \in Byte16
    BY <1>0, InPacket, SentType
  <1>2. p.type = CONNACK /\ off = 3
    BY <1>0, <1>1 DEF AtState
  <1>3. /\ Size(p) = 4 /\ p.body = 0 /\ FixedBytes(p)
        /\ ConnackShape(p) /\ p.type # SUBACK /\ ~IsPublish(p.type)
    BY <1>1, <1>2, ShortLayout, Kinds, Disjoint
  <1>4. Byte = p.fixed % 256 /\ Byte <= 5
    BY <1>1, <1>2, <1>3 DEF FixedBytes, ConnackShape
  <1>5. /\ pkt.type = p.type /\ pkt.topicLength = 0 /\ pkt.fixed = High(p.fixed)
    BY <1>0, <1>1 DEF Parsed, IdStates, PayloadStates
  <1>6. pkt.fixed + Byte = p.fixed
    BY <1>1, <1>4, <1>5, TwoBytesType
  <1>7. /\ pkt' = [pkt EXCEPT !.fixed = p.fixed] /\ PacketResult(pkt', 1)
        /\ raw' = raw /\ bytePos' = bytePos
    BY <1>4, <1>6 DEF VarHeaderConnack2
  <1>8. /\ pkt' \in IncomingPacket /\ pkt'.type = p.type /\ pkt'.topicLength = 0
        /\ pkt'.fixed = p.fixed
    BY <1>1, <1>5, <1>7 DEF IncomingPacket
  <1>9. Decoded(pkt') = p
    BY <1>1, <1>3, <1>8, DecodedIs DEF ConnackShape
  <1>10. parse' \in ParseStates
    BY <1>0 DEF ParseStates
  <1>11. ParserTypeOK'
    BY <1>1, <1>7, <1>8, <1>10, ParserTypes
  <1>12. off + 1 = Size(p)
    BY <1>2, <1>3
  <1> QED
    BY <1>0, <1>3, <1>7, <1>9, <1>11, <1>12, ByteIsThere DEF Complete, Got

\* The bytes of the packet id.
LEMMA IdBytes ==
  ASSUME NEW p, Here(p), parse \in IdStates
  PROVE  /\ \/ p.type \in IdOnly /\ AckShape(p)
            \/ p.type = SUBACK /\ SubackShape(p)
            \/ IsPublish(p.type) /\ HasId(p.type) /\ PublishShape(p)
         /\ p.fixed # 0 /\ FixedBytes(p) /\ p.fixed \in Byte16
         /\ p.body \in Nat /\ Size(p) \in Nat
  <1>1. AtState(p) /\ Sent(p)
    BY InPacket DEF IdStates
  <1>2. \/ p.type \in IdOnly /\ AckShape(p)
        \/ p.type = SUBACK /\ SubackShape(p)
        \/ IsPublish(p.type) /\ HasId(p.type) /\ PublishShape(p)
    BY <1>1, Kinds DEF AtState
  <1>3. p.fixed # 0
    BY <1>2 DEF AckShape, SubackShape, PublishShape
  <1>4. FixedBytes(p)
    BY <1>1, <1>2, PublishLayout, OtherLayout, Disjoint
  <1>5. p.fixed \in Byte16 /\ p.body \in Nat /\ Size(p) \in Nat
    BY <1>1, SentType, SizeType
  <1> QED
    BY <1>2, <1>3, <1>4, <1>5

LEMMA VarHeaderPacketId1Step ==
  ASSUME NEW p, Here(p), VarHeaderPacketId1
  PROVE  ParserTypeOK' /\ Advance(p)
  <1>0. parse = "varHeaderPacketId1" /\ parse \in IdStates
    BY DEF VarHeaderPacketId1, In, IdStates
  <1>1. /\ AtState(p) /\ Parsed(p) /\ Sent(p) /\ Byte = Encode(p)[off + 1]
        /\ pkt \in IncomingPacket /\ RawOK(raw) /\ bytePos \in Nat /\ off \in Nat
    BY <1>0, InPacket
  <1>2. /\ off = Size(p) - p.body - 2
        /\ p.type = SUBACK => bytePos = 0
        /\ p.type \in IdOnly \cup {SUBACK} \/ (IsPublish(p.type) /\ HasId(p.type))
    BY <1>0, <1>1 DEF AtState
  <1>3. FixedBytes(p) /\ p.fixed \in Byte16 /\ p.body \in Nat /\ Size(p) \in Nat
    BY <1>0, IdBytes
  <1>4. Byte = p.fixed \div 256
    <2>1. off + 1 = Size(p) - p.body - 1
      BY <1>2, <1>3
    <2> QED
      BY <1>1, <1>3, <2>1 DEF FixedBytes
  <1>5. /\ pkt.type = p.type /\ pkt.topicLength = p.topic /\ pkt.fixed = 0
        /\ pkt.index = 0 /\ pkt.length = (IF p.type = SUBACK THEN p.body ELSE 0)
        /\ p.type \notin IdOnly =>
             pkt.total = p.body + (IF IsPublish(p.type) /\ HasId(p.type) THEN 2 ELSE 0)
    BY <1>0, <1>1 DEF Parsed, IdStates, PayloadStates
  <1>6. pkt.fixed + 256 * Byte = High(p.fixed) /\ High(p.fixed) \in Byte16
    <2>1. 256 * Byte = High(p.fixed) /\ High(p.fixed) \in Byte16
      BY <1>3, <1>4, TwoBytesType DEF High
    <2>2. Byte \in Nat
      <3>1. p.fixed \div 256 \in Byte8
        BY <1>3, TwoBytesType
      <3> QED
        BY <1>4, <3>1, Ranges
    <2>3. 0 + 256 * Byte = 256 * Byte
      BY <2>2
    <2> QED
      BY <1>5, <2>1, <2>3
  <1>7. /\ pkt' = [pkt EXCEPT !.fixed = High(p.fixed)] /\ parse' = "varHeaderPacketId2"
        /\ AwaitData /\ raw' = raw /\ bytePos' = bytePos
    BY <1>6 DEF VarHeaderPacketId1
  <1>8. /\ pkt' \in IncomingPacket /\ pkt'.type = p.type /\ pkt'.topicLength = p.topic
        /\ pkt'.fixed = High(p.fixed) /\ pkt'.index = pkt.index
        /\ pkt'.length = pkt.length /\ pkt'.total = pkt.total
    BY <1>1, <1>5, <1>6, <1>7 DEF IncomingPacket
  <1>9. parse' \in ParseStates
    BY <1>7 DEF ParseStates
  <1>10. ParserTypeOK'
    BY <1>1, <1>7, <1>8, <1>9, ParserTypes
  <1>11. ASSUME off' = off + 1 PROVE AtState(p)'
    <2>1. off' = Size(p) - p.body - 1
      BY <1>2, <1>3, <1>11
    <2> QED
      BY <1>2, <1>7, <2>1 DEF AtState, IdStates, TopicLengthStates
  <1>12. Parsed(p)'
    BY <1>5, <1>7, <1>8 DEF Parsed, IdStates, TopicLengthStates, PayloadStates
  <1>13. off + 1 < Size(p)
    BY <1>2, <1>3
  <1> QED
    BY <1>0, <1>7, <1>10, <1>11, <1>12, <1>13 DEF Advance, Got

LEMMA VarHeaderPacketId2Step ==
  ASSUME NEW p, Here(p), VarHeaderPacketId2
  PROVE  ParserTypeOK' /\ (Advance(p) \/ Complete(p))
  <1> DEFINE known == [pkt EXCEPT !.fixed = p.fixed]
  <1>0. parse = "varHeaderPacketId2" /\ parse \in IdStates
    BY DEF VarHeaderPacketId2, In, IdStates
  <1>1. /\ AtState(p) /\ Parsed(p) /\ Sent(p) /\ Byte = Encode(p)[off + 1]
        /\ pkt \in IncomingPacket /\ RawOK(raw) /\ bytePos \in Nat /\ off \in Nat
    BY <1>0, InPacket
  <1>2. /\ off = Size(p) - p.body - 1
        /\ p.type = SUBACK => bytePos = 0
    BY <1>0, <1>1 DEF AtState
  <1>3. /\ FixedBytes(p) /\ p.fixed \in Byte16 /\ p.fixed # 0
        /\ p.body \in Nat /\ Size(p) \in Nat
    BY <1>0, IdBytes
  <1>4. Byte = p.fixed % 256 /\ off + 1 = Size(p) - p.body
    <2>1. off + 1 = Size(p) - p.body
      BY <1>2, <1>3
    <2> QED
      BY <1>1, <1>3, <2>1 DEF FixedBytes
  <1>5. /\ pkt.type = p.type /\ pkt.topicLength = p.topic /\ pkt.fixed = High(p.fixed)
        /\ pkt.index = 0 /\ pkt.length = (IF p.type = SUBACK THEN p.body ELSE 0)
        /\ p.type \notin IdOnly =>
             pkt.total = p.body + (IF IsPublish(p.type) /\ HasId(p.type) THEN 2 ELSE 0)
    BY <1>0, <1>1 DEF Parsed, IdStates, PayloadStates
  <1>6. pkt.fixed + Byte = p.fixed
    BY <1>3, <1>4, <1>5, TwoBytesType
  <1>7. /\ known \in IncomingPacket /\ known.type = p.type /\ known.topicLength = p.topic
        /\ known.fixed = p.fixed /\ known.index = 0
        /\ known.length = pkt.length /\ known.total = pkt.total
    BY <1>1, <1>3, <1>5 DEF IncomingPacket
  <1>8. raw' = raw /\ bytePos' = bytePos
    BY DEF VarHeaderPacketId2
  <1>9. CASE p.type = SUBACK
    <2>1. SubackShape(p) /\ ~IsPublish(p.type) /\ p.type \notin IdOnly
      BY <1>1, <1>9, Kinds, Disjoint
    <2>2. pkt' = known /\ parse' = "payloadSuback" /\ AwaitData
      BY <1>3, <1>5, <1>6, <1>9, <2>1 DEF VarHeaderPacketId2
    <2>3. parse' \in ParseStates
      BY <2>2 DEF ParseStates
    <2>4. ParserTypeOK'
      BY <1>1, <1>7, <1>8, <2>2, <2>3, ParserTypes
    <2>5. p.body > 0 /\ off + 1 < Size(p)
      BY <1>3, <1>4, <2>1 DEF SubackShape
    <2>6. ASSUME off' = off + 1 PROVE AtState(p)'
      <3>1. off' = Size(p) - p.body + bytePos' /\ bytePos' < p.body
        BY <1>2, <1>3, <1>4, <1>8, <1>9, <2>5, <2>6
      <3> QED
        BY <1>9, <2>2, <3>1 DEF AtState, IdStates, TopicLengthStates
    <2>7. pkt'.total = p.body + 0 /\ pkt'.length = p.body
      BY <1>5, <1>7, <1>9, <2>1, <2>2
    <2>8. Parsed(p)'
      BY <1>7, <1>9, <2>2, <2>7 DEF Parsed, IdStates, TopicLengthStates, PayloadStates
    <2> QED
      BY <1>0, <2>2, <2>4, <2>5, <2>6, <2>8 DEF Advance, Got
  <1>10. CASE IsPublish(p.type)
    <2>1. HasId(p.type) /\ p.type # SUBACK /\ p.type \notin IdOnly
      BY <1>0, <1>10, IdBytes, Disjoint
    <2>2. pkt.total = p.body + 2 /\ pkt.length = 0
      BY <1>5, <1>10, <2>1
    <2>3. pkt.total - 2 = p.body
      BY <1>3, <2>2
    <2>4. CASE p.body # 0
      <3>1. /\ pkt' = [known EXCEPT !.total = p.body] /\ parse' = "payloadPublish"
            /\ AwaitData
        BY <1>3, <1>5, <1>6, <1>10, <2>1, <2>3, <2>4 DEF VarHeaderPacketId2
      <3>2. /\ pkt' \in IncomingPacket /\ pkt'.type = p.type /\ pkt'.topicLength = p.topic
            /\ pkt'.fixed = p.fixed /\ pkt'.index = 0 /\ pkt'.length = 0
            /\ pkt'.total = p.body
        BY <1>3, <1>7, <2>2, <3>1 DEF IncomingPacket
      <3>3. parse' \in ParseStates
        BY <3>1 DEF ParseStates
      <3>4. ParserTypeOK'
        BY <1>1, <1>8, <3>2, <3>3, ParserTypes
      <3>5. off + 1 < Size(p) /\ 0 + 0 < p.body
        BY <1>3, <1>4, <2>4
      <3>6. ASSUME off' = off + 1 PROVE AtState(p)'
        <4>1. off' = Size(p) - p.body + 0 + 0
          BY <1>3, <1>4, <3>6
        <4> QED
          BY <1>10, <3>1, <3>2, <3>5, <4>1 DEF AtState, IdStates, TopicLengthStates
      <3>7. p.body + 0 = p.body
        BY <1>3
      <3>8. Parsed(p)'
        BY <3>1, <3>2, <3>7 DEF Parsed, IdStates, TopicLengthStates, PayloadStates
      <3> QED
        BY <1>0, <3>1, <3>2, <3>4, <3>5, <3>6, <3>8 DEF Advance, Got
    <2>5. CASE p.body = 0
      <3>1. /\ pkt' = [known EXCEPT !.total = 0] /\ parse' = "fixedHeader"
            /\ PacketResult(pkt', 1)
        BY <1>3, <1>5, <1>6, <1>10, <2>1, <2>3, <2>5 DEF VarHeaderPacketId2
      <3>2. /\ pkt' \in IncomingPacket /\ pkt'.type = p.type /\ pkt'.topicLength = p.topic
            /\ pkt'.fixed = p.fixed /\ pkt'.index = 0 /\ pkt'.length = 0
            /\ pkt'.total = p.body
        BY <1>3, <1>7, <2>2, <2>5, <3>1 DEF IncomingPacket
      <3>3. parse' \in ParseStates
        BY <3>1 DEF ParseStates
      <3>4. ParserTypeOK'
        BY <1>1, <1>8, <3>2, <3>3, ParserTypes
      <3>5. Decoded(pkt') = p
        BY <1>1, <1>10, <3>2, DecodedIs
      <3>6. off + 1 = Size(p) /\ 0 + 0 = p.body
        BY <1>3, <1>4, <2>5
      <3> QED
        BY <1>0, <3>1, <3>2, <3>4, <3>5, <3>6, ByteIsThere DEF Complete, Got
    <2> QED
      BY <2>4, <2>5
  <1>11. CASE p.type \in IdOnly
    <2>1. AckShape(p) /\ ~IsPublish(p.type) /\ p.type # SUBACK
      BY <1>1, <1>11, Kinds, Disjoint
    <2>2. pkt' = known /\ parse' = "fixedHeader" /\ PacketResult(pkt', 1)
      BY <1>3, <1>5, <1>6, <2>1 DEF VarHeaderPacketId2
    <2>3. parse' \in ParseStates
      BY <2>2 DEF ParseStates
    <2>4. ParserTypeOK'
      BY <1>1, <1>7, <1>8, <2>2, <2>3, ParserTypes
    <2>5. Decoded(pkt') = p
      BY <1>1, <1>7, <2>1, <2>2, DecodedIs DEF AckShape
    <2>6. off + 1 = Size(p)
      BY <1>3, <1>4, <2>1 DEF AckShape
    <2> QED
      BY <2>1, <2>2, <2>4, <2>5, <2>6, ByteIsThere DEF Complete, Got
  <1> QED
    BY <1>0, <1>9, <1>10, <1>11, IdBytes

\* The bytes of the topic's length, and the topic.
LEMMA TopicBytes ==
  ASSUME NEW p, Here(p), parse \in TopicLengthStates \cup {"varHeaderTopic"}
  PROVE  /\ IsPublish(p.type) /\ PublishShape(p) /\ p.type # SUBACK
         /\ p.type \notin IdOnly
         /\ p.topic \in Byte16 /\ p.topic \in Nat /\ p.topic > 0 /\ p.body \in Nat
         /\ HeaderSize(p) \in Nat /\ Remaining(p) \in Nat /\ Size(p) \in Nat
         /\ PublishBytes(p)
  <1>1. AtState(p) /\ Sent(p)
    BY InPacket DEF TopicLengthStates
  <1>2. IsPublish(p.type)
    BY <1>1 DEF AtState, TopicLengthStates
  <1>3. PublishShape(p) /\ p.type # SUBACK /\ p.type \notin IdOnly
    BY <1>1, <1>2, Kinds, Disjoint
  <1>4. p.topic \in Byte16 /\ p.topic \in Nat /\ p.body \in Nat
    BY <1>1, SentType
  <1>5. p.topic > 0
    BY <1>3, <1>4, ParserAssumption DEF PublishShape
  <1>6. HeaderSize(p) \in Nat /\ Remaining(p) \in Nat /\ Size(p) \in Nat
    BY <1>1, SizeType
  <1>7. PublishBytes(p)
    BY <1>1, <1>2, PublishLayout
  <1> QED
    BY <1>2, <1>3, <1>4, <1>5, <1>6, <1>7

LEMMA VarHeaderTopicLength1Step ==
  ASSUME NEW p, Here(p), VarHeaderTopicLength1
  PROVE  ParserTypeOK' /\ Advance(p)
  <1>0. parse = "varHeaderTopicLength1" /\ parse \in TopicLengthStates
    BY DEF VarHeaderTopicLength1, In, TopicLengthStates
  <1>1. /\ AtState(p) /\ Parsed(p) /\ Sent(p) /\ Byte = Encode(p)[off + 1]
        /\ pkt \in IncomingPacket /\ RawOK(raw) /\ bytePos \in Nat /\ off \in Nat
    BY <1>0, InPacket DEF TopicLengthStates
  <1>2. /\ IsPublish(p.type) /\ p.topic \in Byte16 /\ p.topic \in Nat /\ p.topic > 0
        /\ p.body \in Nat /\ HeaderSize(p) \in Nat /\ PublishBytes(p)
    BY <1>0, TopicBytes
  <1>3. off = HeaderSize(p) + 0
    BY <1>0, <1>1 DEF AtState
  <1>4. off = HeaderSize(p)
    BY <1>2, <1>3
  <1>5. Byte = p.topic \div 256
    BY <1>1, <1>2, <1>4 DEF PublishBytes
  <1>6. 256 * Byte = High(p.topic) /\ High(p.topic) \in Byte16
    BY <1>2, <1>5, TwoBytesType DEF High
  <1>7. /\ pkt' = [pkt EXCEPT !.topicLength = High(p.topic)]
        /\ parse' = "varHeaderTopicLength2"
        /\ AwaitData /\ raw' = raw /\ bytePos' = bytePos
    BY <1>6 DEF VarHeaderTopicLength1
  <1>8. /\ pkt.type = p.type /\ pkt.remaining = Remaining(p) /\ pkt.fixed = 0
        /\ pkt.index = 0 /\ pkt.length = 0
    BY <1>0, <1>1 DEF Parsed, IdStates, PayloadStates
  <1>9. /\ pkt' \in IncomingPacket /\ pkt'.type = p.type /\ pkt'.remaining = Remaining(p)
        /\ pkt'.topicLength = High(p.topic) /\ pkt'.fixed = 0
        /\ pkt'.index = 0 /\ pkt'.length = 0
    BY <1>1, <1>6, <1>7, <1>8 DEF IncomingPacket
  <1>10. parse' \in ParseStates
    BY <1>7 DEF ParseStates
  <1>11. ParserTypeOK'
    BY <1>1, <1>7, <1>9, <1>10, ParserTypes
  <1>12. ASSUME off' = off + 1 PROVE AtState(p)'
    BY <1>2, <1>4, <1>7, <1>12 DEF AtState, IdStates, TopicLengthStates
  <1>13. Parsed(p)'
    BY <1>7, <1>9 DEF Parsed, IdStates, TopicLengthStates, PayloadStates
  <1>14. off + 1 < Size(p)
    BY <1>2, <1>4 DEF PublishBytes
  <1> QED
    BY <1>0, <1>7, <1>11, <1>12, <1>13, <1>14 DEF Advance, Got

LEMMA VarHeaderTopicLength2Step ==
  ASSUME NEW p, Here(p), VarHeaderTopicLength2
  PROVE  ParserTypeOK' /\ Advance(p)
  <1> DEFINE id == IF HasId(p.type) THEN 2 ELSE 0
             left == p.body + id
  <1>0. parse = "varHeaderTopicLength2" /\ parse \in TopicLengthStates
    BY DEF VarHeaderTopicLength2, In, TopicLengthStates
  <1>1. /\ AtState(p) /\ Parsed(p) /\ Sent(p) /\ Byte = Encode(p)[off + 1]
        /\ pkt \in IncomingPacket /\ RawOK(raw) /\ bytePos \in Nat /\ off \in Nat
    BY <1>0, InPacket DEF TopicLengthStates
  <1>2. /\ IsPublish(p.type) /\ p.topic \in Byte16 /\ p.topic \in Nat /\ p.topic > 0
        /\ p.body \in Nat /\ HeaderSize(p) \in Nat /\ PublishBytes(p)
        /\ Remaining(p) \in Nat
    BY <1>0, TopicBytes
  <1>3. off = HeaderSize(p) + 1
    BY <1>0, <1>1 DEF AtState
  <1>4. Byte = p.topic % 256
    <2>1. off + 1 = HeaderSize(p) + 2
      BY <1>2, <1>3
    <2> QED
      BY <1>1, <1>2, <2>1 DEF PublishBytes
  <1>5. /\ pkt.type = p.type /\ pkt.remaining = Remaining(p) /\ pkt.fixed = 0
        /\ pkt.topicLength = High(p.topic) /\ pkt.index = 0 /\ pkt.length = 0
    BY <1>0, <1>1 DEF Parsed, IdStates, PayloadStates, TopicLengthStates
  <1>6. pkt.topicLength + Byte = p.topic
    BY <1>2, <1>4, <1>5, TwoBytesType
  <1>7. Remaining(p) = 2 + p.topic + id + p.body
    BY <1>2 DEF PublishBytes
  <1>8. id \in {0, 2} /\ left \in Nat /\ left >= id
    BY <1>2
  <1> HIDE DEF id
  <1>9. pkt.remaining - 2 - (pkt.topicLength + Byte) = left
    BY <1>2, <1>5, <1>6, <1>7, <1>8
  <1> HIDE DEF left
  <1>10. /\ pkt' = [pkt EXCEPT !.topicLength = p.topic, !.total = left]
         /\ parse' = "varHeaderTopic" /\ bytePos' = 0
         /\ AwaitData /\ raw' = raw
    BY <1>5, <1>6, <1>8, <1>9 DEF VarHeaderTopicLength2, id
  <1>11. /\ pkt' \in IncomingPacket /\ pkt'.type = p.type
         /\ pkt'.topicLength = p.topic /\ pkt'.fixed = 0
         /\ pkt'.index = 0 /\ pkt'.length = 0 /\ pkt'.total = left
    BY <1>1, <1>2, <1>5, <1>8, <1>10 DEF IncomingPacket
  <1>12. parse' \in ParseStates
    BY <1>10 DEF ParseStates
  <1>13. ParserTypeOK'
    BY <1>1, <1>10, <1>11, <1>12, ParserTypes
  <1>14. ASSUME off' = off + 1 PROVE AtState(p)'
    <2>1. off' = HeaderSize(p) + 2 + bytePos' /\ bytePos' < p.topic
      BY <1>2, <1>3, <1>10, <1>14
    <2> QED
      BY <1>2, <1>10, <2>1 DEF AtState, IdStates, TopicLengthStates
  <1>15. Parsed(p)'
    BY <1>2, <1>10, <1>11 DEF Parsed, IdStates, TopicLengthStates, PayloadStates, left, id
  <1>16. off + 1 < Size(p)
    BY <1>2, <1>3 DEF PublishBytes
  <1> QED
    BY <1>0, <1>10, <1>13, <1>14, <1>15, <1>16 DEF Advance, Got

LEMMA VarHeaderTopicStep ==
  ASSUME NEW p, Here(p), VarHeaderTopic
  PROVE  ParserTypeOK' /\ (Advance(p) \/ Complete(p))
  <1> DEFINE id == IF HasId(p.type) THEN 2 ELSE 0
             h == HeaderSize(p)
  <1>0. parse = "varHeaderTopic"
    BY DEF VarHeaderTopic, In
  <1>1. /\ AtState(p) /\ Parsed(p) /\ Sent(p)
        /\ pkt \in IncomingPacket /\ RawOK(raw) /\ bytePos \in Nat /\ off \in Nat
    BY <1>0, InPacket
  <1>2. /\ IsPublish(p.type) /\ PublishShape(p) /\ p.type # SUBACK /\ p.type \notin IdOnly
        /\ p.topic \in Nat /\ p.body \in Nat /\ h \in Nat /\ Size(p) \in Nat
        /\ PublishBytes(p)
    BY <1>0, TopicBytes
  <1>3. off = h + 2 + bytePos /\ bytePos < p.topic
    BY <1>0, <1>1 DEF AtState
  <1>4. /\ pkt.type = p.type /\ pkt.topicLength = p.topic /\ pkt.fixed = 0
        /\ pkt.index = 0 /\ pkt.length = 0 /\ pkt.total = p.body + id
    BY <1>0, <1>1, <1>2 DEF Parsed, IdStates, PayloadStates
  <1>5. Size(p) = h + 2 + p.topic + id + p.body /\ id \in {0, 2}
    BY <1>2 DEF PublishBytes
  <1>6. /\ pkt' = pkt /\ raw' = raw /\ bytePos' = bytePos + 1
    BY DEF VarHeaderTopic
  <1>7. /\ bytePos' \in Nat /\ bytePos' <= p.topic
        /\ bytePos' \in {p.topic, MaxTopicLength} <=> bytePos' = p.topic
    <2>1. p.topic <= MaxTopicLength /\ MaxTopicLength \in Nat
      BY <1>2, ParserAssumption DEF PublishShape
    <2> QED
      BY <1>1, <1>2, <1>3, <1>6, <2>1
  <1> HIDE DEF id, h
  <1>8. CASE bytePos' # p.topic
    <2>1. AwaitData /\ parse' = parse
      BY <1>4, <1>7, <1>8 DEF VarHeaderTopic
    <2>2. parse' \in ParseStates
      BY <1>0, <2>1 DEF ParseStates
    <2>3. ParserTypeOK'
      BY <1>1, <1>6, <1>7, <2>2, ParserTypes
    <2>4. off + 1 < Size(p)
      <3>1. bytePos + 1 < p.topic
        BY <1>2, <1>6, <1>7, <1>8
      <3> QED
        BY <1>1, <1>2, <1>3, <1>5, <3>1
    <2>5. ASSUME off' = off + 1 PROVE AtState(p)'
      <3>1. off' = h + 2 + bytePos' /\ bytePos' < p.topic
        BY <1>1, <1>2, <1>3, <1>6, <1>7, <1>8, <2>5
      <3> QED
        BY <1>0, <1>2, <2>1, <3>1 DEF AtState, IdStates, TopicLengthStates, h
    <2>6. Parsed(p)'
      BY <1>0, <1>1, <1>6, <2>1 DEF Parsed, IdStates, TopicLengthStates, PayloadStates
    <2> QED
      BY <1>0, <2>1, <2>3, <2>4, <2>5, <2>6 DEF Advance, Got
  <1>9. CASE bytePos' = p.topic /\ HasId(p.type)
    <2>1. AwaitData /\ parse' = "varHeaderPacketId1"
      BY <1>4, <1>7, <1>9 DEF VarHeaderTopic
    <2>2. parse' \in ParseStates
      BY <2>1 DEF ParseStates
    <2>3. ParserTypeOK'
      BY <1>1, <1>6, <1>7, <2>2, ParserTypes
    <2>4. id = 2
      BY <1>9 DEF id
    <2>5. off + 1 = Size(p) - p.body - 2 /\ off + 1 < Size(p)
      BY <1>1, <1>2, <1>3, <1>5, <1>6, <1>9, <2>4
    <2>6. ASSUME off' = off + 1 PROVE AtState(p)'
      BY <1>2, <1>9, <2>1, <2>5, <2>6 DEF AtState, IdStates, TopicLengthStates
    <2>7. Parsed(p)'
      BY <1>2, <1>4, <1>6, <1>9, <2>1, <2>4
         DEF Parsed, IdStates, TopicLengthStates, PayloadStates
    <2> QED
      BY <1>0, <2>1, <2>3, <2>5, <2>6, <2>7 DEF Advance, Got
  <1>10. CASE bytePos' = p.topic /\ ~HasId(p.type)
    <2>1. id = 0 /\ p.fixed = 0
      BY <1>2, <1>10 DEF id, PublishShape
    <2>2. pkt.total = p.body /\ off + 1 = Size(p) - p.body
      BY <1>1, <1>2, <1>3, <1>4, <1>5, <1>6, <1>10, <2>1
    <2>3. CASE p.body # 0
      <3>1. AwaitData /\ parse' = "payloadPublish"
        BY <1>4, <1>7, <1>10, <2>2, <2>3 DEF VarHeaderTopic
      <3>2. parse' \in ParseStates
        BY <3>1 DEF ParseStates
      <3>3. ParserTypeOK'
        BY <1>1, <1>6, <1>7, <3>2, ParserTypes
      <3>4. off + 1 < Size(p) /\ 0 + 0 < p.body
        BY <1>1, <1>2, <2>2, <2>3
      <3>5. ASSUME off' = off + 1 PROVE AtState(p)'
        <4>1. off' = Size(p) - p.body + 0 + 0
          BY <1>2, <2>2, <3>5
        <4> QED
          BY <1>2, <1>4, <1>6, <3>1, <3>4, <4>1 DEF AtState, IdStates, TopicLengthStates
      <3>6. p.body + 0 = p.body
        BY <1>2
      <3>7. Parsed(p)'
        BY <1>4, <1>6, <2>1, <2>2, <3>1, <3>6
           DEF Parsed, IdStates, TopicLengthStates, PayloadStates
      <3> QED
        BY <1>0, <1>4, <1>6, <3>1, <3>3, <3>4, <3>5, <3>7 DEF Advance, Got
    <2>4. CASE p.body = 0
      <3>1. PacketResult(pkt, 1) /\ parse' = "fixedHeader"
        BY <1>4, <1>7, <1>10, <2>2, <2>4 DEF VarHeaderTopic
      <3>2. parse' \in ParseStates
        BY <3>1 DEF ParseStates
      <3>3. ParserTypeOK'
        BY <1>1, <1>6, <1>7, <3>2, ParserTypes
      <3>4. Decoded(pkt') = p
        BY <1>1, <1>2, <1>4, <1>6, <2>1, <2>2, DecodedIs
      <3>5. off + 1 = Size(p) /\ 0 + 0 = p.body
        BY <1>2, <2>2, <2>4
      <3>6. PacketResult(pkt', 1)
        BY <1>6, <3>1
      <3> QED
        BY <1>0, <1>4, <1>6, <2>2, <3>1, <3>3, <3>4, <3>5, <3>6, ByteIsThere DEF Complete, Got
    <2> QED
      BY <2>3, <2>4
  <1> QED
    BY <1>8, <1>9, <1>10

LEMMA PayloadSubackStep ==
  ASSUME NEW p, Here(p), PayloadSuback
  PROVE  ParserTypeOK' /\ (Advance(p) \/ Complete(p))
  <1>0. parse = "payloadSuback"
    BY DEF PayloadSuback, In
  <1>1. /\ AtState(p) /\ Parsed(p) /\ Sent(p) /\ Byte = Encode(p)[off + 1]
        /\ pkt \in IncomingPacket /\ RawOK(raw) /\ bytePos \in Nat /\ off \in Nat
        /\ p.body \in Nat /\ Size(p) \in Nat
    BY <1>0, InPacket, SentType, SizeType
  <1>2. p.type = SUBACK /\ off = Size(p) - p.body + bytePos /\ bytePos < p.body
    BY <1>0, <1>1 DEF AtState
  <1>3. ~IsPublish(p.type) /\ p.type \notin IdOnly /\ SubackShape(p)
    BY <1>1, <1>2, Disjoint, Kinds
  <1>4. Byte = 1
    <2>1. bytePos + 1 \in 1 .. p.body /\ off + 1 = Size(p) - p.body + (bytePos + 1)
      BY <1>1, <1>2
    <2>2. \A k \in 1 .. p.body : Encode(p)[Size(p) - p.body + k] = 1
      BY <1>1, <1>2, <1>3, OtherLayout
    <2> QED
      BY <1>1, <2>1, <2>2
  <1>5. /\ pkt.type = p.type /\ pkt.topicLength = p.topic /\ pkt.fixed = p.fixed
        /\ pkt.index = 0 /\ pkt.length = p.body /\ pkt.total = p.body + 0
    BY <1>0, <1>1, <1>2, <1>3 DEF Parsed, IdStates, PayloadStates
  <1>6. pkt.total = p.body
    BY <1>1, <1>5
  <1>7. pkt' = pkt /\ raw' = raw /\ bytePos' = bytePos + 1 /\ bytePos' \in Nat
    BY <1>1, <1>4 DEF PayloadSuback
  <1>8. CASE bytePos' = p.body
    <2>1. parse' = "fixedHeader" /\ PacketResult(pkt', 1)
      BY <1>4, <1>6, <1>7, <1>8 DEF PayloadSuback
    <2>2. parse' \in ParseStates
      BY <2>1 DEF ParseStates
    <2>3. ParserTypeOK'
      BY <1>1, <1>7, <2>2, ParserTypes
    <2>4. Decoded(pkt') = p
      BY <1>1, <1>2, <1>5, <1>6, <1>7, DecodedIs
    <2>5. off + 1 = Size(p)
      BY <1>1, <1>2, <1>7, <1>8
    <2> QED
      BY <1>3, <2>1, <2>3, <2>4, <2>5, ByteIsThere DEF Complete, Got
  <1>9. CASE bytePos' # p.body
    <2>1. parse' = parse /\ AwaitData
      BY <1>4, <1>6, <1>7, <1>9 DEF PayloadSuback
    <2>2. parse' \in ParseStates
      BY <1>0, <2>1 DEF ParseStates
    <2>3. ParserTypeOK'
      BY <1>1, <1>7, <2>2, ParserTypes
    <2>4. off + 1 < Size(p) /\ bytePos' < p.body
      BY <1>1, <1>2, <1>7, <1>9
    <2>5. ASSUME off' = off + 1 PROVE AtState(p)'
      <3>1. off' = Size(p) - p.body + bytePos'
        BY <1>1, <1>2, <1>7, <2>5
      <3> QED
        BY <1>0, <1>2, <2>1, <2>4, <3>1 DEF AtState, IdStates, TopicLengthStates
    <2>6. Parsed(p)'
      BY <1>0, <1>1, <1>7, <2>1 DEF Parsed, IdStates, TopicLengthStates, PayloadStates
    <2> QED
      BY <1>0, <2>1, <2>3, <2>4, <2>5, <2>6 DEF Advance, Got
  <1> QED
    BY <1>8, <1>9

LEMMA PayloadPublishStep ==
  ASSUME NEW p, Here(p), PayloadPublish
  PROVE  ParserTypeOK' /\ (Complete(p) \/ Piece(p))
  <1> DEFINE index == pkt.index + pkt.length
             left == p.body - index
             n == IF buf < left THEN buf ELSE left
  <1>0. parse = "payloadPublish"
    BY DEF PayloadPublish, In
  <1>1. /\ AtState(p) /\ Parsed(p) /\ Sent(p)
        /\ pkt \in IncomingPacket /\ RawOK(raw) /\ bytePos \in Nat /\ off \in Nat
        /\ p.body \in Nat /\ Size(p) \in Nat /\ buf \in Nat \ {0}
    BY <1>0, InPacket, SentType, SizeType
  <1>2. /\ IsPublish(p.type)
        /\ off = Size(p) - p.body + pkt.index + pkt.length /\ pkt.index + pkt.length < p.body
    BY <1>0, <1>1 DEF AtState
  <1>3. p.type \notin IdOnly /\ p.type # SUBACK
    BY <1>2, Disjoint
  <1>4. /\ pkt.type = p.type /\ pkt.topicLength = p.topic /\ pkt.fixed = p.fixed
        /\ pkt.total = p.body + 0
    BY <1>0, <1>1, <1>3 DEF Parsed, IdStates, PayloadStates
  <1>5. pkt.total = p.body
    BY <1>1, <1>4
  <1>6. pkt.index \in Nat /\ pkt.length \in Nat
    BY <1>1 DEF IncomingPacket
  <1>7. /\ index \in Nat /\ index < p.body /\ off = Size(p) - p.body + index
        /\ left \in Nat \ {0} /\ n \in Nat \ {0} /\ n <= left /\ n \in 1 .. buf
        /\ index + left = p.body /\ off + left = Size(p)
    BY <1>1, <1>2, <1>6
  <1>8. /\ pkt' = [pkt EXCEPT !.index = index, !.length = n]
        /\ parse' = (IF n = left THEN "fixedHeader" ELSE parse)
        /\ PacketResult(pkt', n)
        /\ raw' = raw /\ bytePos' = bytePos
    BY <1>5 DEF PayloadPublish
  <1>9. Got = index
    BY <1>0 DEF Got
  <1> HIDE DEF index, left, n
  <1>10. /\ pkt' \in IncomingPacket /\ pkt'.type = p.type /\ pkt'.topicLength = p.topic
         /\ pkt'.fixed = p.fixed /\ pkt'.index = index /\ pkt'.length = n
         /\ pkt'.total = p.body
    BY <1>1, <1>4, <1>5, <1>7, <1>8 DEF IncomingPacket
  <1>11. parse' \in ParseStates
    BY <1>0, <1>8 DEF ParseStates
  <1>12. ParserTypeOK'
    BY <1>1, <1>8, <1>10, <1>11, ParserTypes
  <1>13. Decoded(pkt') = p
    BY <1>1, <1>2, <1>10, DecodedIs
  <1>14. CASE n = left
    <2>1. parse' = "fixedHeader" /\ off + n = Size(p) /\ pkt'.index + pkt'.length = p.body
      BY <1>7, <1>8, <1>10, <1>14
    <2> QED
      BY <1>7, <1>8, <1>9, <1>10, <1>12, <1>13, <2>1, ByteIsThere DEF Complete, Got
  <1>15. CASE n # left
    <2>1. n < left
      BY <1>7, <1>15
    <2>2. /\ parse' = parse /\ off + n < Size(p)
          /\ index + n < p.body
      BY <1>1, <1>7, <1>8, <1>15, <2>1
    <2>3. ASSUME off' = off + n PROVE AtState(p)'
      <3>1. off' = Size(p) - p.body + index + n
        BY <1>1, <1>7, <2>3
      <3> QED
        BY <1>0, <1>2, <1>10, <2>2, <3>1 DEF AtState, IdStates, TopicLengthStates
    <2>4. p.body + 0 = p.body
      BY <1>1
    <2>5. Parsed(p)'
      BY <1>0, <1>10, <2>2, <2>4 DEF Parsed, IdStates, TopicLengthStates, PayloadStates
    <2>6. n > 0
      BY <1>7
    <2> QED
      BY <1>0, <1>7, <1>8, <1>9, <1>10, <1>12, <1>13, <2>2, <2>3, <2>5, <2>6 DEF Piece
  <1> QED
    BY <1>14, <1>15

\* Of what the broker sends no byte is refused.
LEMMA ParseByteStep ==
  ASSUME NEW p, Here(p), ParseByte
  PROVE  ParserTypeOK' /\ (Advance(p) \/ Complete(p) \/ Piece(p))
  BY FixedHeaderStep, RemainingLengthFixedStep, RemainingLengthMoreStep,
     RemainingLengthLastStep, RemainingLengthNoneStep, VarHeaderConnack1Step,
     VarHeaderConnack2Step, VarHeaderPacketId1Step, VarHeaderPacketId2Step,
     VarHeaderTopicLength1Step, VarHeaderTopicLength2Step, VarHeaderTopicStep,
     PayloadSubackStep, PayloadPublishStep
     DEF ParseByte

(***************************************************************************)
(* The invariant                                                           *)
(***************************************************************************)

Inv == TypeOK /\ ConnInv /\ PlaceInv /\ OnlyRefusalCloses

LEMMA InitInv == Init => Inv
  <1> SUFFICES ASSUME Init PROVE Inv
    OBVIOUS
  <1>1. EmptyPacket \in IncomingPacket
    BY Ranges DEF EmptyPacket, IncomingPacket
  <1>2. RawOK(<<>>) /\ <<>> \in Seq(Packet \cup Answers)
    BY DEF RawOK
  <1>3. parse \in ParseStates /\ pkt \in IncomingPacket /\ RawOK(raw) /\ bytePos \in Nat
    BY <1>1, <1>2 DEF Init, ParseStates
  <1>4. TypeOK
    BY <1>2, <1>3, ParserTypes DEF Init, TypeOK
  <1> QED
    BY <1>4 DEF Inv, Init, ConnInv, PlaceInv, OnlyRefusalCloses

\* Where bytes are parsed, a connection is up and a packet under way.
LEMMA ParseIsHere ==
  ASSUME Inv, ParseByte
  PROVE  /\ Here(Head(wire))
         /\ state \in {"connectingMqtt", "connected"}
         /\ Head(wire) \in Packet \cup Answers
         /\ Tail(wire) \in Seq(Packet \cup Answers)
  <1>1. buf > 0 /\ wire # <<>>
    BY DEF ParseByte, FixedHeader, RemainingLengthFixed, RemainingLengthMore,
           RemainingLengthLast, RemainingLengthNone, VarHeaderConnack1,
           VarHeaderConnack2, VarHeaderPacketId1, VarHeaderPacketId2,
           VarHeaderTopicLength1, VarHeaderTopicLength2, VarHeaderTopic,
           PayloadSuback, PayloadPublish, In, More
  <1>2. state \in {"connectingMqtt", "connected"}
    BY <1>1 DEF Inv, TypeOK, ConnInv
  <1>3. /\ wire \in Seq(Packet \cup Answers) /\ ParserTypeOK
        /\ off \in Nat /\ buf \in Nat
    BY DEF Inv, TypeOK
  <1>4. /\ Head(wire) \in Packet \cup Answers
        /\ Tail(wire) \in Seq(Packet \cup Answers)
    BY <1>1, <1>3, HeadTailProperties
  <1>5. Sent(Head(wire))
    BY <1>4, SentIs
  <1>6. IF parse = "fixedHeader" THEN off = 0
        ELSE AtState(Head(wire)) /\ Parsed(Head(wire))
    BY <1>2 DEF Inv, PlaceInv
  <1> QED
    BY <1>1, <1>2, <1>3, <1>4, <1>5, <1>6 DEF Here

\* Bytes that do not end the packet.
LEMMA TakeInside ==
  ASSUME NEW n, off + n < Size(Head(wire)), Take(n)
  PROVE  off' = off + n /\ wire' = wire /\ greeted' = greeted
  BY DEF Take

LEMMA TakeLast ==
  ASSUME NEW n \in Nat, off \in Nat, off + n = Size(Head(wire)), Take(n)
  PROVE  off' = 0 /\ wire' = Tail(wire) /\ greeted' = greeted
  <1> DEFINE z == Size(Head(wire))
  <1>1. off + n = z /\ ~(off + n < z)
    OBVIOUS
  <1>2. off' = off + n - z /\ wire' = Tail(wire) /\ greeted' = greeted
    BY <1>1 DEF Take
  <1> HIDE DEF z
  <1> QED
    BY <1>1, <1>2

\* A byte within the packet changes nothing for the abstract stream.
LEMMA AdvanceInv ==
  ASSUME NEW p, p = Head(wire), Inv, ParseByte, ParserTypeOK', Advance(p)
  PROVE  Inv' /\ wire' = wire /\ handed' = handed /\ state' = state
  <1>1. p = Head(wire)
    OBVIOUS
  <1>2. Here(p) /\ state \in {"connectingMqtt", "connected"}
    BY <1>1, ParseIsHere
  <1>3. off + 1 < Size(p) /\ Take(1)
    BY <1>1 DEF Advance, AwaitData
  <1>4. off' = off + 1 /\ wire' = wire /\ greeted' = greeted
    BY <1>1, <1>3, TakeInside
  <1>5. /\ state' = state /\ handed' = handed /\ buf' = buf - 1
        /\ parse' # "fixedHeader" /\ AtState(p)' /\ Parsed(p)'
    BY <1>1, <1>4 DEF Advance, AwaitData
  <1>6. p' = Head(wire)'
    BY <1>1, <1>4
  <1>7. TypeOK'
    BY <1>2, <1>4, <1>5 DEF Inv, TypeOK, Here
  <1>8. ConnInv'
    BY <1>2, <1>4, <1>5 DEF Inv, ConnInv
  <1>9. PlaceInv'
    BY <1>2, <1>4, <1>5, <1>6 DEF PlaceInv, Here
  <1>10. OnlyRefusalCloses'
    BY <1>2, <1>5 DEF OnlyRefusalCloses
  <1> QED
    BY <1>4, <1>5, <1>7, <1>8, <1>9, <1>10 DEF Inv

(***************************************************************************)
(* What is handed over is what PacketStream says                           *)
(***************************************************************************)

\* PacketStream's "got".
StreamGot == IF parse = "payloadPublish" /\ state # "down"
               THEN pkt.index + pkt.length ELSE 0

\* The step of PacketStream that hands over the payload of p up to byte n.
HandsOver(p, n) ==
  /\ n \in 0 .. p.body
  /\ IF IsPublish(p.type) /\ p.body > 0 THEN n > Got ELSE n = p.body
  /\ handed' = [packet |-> p, from |-> Got, to |-> n,
                ack |-> Acknowledged(p) /\ n = p.body]

\* What the abstract stream hands over, in the terms of the parser.
LEMMA StreamHandsOver ==
  ASSUME NEW n, wire # <<>>, HandsOver(Head(wire), n),
         StreamGot = Got, StreamGot' = Got',
         IF n = Head(wire).body THEN wire' = Tail(wire) /\ Got' = 0
                                ELSE Got' = n /\ wire' = wire
  PROVE  Stream!HandOver
  BY DEF Stream!HandOver, HandsOver, StreamGot, InPieces

\* What PacketResult hands over of the packet k, read as p was sent.
LEMMA HandOverIs ==
  ASSUME NEW p, NEW k, Sent(p), Decoded(k) = p, Got \in Nat,
         handed' = HandOver(k),
         IsPublish(p.type) => /\ k.index = Got /\ k.total = p.body
                              /\ k.index \in Nat /\ k.length \in Nat
                              /\ k.index + k.length <= p.body
                              /\ p.body > 0 => k.index + k.length > Got,
         ~IsPublish(p.type) => Got = 0
  PROVE  HandsOver(p, IF IsPublish(p.type) THEN k.index + k.length ELSE p.body)
  <1> DEFINE n == IF IsPublish(p.type) THEN k.index + k.length ELSE p.body
  <1>1. k.type = p.type
    BY DEF Decoded
  <1>2. p.body \in Nat
    BY SentType
  <1>3. CASE IsPublish(p.type)
    <2>1. n = k.index + k.length
      BY <1>3
    <2>2. handed' = [packet |-> p, from |-> k.index, to |-> n,
                     ack |-> (p.type \div 2) % 4 = 1 /\ n = k.total]
      BY <1>1, <1>3 DEF HandOver
    <2>3. handed' = [packet |-> p, from |-> Got, to |-> n,
                     ack |-> Acknowledged(p) /\ n = p.body]
      BY <1>3, <2>2 DEF Acknowledged
    <2>4. n \in 0 .. p.body /\ (p.body > 0 => n > Got) /\ (p.body = 0 => n = p.body)
      BY <1>2, <1>3, <2>1
    <2>5. ~(p.body > 0) => p.body = 0
      BY <1>2
    <2> HIDE DEF n
    <2>6. HandsOver(p, n)
      BY <1>3, <2>3, <2>4, <2>5 DEF HandsOver
    <2> QED
      BY <2>6 DEF n
  <1>4. CASE ~IsPublish(p.type)
    <2>1. handed' = [packet |-> p, from |-> 0, to |-> p.body, ack |-> FALSE]
      BY <1>1, <1>4 DEF HandOver
    <2>2. handed' = [packet |-> p, from |-> Got, to |-> p.body,
                     ack |-> Acknowledged(p) /\ p.body = p.body]
      BY <1>4, <2>1 DEF Acknowledged
    <2> QED
      BY <1>2, <1>4, <2>2 DEF HandsOver
  <1> QED
    BY <1>3, <1>4

\* Of a payload that is handed over there is always more to come.
LEMMA GotLess ==
  ASSUME NEW p, Here(p)
  PROVE  /\ Got \in Nat
         /\ p.body > 0 => Got < p.body
         /\ ~IsPublish(p.type) => Got = 0
  <1>1. CASE parse = "payloadPublish"
    <2>1. AtState(p) /\ pkt \in IncomingPacket
      BY <1>1, InPacket
    <2> QED
      BY <1>1, <2>1 DEF AtState, Got, IncomingPacket
  <1>2. CASE parse # "payloadPublish"
    BY <1>2 DEF Got
  <1> QED
    BY <1>1, <1>2

\* In a connection that is being made only the answer is under way, in one that
\* is made no answer is.
LEMMA AnswerFirst ==
  ASSUME Inv, ParseByte
  PROVE  LET p == Head(wire) IN
         /\ state = "connectingMqtt" => /\ p.type = CONNACK
                                        /\ Tail(wire) = <<>> /\ greeted
         /\ state = "connected" => /\ p.type # CONNACK
                                   /\ Tail(wire) \in Seq(Packet) /\ greeted
  <1> DEFINE p == Head(wire)
  <1>1. wire # <<>> /\ Sent(p)
    BY ParseIsHere DEF Here
  <1>2. ASSUME state = "connectingMqtt"
        PROVE  p.type = CONNACK /\ Tail(wire) = <<>> /\ greeted
    <2>1. p \in Answers /\ Tail(wire) = <<>> /\ greeted
      BY <1>1, <1>2 DEF Inv, ConnInv
    <2> QED
      BY <2>1, AnswerShape DEF ConnackShape
  <1>3. ASSUME state = "connected"
        PROVE  p.type # CONNACK /\ Tail(wire) \in Seq(Packet) /\ greeted
    <2>1. wire \in Seq(Packet) /\ greeted
      BY <1>3 DEF Inv, ConnInv
    <2>2. p \in Packet /\ Tail(wire) \in Seq(Packet)
      BY <1>1, <2>1, HeadTailProperties
    <2>3. PublishShape(p) \/ SubackShape(p) \/ AckShape(p) \/ PingrespShape(p)
      BY <2>2, PacketShape
    <2>4. p.type # CONNACK
      BY <2>3, Disjoint DEF PublishShape, SubackShape, AckShape, PingrespShape
    <2> QED
      BY <2>1, <2>2, <2>4
  <1> QED
    BY <1>2, <1>3

\* The last byte of a packet hands it over, or the last of its payload.
LEMMA CompleteInv ==
  ASSUME NEW p, p = Head(wire), Inv, ParseByte, ParserTypeOK', Complete(p)
  PROVE  Inv' /\ Stream!HandOver
  <1>1. p = Head(wire)
    OBVIOUS
  <1>2. /\ Here(p) /\ state \in {"connectingMqtt", "connected"}
        /\ Tail(wire) \in Seq(Packet \cup Answers) /\ Sent(p) /\ wire # <<>>
        /\ off \in Nat /\ buf \in Nat
    BY <1>1, ParseIsHere DEF Here
  <1>3. /\ state = "connectingMqtt" => /\ p.type = CONNACK
                                       /\ Tail(wire) = <<>> /\ greeted
        /\ state = "connected" => /\ p.type # CONNACK
                                  /\ Tail(wire) \in Seq(Packet) /\ greeted
    BY <1>1, AnswerFirst
  <1>4. /\ parse' = "fixedHeader" /\ Decoded(pkt') = p /\ Got' = 0
        /\ IsPublish(p.type) => pkt'.index = Got /\ pkt'.index + pkt'.length = p.body
        /\ IsPublish(p.type) => pkt'.total = p.body
    BY <1>1 DEF Complete
  <1>5. PICK n \in 1 .. buf : off + n = Size(p) /\ PacketResult(pkt', n)
    BY <1>1 DEF Complete
  <1>6. off' = 0 /\ wire' = Tail(wire) /\ greeted' = greeted
    BY <1>1, <1>2, <1>5, TakeLast DEF PacketResult
  <1>7. pkt'.type = p.type /\ pkt'.fixed = p.fixed
    BY <1>4 DEF Decoded
  <1>8. /\ handed' = HandOver(pkt')
        /\ buf' = IF state' = "closing" THEN 0 ELSE buf - n
        /\ p.type = CONNACK =>
             state' = IF p.fixed % 256 = 0 THEN "connected" ELSE "closing"
        /\ p.type # CONNACK => state' = state
    BY <1>2, <1>3, <1>5, <1>7 DEF PacketResult
  <1>9. state' \in {"connectingMqtt", "connected", "closing"} /\ buf' \in Nat
    BY <1>2, <1>3, <1>5, <1>8
  <1>10. state' = "connectingMqtt" => FALSE
    BY <1>2, <1>3, <1>8
  <1>11. TypeOK'
    BY <1>2, <1>3, <1>6, <1>9 DEF TypeOK
  <1>12. <<>> \in Seq(Packet)
    OBVIOUS
  <1>13. ConnInv'
    BY <1>2, <1>3, <1>4, <1>6, <1>8, <1>9, <1>10, <1>12 DEF ConnInv
  <1>14. PlaceInv'
    BY <1>4, <1>6 DEF PlaceInv
  <1>15. OnlyRefusalCloses'
    <2> SUFFICES ASSUME state' = "closing"
                 PROVE  /\ handed' # Nothing
                        /\ handed'.packet.type = CONNACK
                        /\ handed'.packet.fixed % 256 # 0
      BY DEF OnlyRefusalCloses
    <2>1. p.type = CONNACK /\ p.fixed % 256 # 0
      BY <1>2, <1>8
    <2>2. handed'.packet = p
      BY <1>4, <1>8 DEF HandOver
    <2>3. p # <<>>
      <3>1. p = [type |-> p.type, topic |-> p.topic, fixed |-> p.fixed, body |-> p.body]
        BY <1>2, SentType
      <3>2. "type" \in DOMAIN p
        BY <3>1
      <3>3. "type" \notin DOMAIN <<>>
        OBVIOUS
      <3> QED
        BY <3>2, <3>3
    <2>4. Nothing.packet = <<>>
      BY DEF Nothing
    <2> QED
      BY <2>1, <2>2, <2>3, <2>4
  <1>16. Stream!HandOver
    <2>1. StreamGot = Got /\ StreamGot' = Got'
      BY <1>2, <1>9 DEF StreamGot, Got
    <2>2. /\ Got \in Nat /\ p.body > 0 => Got < p.body
          /\ ~IsPublish(p.type) => Got = 0
      BY <1>2, GotLess
    <2>3. p.body \in Nat /\ pkt'.index \in Nat /\ pkt'.length \in Nat
      BY <1>2, SentType DEF ParserTypeOK, IncomingPacket
    <2>4. HandsOver(p, IF IsPublish(p.type) THEN pkt'.index + pkt'.length ELSE p.body)
      BY <1>2, <1>4, <1>8, <2>2, <2>3, HandOverIs
    <2>5. HandsOver(p, p.body)
      BY <1>4, <2>4
    <2> QED
      BY <1>1, <1>2, <1>4, <1>6, <2>1, <2>5, StreamHandsOver
  <1> QED
    BY <1>11, <1>13, <1>14, <1>15, <1>16 DEF Inv

\* A read that ends in the payload hands over what it has.
LEMMA PieceInv ==
  ASSUME NEW p, p = Head(wire), Inv, ParseByte, ParserTypeOK', Piece(p)
  PROVE  Inv' /\ Stream!HandOver
  <1>1. p = Head(wire)
    OBVIOUS
  <1>2. /\ Here(p) /\ state \in {"connectingMqtt", "connected"}
        /\ wire \in Seq(Packet \cup Answers) /\ Sent(p) /\ wire # <<>>
        /\ off \in Nat /\ buf \in Nat /\ greeted \in BOOLEAN
    BY <1>1, ParseIsHere DEF Here, Inv, TypeOK
  <1>3. /\ parse = "payloadPublish" /\ parse' = parse /\ Decoded(pkt') = p
        /\ pkt'.index = Got /\ pkt'.length > 0
        /\ pkt'.index + pkt'.length < p.body /\ pkt'.total = p.body
    BY <1>1 DEF Piece
  <1>4. PICK n \in 1 .. buf :
          /\ off + n < Size(p) /\ PacketResult(pkt', n)
          /\ off' = off + n => AtState(p)' /\ Parsed(p)'
    BY <1>1 DEF Piece
  <1>5. off' = off + n /\ wire' = wire /\ greeted' = greeted
    BY <1>1, <1>4, TakeInside DEF PacketResult
  <1>6. IsPublish(p.type) /\ pkt'.type = p.type
    BY <1>2, <1>3, InPacket DEF AtState, Decoded
  <1>7. p.type # CONNACK
    BY <1>6, Disjoint
  <1>8. state = "connected"
    BY <1>1, <1>2, <1>7, AnswerFirst
  <1>9. handed' = HandOver(pkt') /\ state' = "connected" /\ buf' = buf - n
    BY <1>4, <1>6, <1>7, <1>8 DEF PacketResult
  <1>10. p' = Head(wire)'
    BY <1>1, <1>5
  <1>11. off' \in Nat /\ buf' \in Nat
    BY <1>2, <1>4, <1>5, <1>9
  <1>12. TypeOK'
    BY <1>2, <1>5, <1>9, <1>11 DEF TypeOK
  <1>13. ConnInv'
    BY <1>5, <1>8, <1>9 DEF Inv, ConnInv
  <1>14. PlaceInv'
    BY <1>2, <1>3, <1>4, <1>5, <1>10 DEF PlaceInv
  <1>15. OnlyRefusalCloses'
    BY <1>9 DEF OnlyRefusalCloses
  <1>16. Stream!HandOver
    <2> DEFINE m == pkt'.index + pkt'.length
    <2>1. StreamGot = Got /\ StreamGot' = Got'
      BY <1>2, <1>9 DEF StreamGot, Got
    <2>2. Got \in Nat
      BY <1>2, GotLess
    <2>3. p.body \in Nat /\ pkt'.index \in Nat /\ pkt'.length \in Nat
      BY <1>2, SentType DEF ParserTypeOK, IncomingPacket
    <2>4. m <= p.body /\ m # p.body /\ m > Got
      BY <1>3, <2>2, <2>3
    <2>5. HandsOver(p, m)
      BY <1>2, <1>3, <1>6, <1>9, <2>2, <2>3, <2>4, HandOverIs
    <2>6. Got' = m
      BY <1>3 DEF Got
    <2> HIDE DEF m
    <2> QED
      BY <1>1, <1>2, <1>5, <2>1, <2>4, <2>5, <2>6, StreamHandsOver
  <1> QED
    BY <1>12, <1>13, <1>14, <1>15, <1>16 DEF Inv

\* A step of the parser is one of PacketStream, or changes nothing there.
StreamStep == Stream!Next \/ UNCHANGED Stream!streamVars

LEMMA ParseByteInv ==
  ASSUME Inv, ParseByte
  PROVE  Inv' /\ StreamStep
  <1>1. PICK p : p = Head(wire)
    OBVIOUS
  <1>2. Here(p) /\ state \in {"connectingMqtt", "connected"}
    BY <1>1, ParseIsHere
  <1>3. ParserTypeOK' /\ (Advance(p) \/ Complete(p) \/ Piece(p))
    BY <1>2, ParseByteStep
  <1>4. CASE Advance(p)
    <2>1. Inv' /\ wire' = wire /\ handed' = handed /\ state' = state
      BY <1>1, <1>3, <1>4, AdvanceInv
    <2>2. StreamGot = 0 /\ StreamGot' = 0
      BY <1>4 DEF Advance, StreamGot, Got
    <2> QED
      BY <2>1, <2>2 DEF StreamStep, Stream!streamVars, StreamGot
  <1> QED
    BY <1>1, <1>3, <1>4, CompleteInv, PieceInv DEF StreamStep, Stream!Next

\* The parser is reset, and nothing is under way yet.
LEMMA ConnectInv ==
  ASSUME Inv, Connect
  PROVE  Inv' /\ StreamStep
  <1>1. /\ state = "down" /\ state' = "connectingMqtt" /\ parse' = "fixedHeader"
        /\ bytePos' = 0 /\ pkt' = ResetPacket
        /\ UNCHANGED <<raw, buf, wire, off, greeted, handed>>
    BY DEF Connect, streamVars
  <1>2. pkt \in IncomingPacket /\ RawOK(raw) /\ 0 \in Byte16 /\ 0 \in Byte8
    BY Ranges, ParserTypes DEF Inv, TypeOK
  <1>3. ResetPacket \in IncomingPacket
    BY <1>2 DEF ResetPacket, IncomingPacket
  <1>4. parse' \in ParseStates
    BY <1>1 DEF ParseStates
  <1>5. ParserTypeOK'
    BY <1>1, <1>2, <1>3, <1>4, ParserTypes
  <1>6. wire = <<>> /\ off = 0 /\ ~greeted
    BY <1>1 DEF Inv, ConnInv
  <1>7. TypeOK'
    BY <1>1, <1>5 DEF Inv, TypeOK
  <1>8. ConnInv' /\ PlaceInv' /\ OnlyRefusalCloses'
    BY <1>1, <1>6 DEF ConnInv, PlaceInv, OnlyRefusalCloses
  <1>9. StreamGot = 0 /\ StreamGot' = 0
    BY <1>1 DEF StreamGot
  <1> QED
    BY <1>1, <1>7, <1>8, <1>9 DEF Inv, StreamStep, Stream!streamVars, StreamGot

\* What was under way is lost, for the abstract stream too.
LEMMA StopInv ==
  ASSUME Inv, Stop
  PROVE  Inv' /\ StreamStep
  <1>1. /\ state' = "down" /\ wire' = <<>> /\ off' = 0 /\ greeted' = FALSE
        /\ handed' = Nothing
        /\ UNCHANGED <<parse, pkt, raw, bytePos, buf>>
    BY DEF Stop, parserVars
  <1>2. ParserTypeOK'
    BY <1>1 DEF Inv, TypeOK, ParserTypeOK
  <1>3. <<>> \in Seq(Packet \cup Answers)
    OBVIOUS
  <1>4. TypeOK'
    BY <1>1, <1>2, <1>3 DEF Inv, TypeOK
  <1>5. ConnInv' /\ PlaceInv' /\ OnlyRefusalCloses'
    BY <1>1 DEF ConnInv, PlaceInv, OnlyRefusalCloses
  <1>6. StreamGot' = 0
    BY <1>1 DEF StreamGot
  <1>7. Stream!Break
    BY <1>1, <1>6 DEF Stream!Break, StreamGot, Stream!Nothing, Nothing
  <1> QED
    BY <1>4, <1>5, <1>7 DEF Inv, StreamStep, Stream!Next

LEMMA SendInv ==
  ASSUME Inv, NEW p \in Packet \cup Answers, Send(p)
  PROVE  Inv' /\ StreamStep
  <1>1. /\ state \in {"connectingMqtt", "connected"}
        /\ IF greeted THEN state = "connected" /\ p \in Packet ELSE p \in Answers
        /\ wire' = Append(wire, p) /\ greeted' = TRUE
        /\ UNCHANGED <<state, parse, pkt, raw, bytePos, buf, off, handed>>
    BY DEF Send, parserVars
  <1>2. wire \in Seq(Packet \cup Answers)
    BY DEF Inv, TypeOK
  <1>3. /\ Append(wire, p) \in Seq(Packet \cup Answers) /\ Append(wire, p) # <<>>
        /\ Head(Append(wire, p)) = IF wire = <<>> THEN p ELSE Head(wire)
        /\ Tail(Append(wire, p)) = IF wire = <<>> THEN <<>> ELSE Append(Tail(wire), p)
    BY <1>2, AppendProperties, HeadTailAppend
  <1>4. ParserTypeOK'
    BY <1>1 DEF Inv, TypeOK, ParserTypeOK
  <1>5. TypeOK'
    BY <1>1, <1>3, <1>4 DEF Inv, TypeOK
  <1>6. ConnInv'
    <2>1. CASE state = "connectingMqtt"
      <3>1. ~greeted /\ wire = <<>>
        BY <1>1, <2>1 DEF Inv, ConnInv
      <3>2. Head(wire') = p /\ Tail(wire') = <<>> /\ wire' # <<>> /\ p \in Answers
        BY <1>1, <1>3, <3>1
      <3> QED
        BY <1>1, <2>1, <3>2 DEF ConnInv
    <2>2. CASE state = "connected"
      <3>1. greeted /\ wire \in Seq(Packet) /\ p \in Packet
        BY <1>1, <2>2 DEF Inv, ConnInv
      <3>2. wire' \in Seq(Packet)
        BY <1>1, <3>1, AppendProperties
      <3> QED
        BY <1>1, <2>2, <3>2 DEF ConnInv
    <2> QED
      BY <1>1, <2>1, <2>2
  <1>7. PlaceInv'
    <2>1. CASE parse = "fixedHeader"
      BY <1>1, <2>1 DEF Inv, PlaceInv
    <2>2. CASE parse # "fixedHeader"
      <3>1. PICK q : q = Head(wire)
        OBVIOUS
      <3>2. wire # <<>> /\ AtState(q) /\ Parsed(q)
        BY <1>1, <2>2, <3>1 DEF Inv, PlaceInv
      <3>3. wire' # <<>> /\ q = Head(wire')
        BY <1>1, <1>3, <3>1, <3>2
      <3>4. AtState(q)' /\ Parsed(q)'
        BY <1>1, <3>2 DEF AtState, Parsed
      <3> QED
        BY <1>1, <2>2, <3>3, <3>4 DEF PlaceInv
    <2> QED
      BY <2>1, <2>2
  <1>8. OnlyRefusalCloses'
    BY <1>1 DEF OnlyRefusalCloses
  <1>9. Stream!Send(p)
    BY <1>1 DEF Stream!Send
  <1> QED
    BY <1>5, <1>6, <1>7, <1>8, <1>9 DEF Inv, StreamStep, Stream!Next

LEMMA ReadInv ==
  ASSUME Inv, NEW n \in ReadSizes, Read(n)
  PROVE  Inv' /\ StreamStep
  <1>1. /\ state \in {"connectingMqtt", "connected"} /\ buf' = n /\ n \in Nat
        /\ UNCHANGED <<state, parse, pkt, raw, bytePos, wire, off, greeted, handed>>
    BY ParserAssumption DEF Read, parserVars, streamVars
  <1>2. ParserTypeOK'
    BY <1>1 DEF Inv, TypeOK, ParserTypeOK
  <1>3. TypeOK'
    BY <1>1, <1>2 DEF Inv, TypeOK
  <1>4. ConnInv'
    BY <1>1 DEF Inv, ConnInv
  <1>5. PlaceInv'
    BY <1>1 DEF Inv, PlaceInv, AtState, Parsed
  <1>6. OnlyRefusalCloses'
    BY <1>1 DEF OnlyRefusalCloses
  <1> QED
    BY <1>1, <1>3, <1>4, <1>5, <1>6 DEF Inv, StreamStep, Stream!streamVars

LEMMA NextInv ==
  ASSUME Inv, [Next]_vars
  PROVE  Inv' /\ (Stream!Next \/ UNCHANGED Stream!streamVars)
  <1>1. CASE UNCHANGED vars
    <2>1. UNCHANGED <<state, parse, pkt, raw, bytePos, buf, wire, off, greeted, handed>>
      BY <1>1 DEF vars, parserVars, streamVars
    <2>2. TypeOK'
      BY <2>1 DEF Inv, TypeOK, ParserTypeOK
    <2>3. ConnInv' /\ OnlyRefusalCloses'
      BY <2>1 DEF Inv, ConnInv, OnlyRefusalCloses
    <2>4. PlaceInv'
      BY <2>1 DEF Inv, PlaceInv, AtState, Parsed
    <2> QED
      BY <2>1, <2>2, <2>3, <2>4 DEF Inv, Stream!streamVars
  <1> QED
    BY <1>1, ConnectInv, StopInv, SendInv, ReadInv, ParseByteInv DEF Next, StreamStep

LEMMA Invariant == Spec => []Inv
  BY InitInv, NextInv, PTL DEF Spec

(* The types of what the parser keeps (Parser.h:22-60): no length becomes      *)
(* negative, no byte more than four is kept of a remaining length, and the     *)
(* state function is one of the thirteen, for any packets of a broker that     *)
(* keeps to the protocol and any way to cut their bytes.                       *)
THEOREM ParserTypeCorrect == Spec => []TypeOK
  BY Invariant, PTL DEF Inv

(* A connection is given up only when the broker refused it: no byte of what   *)
(* a broker sends that keeps to the protocol is taken for an error             *)
(* (MqttClient.cpp:428).                                                       *)
THEOREM ErrorsAreRefusals == Spec => []OnlyRefusalCloses
  BY Invariant, PTL DEF Inv

(* The parser implements the stream of packets: the client is handed what was  *)
(* sent, in order and once, payloads without a gap, and nothing of an earlier  *)
(* connection (Parser.cpp:304, MqttClient.cpp:508).                            *)
THEOREM ParserIsStream == Spec => IsStream
  <1>1. Init => Stream!Init
    BY DEF Init, Stream!Init, Nothing, Stream!Nothing
  <1>2. Inv /\ [Next]_vars => [Stream!Next]_(Stream!streamVars)
    BY NextInv
  <1> QED
    BY <1>1, <1>2, Invariant, PTL DEF Spec, IsStream, Stream!Spec
===============================================================================
