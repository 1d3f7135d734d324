------------------------------ MODULE MqttSession ------------------------------
(***************************************************************************)
(* espMqttClient's MqttClient as this firmware uses it: what ntw publishes   *)
(* and subscribes is put into the outbox, and loop() sends it, removes what  *)
(* the broker acknowledges and sends again what it does not.  The network    *)
(* may break the connection at any time; the session is kept.                *)
(*                                                                           *)
(* loop() is run by the client's own task and, through _device->update(), by *)
(* ntw as well, which preempts it.  Each access to the outbox holds the      *)
(* semaphore and is a step; the sending of a packet and the advance behind   *)
(* it are two, and so are _clearQueue and the stores around it.  The parts   *)
(* of loop() appear in any order, because each write may be refused and each *)
(* read may find nothing.                                                    *)
(***************************************************************************)
EXTENDS Outbox

CONSTANTS
  LoopTasks,      \* the tasks that run loop(): "client", and "ntw"
  PublishSize,    \* the size of a PUBLISH; every other packet has size 1
  AllocMayFail,   \* whether there may be too little memory for a packet
  AcksMayBeLate,  \* whether the timeout of an acknowledgement may expire
  MaxId,          \* bound: packet ids
  MaxSmall,       \* bound: PUBACK, PINGREQ and broken packets in the outbox
  MaxInFlight     \* bound: acknowledgements on their way

ASSUME SessionAssumption ==
  /\ LoopTasks \subseteq {"client", "ntw"} /\ "client" \in LoopTasks
  /\ PublishSize \in Nat \ {0}
  /\ {AllocMayFail, AcksMayBeLate} \subseteq BOOLEAN
  /\ {MaxId, MaxSmall, MaxInFlight} \subseteq Nat

VARIABLES
  state,      \* _state, the TCP states but one left out
  box,        \* _outbox
  bytesSent,  \* _bytesSent
  packetId,   \* _packetId
  pc,         \* where each task is in loop()
  ruined,     \* a sweep of the outbox wrote to a deleted node
  \* the connection and the broker
  onWire,     \* the packet of which the broker has got only a part, and the part
  garbled,    \* what was written is not a sequence of whole packets
  toBroker,   \* the packets that are on their way to the broker
  acks,       \* and those it has acknowledged, on their way back
  received,   \* the ids of the publishes the broker has got
  buffered    \* history: the ids of the publishes that got memory for their data

queueVars == <<box, bytesSent>>
wireVars == <<onWire, garbled, toBroker, acks>>
brokerVars == <<wireVars, received>>
otherVars == <<brokerVars, buffered>>
vars == <<state, queueVars, packetId, pc, ruined, otherVars>>

Packet ==
  [type : {"CONNECT", "SMALL", "BROKEN"}, id : {0}]
    \cup [type : {"PUBLISH", "SUBSCRIBE", "BROKEN"}, id : 1 .. MaxId]
CONNECT == [type |-> "CONNECT", id |-> 0]
SMALL == [type |-> "SMALL", id |-> 0]  \* PUBACK, PINGREQ
BROKEN(id) == [type |-> "BROKEN", id |-> id]  \* no memory for its data
PUBLISH(id) == [type |-> "PUBLISH", id |-> id]
SUBSCRIBE(id) == [type |-> "SUBSCRIBE", id |-> id]

Publishes == {p \in Packet : p.type = "PUBLISH"}

Size(p) == CASE p.type = "PUBLISH" -> PublishSize
             [] p.type = "BROKEN" -> 0
             [] OTHER -> 1
RemovableEvenIfPublish(p) == p.type # "SUBSCRIBE"   \* fault
Removable(p) == p.id = 0

Nothing == [packet |-> BROKEN(0), bytes |-> 0]

Init ==
  /\ state = "disconnected" /\ box = EmptyOutbox /\ bytesSent = 0
  /\ packetId = 0 /\ pc = [t \in LoopTasks |-> "idle"]
  /\ ruined = FALSE
  /\ onWire = Nothing /\ garbled = FALSE /\ toBroker = <<>> /\ acks = <<>>
  /\ received = {} /\ buffered = {}

-----------------------------------------------------------------------------
(* ntw: connect, publish, subscribe.  It is in no loop() then.               *)

NtwFree == "ntw" \in LoopTasks => pc["ntw"] = "idle"
NtwMayCall == ~ruined /\ NtwFree
SmallPackets ==
  {i \in DOMAIN Contents(box) : Contents(box)[i].type \in {"SMALL", "BROKEN"}}

AddPacket(p) == Unused(box) # {} /\ box' = Emplace(box, NewNode(box), p)
AddPacketFront(p) ==
  Unused(box) # {} /\ box' = EmplaceFront(box, NewNode(box), p)

(* Without memory for its data a packet is put into the outbox nevertheless, *)
(* and its error is lost in a copy: the caller takes it for a good one.      *)
MayBreak == AllocMayFail /\ Cardinality(SmallPackets) < MaxSmall

Connect ==
  /\ NtwMayCall /\ state = "disconnected" /\ state' = "connectingTcp1"
  /\ AddPacketFront(CONNECT)
  /\ UNCHANGED <<bytesSent, packetId, pc, ruined, otherVars>>

ConnectBroken ==
  /\ NtwMayCall /\ state = "disconnected" /\ state' = "connectingTcp1"
  /\ MayBreak /\ AddPacketFront(BROKEN(0))
  /\ UNCHANGED <<bytesSent, packetId, pc, ruined, otherVars>>

NextPacketId == packetId < MaxId /\ packetId' = packetId + 1

Publish ==
  /\ NtwMayCall /\ state # "disconnecting" /\ NextPacketId
  /\ AddPacket(PUBLISH(packetId'))
  /\ buffered' = buffered \cup {packetId'}
  /\ UNCHANGED <<state, bytesSent, pc, ruined, brokerVars>>

PublishBroken ==
  /\ NtwMayCall /\ state # "disconnecting" /\ NextPacketId
  /\ MayBreak /\ AddPacket(BROKEN(packetId'))
  /\ UNCHANGED <<state, bytesSent, pc, ruined, otherVars>>

(* There is no memory for the node.  SUBSCRIBE fails in the same way, and    *)
(* CONNECT and PINGREQ leave everything as it was.                           *)
PublishFails ==
  /\ AllocMayFail /\ NtwMayCall /\ state # "disconnecting" /\ NextPacketId
  /\ UNCHANGED <<state, queueVars, pc, ruined, otherVars>>

Subscribe ==
  /\ NtwMayCall /\ state = "connected" /\ NextPacketId
  /\ AddPacket(SUBSCRIBE(packetId')) \/ (MayBreak /\ AddPacket(BROKEN(packetId')))
  /\ UNCHANGED <<state, bytesSent, pc, ruined, otherVars>>

-----------------------------------------------------------------------------
(* loop(): _checkOutbox                                                      *)

(* Priorities: the client's task goes on when ntw has left loop().           *)
MayRun(t) == ~ruined /\ (t = "client" => NtwFree)
MayBegin(t) == MayRun(t) /\ pc[t] = "idle"

(* The bytes continue the packet they belong to, or begin it.                *)
Continues(p) ==
  IF onWire = Nothing THEN bytesSent = 0
  ELSE onWire = [packet |-> p, bytes |-> bytesSent]

(* After anything else the broker only closes the connection.                *)
Send(p, bytes) ==
  /\ bytesSent' = bytesSent + bytes
  /\ garbled' = (garbled \/ ~Continues(p))
  /\ onWire' = IF bytesSent' = Size(p) THEN Nothing
               ELSE [packet |-> p, bytes |-> bytesSent']
  /\ toBroker' = IF bytesSent' = Size(p) /\ ~garbled' THEN Append(toBroker, p)
                 ELSE toBroker

(* The transport takes as much of the packet as it has room for.             *)
SendPacket(t) ==
  /\ MayBegin(t) /\ state \in {"connecting", "connected"}
  /\ box.current # nullptr /\ Len(toBroker) + Len(acks) < MaxInFlight
  /\ \E bytes \in 1 .. Size(CurrentPacket(box)) - bytesSent :
       Send(CurrentPacket(box), bytes)
  /\ pc' = [pc EXCEPT ![t] = IF state = "connected" THEN "advance" ELSE "idle"]
  /\ UNCHANGED <<state, box, packetId, ruined, acks, received, buffered>>

(* _advanceOutbox                                                            *)
SentWhole ==
  box.current # nullptr /\ bytesSent = Size(CurrentPacket(box))
Advanced ==
  IF ~SentWhole THEN box
  ELSE IF Removable(CurrentPacket(box)) THEN RemoveCurrent(box)
  ELSE NextCurrent(box)

(* _onConnack goes on to _clearQueue when the broker has no session.         *)
AdvanceOutbox(t) ==
  /\ MayRun(t) /\ pc[t] \in {"advance", "connack"}
  /\ \E next \in IF pc[t] = "connack" THEN {"idle", "clear"} ELSE {"idle"} :
       pc' = [pc EXCEPT ![t] = next]
  /\ box' = Advanced /\ bytesSent' = IF SentWhole THEN 0 ELSE bytesSent
  /\ UNCHANGED <<state, packetId, ruined, otherVars>>

-----------------------------------------------------------------------------
(* loop(): _checkIncoming, _checkPing, _checkTimeout                         *)

(* After a write to a deleted node nothing more is said of the outbox.       *)
Sweep(kept) ==
  LET swept == RemoveUnless(box, kept) IN
  /\ ruined' = swept.wild
  /\ box' = IF swept.wild THEN box ELSE swept.box

Acknowledged(type) == acks # <<>> /\ Head(acks).type = type
Incoming(t, type) == MayBegin(t) /\ Acknowledged(type) /\ acks' = Tail(acks)

Connack(t) ==
  /\ state = "connecting" /\ Incoming(t, "CONNECT")
  /\ state' = "connected" /\ pc' = [pc EXCEPT ![t] = "connack"]
  /\ UNCHANGED <<queueVars, packetId, ruined, onWire, garbled, toBroker, received, buffered>>

(* _clearQueue(1): what is not a PUBLISH goes.                               *)
ClearSession(t) ==
  /\ MayRun(t) /\ pc[t] = "clear" /\ pc' = [pc EXCEPT ![t] = "idle"]
  /\ Sweep(Publishes)
  /\ UNCHANGED <<state, bytesSent, packetId, otherVars>>

(* _onPuback: only the first PUBLISH is looked at.                           *)
Unacknowledged == {i \in DOMAIN Contents(box) : Contents(box)[i] \in Publishes}
Puback(t) ==
  /\ state = "connected" /\ Incoming(t, "PUBLISH")
  /\ box' = IF /\ Unacknowledged # {}
               /\ Contents(box)[Min(Unacknowledged)] = Head(acks)
            THEN RemoveFound(box, Publishes) ELSE box
  /\ UNCHANGED <<state, bytesSent, packetId, pc, ruined, onWire, garbled, toBroker,
                 received, buffered>>

Suback(t) ==
  /\ state = "connected" /\ Incoming(t, "SUBSCRIBE")
  /\ box' = IF \E i \in DOMAIN Contents(box) : Contents(box)[i] = Head(acks)
            THEN RemoveFound(box, {Head(acks)}) ELSE box
  /\ UNCHANGED <<state, bytesSent, packetId, pc, ruined, onWire, garbled, toBroker,
                 received, buffered>>

(* _checkPing, or a PUBACK for a message from the broker                     *)
AddSmall(t) ==
  /\ MayBegin(t) /\ state \in {"connecting", "connected"}
  /\ Cardinality(SmallPackets) < MaxSmall
  /\ AddPacket(SMALL) \/ (MayBreak /\ AddPacket(BROKEN(0)))
  /\ UNCHANGED <<state, bytesSent, packetId, pc, ruined, otherVars>>

(* _checkTimeout: all packets are sent again.                                *)
MayRetry == box.first # nullptr /\ bytesSent = 0 /\ box.first # box.current
CheckTimeout(t) ==
  /\ MayBegin(t) /\ state = "connected"
  /\ AcksMayBeLate /\ MayRetry
  /\ box' = ResetCurrent(box)
  /\ UNCHANGED <<state, bytesSent, packetId, pc, ruined, otherVars>>

-----------------------------------------------------------------------------
(* The connection                                                            *)

(* ntw waits for the outcome of connect(), so the client's task has come to  *)
(* the end of what it was at.                                                *)
Dialled ==
  /\ NtwMayCall /\ pc["client"] = "idle"
  /\ state = "connectingTcp1" /\ state' = "connecting"
  /\ UNCHANGED <<queueVars, packetId, pc, ruined, otherVars>>

(* What was on its way is lost, and the next connection is a new stream.     *)
Disconnected ==
  /\ ~ruined /\ state' = "disconnecting"
  /\ onWire' = Nothing /\ garbled' = FALSE /\ toBroker' = <<>> /\ acks' = <<>>
  /\ UNCHANGED <<queueVars, packetId, pc, ruined, received, buffered>>

(* Refused, lost, or given up by disconnect(true)                            *)
Drop == state \in {"connectingTcp1", "connecting", "connected"} /\ Disconnected

(* _checkPing: the broker is silent for twice the keepalive time, because no *)
(* packet can be sent any more, a PINGREQ neither, or it is not a CONNECT.    *)
Stuck == box.current # nullptr /\ bytesSent >= Size(CurrentPacket(box))
KeepaliveExpires(t) ==
  /\ MayBegin(t) /\ state \in {"connecting", "connected"}
  /\ Stuck \/ garbled \/ (state = "connecting" /\ box.current = nullptr)
  /\ toBroker = <<>> /\ acks = <<>>
  /\ Disconnected

(* _clearQueue(0), and what is stored behind it                              *)
KeptByNone == {}   \* fault: as if the session data were deleted
KeptBySession == Publishes
ClearClosed(t) ==
  /\ MayBegin(t) /\ state = "disconnecting"
  /\ pc' = [pc EXCEPT ![t] = "closed"]
  /\ Sweep(KeptBySession)
  /\ UNCHANGED <<state, bytesSent, packetId, otherVars>>

Closed(t) ==
  /\ MayRun(t) /\ pc[t] = "closed" /\ pc' = [pc EXCEPT ![t] = "idle"]
  /\ bytesSent' = 0 /\ state' = "disconnected"
  /\ UNCHANGED <<box, packetId, ruined, otherVars>>

(* The broker handles a packet, and acknowledges it.  It accepts a CONNECT   *)
(* as the first of a connection and nowhere else.                            *)
Misplaced == toBroker # <<>> /\ (state = "connecting") # (Head(toBroker) = CONNECT)

BrokerGets ==
  /\ ~ruined /\ toBroker # <<>> /\ ~Misplaced
  /\ toBroker' = Tail(toBroker)
  /\ LET p == Head(toBroker) IN
     /\ IF p.type = "PUBLISH"
        THEN received' = received \cup {p.id}
        ELSE UNCHANGED received
     /\ acks' = IF p.type = "SMALL" THEN acks ELSE Append(acks, p)
  /\ UNCHANGED <<state, queueVars, packetId, pc, ruined, onWire, garbled, buffered>>

BrokerCloses == Misplaced /\ Disconnected

Loop(t) ==
  \/ SendPacket(t) \/ AdvanceOutbox(t)
  \/ Connack(t) \/ ClearSession(t) \/ Puback(t) \/ Suback(t)
  \/ AddSmall(t) \/ CheckTimeout(t) \/ KeepaliveExpires(t)
  \/ ClearClosed(t) \/ Closed(t)

(* Nothing is said of what a program does that has written to a node that is *)
(* deleted.                                                                  *)
Ruined == ruined /\ UNCHANGED vars

Next ==
  \/ Connect \/ ConnectBroken
  \/ Publish \/ PublishBroken \/ PublishFails \/ Subscribe
  \/ \E t \in LoopTasks : Loop(t)
  \/ Dialled \/ Drop \/ BrokerGets \/ BrokerCloses
  \/ Ruined

Spec == Init /\ [][Next]_vars

(* Every round of loop() calls each of its parts, ntw tries to connect as    *)
(* long as there is no connection, and the broker answers.  The steps of     *)
(* which only the guard is named are enabled where it holds, and are fair in *)
(* the same sense, weakly for the sweeps and strongly for the two            *)
(* acknowledgements.                                                         *)
Someone(Step(_)) == \E t \in LoopTasks : Step(t)
MayClear(t) == MayRun(t) /\ pc[t] = "clear"
MayClearClosed(t) == MayBegin(t) /\ state = "disconnecting"
MayPuback(t) == state = "connected" /\ MayBegin(t) /\ Acknowledged("PUBLISH")
MaySuback(t) == state = "connected" /\ MayBegin(t) /\ Acknowledged("SUBSCRIBE")
FairSpec ==
  /\ Spec
  /\ WF_vars(Connect) /\ WF_vars(Dialled)
  /\ WF_vars(BrokerGets) /\ WF_vars(BrokerCloses)
  /\ WF_vars(Someone(SendPacket)) /\ WF_vars(Someone(AdvanceOutbox))
  /\ []<>~Someone(MayClear) \/ []<><<Someone(ClearSession)>>_vars
  /\ []<>~Someone(MayClearClosed) \/ []<><<Someone(ClearClosed)>>_vars
  /\ WF_vars(Someone(Closed))
  /\ <>[]~Someone(MayPuback) \/ []<><<Someone(Puback)>>_vars
  /\ <>[]~Someone(MaySuback) \/ []<><<Someone(Suback)>>_vars
  /\ SF_vars(Someone(KeepaliveExpires)) /\ SF_vars(Someone(CheckTimeout))
  /\ SF_vars(Someone(Connack))

-----------------------------------------------------------------------------
(* Properties                                                                *)

Ids == 1 .. MaxId

TypeOK ==
  /\ state \in {"disconnected", "connectingTcp1", "connecting", "connected",
                "disconnecting"}
  /\ DOMAIN box.node \subseteq Address
  /\ \A a \in DOMAIN box.node :
       box.node[a].packet \in Packet /\ box.node[a].next \in Address \cup {nullptr}
  /\ ~ruined => /\ {box.first, box.last, box.current}
                     \subseteq DOMAIN box.node \cup {nullptr}
                /\ box.prev \in Address \cup {nullptr}
  /\ bytesSent \in 0 .. PublishSize /\ packetId \in 0 .. MaxId
  /\ pc \in [LoopTasks -> {"idle", "advance", "connack", "clear", "closed"}]
  /\ onWire.packet \in Packet /\ onWire.bytes \in 0 .. PublishSize
  /\ toBroker \in Seq(Packet) /\ acks \in Seq(Packet)
  /\ received \subseteq Ids /\ buffered \subseteq Ids
  /\ {ruined, garbled} \subseteq BOOLEAN

(* The linked list with its stale _prev, its cursor and its loops of removes *)
(* is the queue of PacketQueue: nothing is lost, leaked or reordered, until  *)
(* _clearQueue removes two packets in a row behind a publish it keeps.       *)
Queue == INSTANCE PacketQueue
           WITH items <- Contents(box), cursor <- Cursor(box), Kept <- Publishes
IsQueue == Queue!Spec

(* No node is written to after it is deleted: the iterators of the outbox    *)
(* stay valid when items are removed, as its description says.               *)
NoWriteToDeletedNode == ~ruined

(* A packet is removed as it is sent by way of _prev, which retries leave    *)
(* stale, and removals too: but behind the first node it is the predecessor. *)
(* And every allocated node is listed.                                       *)
ListSound ==
  ~ruined =>
    /\ box.current \notin {nullptr, box.first}
         => /\ box.prev \in DOMAIN box.node
            /\ box.node[box.prev].next = box.current
    /\ Cardinality(DOMAIN box.node) = Len(Contents(box))

(* A publish that was buffered is in the outbox until the broker has got it, *)
(* whatever is retried, acknowledged late, or lost with a connection, as     *)
(* long as no sweep has ruined the outbox.                                   *)
InOutbox(id) == \E i \in DOMAIN Contents(box) : Contents(box)[i] = PUBLISH(id)
AtLeastOnce == ~ruined => \A id \in buffered : id \in received \/ InOutbox(id)

(* What loop() writes on a connection is a sequence of whole packets, when   *)
(* nothing is sent again.                                                    *)
WholePackets == ~garbled

(* Once connections last, there is memory for a CONNECT, and the client's    *)
(* task is not interrupted between _clearQueue and the store of the state    *)
(* that would undo a connect(), the broker gets every publish that was       *)
(* buffered, and its acknowledgement empties the outbox, unless a sweep has  *)
(* ruined it.                                                                *)
Undone == state = "connectingTcp1" /\ \E t \in LoopTasks : Closed(t)
Lasting == <>[][~Drop /\ ~ConnectBroken /\ ~Undone]_vars
Buffered(id) == id \in buffered
Delivered(id) == id \in received /\ ~InOutbox(id)
EventuallyDelivered ==
  Lasting => \A id \in Ids : Buffered(id) ~> (Delivered(id) \/ ruined)

-----------------------------------------------------------------------------
(* The invariants of MqttProofs                                              *)

Items == Contents(box)
At == Cursor(box)

PublishIds(s) == {s[i].id : i \in {j \in DOMAIN s : s[j] \in Publishes}}

Ordered(s) == \A i, j \in DOMAIN s :
  i < j /\ s[i].id # 0 /\ s[j].id # 0 => s[i].id < s[j].id

(* What is in the outbox and has an id is in the order of the ids, and the   *)
(* publishes are the last that were buffered.                                *)
OrderInv ==
  /\ Ordered(Items)
  /\ \A i \in DOMAIN Items : Items[i].id <= packetId
  /\ buffered \subseteq 1 .. packetId
  /\ PublishIds(Items) \subseteq buffered
  /\ \A id \in PublishIds(Items) : \A later \in buffered :
       id < later => later \in PublishIds(Items)

(* What the broker acknowledges it has got.                                  *)
AckInv ==
  /\ PublishIds(acks) \subseteq received
  /\ PublishIds(toBroker) \subseteq buffered /\ received \subseteq buffered
=============================================================================
