-------------------------------- MODULE Outbox --------------------------------
(***************************************************************************)
(* The class template Outbox of espMqttClient: a singly linked list of the   *)
(* packets to send, with a cursor, _current, at the next one.  An outbox is  *)
(* a record; its field node is the heap, from the addresses of the allocated *)
(* nodes to their contents.  An operator gives the outbox that one member    *)
(* function leaves.                                                          *)
(***************************************************************************)
EXTENDS Integers, SequencesExt

CONSTANTS Address, nullptr

ASSUME AddressAssumption == nullptr \notin Address

EmptyOutbox ==
  [node |-> [a \in {} |-> nullptr],
   first |-> nullptr, last |-> nullptr, current |-> nullptr, prev |-> nullptr]

(* new: one of the unused addresses, and which one makes no difference,      *)
(* because no pointer to any of them is followed before it is stored again.  *)
Unused(box) == Address \ DOMAIN box.node
NewNode(box) == CHOOSE a \in Unused(box) : TRUE

(* the heap with the node a, which holds packet and points to next           *)
WithNode(node, a, packet, next) ==
  [b \in DOMAIN node \cup {a} |->
     IF b = a THEN [packet |-> packet, next |-> next] ELSE node[b]]
Pointing(node, a, next) == [node EXCEPT ![a].next = next]

EmplaceAsCurrent(box, a, packet) ==   \* fault: _current is moved even if not null
  [box EXCEPT
     !.node = WithNode(IF box.first = nullptr THEN @ ELSE Pointing(@, box.last, a),
                       a, packet, nullptr),
     !.first = IF @ = nullptr THEN a ELSE @,
     !.last = a,
     !.current = a]
Emplace(box, a, packet) ==
  LET empty == box.first = nullptr IN
  [box EXCEPT
     !.node = WithNode(IF empty THEN @ ELSE Pointing(@, box.last, a),
                       a, packet, nullptr),
     !.first = IF empty THEN a ELSE @,
     !.last = a,
     !.current = IF empty \/ @ = nullptr THEN a ELSE @]

EmplaceFront(box, a, packet) ==
  [box EXCEPT
     !.node = WithNode(@, a, packet, box.first),
     !.first = a,
     !.last = IF box.first = nullptr THEN a ELSE @,
     !.current = a,
     !.prev = nullptr]

(* _remove                                                                   *)
UnlinkFound(box, prev, a) ==   \* fault: _current and _prev are not looked at
  LET next == box.node[a].next
      linked == IF box.first = a THEN box.node ELSE Pointing(box.node, prev, next)
  IN
  [box EXCEPT
     !.node = [b \in DOMAIN linked \ {a} |-> linked[b]],
     !.first = IF @ = a THEN next ELSE @,
     !.last = IF @ # a THEN @ ELSE IF box.first = a THEN nullptr ELSE prev]
Unlink(box, prev, a) ==
  LET next == box.node[a].next
      linked == IF box.first = a \/ box.first = box.last
                THEN box.node
                ELSE Pointing(box.node, prev, next)
  IN
  [node |-> [b \in DOMAIN linked \ {a} |-> linked[b]],
   first |-> IF box.first = box.last THEN nullptr
             ELSE IF box.first = a THEN next ELSE box.first,
   last |-> IF box.first = box.last THEN nullptr
            ELSE IF box.last = a /\ box.first # a THEN prev ELSE box.last,
   current |-> IF box.current = a THEN next ELSE box.current,
   prev |-> IF box.prev = a THEN prev ELSE box.prev]

RemoveCurrent(box) == Unlink(box, box.prev, box.current)
ResetCurrent(box) == [box EXCEPT !.current = box.first]
NextCurrentOnly(box) ==   \* fault: _prev stays behind
  [box EXCEPT !.current = box.node[box.current].next]
NextCurrent(box) ==
  [box EXCEPT !.prev = box.current, !.current = box.node[box.current].next]

(* The addresses an iterator visits, in their order.                         *)
Nodes(box) ==
  LET size == Cardinality(DOMAIN box.node)
      next == [a \in DOMAIN box.node \cup {nullptr} |->
                 IF a = nullptr THEN nullptr ELSE box.node[a].next]
      at[i \in 0 .. size] == IF i = 0 THEN box.first ELSE next[at[i - 1]]
      length == Cardinality({i \in 1 .. size : at[i - 1] # nullptr})
  IN [i \in 1 .. length |-> at[i - 1]]

Contents(box) ==
  LET nodes == Nodes(box) IN [i \in DOMAIN nodes |-> box.node[nodes[i]].packet]

(* the position of the cursor: past the last packet when _current is null    *)
Cursor(box) ==
  LET nodes == Nodes(box) IN
  IF box.current = nullptr THEN Len(nodes) + 1
  ELSE SelectInSeq(nodes, LAMBDA a : a = box.current)

CurrentPacket(box) == box.node[box.current].packet

(* remove(it) at the first of the packets, which must be there               *)
RemoveFound(box, packets) ==
  LET nodes == Nodes(box)
      i == SelectInSeq(nodes, LAMBDA a : box.node[a].packet \in packets)
  IN Unlink(box, IF i = 1 THEN nullptr ELSE nodes[i - 1], nodes[i])

(* The loop of an iterator that removes what is not kept.  remove(it) and    *)
(* ++it alike leave the node they pass as the iterator's predecessor, and    *)
(* remove(it) then deletes it.  The sweep is wild when _remove writes to     *)
(* such a node; nothing is known of what it leaves.                          *)
WritesToDeleted(box, prev, a) ==
  box.first # box.last /\ box.first # a /\ prev \notin DOMAIN box.node

Visit(swept, a, kept) ==
  IF swept.wild THEN swept
  ELSE IF swept.box.node[a].packet \in kept THEN [swept EXCEPT !.prev = a]
  ELSE IF WritesToDeleted(swept.box, swept.prev, a) THEN [swept EXCEPT !.wild = TRUE]
  ELSE [box |-> Unlink(swept.box, swept.prev, a), prev |-> a, wild |-> FALSE]
RemoveUnless(box, kept) ==
  LET nodes == Nodes(box)
      swept[i \in 0 .. Len(nodes)] ==
        IF i = 0 THEN [box |-> box, prev |-> nullptr, wild |-> FALSE]
        ELSE Visit(swept[i - 1], nodes[i], kept)
  IN swept[Len(nodes)]

(* The allocated nodes are a list in the order s, which has the cursor on    *)
(* one of them or behind the last; _prev is its predecessor, unless the      *)
(* cursor is at the first node: nothing looks at _prev then, and it may be   *)
(* stale, or left by a sweep to a node that is deleted.                      *)
IsList(box, s) ==
  /\ s \in Seq(DOMAIN box.node)
  /\ \A a \in DOMAIN box.node : \E i \in DOMAIN s : s[i] = a
  /\ \A i, j \in DOMAIN s : s[i] = s[j] => i = j
  /\ box.first = IF s = <<>> THEN nullptr ELSE s[1]
  /\ box.last = IF s = <<>> THEN nullptr ELSE s[Len(s)]
  /\ \A i \in DOMAIN s :
       box.node[s[i]].next = IF i = Len(s) THEN nullptr ELSE s[i + 1]
CursorSound(box, s) ==
  /\ box.current \in DOMAIN box.node \cup {nullptr}
  /\ \A i \in DOMAIN s :
       i > 1 /\ box.current = s[i] => box.prev = s[i - 1]
  /\ box.current = nullptr /\ s # <<>> => box.prev = s[Len(s)]
=============================================================================
