----------------------------- MODULE MqttProofs -----------------------------
(***************************************************************************)
(* Theorems about MqttSession, for any number of nodes, packets and sizes.   *)
(*                                                                           *)
(* The outbox is linked nodes with a cursor and a _prev that retries leave   *)
(* stale.  First, View says which sequence of nodes and packets a heap is,   *)
(* and a lemma for each operation of the outbox what it makes of a view; the *)
(* removing iterator takes an induction over the nodes it has passed, which  *)
(* shows that it writes to a deleted node only where two packets in a row    *)
(* go behind one that stays.  Then, Holds forgets the nodes: an outbox holds *)
(* a queue with a cursor, and behind the first packet _prev is the           *)
(* predecessor.  From there on each step of the session only appends, puts a *)
(* packet in front, moves the cursor, or thins the queue without touching a  *)
(* publish, but for the first publish once the broker has it; and each of    *)
(* those is a step of PacketQueue.                                           *)
(***************************************************************************)
EXTENDS MqttSession, FiniteSetTheorems, WellFoundedInduction, TLAPS

(***************************************************************************)
(* Induction over the natural numbers                                      *)
(***************************************************************************)

LEMMA Least ==
  ASSUME NEW T, T \subseteq Nat, T # {}
  PROVE  \E x \in T : \A y \in T : x <= y
  <1> DEFINE R == OpToRel(<, Nat)
  <1>1. IsWellFoundedOn(R, Nat)
    BY NatLessThanWellFounded
  <1>2. PICK x \in T : \A y \in T : ~ (<<y, x>> \in R)
    <2> HIDE DEF R
    <2> QED
      BY <1>1, WFMin
  <1>3. \A y \in T : ~(y < x)
    BY <1>2 DEF OpToRel
  <1> QED
    BY <1>3

LEMMA Induct ==
  ASSUME NEW T, 0 \in T, \A n \in Nat : n \in T => n + 1 \in T
  PROVE  Nat \subseteq T
  <1> DEFINE U == Nat \ T
  <1> SUFFICES ASSUME U # {} PROVE FALSE
    OBVIOUS
  <1>1. PICK x \in U : \A y \in U : x <= y
    <2>1. U \subseteq Nat
      OBVIOUS
    <2> HIDE DEF U
    <2> QED
      BY <2>1, Least
  <1>2. x # 0 /\ x - 1 \in Nat
    OBVIOUS
  <1>3. x - 1 \in T
    BY <1>1, <1>2
  <1>4. x \in T
    <2>1. (x - 1) + 1 = x
      OBVIOUS
    <2> QED
      BY <1>2, <1>3, <2>1
  <1> QED
    BY <1>4

(***************************************************************************)
(* The linked list                                                         *)
(***************************************************************************)

Boxed(b) ==
  /\ b = [node |-> b.node, first |-> b.first, last |-> b.last,
          current |-> b.current, prev |-> b.prev]
  /\ b.node = [a \in DOMAIN b.node |-> b.node[a]]
  /\ DOMAIN b.node \subseteq Address /\ b.prev \in Address \cup {nullptr}
  /\ \A a \in DOMAIN b.node :
       b.node[a] = [packet |-> b.node[a].packet, next |-> b.node[a].next]

\* The outbox b has the nodes s; they hold c, and the cursor is at the k-th.
View(b, s, c, k) ==
  /\ Boxed(b) /\ IsList(b, s) /\ CursorSound(b, s)
  /\ c = [i \in 1 .. Len(s) |-> b.node[s[i]].packet]
  /\ k \in 1 .. Len(s) + 1
  /\ b.current = IF k = Len(s) + 1 THEN nullptr ELSE s[k]

\* What the iterator visits.
LEMMA NodesAre ==
  ASSUME NEW b, NEW s, IsList(b, s), nullptr \notin DOMAIN b.node
  PROVE  Nodes(b) = s /\ Cardinality(DOMAIN b.node) = Len(s)
  <1> DEFINE n == Len(s)
             D == DOMAIN b.node
             size == Cardinality(D)
             next == [a \in D \cup {nullptr} |->
                        IF a = nullptr THEN nullptr ELSE b.node[a].next]
             After(a) == next[a]
             Runs(f) == f = [i \in 0 .. size |-> IF i = 0 THEN b.first ELSE After(f[i - 1])]
             at[i \in 0 .. size] ==
               IF i = 0 THEN b.first ELSE next[at[i - 1]]
             g == [i \in 0 .. size |-> IF i < n THEN s[i + 1] ELSE nullptr]
  <1>1. n \in Nat /\ s \in [1 .. n -> D]
    BY DEF IsList
  <1>2. size = n
    <2>1. s \in Bijection(1 .. n, D)
      <3>1. /\ \A a \in D : \E i \in 1 .. n : s[i] = a
            /\ \A i, j \in 1 .. n : s[i] = s[j] => i = j
        BY <1>1 DEF IsList
      <3> HIDE DEF n, D
      <3> QED
        BY <1>1, <3>1 DEF Bijection, Injection, IsInjective, Surjection
    <2>2. IsFiniteSet(1 .. n) /\ Cardinality(1 .. n) = n
      BY <1>1, FS_Interval
    <2> HIDE DEF n, D
    <2>3. ExistsBijection(1 .. n, D)
      BY <2>1 DEF ExistsBijection
    <2> QED
      BY <2>2, <2>3, FS_Bijection
  <1>3. \A i \in 0 .. n : g[i] = IF i = 0 THEN b.first ELSE After(g[i - 1])
    <2> SUFFICES ASSUME NEW i \in 0 .. n
                 PROVE  g[i] = IF i = 0 THEN b.first ELSE After(g[i - 1])
      OBVIOUS
    <2>1. CASE i = 0
      BY <1>1, <1>2, <2>1 DEF IsList
    <2>2. CASE i > 0
      <3>1. i \in 1 .. n /\ g[i - 1] = s[i] /\ s[i] \in D /\ s[i] # nullptr
        BY <1>1, <1>2, <2>2
      <3>2. b.node[s[i]].next = IF i = n THEN nullptr ELSE s[i + 1]
        BY <1>1, <3>1 DEF IsList
      <3>3. After(g[i - 1]) = b.node[s[i]].next
        BY <3>1
      <3>4. g[i] = IF i = n THEN nullptr ELSE s[i + 1]
        <4> HIDE DEF n
        <4> QED
          BY <1>1, <1>2, <3>1
      <3> QED
        BY <2>2, <3>2, <3>3, <3>4
    <2> QED
      BY <2>1, <2>2
  <1>4. Runs(g)
    BY <1>2, <1>3
  <1>5. Runs(at)
    BY <1>4
  <1>6. \A i \in Nat : i <= n => at[i] = g[i]
    <2> DEFINE T == {i \in Nat : i <= n => at[i] = g[i]}
    <2>1. 0 \in T
      <3>1. 0 \in 0 .. n /\ 0 \in 0 .. size
        BY <1>1, <1>2
      <3>2. at[0] = b.first
        <4> HIDE DEF at
        <4> QED
          BY <1>5, <3>1
      <3>3. g[0] = b.first
        <4> HIDE DEF g
        <4> QED
          BY <1>3, <3>1
      <3> QED
        BY <3>2, <3>3
    <2>2. ASSUME NEW i \in Nat, i \in T PROVE i + 1 \in T
      <3> HIDE DEF at, g
      <3>1. i + 1 <= n => i + 1 \in 0 .. n /\ i + 1 # 0 /\ (i + 1) - 1 = i
        BY <1>1
      <3>2. i + 1 <= n => at[i + 1] = After(at[i]) /\ g[i + 1] = After(g[i])
        <4> HIDE DEF After
        <4> QED
          BY <1>2, <1>3, <1>5, <3>1
      <3> QED
        BY <1>1, <2>2, <3>2
    <2> HIDE DEF T
    <2>3. Nat \subseteq T
      BY <2>1, <2>2, Induct
    <2> QED
      BY <2>3 DEF T
  <1>7. \A i \in 1 .. n : at[i - 1] = s[i] /\ at[i - 1] # nullptr
    <2>1. \A i \in 1 .. n : g[i - 1] = s[i] /\ s[i] # nullptr
      BY <1>1, <1>2
    <2> HIDE DEF at, g, n
    <2> QED
      BY <1>1, <1>2, <1>6, <2>1
  <1>8. Cardinality({i \in 1 .. size : at[i - 1] # nullptr}) = n
    <2>1. {i \in 1 .. size : at[i - 1] # nullptr} = 1 .. n
      <3> HIDE DEF at
      <3> QED
        BY <1>2, <1>7
    <2> QED
      <3>1. Cardinality(1 .. n) = n
        <4> HIDE DEF n
        <4> QED
          BY <1>1, FS_Interval
      <3> HIDE DEF at, n
      <3> QED
        BY <2>1, <3>1
  <1>9. Nodes(b) = [i \in 1 .. n |-> at[i - 1]]
    BY <1>8 DEF Nodes
  <1>10. s = [i \in 1 .. n |-> s[i]]
    BY <1>1
  <1> QED
    <2> HIDE DEF at
    <2> QED
      BY <1>2, <1>7, <1>9, <1>10

LEMMA NullIsNoNode ==
  ASSUME NEW b, Boxed(b)
  PROVE  nullptr \notin DOMAIN b.node
  BY AddressAssumption DEF Boxed

\* A list of distinct nodes.
LEMMA ListIs ==
  ASSUME NEW b, NEW s, IsList(b, s)
  PROVE  /\ Len(s) \in Nat /\ s \in [1 .. Len(s) -> DOMAIN b.node]
         /\ DOMAIN s = 1 .. Len(s)
         /\ s = <<>> <=> Len(s) = 0
         /\ \A i, j \in 1 .. Len(s) : s[i] = s[j] => i = j
         /\ \A a \in DOMAIN b.node : \E i \in 1 .. Len(s) : s[i] = a
  BY DEF IsList

\* The functions of the specification compute s, c and k.
LEMMA ViewIs ==
  ASSUME NEW b, NEW s, NEW c, NEW k, View(b, s, c, k)
  PROVE  /\ Nodes(b) = s /\ Contents(b) = c /\ Cursor(b) = k
         /\ Len(c) = Len(s) /\ DOMAIN c = 1 .. Len(s) /\ DOMAIN s = 1 .. Len(s)
         /\ Len(s) \in Nat
         /\ Cardinality(DOMAIN b.node) = Len(c)
  <1> DEFINE n == Len(s)
  <1>1. n \in Nat /\ s \in [1 .. n -> DOMAIN b.node] /\ DOMAIN s = 1 .. n
    BY ListIs DEF View
  <1>2. Nodes(b) = s /\ Cardinality(DOMAIN b.node) = n
    BY NodesAre, NullIsNoNode DEF View
  <1>3. c = [i \in 1 .. n |-> b.node[s[i]].packet]
    BY DEF View
  <1>4. Contents(b) = c
    BY <1>1, <1>2, <1>3 DEF Contents
  <1>5. Len(c) = n /\ DOMAIN c = 1 .. n
    <2> HIDE DEF n
    <2> QED
      BY <1>1, <1>3
  <1>6. Cursor(b) = k
    <2>1. k \in 1 .. n + 1 /\ b.current = IF k = n + 1 THEN nullptr ELSE s[k]
      BY DEF View
    <2>2. CASE k = n + 1
      BY <1>2, <2>1, <2>2 DEF Cursor
    <2>3. CASE k # n + 1
      <3>1. k \in 1 .. n /\ b.current = s[k]
        BY <1>1, <2>1, <2>3
      <3>2. b.current # nullptr
        BY <1>1, <3>1, NullIsNoNode DEF View
      <3>3. Cursor(b) = SelectInSeq(s, LAMBDA a : a = b.current)
        BY <1>2, <3>2 DEF Cursor
      <3>4. {i \in 1 .. n : s[i] = b.current} = {k}
        BY <1>1, <3>1, ListIs DEF View
      <3>5. SelectInSeq(s, LAMBDA a : a = b.current) = Min({k})
        BY <3>4 DEF SelectInSeq
      <3>6. Min({k}) = k
        BY <3>1 DEF Min
      <3> QED
        BY <3>3, <3>5, <3>6
    <2> QED
      BY <2>2, <2>3
  <1> QED
    BY <1>1, <1>2, <1>4, <1>5, <1>6

\* A sound list has a view.
LEMMA SoundHasView ==
  ASSUME NEW b, NEW s, Boxed(b), IsList(b, s), CursorSound(b, s)
  PROVE  \E c, k : View(b, s, c, k)
  <1> DEFINE c == [i \in 1 .. Len(s) |-> b.node[s[i]].packet]
  <1>1. Len(s) \in Nat
    BY ListIs
  <1>2. CASE b.current = nullptr
    <2>1. View(b, s, c, Len(s) + 1)
      BY <1>1, <1>2 DEF View
    <2> QED
      BY <2>1
  <1>3. CASE b.current # nullptr
    <2>1. PICK k \in 1 .. Len(s) : s[k] = b.current
      BY <1>3, ListIs DEF CursorSound
    <2>2. View(b, s, c, k)
      BY <1>1, <2>1 DEF View
    <2> QED
      BY <2>2
  <1> QED
    BY <1>2, <1>3

\* A list without its i-th element.
Cut(s, i) == [j \in 1 .. Len(s) - 1 |-> IF j < i THEN s[j] ELSE s[j + 1]]

LEMMA UnlinkView ==
  ASSUME NEW b, NEW s, NEW c, NEW k, View(b, s, c, k),
         NEW i \in 1 .. Len(s), NEW prev \in Address \cup {nullptr},
         i > 1 => prev = s[i - 1]
  PROVE  /\ View(Unlink(b, prev, s[i]), Cut(s, i), Cut(c, i),
                 IF i < k THEN k - 1 ELSE k)
         /\ DOMAIN Unlink(b, prev, s[i]).node = DOMAIN b.node \ {s[i]}
         /\ \A a \in DOMAIN b.node \ {s[i]} :
              Unlink(b, prev, s[i]).node[a].packet = b.node[a].packet
         /\ Unlink(b, prev, s[i]).prev = IF b.prev = s[i] THEN prev ELSE b.prev
  <1> DEFINE n == Len(s)
             D == DOMAIN b.node
             u == Unlink(b, prev, s[i])
             t == Cut(s, i)
             m == IF i < k THEN k - 1 ELSE k
             next == b.node[s[i]].next
             linked == IF i = 1 THEN b.node ELSE Pointing(b.node, prev, next)
  <1>1. /\ n \in Nat /\ i \in 1 .. n /\ s \in [1 .. n -> D] /\ DOMAIN s = 1 .. n
        /\ \A x, y \in 1 .. n : s[x] = s[y] => x = y
        /\ \A a \in D : \E x \in 1 .. n : s[x] = a
    BY ListIs DEF View
  <1>0. n = Len(s)
    OBVIOUS
  <1> HIDE DEF n
  <1>2. /\ b.first = s[1] /\ b.last = s[n] /\ n >= 1
        /\ \A x \in 1 .. n : b.node[s[x]].next = IF x = n THEN nullptr ELSE s[x + 1]
        /\ nullptr \notin D
    <2>1. n >= 1 /\ s # <<>>
      BY <1>0, <1>1
    <2>2. nullptr \notin D
      BY NullIsNoNode DEF View
    <2> QED
      BY <1>0, <1>1, <2>1, <2>2 DEF View, IsList
  <1>3. next = IF i = n THEN nullptr ELSE s[i + 1]
    BY <1>1, <1>2
  <1>4. (b.first = s[i] <=> i = 1) /\ (b.last = s[i] <=> i = n)
        /\ (b.first = b.last <=> n = 1)
    <2>1. 1 \in 1 .. n /\ n \in 1 .. n
      BY <1>1, <1>2
    <2> QED
      BY <1>1, <1>2, <2>1
  <1>5. u = [node |-> [a \in DOMAIN linked \ {s[i]} |-> linked[a]],
             first |-> IF n = 1 THEN nullptr ELSE IF i = 1 THEN next ELSE b.first,
             last |-> IF n = 1 THEN nullptr
                      ELSE IF i = n /\ i # 1 THEN prev ELSE b.last,
             current |-> IF b.current = s[i] THEN next ELSE b.current,
             prev |-> IF b.prev = s[i] THEN prev ELSE b.prev]
    <2>1. (b.first = s[i] \/ b.first = b.last) <=> i = 1
      BY <1>1, <1>4
    <2> QED
      BY <1>4, <2>1 DEF Unlink
  <1>6. /\ DOMAIN linked = D
        /\ \A a \in D : linked[a] = [packet |-> b.node[a].packet, next |-> linked[a].next]
        /\ \A a \in D : linked[a].next = IF i > 1 /\ a = prev THEN next ELSE b.node[a].next
    <2>1. \A a \in D : b.node[a] = [packet |-> b.node[a].packet, next |-> b.node[a].next]
      BY DEF View, Boxed
    <2>2. CASE i = 1
      BY <2>1, <2>2
    <2>3. CASE i # 1
      <3>1. linked = [b.node EXCEPT ![prev].next = next] /\ i > 1 /\ prev \in D
        BY <1>1, <2>3 DEF Pointing
      <3> HIDE DEF linked, next
      <3>2. DOMAIN linked = D /\ \A a \in D \ {prev} : linked[a] = b.node[a]
        BY <3>1
      <3>3. linked[prev] = [b.node[prev] EXCEPT !.next = next]
        BY <3>1
      <3>4. linked[prev] = [packet |-> b.node[prev].packet, next |-> next]
        <4>1. b.node[prev] = [packet |-> b.node[prev].packet, next |-> b.node[prev].next]
          BY <2>1, <3>1
        <4> DEFINE q == b.node[prev].packet
                   r == b.node[prev].next
        <4>2. linked[prev] = [[packet |-> q, next |-> r] EXCEPT !.next = next]
          BY <3>3, <4>1
        <4> HIDE DEF q, r
        <4>3. linked[prev] = [packet |-> q, next |-> next]
          BY <4>2
        <4> QED
          BY <4>3 DEF q
      <3> QED
        BY <2>1, <3>1, <3>2, <3>4
    <2> QED
      BY <2>2, <2>3
  <1>7. /\ DOMAIN u.node = D \ {s[i]}
        /\ \A a \in D \ {s[i]} : u.node[a] = linked[a]
    <2> HIDE DEF linked, u
    <2> QED
      BY <1>5, <1>6
  <1>8. Boxed(u)
    <2> HIDE DEF linked, next
    <2> QED
      BY <1>5, <1>6, <1>7 DEF View, Boxed
  <1>9. /\ Len(t) = n - 1 /\ DOMAIN t = 1 .. n - 1 /\ n - 1 \in Nat
        /\ \A j \in 1 .. n - 1 : t[j] = IF j < i THEN s[j] ELSE s[j + 1]
    <2>1. n - 1 \in Nat
      BY <1>1, <1>2
    <2> QED
      BY <1>0, <2>1 DEF Cut
  <1>10. IsList(u, t)
    <2> HIDE DEF D, u, t, next, linked
    <2>1. \A j \in 1 .. n - 1 : t[j] \in D \ {s[i]}
      BY <1>1, <1>9
    <2>2. t \in Seq(DOMAIN u.node)
      <3>1. t = [j \in 1 .. n - 1 |-> t[j]]
        BY <1>0, <1>9 DEF t, Cut
      <3> QED
        BY <1>7, <1>9, <2>1, <3>1
    <2>3. \A a \in DOMAIN u.node : \E j \in DOMAIN t : t[j] = a
      <3> SUFFICES ASSUME NEW a \in D, a # s[i] PROVE \E j \in 1 .. n - 1 : t[j] = a
        BY <1>7, <1>9
      <3>1. PICK x \in 1 .. n : s[x] = a /\ x # i
        BY <1>1
      <3>2. CASE x < i
        BY <1>1, <1>9, <3>1, <3>2
      <3>3. CASE x > i
        <4>1. x - 1 \in 1 .. n - 1 /\ ~(x - 1 < i) /\ (x - 1) + 1 = x
          BY <1>1, <3>3
        <4>2. t[x - 1] = s[x]
          BY <1>9, <4>1
        <4> QED
          BY <3>1, <4>1, <4>2
      <3> QED
        BY <1>1, <3>1, <3>2, <3>3
    <2>4. \A x, y \in DOMAIN t : t[x] = t[y] => x = y
      BY <1>1, <1>9
    <2>5. u.first = IF t = <<>> THEN nullptr ELSE t[1]
      BY <1>1, <1>2, <1>3, <1>5, <1>9
    <2>6. u.last = IF t = <<>> THEN nullptr ELSE t[Len(t)]
      BY <1>1, <1>2, <1>3, <1>5, <1>9
    <2>7. \A j \in DOMAIN t :
            u.node[t[j]].next = IF j = Len(t) THEN nullptr ELSE t[j + 1]
      <3> SUFFICES ASSUME NEW j \in 1 .. n - 1
                   PROVE u.node[t[j]].next = IF j = n - 1 THEN nullptr ELSE t[j + 1]
        BY <1>9
      <3>1. u.node[t[j]].next = IF i > 1 /\ t[j] = prev THEN next ELSE b.node[t[j]].next
        BY <1>6, <1>7, <2>1
      <3>2. CASE j < i - 1
        <4>1. t[j] = s[j] /\ t[j + 1] = s[j + 1] /\ j # n - 1 /\ j # i - 1 /\ j # n
              /\ i - 1 \in 1 .. n /\ j \in 1 .. n
          BY <1>1, <1>9, <3>2
        <4>2. t[j] # prev
          BY <1>1, <4>1
        <4> QED
          BY <1>2, <3>1, <4>1, <4>2
      <3>3. CASE j = i - 1
        <4>1. t[j] = s[i - 1] /\ i > 1 /\ (j = n - 1 <=> i = n)
          BY <1>1, <1>9, <3>3
        <4>2. i # n => t[j + 1] = s[i + 1]
          BY <1>1, <1>9, <3>3
        <4> QED
          BY <1>3, <3>1, <4>1, <4>2
      <3>4. CASE j > i - 1
        <4>1. t[j] = s[j + 1] /\ j + 1 \in 1 .. n /\ (j = n - 1 <=> j + 1 = n)
          BY <1>1, <1>9, <3>4
        <4>2. j # n - 1 => t[j + 1] = s[j + 2] /\ (j + 1) + 1 = j + 2
          BY <1>1, <1>9, <3>4
        <4>3. ~(i > 1 /\ t[j] = prev)
          BY <1>1, <3>4, <4>1
        <4> QED
          BY <1>2, <3>1, <4>1, <4>2, <4>3
      <3> QED
        BY <1>1, <3>2, <3>3, <3>4
    <2> QED
      BY <2>2, <2>3, <2>4, <2>5, <2>6, <2>7 DEF IsList
  <1>11. /\ k \in 1 .. n + 1 /\ b.current = (IF k = n + 1 THEN nullptr ELSE s[k])
         /\ k > 1 => b.prev = s[k - 1]
    <2>1. k \in 1 .. n + 1 /\ b.current = (IF k = n + 1 THEN nullptr ELSE s[k])
      BY <1>0 DEF View, CursorSound
    <2>2. /\ \A x \in 1 .. n : x > 1 /\ b.current = s[x] => b.prev = s[x - 1]
          /\ b.current = nullptr /\ s # <<>> => b.prev = s[n]
      BY <1>0, <1>1 DEF View, CursorSound
    <2>3. k > 1 => b.prev = s[k - 1]
      <3>1. CASE k = n + 1
        <4>1. b.current = nullptr /\ s # <<>> /\ k - 1 = n
          BY <1>0, <1>1, <1>2, <2>1, <3>1
        <4> QED
          BY <2>2, <4>1
      <3>2. CASE k # n + 1
        BY <1>1, <2>1, <2>2, <3>2
      <3> QED
        BY <3>1, <3>2
    <2> QED
      BY <2>1, <2>3
  <1> DEFINE v == IF b.prev = s[i] THEN prev ELSE b.prev
  <1>12. /\ m \in 1 .. (n - 1) + 1
         /\ u.current = IF m = (n - 1) + 1 THEN nullptr ELSE t[m]
    <2> HIDE DEF D, u, t, next, linked
    <2>1. u.current = IF b.current = s[i] THEN next ELSE b.current
      BY <1>5
    <2>2. CASE k = n + 1
      <3>1. b.current = nullptr /\ nullptr # s[i] /\ m = n
        BY <1>1, <1>2, <1>11, <2>2
      <3> QED
        BY <1>1, <1>2, <2>1, <3>1
    <2>3. CASE k <= n
      <3>1. b.current = s[k] /\ k \in 1 .. n /\ (s[k] = s[i] <=> k = i)
        BY <1>1, <1>11, <2>3
      <3>2. CASE k = i
        BY <1>1, <1>3, <1>9, <2>1, <3>1, <3>2
      <3>3. CASE k < i
        BY <1>1, <1>9, <2>1, <3>1, <3>3
      <3>4. CASE k > i
        <4>1. m = k - 1 /\ k - 1 \in 1 .. n - 1 /\ ~(k - 1 < i) /\ (k - 1) + 1 = k
          BY <1>1, <3>1, <3>4
        <4>2. t[k - 1] = s[k]
          BY <1>9, <4>1
        <4> QED
          BY <1>1, <2>1, <3>1, <3>4, <4>1, <4>2
      <3> QED
        BY <1>1, <3>1, <3>2, <3>3, <3>4
    <2> QED
      BY <1>1, <1>11, <2>2, <2>3
  <1>13. u.prev = v
    <2> HIDE DEF D, u, t, next, linked
    <2> QED
      BY <1>5
  <1>14. m > 1 => v = t[m - 1]
    <2> HIDE DEF D, u, t, next, linked
    <2> SUFFICES ASSUME m > 1 PROVE v = t[m - 1]
      OBVIOUS
    <2>1. CASE i < k - 1
      <3>1. b.prev = s[k - 1] /\ s[k - 1] # s[i] /\ m - 1 = k - 2
        BY <1>1, <1>11, <2>1
      <3>2. k - 2 \in 1 .. n - 1 /\ ~(k - 2 < i) /\ (k - 2) + 1 = k - 1
        BY <1>1, <1>11, <2>1
      <3>3. t[k - 2] = s[k - 1]
        BY <1>9, <3>2
      <3> QED
        BY <3>1, <3>3
    <2>2. CASE i = k - 1
      <3>1. b.prev = s[i] /\ i > 1 /\ m - 1 = i - 1
        BY <1>1, <1>11, <2>2
      <3>2. prev = s[i - 1] /\ t[i - 1] = s[i - 1]
        BY <1>1, <1>9, <3>1
      <3> QED
        BY <3>1, <3>2
    <2>3. CASE i >= k
      <3>1. b.prev = s[k - 1] /\ m - 1 = k - 1 /\ k - 1 \in 1 .. n - 1
        BY <1>1, <1>11, <2>3
      <3>2. s[k - 1] # s[i] /\ t[k - 1] = s[k - 1]
        <4>1. k - 1 < i /\ k - 1 \in 1 .. n /\ k - 1 # i
          BY <1>1, <1>11, <2>3, <3>1
        <4> QED
          BY <1>1, <1>9, <3>1, <4>1
      <3> QED
        BY <3>1, <3>2
    <2> QED
      BY <1>1, <1>11, <2>1, <2>2, <2>3
  <1>15. CursorSound(u, t)
    <2> HIDE DEF D, u, t, m, v, next, linked
    <2>1. u.current \in (D \ {s[i]}) \cup {nullptr}
      <3>1. m # (n - 1) + 1 => m \in DOMAIN t
        BY <1>1, <1>9, <1>12
      <3>2. \A x \in DOMAIN t : t[x] \in D \ {s[i]}
        BY <1>7, <1>10 DEF IsList
      <3> QED
        BY <1>12, <3>1, <3>2
    <2>2. ASSUME NEW x \in DOMAIN t, x > 1, u.current = t[x] PROVE u.prev = t[x - 1]
      <3>1. t[x] # nullptr
        BY <1>2, <1>7, <1>10, <2>2 DEF IsList
      <3>2. m # (n - 1) + 1 /\ m \in 1 .. n - 1
        BY <1>1, <1>12, <2>2, <3>1
      <3>3. m = x
        BY <1>9, <1>10, <1>12, <2>2, <3>2 DEF IsList
      <3> QED
        BY <1>13, <1>14, <2>2, <3>3
    <2>3. ASSUME u.current = nullptr, t # <<>> PROVE u.prev = t[Len(t)]
      <3>1. m = n
        <4>1. m # n => m \in DOMAIN t /\ u.current = t[m]
          BY <1>1, <1>9, <1>12
        <4>2. m \in DOMAIN t => t[m] # nullptr
          BY <1>2, <1>7, <1>10 DEF IsList
        <4> QED
          BY <2>3, <4>1, <4>2
      <3>2. n > 1
        BY <1>1, <1>9, <2>3
      <3> QED
        BY <1>9, <1>13, <1>14, <3>1, <3>2
    <2> QED
      BY <1>7, <1>13, <2>1, <2>2, <2>3 DEF CursorSound
  <1>16. Cut(c, i) = [j \in 1 .. Len(t) |-> u.node[t[j]].packet]
    <2> HIDE DEF D, u, linked
    <2>1. Len(c) = n /\ \A j \in 1 .. n : c[j] = b.node[s[j]].packet
      BY <1>0, ViewIs DEF View
    <2>2. \A a \in D \ {s[i]} : u.node[a].packet = b.node[a].packet
      BY <1>6, <1>7
    <2>3. \A j \in 1 .. n - 1 : t[j] \in D \ {s[i]}
      <3> HIDE DEF t
      <3> QED
        BY <1>7, <1>9, <1>10 DEF IsList
    <2>4. \A j \in 1 .. n - 1 :
            (IF j < i THEN c[j] ELSE c[j + 1]) = b.node[t[j]].packet
      <3> HIDE DEF t
      <3> QED
        BY <1>1, <1>9, <2>1
    <2>5. Cut(c, i) = [j \in 1 .. n - 1 |-> IF j < i THEN c[j] ELSE c[j + 1]]
      BY <2>1 DEF Cut
    <2> HIDE DEF t
    <2> QED
      BY <1>9, <2>2, <2>3, <2>4, <2>5
  <1> QED
    <2>1. \A a \in D \ {s[i]} : u.node[a].packet = b.node[a].packet
      <3> HIDE DEF D, u, linked
      <3> QED
        BY <1>6, <1>7
    <2> HIDE DEF D, u, t, m, v, next, linked
    <2>2. View(u, t, Cut(c, i), m)
      BY <1>8, <1>9, <1>10, <1>12, <1>15, <1>16 DEF View
    <2> USE DEF D, u, t, m, v
    <2> QED
      BY <1>7, <1>13, <2>1, <2>2

LEMMA EmptyView == View(EmptyOutbox, <<>>, <<>>, 1)
  <1>1. Boxed(EmptyOutbox)
    BY DEF Boxed, EmptyOutbox
  <1>2. IsList(EmptyOutbox, <<>>) /\ CursorSound(EmptyOutbox, <<>>)
    BY DEF IsList, CursorSound, EmptyOutbox
  <1>3. <<>> = [i \in 1 .. Len(<<>>) |-> EmptyOutbox.node[<<>>[i]].packet]
    OBVIOUS
  <1>4. Len(<<>>) = 0 /\ EmptyOutbox.current = nullptr
    BY DEF EmptyOutbox
  <1> QED
    BY <1>1, <1>2, <1>3, <1>4 DEF View

\* What a view says of the pointers.
LEMMA ViewPointers ==
  ASSUME NEW b, NEW s, NEW c, NEW k, View(b, s, c, k)
  PROVE  /\ nullptr \notin DOMAIN b.node
         /\ Len(c) = Len(s)
         /\ \A i \in 1 .. Len(s) :
              /\ s[i] \in DOMAIN b.node /\ c[i] = b.node[s[i]].packet
              /\ b.node[s[i]].next = IF i = Len(s) THEN nullptr ELSE s[i + 1]
         /\ b.first = IF Len(s) = 0 THEN nullptr ELSE s[1]
         /\ b.last = IF Len(s) = 0 THEN nullptr ELSE s[Len(s)]
         /\ k \in 1 .. Len(s) + 1
         /\ b.current = IF k = Len(s) + 1 THEN nullptr ELSE s[k]
         /\ b.prev \in Address \cup {nullptr}
         /\ k > 1 => b.prev = s[k - 1]
  <1> DEFINE n == Len(s)
  <1>1. /\ n \in Nat /\ s \in [1 .. n -> DOMAIN b.node] /\ DOMAIN s = 1 .. n
        /\ s = <<>> <=> n = 0
    BY ListIs DEF View
  <1>2. Len(c) = n /\ \A i \in 1 .. n : c[i] = b.node[s[i]].packet
    BY ViewIs DEF View
  <1>3. nullptr \notin DOMAIN b.node
    BY NullIsNoNode DEF View
  <1>4. /\ b.first = IF n = 0 THEN nullptr ELSE s[1]
        /\ b.last = IF n = 0 THEN nullptr ELSE s[n]
        /\ \A i \in 1 .. n : b.node[s[i]].next = IF i = n THEN nullptr ELSE s[i + 1]
    BY <1>1 DEF View, IsList
  <1>5. /\ k \in 1 .. n + 1 /\ b.current = (IF k = n + 1 THEN nullptr ELSE s[k])
        /\ b.prev \in Address \cup {nullptr}
    BY DEF View, Boxed, CursorSound
  <1>6. /\ \A x \in 1 .. n : x > 1 /\ b.current = s[x] => b.prev = s[x - 1]
        /\ b.current = nullptr /\ n # 0 => b.prev = s[n]
    BY <1>1 DEF View, CursorSound
  <1>7. ASSUME k > 1 PROVE b.prev = s[k - 1]
    <2> HIDE DEF n
    <2>1. CASE k = n + 1
      <3>1. b.current = nullptr /\ n # 0 /\ k - 1 = n
        BY <1>1, <1>5, <1>7, <2>1
      <3> QED
        BY <1>6, <3>1
    <2>2. CASE k # n + 1
      BY <1>1, <1>5, <1>6, <1>7, <2>2
    <2> QED
      BY <2>1, <2>2
  <1> HIDE DEF n
  <1>8. n = Len(s)
    BY DEF n
  <1> QED
    BY <1>1, <1>2, <1>3, <1>4, <1>5, <1>7, <1>8

LEMMA EmplaceView ==
  ASSUME NEW b, NEW s, NEW c, NEW k, View(b, s, c, k),
         NEW a \in Address \ DOMAIN b.node, NEW p
  PROVE  /\ View(Emplace(b, a, p), Append(s, a), Append(c, p), k)
         /\ DOMAIN Emplace(b, a, p).node = DOMAIN b.node \cup {a}
         /\ Emplace(b, a, p).prev = b.prev
  <1> DEFINE n == Len(s)
             D == DOMAIN b.node
             e == Emplace(b, a, p)
             t == Append(s, a)
             linked == IF n = 0 THEN b.node ELSE Pointing(b.node, s[n], a)
  <1>1. /\ n \in Nat /\ s \in [1 .. n -> D] /\ DOMAIN s = 1 .. n
        /\ \A x, y \in 1 .. n : s[x] = s[y] => x = y
        /\ \A d \in D : \E x \in 1 .. n : s[x] = d
    BY ListIs DEF View
  <1>2. n = Len(s) /\ a \notin D /\ a # nullptr /\ a \in Address
    BY AddressAssumption
  <1> HIDE DEF n
  <1>3. /\ nullptr \notin D /\ k \in 1 .. n + 1
        /\ \A i \in 1 .. n :
             /\ c[i] = b.node[s[i]].packet
             /\ b.node[s[i]].next = IF i = n THEN nullptr ELSE s[i + 1]
        /\ b.first = (IF n = 0 THEN nullptr ELSE s[1])
        /\ b.last = (IF n = 0 THEN nullptr ELSE s[n])
        /\ b.current = (IF k = n + 1 THEN nullptr ELSE s[k])
        /\ b.prev \in Address \cup {nullptr}
        /\ k > 1 => b.prev = s[k - 1]
    BY <1>2, ViewPointers
  <1>4. b.first = nullptr <=> n = 0
    <2>1. n # 0 => s[1] \in D
      BY <1>1
    <2> QED
      BY <1>3, <2>1
  <1>5. b.current = nullptr <=> k = n + 1
    <2>1. k # n + 1 => s[k] \in D
      BY <1>1, <1>3
    <2> QED
      BY <1>3, <2>1
  <1>6. /\ DOMAIN linked = D
        /\ \A d \in D : linked[d] = [packet |-> b.node[d].packet, next |-> linked[d].next]
        /\ \A d \in D : linked[d].next = IF n > 0 /\ d = s[n] THEN a ELSE b.node[d].next
    <2>1. \A d \in D : b.node[d] = [packet |-> b.node[d].packet, next |-> b.node[d].next]
      BY DEF View, Boxed
    <2>2. CASE n = 0
      BY <2>1, <2>2
    <2>3. CASE n # 0
      <3>1. linked = [b.node EXCEPT ![s[n]].next = a] /\ n > 0 /\ s[n] \in D
        BY <1>1, <2>3 DEF Pointing
      <3> HIDE DEF linked
      <3>2. DOMAIN linked = D /\ \A d \in D \ {s[n]} : linked[d] = b.node[d]
        BY <3>1
      <3>3. linked[s[n]] = [b.node[s[n]] EXCEPT !.next = a]
        BY <3>1
      <3>4. linked[s[n]] = [packet |-> b.node[s[n]].packet, next |-> a]
        <4>1. b.node[s[n]] = [packet |-> b.node[s[n]].packet, next |-> b.node[s[n]].next]
          BY <2>1, <3>1
        <4> DEFINE q == b.node[s[n]].packet
                   r == b.node[s[n]].next
        <4>2. linked[s[n]] = [[packet |-> q, next |-> r] EXCEPT !.next = a]
          BY <3>3, <4>1
        <4> HIDE DEF q, r
        <4>3. linked[s[n]] = [packet |-> q, next |-> a]
          BY <4>2
        <4> QED
          BY <4>3 DEF q
      <3> QED
        BY <2>1, <3>1, <3>2, <3>4
    <2> QED
      BY <2>2, <2>3
  <1>7. e = [node |-> WithNode(linked, a, p, nullptr),
             first |-> IF n = 0 THEN a ELSE b.first,
             last |-> a,
             current |-> IF k = n + 1 THEN a ELSE b.current,
             prev |-> b.prev]
    <2>1. b = [node |-> b.node, first |-> b.first, last |-> b.last,
               current |-> b.current, prev |-> b.prev]
      BY DEF View, Boxed
    <2>2. (b.first = nullptr \/ b.current = nullptr) <=> k = n + 1
      BY <1>1, <1>3, <1>4, <1>5
    <2>3. linked = IF b.first = nullptr THEN b.node ELSE Pointing(b.node, b.last, a)
      BY <1>3, <1>4
    <2> HIDE DEF linked
    <2>4. e = [b EXCEPT !.node = WithNode(linked, a, p, nullptr),
                        !.first = IF n = 0 THEN a ELSE b.first,
                        !.last = a,
                        !.current = IF k = n + 1 THEN a ELSE b.current]
      BY <1>4, <2>2, <2>3 DEF Emplace
    <2> HIDE DEF e
    <2> QED
      BY <2>1, <2>4
  <1>8. /\ DOMAIN e.node = D \cup {a}
        /\ \A d \in D : e.node[d] = linked[d]
        /\ e.node[a] = [packet |-> p, next |-> nullptr]
    <2>1. e.node = [d \in D \cup {a} |->
                      IF d = a THEN [packet |-> p, next |-> nullptr] ELSE linked[d]]
      BY <1>6, <1>7 DEF WithNode
    <2> HIDE DEF e, linked
    <2> QED
      BY <1>2, <2>1
  <1>9. Boxed(e)
    <2>1. e.node = [d \in DOMAIN e.node |-> e.node[d]]
      BY <1>7 DEF WithNode
    <2> HIDE DEF linked
    <2>2. e = [node |-> e.node, first |-> e.first, last |-> e.last,
               current |-> e.current, prev |-> e.prev] /\ e.prev = b.prev
      BY <1>7
    <2>3. D \subseteq Address
      BY DEF View, Boxed
    <2> HIDE DEF e, D
    <2>4. DOMAIN e.node \subseteq Address
      BY <1>2, <1>8, <2>3
    <2>5. \A d \in DOMAIN e.node :
            e.node[d] = [packet |-> e.node[d].packet, next |-> e.node[d].next]
      BY <1>6, <1>8
    <2> QED
      BY <1>3, <2>1, <2>2, <2>4, <2>5 DEF Boxed
  <1>10. /\ Len(t) = n + 1 /\ DOMAIN t = 1 .. n + 1 /\ t # <<>>
         /\ t[n + 1] = a /\ \A j \in 1 .. n : t[j] = s[j]
         /\ t \in Seq(D \cup {a})
    <2>1. s \in Seq(D \cup {a})
      BY <1>2 DEF View, IsList
    <2> HIDE DEF D
    <2> QED
      BY <1>1, <1>2, <2>1
  <1>11. IsList(e, t)
    <2> HIDE DEF D, e, t, linked
    <2>1. \A d \in DOMAIN e.node : \E j \in DOMAIN t : t[j] = d
      <3> SUFFICES ASSUME NEW d \in D \cup {a} PROVE \E j \in 1 .. n + 1 : t[j] = d
        BY <1>8, <1>10
      <3>1. CASE d = a
        BY <1>1, <1>10, <3>1
      <3>2. CASE d # a
        BY <1>1, <1>10, <3>2
      <3> QED
        BY <3>1, <3>2
    <2>2. \A x, y \in DOMAIN t : t[x] = t[y] => x = y
      BY <1>1, <1>2, <1>10
    <2>3. e.first = IF t = <<>> THEN nullptr ELSE t[1]
      BY <1>1, <1>3, <1>7, <1>10
    <2>4. e.last = IF t = <<>> THEN nullptr ELSE t[Len(t)]
      BY <1>7, <1>10
    <2>5. \A j \in DOMAIN t :
            e.node[t[j]].next = IF j = Len(t) THEN nullptr ELSE t[j + 1]
      <3> SUFFICES ASSUME NEW j \in 1 .. n + 1
                   PROVE e.node[t[j]].next = IF j = n + 1 THEN nullptr ELSE t[j + 1]
        BY <1>10
      <3>1. CASE j = n + 1
        BY <1>8, <1>10, <3>1
      <3>2. CASE j # n + 1
        <4>1. j \in 1 .. n /\ t[j] = s[j] /\ s[j] \in D
          BY <1>1, <1>10, <3>2
        <4>2. e.node[t[j]].next = IF n > 0 /\ s[j] = s[n] THEN a ELSE b.node[s[j]].next
          BY <1>6, <1>8, <4>1
        <4>3. CASE j = n
          BY <1>1, <1>10, <4>1, <4>2, <4>3
        <4>4. CASE j # n
          <5>1. s[j] # s[n] /\ j + 1 \in 1 .. n
            BY <1>1, <4>1, <4>4
          <5> QED
            BY <1>3, <1>10, <3>2, <4>1, <4>2, <4>4, <5>1
        <4> QED
          BY <4>3, <4>4
      <3> QED
        BY <3>1, <3>2
    <2> QED
      BY <1>8, <1>10, <2>1, <2>2, <2>3, <2>4, <2>5 DEF IsList
  <1>12. e.current = t[k] /\ k \in 1 .. n + 1 /\ e.prev = b.prev
    <2> HIDE DEF D, e, t, linked
    <2> QED
      BY <1>1, <1>3, <1>7, <1>10
  <1>13. CursorSound(e, t)
    <2> HIDE DEF D, e, t, linked
    <2>1. e.current \in D \cup {a} /\ e.current # nullptr
      <3>1. t[k] \in D \cup {a}
        BY <1>10, <1>12
      <3> QED
        BY <1>2, <1>3, <1>12, <3>1
    <2>2. ASSUME NEW x \in DOMAIN t, x > 1, e.current = t[x] PROVE e.prev = t[x - 1]
      <3>1. k = x
        BY <1>10, <1>11, <1>12, <2>2 DEF IsList
      <3>2. k - 1 \in 1 .. n /\ k > 1
        BY <1>1, <1>12, <2>2, <3>1
      <3> QED
        BY <1>3, <1>10, <1>12, <3>1, <3>2
    <2> QED
      BY <1>3, <1>8, <1>12, <2>1, <2>2 DEF CursorSound
  <1>14. Append(c, p) = [j \in 1 .. Len(t) |-> e.node[t[j]].packet]
    <2> HIDE DEF D, e, linked
    <2>1. c = [j \in 1 .. n |-> b.node[s[j]].packet]
      BY <1>2 DEF View
    <2>2. Append(c, p) = [j \in 1 .. n + 1 |-> IF j = n + 1 THEN p ELSE c[j]]
      BY <1>1, <2>1
    <2> HIDE DEF t
    <2>3. \A j \in 1 .. n + 1 : (IF j = n + 1 THEN p ELSE c[j]) = e.node[t[j]].packet
      <3>1. \A d \in D : e.node[d].packet = b.node[d].packet
        BY <1>6, <1>8
      <3>2. \A j \in 1 .. n : s[j] \in D /\ t[j] = s[j] /\ c[j] = b.node[s[j]].packet
        BY <1>1, <1>3, <1>10
      <3>3. e.node[t[n + 1]].packet = p
        BY <1>8, <1>10
      <3>4. \A j \in 1 .. n + 1 : j = n + 1 \/ j \in 1 .. n
        BY <1>1
      <3>5. \A j \in 1 .. n : j # n + 1
        BY <1>1
      <3> QED
        BY <3>1, <3>2, <3>3, <3>4, <3>5
    <2> QED
      BY <1>10, <2>2, <2>3
  <1> QED
    <2>1. View(e, t, Append(c, p), k)
      <3> HIDE DEF D, e, t, linked
      <3>1. k \in 1 .. Len(t) + 1 /\ e.current = IF k = Len(t) + 1 THEN nullptr ELSE t[k]
        BY <1>1, <1>10, <1>12
      <3> QED
        BY <1>9, <1>11, <1>13, <1>14, <3>1 DEF View
    <2> QED
      BY <1>8, <1>12, <2>1

LEMMA EmplaceFrontView ==
  ASSUME NEW b, NEW s, NEW c, NEW k, View(b, s, c, k),
         NEW a \in Address \ DOMAIN b.node, NEW p
  PROVE  /\ View(EmplaceFront(b, a, p), <<a>> \o s, <<p>> \o c, 1)
         /\ DOMAIN EmplaceFront(b, a, p).node = DOMAIN b.node \cup {a}
         /\ EmplaceFront(b, a, p).prev = nullptr
  <1> DEFINE n == Len(s)
             D == DOMAIN b.node
             e == EmplaceFront(b, a, p)
             t == <<a>> \o s
  <1>1. /\ n \in Nat /\ s \in [1 .. n -> D] /\ DOMAIN s = 1 .. n
        /\ \A x, y \in 1 .. n : s[x] = s[y] => x = y
        /\ \A d \in D : \E x \in 1 .. n : s[x] = d
    BY ListIs DEF View
  <1>2. n = Len(s) /\ a \notin D /\ a # nullptr /\ a \in Address
    BY AddressAssumption
  <1> HIDE DEF n
  <1>3. /\ nullptr \notin D
        /\ \A i \in 1 .. n :
             /\ c[i] = b.node[s[i]].packet
             /\ b.node[s[i]].next = IF i = n THEN nullptr ELSE s[i + 1]
        /\ b.first = (IF n = 0 THEN nullptr ELSE s[1])
        /\ b.last = (IF n = 0 THEN nullptr ELSE s[n])
    BY <1>2, ViewPointers
  <1>4. b.first = nullptr <=> n = 0
    <2>1. n # 0 => s[1] \in D
      BY <1>1
    <2> QED
      BY <1>3, <2>1
  <1>5. e = [node |-> WithNode(b.node, a, p, b.first), first |-> a,
             last |-> IF n = 0 THEN a ELSE b.last, current |-> a, prev |-> nullptr]
    <2>1. b = [node |-> b.node, first |-> b.first, last |-> b.last,
               current |-> b.current, prev |-> b.prev]
      BY DEF View, Boxed
    <2>2. e = [b EXCEPT !.node = WithNode(b.node, a, p, b.first), !.first = a,
                        !.last = IF n = 0 THEN a ELSE b.last,
                        !.current = a, !.prev = nullptr]
      BY <1>4 DEF EmplaceFront
    <2> HIDE DEF e
    <2> QED
      BY <2>1, <2>2
  <1>6. /\ DOMAIN e.node = D \cup {a}
        /\ \A d \in D : e.node[d] = b.node[d]
        /\ e.node[a] = [packet |-> p, next |-> b.first]
        /\ e.node = [d \in DOMAIN e.node |-> e.node[d]]
    <2>1. e.node = [d \in D \cup {a} |->
                      IF d = a THEN [packet |-> p, next |-> b.first] ELSE b.node[d]]
      BY <1>5 DEF WithNode
    <2> HIDE DEF e
    <2> QED
      BY <1>2, <2>1
  <1>7. Boxed(e)
    <2>1. D \subseteq Address
          /\ \A d \in D : b.node[d] = [packet |-> b.node[d].packet, next |-> b.node[d].next]
      BY DEF View, Boxed
    <2> HIDE DEF D
    <2>2. e = [node |-> e.node, first |-> e.first, last |-> e.last,
               current |-> e.current, prev |-> e.prev] /\ e.prev = nullptr
      BY <1>5
    <2> HIDE DEF e
    <2>3. \A d \in DOMAIN e.node :
            e.node[d] = [packet |-> e.node[d].packet, next |-> e.node[d].next]
      BY <1>6, <2>1
    <2> QED
      BY <1>2, <1>6, <2>1, <2>2, <2>3 DEF Boxed
  <1>8. /\ Len(t) = n + 1 /\ DOMAIN t = 1 .. n + 1 /\ t # <<>>
        /\ t[1] = a /\ (\A j \in 1 .. n : t[j + 1] = s[j])
        /\ t \in Seq(D \cup {a})
    <2>1. s \in Seq(D \cup {a})
      BY <1>2 DEF View, IsList
    <2> HIDE DEF D
    <2>2. <<a>> \in Seq(D \cup {a}) /\ Len(<<a>>) = 1 /\ <<a>>[1] = a
      OBVIOUS
    <2>3. t \in Seq(D \cup {a}) /\ Len(t) = n + 1
      BY <1>1, <1>2, <2>1, <2>2
    <2>4. \A j \in 1 .. n + 1 : t[j] = IF j <= 1 THEN a ELSE s[j - 1]
      BY <1>1, <1>2, <2>1, <2>2
    <2> HIDE DEF t
    <2>5. \A j \in 1 .. n : j + 1 \in 1 .. n + 1 /\ ~(j + 1 <= 1) /\ (j + 1) - 1 = j
      BY <1>1
    <2>6. 1 \in 1 .. n + 1
      BY <1>1
    <2> QED
      BY <1>1, <2>3, <2>4, <2>5, <2>6
  <1>9. \A j \in 1 .. n + 1 : j = 1 \/ (j > 1 /\ j - 1 \in 1 .. n /\ t[j] = s[j - 1])
    <2> HIDE DEF t
    <2>1. \A j \in 1 .. n + 1 : j = 1 \/ (j > 1 /\ j - 1 \in 1 .. n /\ (j - 1) + 1 = j)
      BY <1>1
    <2> QED
      BY <1>8, <2>1
  <1>10. IsList(e, t)
    <2> HIDE DEF D, e, t
    <2>1. \A d \in DOMAIN e.node : \E j \in DOMAIN t : t[j] = d
      <3> SUFFICES ASSUME NEW d \in D \cup {a} PROVE \E j \in 1 .. n + 1 : t[j] = d
        BY <1>6, <1>8
      <3>1. CASE d = a
        BY <1>1, <1>8, <3>1
      <3>2. CASE d # a
        <4>1. PICK j \in 1 .. n : s[j] = d
          BY <1>1, <3>2
        <4>2. j + 1 \in 1 .. n + 1 /\ t[j + 1] = d
          BY <1>1, <1>8, <4>1
        <4> QED
          BY <4>2
      <3> QED
        BY <3>1, <3>2
    <2>2. \A x, y \in DOMAIN t : t[x] = t[y] => x = y
      <3> SUFFICES ASSUME NEW x \in 1 .. n + 1, NEW y \in 1 .. n + 1, t[x] = t[y]
                   PROVE  x = y
        BY <1>8
      <3>1. CASE x = 1 \/ y = 1
        <4>1. \A j \in 1 .. n + 1 : j # 1 => t[j] \in D
          BY <1>1, <1>9
        <4> QED
          BY <1>2, <1>8, <3>1, <4>1
      <3>2. CASE x # 1 /\ y # 1
        <4>1. x - 1 = y - 1
          BY <1>1, <1>9, <3>2
        <4> QED
          BY <1>1, <4>1
      <3> QED
        BY <3>1, <3>2
    <2>3. e.first = IF t = <<>> THEN nullptr ELSE t[1]
      BY <1>5, <1>8
    <2>4. e.last = IF t = <<>> THEN nullptr ELSE t[Len(t)]
      BY <1>1, <1>3, <1>5, <1>8
    <2>5. \A j \in DOMAIN t :
            e.node[t[j]].next = IF j = Len(t) THEN nullptr ELSE t[j + 1]
      <3> SUFFICES ASSUME NEW j \in 1 .. n + 1
                   PROVE e.node[t[j]].next = IF j = n + 1 THEN nullptr ELSE t[j + 1]
        BY <1>8
      <3>1. CASE j = 1
        BY <1>1, <1>3, <1>6, <1>8, <3>1
      <3>2. CASE j # 1
        <4>1. j > 1 /\ j - 1 \in 1 .. n /\ t[j] = s[j - 1] /\ s[j - 1] \in D
          BY <1>1, <1>9, <3>2
        <4>2. e.node[t[j]].next = IF j - 1 = n THEN nullptr ELSE s[(j - 1) + 1]
          BY <1>3, <1>6, <4>1
        <4>3. (j - 1) + 1 = j /\ (j - 1 = n <=> j = n + 1)
          BY <1>1
        <4>4. j # n + 1 => j \in 1 .. n /\ t[j + 1] = s[j]
          BY <1>1, <1>8
        <4> QED
          BY <4>2, <4>3, <4>4
      <3> QED
        BY <3>1, <3>2
    <2> QED
      BY <1>6, <1>8, <2>1, <2>2, <2>3, <2>4, <2>5 DEF IsList
  <1>11. e.current = a /\ e.prev = nullptr
    BY <1>5
  <1>12. CursorSound(e, t)
    <2> HIDE DEF D, e, t
    <2>1. \A x \in DOMAIN t : x > 1 => e.current # t[x]
      BY <1>1, <1>2, <1>8, <1>9, <1>11
    <2> QED
      BY <1>2, <1>6, <1>11, <2>1 DEF CursorSound
  <1>13. <<p>> \o c = [j \in 1 .. Len(t) |-> e.node[t[j]].packet]
    <2> HIDE DEF D, e
    <2>1. c = [j \in 1 .. n |-> b.node[s[j]].packet] /\ Len(c) = n
      BY <1>2, ViewIs DEF View
    <2>2. <<p>> \o c = [j \in 1 .. n + 1 |-> IF j <= 1 THEN p ELSE c[j - 1]]
      BY <1>1, <2>1
    <2> HIDE DEF t
    <2>3. \A j \in 1 .. n + 1 : (IF j <= 1 THEN p ELSE c[j - 1]) = e.node[t[j]].packet
      <3> SUFFICES ASSUME NEW j \in 1 .. n + 1
                   PROVE (IF j <= 1 THEN p ELSE c[j - 1]) = e.node[t[j]].packet
        OBVIOUS
      <3>1. CASE j = 1
        BY <1>6, <1>8, <3>1
      <3>2. CASE j # 1
        <4>1. j > 1 /\ j - 1 \in 1 .. n /\ t[j] = s[j - 1] /\ s[j - 1] \in D
          BY <1>1, <1>9, <3>2
        <4>2. e.node[t[j]].packet = c[j - 1] /\ ~(j <= 1)
          BY <1>3, <1>6, <4>1
        <4> QED
          BY <4>2
      <3> QED
        BY <3>1, <3>2
    <2> QED
      BY <1>8, <2>2, <2>3
  <1> QED
    <2>1. View(e, t, <<p>> \o c, 1)
      <3> HIDE DEF D, e, t
      <3>1. 1 \in 1 .. Len(t) + 1 /\ e.current = IF 1 = Len(t) + 1 THEN nullptr ELSE t[1]
        BY <1>1, <1>8, <1>11
      <3> QED
        BY <1>7, <1>10, <1>12, <1>13, <3>1 DEF View
    <2> QED
      BY <1>6, <1>11, <2>1

LEMMA NextCurrentView ==
  ASSUME NEW b, NEW s, NEW c, NEW k, View(b, s, c, k), k <= Len(s)
  PROVE  /\ View(NextCurrent(b), s, c, k + 1)
         /\ NextCurrent(b).node = b.node /\ NextCurrent(b).prev = s[k]
  <1> DEFINE n == Len(s)
             e == NextCurrent(b)
  <1>1. /\ n \in Nat /\ k \in 1 .. n /\ s \in [1 .. n -> DOMAIN b.node]
        /\ DOMAIN s = 1 .. n
        /\ \A x, y \in 1 .. n : s[x] = s[y] => x = y
        /\ n = Len(s)
    BY ListIs DEF View
  <1> HIDE DEF n
  <1>0. n \in Nat /\ k \in 1 .. n /\ n = Len(s)
    BY <1>1
  <1>2. /\ nullptr \notin DOMAIN b.node
        /\ b.current = s[k]
        /\ b.node[s[k]].next = IF k = n THEN nullptr ELSE s[k + 1]
    <2>1. /\ nullptr \notin DOMAIN b.node
          /\ \A i \in 1 .. n : b.node[s[i]].next = IF i = n THEN nullptr ELSE s[i + 1]
          /\ b.current = IF k = n + 1 THEN nullptr ELSE s[k]
      BY <1>0, ViewPointers
    <2>2. k # n + 1
      BY <1>0
    <2> QED
      BY <1>1, <2>1, <2>2
  <1>3. b = [node |-> b.node, first |-> b.first, last |-> b.last,
             current |-> b.current, prev |-> b.prev]
    BY DEF View, Boxed
  <1>4. e = [node |-> b.node, first |-> b.first, last |-> b.last,
             current |-> IF k = n THEN nullptr ELSE s[k + 1], prev |-> s[k]]
    <2>1. e = [b EXCEPT !.prev = s[k],
                        !.current = IF k = n THEN nullptr ELSE s[k + 1]]
      BY <1>2 DEF NextCurrent
    <2> HIDE DEF e
    <2> QED
      BY <1>3, <2>1
  <1>5. /\ e.node = b.node /\ e.first = b.first /\ e.last = b.last
        /\ e.current = IF k = n THEN nullptr ELSE s[k + 1]
        /\ e.prev = s[k]
        /\ e = [node |-> e.node, first |-> e.first, last |-> e.last,
                current |-> e.current, prev |-> e.prev]
    BY <1>4
  <1> HIDE DEF e
  <1>6. Boxed(e)
    <2>1. s[k] \in Address
      BY <1>1 DEF View, Boxed
    <2> QED
      BY <1>5, <2>1 DEF View, Boxed
  <1>7. IsList(e, s)
    BY <1>5 DEF View, IsList
  <1>8. CursorSound(e, s)
    <2>1. /\ e.prev \in DOMAIN e.node
          /\ e.current \in DOMAIN e.node \cup {nullptr}
      BY <1>1, <1>5
    <2>2. ASSUME NEW x \in DOMAIN s, x > 1, e.current = s[x] PROVE e.prev = s[x - 1]
      <3>1. k # n /\ k + 1 \in 1 .. n
        BY <1>1, <1>2, <1>5, <2>2
      <3>2. x = k + 1
        BY <1>1, <1>5, <2>2, <3>1
      <3> QED
        BY <1>1, <1>5, <3>2
    <2>3. ASSUME e.current = nullptr PROVE e.prev = s[Len(s)]
      <3>1. k # n => k + 1 \in 1 .. n
        BY <1>0
      <3>2. k = n
        BY <1>1, <1>2, <1>5, <2>3, <3>1
      <3> QED
        BY <1>1, <1>5, <3>2
    <2> QED
      BY <2>1, <2>2, <2>3 DEF CursorSound
  <1>9. /\ k + 1 \in 1 .. n + 1
        /\ e.current = IF k + 1 = n + 1 THEN nullptr ELSE s[k + 1]
    BY <1>1, <1>5
  <1>10. c = [i \in 1 .. n |-> e.node[s[i]].packet]
    BY <1>1, <1>5 DEF View
  <1> QED
    BY <1>1, <1>5, <1>6, <1>7, <1>8, <1>9, <1>10 DEF View, e

LEMMA ResetCurrentView ==
  ASSUME NEW b, NEW s, NEW c, NEW k, View(b, s, c, k)
  PROVE  /\ View(ResetCurrent(b), s, c, 1)
         /\ ResetCurrent(b).node = b.node /\ ResetCurrent(b).prev = b.prev
  <1> DEFINE n == Len(s)
             e == ResetCurrent(b)
  <1>1. /\ n \in Nat /\ s \in [1 .. n -> DOMAIN b.node]
        /\ DOMAIN s = 1 .. n /\ n = Len(s) /\ (s = <<>> <=> n = 0)
        /\ \A x, y \in 1 .. n : s[x] = s[y] => x = y
    BY ListIs DEF View
  <1> HIDE DEF n
  <1>2. /\ nullptr \notin DOMAIN b.node
        /\ b.first = IF n = 0 THEN nullptr ELSE s[1]
        /\ b.prev \in Address \cup {nullptr}
    BY <1>1, ViewPointers
  <1>3. b = [node |-> b.node, first |-> b.first, last |-> b.last,
             current |-> b.current, prev |-> b.prev]
    BY DEF View, Boxed
  <1>4. e = [node |-> b.node, first |-> b.first, last |-> b.last,
             current |-> b.first, prev |-> b.prev]
    BY <1>3 DEF ResetCurrent
  <1>5. /\ e.node = b.node /\ e.first = b.first /\ e.last = b.last
        /\ e.current = b.first /\ e.prev = b.prev
        /\ e = [node |-> e.node, first |-> e.first, last |-> e.last,
                current |-> e.current, prev |-> e.prev]
    BY <1>4
  <1> HIDE DEF e
  <1>6. Boxed(e) /\ IsList(e, s)
    BY <1>5 DEF View, Boxed, IsList
  <1>7. CursorSound(e, s)
    <2>1. e.current \in DOMAIN e.node \cup {nullptr}
      BY <1>1, <1>2, <1>5
    <2>2. \A x \in DOMAIN s : x > 1 => e.current # s[x]
      BY <1>1, <1>2, <1>5
    <2>3. e.current = nullptr => s = <<>>
      BY <1>1, <1>2, <1>5
    <2> QED
      BY <1>2, <1>5, <2>1, <2>2, <2>3 DEF CursorSound
  <1>8. c = [i \in 1 .. n |-> e.node[s[i]].packet]
    BY <1>1, <1>5 DEF View
  <1>9. 1 \in 1 .. n + 1 /\ e.current = IF 1 = n + 1 THEN nullptr ELSE s[1]
    BY <1>1, <1>2, <1>5
  <1> QED
    BY <1>1, <1>5, <1>6, <1>7, <1>8, <1>9 DEF View, e

(***************************************************************************)
(* The queue                                                               *)
(***************************************************************************)

\* What is left of the queue c with the cursor k is d with the cursor m: its
\* packets are those of c at the places f.
Selected(c, k, d, m, f) ==
  /\ f \in Seq(1 .. Len(c)) /\ Len(f) = Len(d)
  /\ \A i, j \in 1 .. Len(f) : i < j => f[i] < f[j]
  /\ \A j \in 1 .. Len(f) : d[j] = c[f[j]] /\ (j < m <=> f[j] < k)

LEMMA CutIs ==
  ASSUME NEW d, Len(d) \in Nat, NEW q \in 1 .. Len(d)
  PROVE  /\ Len(d) - 1 \in Nat
         /\ Len(Cut(d, q)) = Len(d) - 1 /\ DOMAIN Cut(d, q) = 1 .. Len(d) - 1
         /\ \A j \in 1 .. Len(d) - 1 :
              /\ j < q => Cut(d, q)[j] = d[j] /\ j \in 1 .. Len(d)
              /\ j >= q => Cut(d, q)[j] = d[j + 1] /\ j + 1 \in 1 .. Len(d)
  <1> DEFINE n == Len(d)
  <1>1. n = Len(d) /\ n \in Nat /\ q \in 1 .. n
    OBVIOUS
  <1> HIDE DEF n
  <1>2. n - 1 \in Nat
    BY <1>1
  <1>3. Cut(d, q) = [j \in 1 .. n - 1 |-> IF j < q THEN d[j] ELSE d[j + 1]]
    BY <1>1 DEF Cut
  <1> DEFINE t == Cut(d, q)
  <1> HIDE DEF t
  <1>4. Len(t) = n - 1 /\ DOMAIN t = 1 .. n - 1
    BY <1>2, <1>3 DEF t
  <1>5. \A j \in 1 .. n - 1 : t[j] = IF j < q THEN d[j] ELSE d[j + 1]
    BY <1>3 DEF t
  <1>6. \A j \in 1 .. n - 1 : /\ j < q => t[j] = d[j] /\ j \in 1 .. n
                              /\ j >= q => t[j] = d[j + 1] /\ j + 1 \in 1 .. n
    BY <1>1, <1>5
  <1> QED
    BY <1>1, <1>2, <1>4, <1>6 DEF t

Takes(f, x) == \E j \in 1 .. Len(f) : f[j] = x

LEMMA CutSelected ==
  ASSUME NEW c, NEW k \in Nat, NEW d, NEW m \in Nat, NEW f, Selected(c, k, d, m, f),
         Len(c) \in Nat, NEW q \in 1 .. Len(d)
  PROVE  /\ Selected(c, k, Cut(d, q), IF q < m THEN m - 1 ELSE m, Cut(f, q))
         /\ \A x \in Nat : Takes(Cut(f, q), x) <=> Takes(f, x) /\ x # f[q]
  <1> DEFINE n == Len(d)
             l == IF q < m THEN m - 1 ELSE m
             e == Cut(d, q)
             g == Cut(f, q)
  <1>1. /\ f \in Seq(1 .. Len(c)) /\ Len(f) = Len(d) /\ n \in Nat /\ n = Len(d)
        /\ f \in [1 .. n -> 1 .. Len(c)]
        /\ \A i, j \in 1 .. n : i < j => f[i] < f[j]
        /\ \A j \in 1 .. n : d[j] = c[f[j]] /\ (j < m <=> f[j] < k)
    BY DEF Selected
  <1> HIDE DEF n
  <1>2. /\ Len(e) = n - 1 /\ Len(g) = n - 1 /\ DOMAIN g = 1 .. n - 1 /\ n - 1 \in Nat
        /\ \A j \in 1 .. n - 1 :
             /\ j < q => e[j] = d[j] /\ g[j] = f[j] /\ j \in 1 .. n
             /\ j >= q => e[j] = d[j + 1] /\ g[j] = f[j + 1] /\ j + 1 \in 1 .. n
    <2>1. Len(d) \in Nat /\ q \in 1 .. Len(d) /\ Len(f) \in Nat /\ q \in 1 .. Len(f)
      BY <1>1
    <2>2. /\ Len(e) = Len(d) - 1 /\ Len(d) - 1 \in Nat
          /\ \A j \in 1 .. Len(d) - 1 :
               /\ j < q => e[j] = d[j] /\ j \in 1 .. Len(d)
               /\ j >= q => e[j] = d[j + 1] /\ j + 1 \in 1 .. Len(d)
      BY <2>1, CutIs
    <2>3. /\ Len(g) = Len(f) - 1 /\ DOMAIN g = 1 .. Len(f) - 1
          /\ \A j \in 1 .. Len(f) - 1 :
               /\ j < q => g[j] = f[j]
               /\ j >= q => g[j] = f[j + 1]
      BY <2>1, CutIs
    <2> HIDE DEF e, g
    <2>4. Len(d) = n /\ Len(f) = n
      BY <1>1
    <2> QED
      BY <2>2, <2>3, <2>4
  <1>3. n \in Nat /\ n - 1 \in Nat /\ q \in Nat /\ 1 <= q /\ q <= n
    BY <1>1
  <1> HIDE DEF e, g
  <1>4. g \in Seq(1 .. Len(c))
    <2>1. \A j \in 1 .. n - 1 : g[j] \in 1 .. Len(c)
      <3> SUFFICES ASSUME NEW j \in 1 .. n - 1 PROVE g[j] \in 1 .. Len(c)
        OBVIOUS
      <3>1. j < q \/ j >= q
        BY <1>3
      <3> QED
        BY <1>1, <1>2, <3>1
    <2>2. g = [j \in 1 .. n - 1 |-> g[j]]
      BY <1>1, <1>2 DEF Cut, g
    <2> QED
      BY <1>2, <2>1, <2>2
  <1>5. \A i, j \in 1 .. n - 1 : i < j => g[i] < g[j]
    <2> SUFFICES ASSUME NEW i \in 1 .. n - 1, NEW j \in 1 .. n - 1, i < j
                 PROVE  g[i] < g[j]
      OBVIOUS
    <2>1. CASE j < q
      <3>1. i < q
        BY <1>3, <2>1
      <3>2. g[i] = f[i] /\ g[j] = f[j] /\ i \in 1 .. n /\ j \in 1 .. n
        BY <1>2, <2>1, <3>1
      <3> QED
        BY <1>1, <3>2
    <2>2. CASE i < q /\ j >= q
      BY <1>1, <1>2, <1>3, <2>2
    <2>3. CASE i >= q
      <3>1. j >= q /\ i + 1 < j + 1
        BY <1>3, <2>3
      <3>2. g[i] = f[i + 1] /\ g[j] = f[j + 1] /\ i + 1 \in 1 .. n /\ j + 1 \in 1 .. n
        BY <1>2, <2>3, <3>1
      <3> QED
        BY <1>1, <3>1, <3>2
    <2> QED
      BY <1>3, <2>1, <2>2, <2>3
  <1>6. \A j \in 1 .. n - 1 : e[j] = c[g[j]] /\ (j < l <=> g[j] < k)
    <2> SUFFICES ASSUME NEW j \in 1 .. n - 1 PROVE e[j] = c[g[j]] /\ (j < l <=> g[j] < k)
      OBVIOUS
    <2>1. CASE j < q
      <3>1. e[j] = d[j] /\ g[j] = f[j] /\ j \in 1 .. n /\ (j < m <=> j < l)
        BY <1>2, <1>3, <2>1
      <3> HIDE DEF l
      <3> QED
        BY <1>1, <3>1
    <2>2. CASE j >= q
      <3>1. e[j] = d[j + 1] /\ g[j] = f[j + 1] /\ j + 1 \in 1 .. n /\ (j + 1 < m <=> j < l)
        BY <1>2, <1>3, <2>2
      <3> HIDE DEF l
      <3> QED
        BY <1>1, <3>1
    <2> QED
      BY <1>3, <2>1, <2>2
  <1>7. ASSUME NEW x \in Nat
        PROVE  (\E j \in 1 .. n - 1 : g[j] = x) <=> (\E j \in 1 .. n : f[j] = x) /\ x # f[q]
    <2>1. ASSUME NEW j \in 1 .. n - 1, g[j] = x
          PROVE  (\E i \in 1 .. n : f[i] = x) /\ x # f[q]
      <3>1. CASE j < q
        <4>1. g[j] = f[j] /\ j \in 1 .. n
          BY <1>2, <3>1
        <4>2. f[j] < f[q] /\ f[j] \in Nat /\ f[q] \in Nat
          <5>1. q \in 1 .. n
            BY <1>3
          <5> QED
            BY <1>1, <3>1, <4>1, <5>1
        <4> QED
          BY <2>1, <4>1, <4>2
      <3>2. CASE j >= q
        <4>1. g[j] = f[j + 1] /\ j + 1 \in 1 .. n /\ j + 1 \in Nat /\ q < j + 1
          BY <1>2, <1>3, <3>2
        <4>2. f[q] < f[j + 1] /\ f[q] \in Nat /\ f[j + 1] \in Nat
          <5>1. q \in 1 .. n
            BY <1>3
          <5> QED
            BY <1>1, <4>1, <5>1
        <4> QED
          BY <2>1, <4>1, <4>2
      <3> QED
        BY <1>3, <3>1, <3>2
    <2>2. ASSUME NEW i \in 1 .. n, f[i] = x, x # f[q] PROVE \E j \in 1 .. n - 1 : g[j] = x
      <3>1. CASE i < q
        <4>1. i \in 1 .. n - 1
          BY <1>3, <3>1
        <4> QED
          BY <1>2, <2>2, <3>1, <4>1
      <3>2. CASE i > q
        <4>1. i - 1 \in 1 .. n - 1 /\ i - 1 >= q /\ (i - 1) + 1 = i
          BY <1>3, <3>2
        <4> QED
          BY <1>2, <2>2, <4>1
      <3> QED
        BY <1>3, <2>2, <3>1, <3>2
    <2> QED
      BY <2>1, <2>2
  <1>8. Selected(c, k, e, l, g)
    BY <1>2, <1>4, <1>5, <1>6 DEF Selected
  <1>9. \A x \in Nat : Takes(g, x) <=> Takes(f, x) /\ x # f[q]
    BY <1>1, <1>2, <1>7 DEF Takes
  <1> QED
    BY <1>8, <1>9 DEF e, g, l

LEMMA AllSelected ==
  ASSUME NEW c, NEW k, Len(c) \in Nat
  PROVE  Selected(c, k, c, k, [i \in 1 .. Len(c) |-> i])
  <1> DEFINE n == Len(c)
             f == [i \in 1 .. n |-> i]
  <1>1. n \in Nat /\ n = Len(c)
    OBVIOUS
  <1> HIDE DEF n
  <1>2. f \in Seq(1 .. n) /\ Len(f) = n
    BY <1>1
  <1>3. \A i \in 1 .. n : f[i] = i
    OBVIOUS
  <1> HIDE DEF f
  <1>4. Selected(c, k, c, k, f)
    BY <1>1, <1>2, <1>3 DEF Selected
  <1> QED
    BY <1>1, <1>4 DEF f

\* Two packets in a row go, and one before them stays.
Torn(c, kept) ==
  \E h, i \in 1 .. Len(c) :
    /\ h < i /\ i < Len(c)
    /\ c[h] \in kept /\ c[i] \notin kept /\ c[i + 1] \notin kept

\* The loop of an iterator has come to the node behind the x-th.
SweptAs(s, c, k, kept, x, w, t, d, m, f) ==
  /\ w = [box |-> w.box, prev |-> w.prev, wild |-> FALSE]
  /\ View(w.box, t, d, m) /\ Selected(c, k, d, m, f)
  /\ \A j \in 1 .. Len(f) : t[j] = s[f[j]]
  /\ \A i \in 1 .. Len(c) : (\E j \in 1 .. Len(f) : f[j] = i) <=> i > x \/ c[i] \in kept
  /\ w.prev = IF x = 0 THEN nullptr ELSE s[x]
Swept(s, c, k, kept, x, w) ==
  \/ w.wild = TRUE /\ Torn(c, kept)
  \/ w.wild = FALSE /\ \E t, d, m, f : SweptAs(s, c, k, kept, x, w, t, d, m, f)

LEMMA SweepBegins ==
  ASSUME NEW b, NEW s, NEW c, NEW k, View(b, s, c, k), NEW kept
  PROVE  Swept(s, c, k, kept, 0, [box |-> b, prev |-> nullptr, wild |-> FALSE])
  <1> DEFINE n == Len(c)
             f == [i \in 1 .. n |-> i]
             w == [box |-> b, prev |-> nullptr, wild |-> FALSE]
  <1>1. n \in Nat /\ n = Len(c) /\ n = Len(s)
    BY ViewIs
  <1> HIDE DEF n
  <1>2. Selected(c, k, c, k, f)
    BY <1>1, AllSelected
  <1>3. Len(f) = n /\ \A i \in 1 .. n : f[i] = i
    BY <1>1
  <1>4. /\ w.box = b /\ w.prev = nullptr /\ w.wild = FALSE
        /\ w = [box |-> w.box, prev |-> w.prev, wild |-> FALSE]
    OBVIOUS
  <1> HIDE DEF f, w
  <1>5. SweptAs(s, c, k, kept, 0, w, s, c, k, f)
    <2>1. \A i \in 1 .. n : (\E j \in 1 .. n : f[j] = i) /\ i > 0
      BY <1>1, <1>3
    <2> QED
      BY <1>1, <1>2, <1>3, <1>4, <2>1 DEF SweptAs
  <1> QED
    BY <1>4, <1>5 DEF Swept, w

LEMMA SweepGoesOn ==
  ASSUME NEW b, NEW s, NEW c, NEW k, View(b, s, c, k), NEW kept,
         NEW x \in Nat, x + 1 <= Len(s), NEW w, Swept(s, c, k, kept, x, w)
  PROVE  Swept(s, c, k, kept, x + 1, Visit(w, s[x + 1], kept))
  <1> SUFFICES ASSUME w.wild = FALSE PROVE Swept(s, c, k, kept, x + 1, Visit(w, s[x + 1], kept))
    BY DEF Swept, Visit
  <1>1. PICK t, d, m, f : SweptAs(s, c, k, kept, x, w, t, d, m, f)
    BY DEF Swept
  <1> DEFINE n == Len(c)
             l == Len(f)
             a == s[x + 1]
             v == Visit(w, a, kept)
  <1>2. /\ n \in Nat /\ n = Len(c) /\ n = Len(s) /\ DOMAIN s = 1 .. n
        /\ l \in Nat /\ l = Len(f) /\ l = Len(t) /\ l = Len(d)
        /\ k \in Nat /\ m \in Nat
    <2>1. n \in Nat /\ n = Len(c) /\ n = Len(s) /\ DOMAIN s = 1 .. n
      BY ViewIs
    <2>2. View(w.box, t, d, m) /\ l = Len(d)
      BY <1>1 DEF SweptAs, Selected
    <2>3. Len(d) = Len(t) /\ Len(t) \in Nat
      BY <2>2, ViewIs
    <2>4. k \in 1 .. Len(s) + 1 /\ m \in 1 .. Len(t) + 1
      BY <2>2 DEF View
    <2> QED
      BY <2>1, <2>2, <2>3, <2>4
  <1> HIDE DEF n, l
  <1>3. /\ w = [box |-> w.box, prev |-> w.prev, wild |-> FALSE]
        /\ View(w.box, t, d, m) /\ Selected(c, k, d, m, f)
        /\ \A j \in 1 .. l : t[j] = s[f[j]]
        /\ \A i \in 1 .. n : (\E j \in 1 .. l : f[j] = i) <=> i > x \/ c[i] \in kept
        /\ w.prev = IF x = 0 THEN nullptr ELSE s[x]
    BY <1>1, <1>2 DEF SweptAs
  <1>4. /\ f \in [1 .. l -> 1 .. n]
        /\ \A i, j \in 1 .. l : i < j => f[i] < f[j]
        /\ \A j \in 1 .. l : d[j] = c[f[j]]
    BY <1>2, <1>3 DEF Selected
  <1>5. x + 1 \in 1 .. n /\ x + 1 > x
    BY <1>2
  <1>6. PICK q \in 1 .. l : f[q] = x + 1
    BY <1>3, <1>5
  <1>7. t[q] = a /\ w.box.node[a].packet = c[x + 1] /\ a \in DOMAIN w.box.node
    <2>1. t[q] = a
      BY <1>3, <1>6
    <2>2. t[q] \in DOMAIN w.box.node /\ d[q] = w.box.node[t[q]].packet
      BY <1>2, <1>3, ViewPointers
    <2> QED
      BY <1>4, <1>6, <2>1, <2>2
  <1>8. \A j \in 1 .. l : /\ j < q <=> f[j] <= x
                          /\ j > q <=> f[j] > x + 1
    <2> SUFFICES ASSUME NEW j \in 1 .. l PROVE /\ j < q <=> f[j] <= x
                                               /\ j > q <=> f[j] > x + 1
      OBVIOUS
    <2>1. f[j] \in Nat /\ j \in Nat /\ q \in Nat
      BY <1>2, <1>4, <1>6
    <2>2. CASE j < q
      BY <1>4, <1>6, <2>1, <2>2
    <2>3. CASE j > q
      BY <1>4, <1>6, <2>1, <2>3
    <2>4. CASE j = q
      BY <1>6, <2>1, <2>4
    <2> QED
      BY <2>1, <2>2, <2>3, <2>4
  <1>9. CASE c[x + 1] \in kept
    <2>1. v = [box |-> w.box, prev |-> a, wild |-> FALSE]
      <3>1. v = [w EXCEPT !.prev = a]
        BY <1>7, <1>9 DEF Visit
      <3> DEFINE wb == w.box
                 wp == w.prev
      <3>2. w = [box |-> wb, prev |-> wp, wild |-> FALSE]
        BY <1>3
      <3> HIDE DEF v, a, wb, wp
      <3>3. v = [box |-> wb, prev |-> a, wild |-> FALSE]
        BY <3>1, <3>2
      <3> QED
        BY <3>3 DEF wb
    <2>2. /\ v.box = w.box /\ v.prev = a /\ v.wild = FALSE
          /\ v = [box |-> v.box, prev |-> v.prev, wild |-> FALSE]
      <3> HIDE DEF v, a
      <3> QED
        BY <2>1
    <2>3. x + 1 # 0 /\ a = s[x + 1]
      BY <1>2
    <2> HIDE DEF v, a
    <2>4. \A i \in 1 .. n : (i > x \/ c[i] \in kept) <=> (i > x + 1 \/ c[i] \in kept)
      BY <1>2, <1>9
    <2>5. SweptAs(s, c, k, kept, x + 1, v, t, d, m, f)
      BY <1>2, <1>3, <2>2, <2>3, <2>4 DEF SweptAs
    <2> QED
      BY <2>2, <2>5 DEF Swept, v, a
  <1>11. /\ \A i, j \in 1 .. l : t[i] = t[j] => i = j
         /\ \A j \in 1 .. l : t[j] \in DOMAIN w.box.node
         /\ \A y \in DOMAIN w.box.node : \E j \in 1 .. l : t[j] = y
         /\ w.box.first = t[1] /\ w.box.last = t[l] /\ l >= 1
    <2>1. IsList(w.box, t)
      BY <1>3 DEF View
    <2>2. l >= 1 /\ l # 0
      BY <1>2, <1>6
    <2>3. w.box.first = t[1] /\ w.box.last = t[l]
      BY <1>2, <1>3, <2>2, ViewPointers
    <2>4. /\ \A i, j \in 1 .. l : t[i] = t[j] => i = j
          /\ \A y \in DOMAIN w.box.node : \E j \in 1 .. l : t[j] = y
          /\ t \in [1 .. l -> DOMAIN w.box.node]
      <3> DEFINE o == w.box
      <3>1. IsList(o, t) /\ Len(t) = l
        BY <1>2, <2>1
      <3> HIDE DEF o
      <3>2. /\ \A i, j \in 1 .. Len(t) : t[i] = t[j] => i = j
            /\ \A y \in DOMAIN o.node : \E j \in 1 .. Len(t) : t[j] = y
            /\ t \in [1 .. Len(t) -> DOMAIN o.node]
        BY <3>1, ListIs
      <3> QED
        BY <3>1, <3>2 DEF o
    <2> QED
      BY <2>2, <2>3, <2>4
  <1>12. ASSUME q > 1
         PROVE  /\ q - 1 \in 1 .. l /\ f[q - 1] \in 1 .. x /\ c[f[q - 1]] \in kept
                /\ x \in 1 .. n /\ w.prev = s[x]
                /\ w.box.first # a /\ w.box.first # w.box.last
    <2>1. q - 1 \in 1 .. l /\ q - 1 < q /\ q \in Nat /\ l # 1
      BY <1>2, <1>12
    <2>2. f[q - 1] \in 1 .. n /\ f[q - 1] <= x
      BY <1>4, <1>8, <2>1
    <2>3. f[q - 1] \in 1 .. x /\ x \in 1 .. n /\ x # 0
      BY <1>2, <2>2
    <2>4. ~(f[q - 1] > x)
      BY <1>2, <2>3
    <2>5. c[f[q - 1]] \in kept
      BY <1>3, <2>1, <2>2, <2>4
    <2>6. 1 \in 1 .. l /\ l \in 1 .. l
      BY <1>2, <1>11
    <2>7. w.prev = s[x]
      BY <1>3, <2>3
    <2>8. t[1] # t[q]
      BY <1>11, <1>12, <2>6
    <2>9. t[1] # t[l]
      BY <1>11, <2>1, <2>6
    <2>10. w.box.first # a /\ w.box.first # w.box.last
      BY <1>7, <1>11, <2>8, <2>9
    <2> QED
      BY <2>1, <2>3, <2>5, <2>7, <2>10
  <1>13. \A i, j \in 1 .. n : s[i] = s[j] => i = j
    BY <1>2, ListIs DEF View
  <1>14. CASE c[x + 1] \notin kept /\ WritesToDeleted(w.box, w.prev, a)
    <2>1. v.wild = TRUE
      <3>1. v = [w EXCEPT !.wild = TRUE]
        BY <1>7, <1>14 DEF Visit
      <3> HIDE DEF v
      <3> QED
        BY <1>3, <3>1
    <2>2. q > 1
      BY <1>2, <1>7, <1>11, <1>14 DEF WritesToDeleted
    <2>3. c[x] \notin kept
      <3> SUFFICES ASSUME c[x] \in kept PROVE w.prev \in DOMAIN w.box.node
        BY <1>14 DEF WritesToDeleted
      <3>1. PICK j \in 1 .. l : f[j] = x
        BY <1>3, <1>12, <2>2
      <3> QED
        BY <1>3, <1>11, <1>12, <2>2, <3>1
    <2>4. f[q - 1] # x
      BY <1>12, <2>2, <2>3
    <2>5. f[q - 1] \in 1 .. n /\ f[q - 1] < x /\ x < n
      BY <1>2, <1>12, <2>2, <2>4
    <2>6. Torn(c, kept)
      BY <1>2, <1>12, <1>14, <2>2, <2>3, <2>5 DEF Torn
    <2> QED
      BY <2>1, <2>6 DEF Swept
  <1>10. CASE c[x + 1] \notin kept /\ ~WritesToDeleted(w.box, w.prev, a)
    <2> DEFINE u == Unlink(w.box, w.prev, a)
               tt == Cut(t, q)
               dd == Cut(d, q)
               ff == Cut(f, q)
               mm == IF q < m THEN m - 1 ELSE m
    <2>1. v = [box |-> u, prev |-> a, wild |-> FALSE]
      BY <1>7, <1>10 DEF Visit
    <2>2. /\ v.box = u /\ v.prev = a /\ v.wild = FALSE
          /\ v = [box |-> v.box, prev |-> v.prev, wild |-> FALSE]
      <3> HIDE DEF v, u
      <3> QED
        BY <2>1
    <2>3. q > 1 => w.prev = t[q - 1]
      <3> SUFFICES ASSUME q > 1 PROVE w.prev = t[q - 1]
        OBVIOUS
      <3>1. w.prev \in DOMAIN w.box.node
        BY <1>10, <1>12 DEF WritesToDeleted
      <3>2. PICK j \in 1 .. l : t[j] = w.prev
        BY <1>11, <3>1
      <3>3. s[f[j]] = s[x] /\ f[j] \in 1 .. n
        BY <1>3, <1>4, <1>12, <3>2
      <3>4. f[j] = x
        BY <1>12, <1>13, <3>3
      <3>5. j < q
        BY <1>2, <1>8, <3>4
      <3>6. ~(j < q - 1)
        BY <1>2, <1>4, <1>12, <3>4
      <3>7. j = q - 1
        BY <1>2, <3>5, <3>6
      <3> QED
        BY <3>2, <3>7
    <2>6. w.prev \in Address \cup {nullptr}
      <3>1. x # 0 => s[x] \in DOMAIN b.node
        BY <1>2, ListIs DEF View
      <3> QED
        BY <1>3, <3>1 DEF View, Boxed
    <2>7. View(u, tt, dd, mm)
      <3> DEFINE o == w.box
                 p == w.prev
      <3>1. View(o, t, d, m) /\ q \in 1 .. Len(t) /\ a = t[q]
        BY <1>2, <1>3, <1>7
      <3>2. (q > 1 => p = t[q - 1]) /\ p \in Address \cup {nullptr}
        BY <2>3, <2>6
      <3> HIDE DEF a, o, p, u, tt, dd, mm
      <3>3. View(Unlink(o, p, t[q]), Cut(t, q), Cut(d, q), IF q < m THEN m - 1 ELSE m)
        BY <3>1, <3>2, UnlinkView
      <3> QED
        BY <3>1, <3>3 DEF o, p, u, tt, dd, mm
    <2>8. /\ Selected(c, k, dd, mm, ff)
          /\ \A y \in Nat : (\E j \in 1 .. Len(ff) : ff[j] = y)
                      <=> (\E j \in 1 .. l : f[j] = y) /\ y # x + 1
      <3>1. /\ Selected(c, k, d, m, f) /\ Len(c) \in Nat /\ q \in 1 .. Len(d)
            /\ k \in Nat /\ m \in Nat
        BY <1>2, <1>3
      <3> HIDE DEF dd, mm, ff
      <3>2. /\ Selected(c, k, Cut(d, q), IF q < m THEN m - 1 ELSE m, Cut(f, q))
            /\ \A y \in Nat : Takes(Cut(f, q), y) <=> Takes(f, y) /\ y # f[q]
        <4>1. Selected(c, k, Cut(d, q), IF q < m THEN m - 1 ELSE m, Cut(f, q))
          BY <3>1, CutSelected
        <4>2. \A y \in Nat : Takes(Cut(f, q), y) <=> Takes(f, y) /\ y # f[q]
          BY <3>1, CutSelected
        <4> QED
          BY <4>1, <4>2
      <3>3. /\ Selected(c, k, dd, mm, ff)
            /\ \A y \in Nat : Takes(ff, y) <=> Takes(f, y) /\ y # f[q]
        BY <3>2 DEF dd, mm, ff
      <3> QED
        BY <1>2, <1>6, <3>3 DEF Takes
    <2>9. /\ Len(ff) = l - 1 /\ l - 1 \in Nat
          /\ \A j \in 1 .. l - 1 :
               /\ j < q => ff[j] = f[j] /\ tt[j] = t[j] /\ j \in 1 .. l
               /\ j >= q => ff[j] = f[j + 1] /\ tt[j] = t[j + 1] /\ j + 1 \in 1 .. l
      <3>1. Len(f) \in Nat /\ q \in 1 .. Len(f) /\ Len(t) \in Nat /\ q \in 1 .. Len(t)
        BY <1>2
      <3>2. /\ Len(ff) = Len(f) - 1 /\ Len(f) - 1 \in Nat
            /\ \A j \in 1 .. Len(f) - 1 :
                 /\ j < q => ff[j] = f[j] /\ j \in 1 .. Len(f)
                 /\ j >= q => ff[j] = f[j + 1] /\ j + 1 \in 1 .. Len(f)
        BY <3>1, CutIs
      <3>3. \A j \in 1 .. Len(t) - 1 : /\ j < q => tt[j] = t[j]
                                       /\ j >= q => tt[j] = t[j + 1]
        BY <3>1, CutIs
      <3> HIDE DEF ff, tt
      <3> QED
        BY <1>2, <3>2, <3>3
    <2>10. q \in Nat /\ q >= 1 /\ q <= l /\ l \in Nat
      BY <1>2
    <2>15. v.prev = s[x + 1]
      BY <2>2
    <2> HIDE DEF v, a, u, tt, dd, ff, mm
    <2>11. \A j \in 1 .. l - 1 : tt[j] = s[ff[j]]
      <3> SUFFICES ASSUME NEW j \in 1 .. l - 1 PROVE tt[j] = s[ff[j]]
        OBVIOUS
      <3>1. j < q \/ j >= q
        BY <2>10
      <3> QED
        BY <1>3, <2>9, <3>1
    <2>12. \A i \in 1 .. n : (\E j \in 1 .. l - 1 : ff[j] = i) <=> i > x + 1 \/ c[i] \in kept
      <3> SUFFICES ASSUME NEW i \in 1 .. n
                   PROVE (\E j \in 1 .. l - 1 : ff[j] = i) <=> i > x + 1 \/ c[i] \in kept
        OBVIOUS
      <3>1. (\E j \in 1 .. l - 1 : ff[j] = i) <=> (i > x \/ c[i] \in kept) /\ i # x + 1
        BY <1>3, <2>8, <2>9
      <3>2. i > x + 1 <=> i > x /\ i # x + 1
        BY <1>2
      <3>3. i = x + 1 => c[i] \notin kept
        BY <1>10
      <3> QED
        BY <3>1, <3>2, <3>3
    <2>13. x + 1 # 0
      BY <1>2
    <2>16. SweptAs(s, c, k, kept, x + 1, v, tt, dd, mm, ff)
      BY <1>2, <2>2, <2>7, <2>8, <2>9, <2>11, <2>12, <2>13, <2>15 DEF SweptAs
    <2> QED
      BY <2>2, <2>16 DEF Swept, v, a
  <1> QED
    BY <1>9, <1>10, <1>14

\* An outbox that held c with the cursor k loses some nodes and becomes u.
Loses(c, k, u, t, d, m, f) ==
  View(u, t, d, m) /\ Selected(c, k, d, m, f)

\* The iterator has come to the end of the outbox.
SweptWhole(c, k, kept, w) ==
  \/ w.wild = TRUE /\ Torn(c, kept)
  \/ /\ w.wild = FALSE
     /\ \E t, d, m, f : /\ Loses(c, k, w.box, t, d, m, f)
                        /\ \A i \in 1 .. Len(c) : Takes(f, i) <=> c[i] \in kept

LEMMA RemoveUnlessView ==
  ASSUME NEW b, NEW s, NEW c, NEW k, View(b, s, c, k), NEW kept
  PROVE  SweptWhole(c, k, kept, RemoveUnless(b, kept))
  <1> DEFINE n == Len(s)
             base == [box |-> b, prev |-> nullptr, wild |-> FALSE]
             Runs(y, g) == g = [i \in 0 .. y |->
               IF i = 0 THEN base ELSE Visit(g[i - 1], s[i], kept)]
             T == {y \in Nat : \E g : Runs(y, g)}
             swept[i \in 0 .. n] ==
               IF i = 0 THEN base ELSE Visit(swept[i - 1], s[i], kept)
             U == {y \in Nat : y <= n => Swept(s, c, k, kept, y, swept[y])}
  <1>1. n \in Nat /\ Nodes(b) = s /\ Len(c) = n
    BY ViewIs
  <1>2. 0 \in T
    <2> HIDE DEF base
    <2>1. Runs(0, [i \in 0 .. 0 |-> base])
      OBVIOUS
    <2> QED
      BY <2>1
  <1>3. ASSUME NEW y \in Nat, y \in T PROVE y + 1 \in T
    <2>1. PICK f : Runs(y, f)
      BY <1>3
    <2> HIDE DEF base
    <2> DEFINE g == [i \in 0 .. y + 1 |->
                      IF i = y + 1 THEN Visit(f[y], s[y + 1], kept) ELSE f[i]]
    <2>2. \A i \in 0 .. y : f[i] = IF i = 0 THEN base ELSE Visit(f[i - 1], s[i], kept)
      BY <2>1
    <2>3. \A i \in 0 .. y + 1 : g[i] = IF i = 0 THEN base ELSE Visit(g[i - 1], s[i], kept)
      BY <2>2
    <2>4. Runs(y + 1, g)
      BY <2>3
    <2> QED
      <3> HIDE DEF g
      <3> QED
        BY <2>4
  <1>4. n \in T
    <2> HIDE DEF T, n
    <2> QED
      BY <1>1, <1>2, <1>3, Induct
  <1>5. Runs(n, swept)
    <2>1. \E g : Runs(n, g)
      BY <1>4
    <2> HIDE DEF base
    <2> QED
      BY <2>1
  <1>6. RemoveUnless(b, kept) = swept[n]
    BY <1>1 DEF RemoveUnless
  <1> HIDE DEF swept
  <1>7. swept[0] = base /\ \A y \in Nat : y + 1 <= n => swept[y + 1] = Visit(swept[y], s[y + 1], kept)
    <2> HIDE DEF base, n
    <2> QED
      BY <1>1, <1>5
  <1>8. 0 \in U
    BY <1>7, SweepBegins
  <1>9. ASSUME NEW y \in Nat, y \in U PROVE y + 1 \in U
    <2> SUFFICES ASSUME y + 1 <= n PROVE Swept(s, c, k, kept, y + 1, swept[y + 1])
      OBVIOUS
    <2>1. Swept(s, c, k, kept, y, swept[y])
      <3>1. y <= n
        <4> HIDE DEF n, U
        <4> QED
          BY <1>1
      <3> QED
        BY <1>9, <3>1
    <2>2. y + 1 <= Len(s)
      OBVIOUS
    <2>3. Swept(s, c, k, kept, y + 1, Visit(swept[y], s[y + 1], kept))
      BY <2>1, <2>2, SweepGoesOn
    <2> QED
      BY <1>7, <2>3
  <1>10. Swept(s, c, k, kept, n, swept[n])
    <2>1. n \in U
      <3> HIDE DEF U, n
      <3> QED
        BY <1>1, <1>8, <1>9, Induct
    <2>2. n <= n
      <3> HIDE DEF n
      <3> QED
        BY <1>1
    <2> QED
      BY <2>1, <2>2
  <1> DEFINE r == swept[n]
  <1>14. CASE r.wild = TRUE /\ Torn(c, kept)
    <2> HIDE DEF r
    <2>1. RemoveUnless(b, kept) = r
      BY <1>6 DEF r
    <2> QED
      BY <1>14, <2>1 DEF SweptWhole
  <1>15. CASE r.wild = FALSE /\ \E t, d, m, f : SweptAs(s, c, k, kept, n, r, t, d, m, f)
    <2>1. PICK t, d, m, f : SweptAs(s, c, k, kept, n, r, t, d, m, f)
      BY <1>15
    <2> HIDE DEF r
    <2>2. /\ View(r.box, t, d, m) /\ Selected(c, k, d, m, f)
          /\ \A i \in 1 .. Len(c) : (\E j \in 1 .. Len(f) : f[j] = i) <=> i > n \/ c[i] \in kept
      BY <2>1 DEF SweptAs
    <2>3. \A i \in 1 .. Len(c) : ~(i > n)
      <3> HIDE DEF n
      <3> QED
        BY <1>1
    <2>4. \A i \in 1 .. Len(c) : Takes(f, i) <=> c[i] \in kept
      BY <2>2, <2>3 DEF Takes
    <2>5. Loses(c, k, r.box, t, d, m, f)
      BY <2>2 DEF Loses
    <2>6. RemoveUnless(b, kept) = r
      BY <1>6 DEF r
    <2> QED
      BY <1>15, <2>4, <2>5, <2>6 DEF SweptWhole
  <1> QED
    BY <1>10, <1>14, <1>15 DEF Swept

\* Removing the i-th packet on the way.
LosesOne(c, k, i, u) ==
  \E t, d, m, f :
    /\ Loses(c, k, u, t, d, m, f)
    /\ \A j \in 1 .. Len(c) : Takes(f, j) <=> j # i
    /\ Len(d) = Len(c) - 1
    /\ m = IF i < k THEN k - 1 ELSE k

LEMMA CutOne ==
  ASSUME NEW b, NEW s, NEW c, NEW k, View(b, s, c, k),
         NEW i \in 1 .. Len(s), NEW prev \in Address \cup {nullptr},
         i > 1 => prev = s[i - 1]
  PROVE  LosesOne(c, k, i, Unlink(b, prev, s[i]))
  <1> DEFINE n == Len(s)
             g == [j \in 1 .. n |-> j]
             f == Cut(g, i)
             t == Cut(s, i)
             d == Cut(c, i)
             m == IF i < k THEN k - 1 ELSE k
             u == Unlink(b, prev, s[i])
  <1>1. n \in Nat /\ Len(c) = n /\ Len(s) = n /\ k \in Nat /\ i \in 1 .. n
    <2>1. k \in 1 .. n + 1 /\ n \in Nat
      BY ViewIs DEF View
    <2> HIDE DEF n
    <2>2. k \in Nat
      BY <2>1
    <2> QED
      BY <2>1, <2>2, ViewIs DEF n
  <1>2. View(u, t, d, m)
    <2> HIDE DEF u, t, d, m, g, f
    <2>1. View(Unlink(b, prev, s[i]), Cut(s, i), Cut(c, i), IF i < k THEN k - 1 ELSE k)
      BY UnlinkView
    <2> QED
      BY <2>1 DEF u, t, d, m
  <1> HIDE DEF n
  <1>3. Selected(c, k, c, k, g)
    <2>1. Selected(c, k, c, k, [j \in 1 .. Len(c) |-> j])
      BY <1>1, AllSelected
    <2> QED
      BY <1>1, <2>1
  <1>4. Len(g) = n /\ \A j \in 1 .. n : g[j] = j
    BY <1>1
  <1> HIDE DEF g
  <1>5. /\ Selected(c, k, d, m, f)
        /\ \A x \in Nat : Takes(f, x) <=> Takes(g, x) /\ x # g[i]
    <2>1. Len(c) \in Nat /\ i \in 1 .. Len(c)
      BY <1>1
    <2> QED
      BY <1>1, <1>3, <2>1, CutSelected
  <1>6. /\ Len(d) = n - 1 /\ Len(f) = n - 1
    <2>1. Len(c) \in Nat /\ Len(s) \in Nat /\ Len(g) \in Nat
          /\ i \in 1 .. Len(c) /\ i \in 1 .. Len(s) /\ i \in 1 .. Len(g)
      BY <1>1, <1>4
    <2>2. Len(d) = n - 1
      BY <1>1, <2>1, CutIs
    <2>4. /\ Len(f) = Len(g) - 1
          /\ \A j \in 1 .. Len(g) - 1 : /\ j < i => f[j] = g[j] /\ j \in 1 .. Len(g)
                                        /\ j >= i => f[j] = g[j + 1] /\ j + 1 \in 1 .. Len(g)
      BY <2>1, CutIs
    <2> HIDE DEF d, t, f
    <2>6. Len(g) = n
      BY <1>4
    <2> QED
      BY <2>2, <2>4, <2>6
  <1> HIDE DEF d, t, f, m, u
  <1>7. \A j \in 1 .. n : Takes(f, j) <=> j # i
    <2>1. \A j \in 1 .. n : Takes(g, j)
      BY <1>4 DEF Takes
    <2>2. g[i] = i
      BY <1>1, <1>4
    <2> QED
      BY <1>1, <1>5, <2>1, <2>2
  <1>9. Loses(c, k, u, t, d, m, f)
    BY <1>2, <1>5 DEF Loses
  <1>10. /\ Len(d) = Len(c) - 1 /\ m = IF i < k THEN k - 1 ELSE k
         /\ \A j \in 1 .. Len(c) : Takes(f, j) <=> j # i
    BY <1>1, <1>6, <1>7 DEF m
  <1> QED
    BY <1>9, <1>10 DEF u, LosesOne

(***************************************************************************)
(* The outbox as a queue                                                   *)
(***************************************************************************)

\* The outbox b is the queue c with the cursor k.
Holds(b, c, k) == c \in Seq(Packet) /\ \E s : View(b, s, c, k)

LEMMA HoldsIs ==
  ASSUME NEW b, NEW c, NEW k, Holds(b, c, k)
  PROVE  /\ Contents(b) = c /\ Cursor(b) = k /\ Cardinality(DOMAIN b.node) = Len(c)
         /\ c \in Seq(Packet) /\ Len(c) \in Nat /\ DOMAIN c = 1 .. Len(c)
         /\ k \in 1 .. Len(c) + 1
         /\ b.current = nullptr <=> k = Len(c) + 1
         /\ b.current # nullptr => CurrentPacket(b) = c[k]
         /\ b.first = nullptr <=> Len(c) = 0
         /\ b.first = b.current <=> k = 1
         /\ k > 1 /\ k <= Len(c) =>
              b.prev \in DOMAIN b.node /\ b.node[b.prev].next = b.current
  <1>1. PICK s : View(b, s, c, k)
    BY DEF Holds
  <1> DEFINE n == Len(c)
  <1>2. /\ Contents(b) = c /\ Cursor(b) = k /\ Cardinality(DOMAIN b.node) = n
        /\ n = Len(s) /\ n = Len(c) /\ n \in Nat /\ DOMAIN c = 1 .. n
    BY <1>1, ViewIs
  <1>3. /\ nullptr \notin DOMAIN b.node /\ k \in 1 .. n + 1
        /\ \A i \in 1 .. n :
             /\ s[i] \in DOMAIN b.node /\ c[i] = b.node[s[i]].packet
             /\ b.node[s[i]].next = IF i = n THEN nullptr ELSE s[i + 1]
        /\ \A i, j \in 1 .. n : s[i] = s[j] => i = j
        /\ b.first = IF n = 0 THEN nullptr ELSE s[1]
        /\ b.current = IF k = n + 1 THEN nullptr ELSE s[k]
    <2>1. IsList(b, s)
      BY <1>1 DEF View
    <2>2. k \in 1 .. Len(s) + 1 /\ b.current = IF k = Len(s) + 1 THEN nullptr ELSE s[k]
      BY <1>1 DEF View
    <2> HIDE DEF n
    <2> QED
      BY <1>1, <1>2, <2>1, <2>2, ListIs, ViewPointers
  <1>4. /\ \A i \in 1 .. n : i > 1 /\ b.current = s[i] => b.prev = s[i - 1]
        /\ b.current = nullptr /\ n # 0 => b.prev = s[n]
    <2>1. CursorSound(b, s) /\ DOMAIN s = 1 .. n /\ (s = <<>> <=> n = 0)
      <3>1. IsList(b, s) /\ CursorSound(b, s)
        BY <1>1 DEF View
      <3> QED
        BY <1>2, <3>1, ListIs
    <2> HIDE DEF n
    <2> QED
      BY <1>2, <2>1 DEF CursorSound
  <1> HIDE DEF n
  <1>5. k \in Nat /\ 1 <= k /\ k <= n + 1
    BY <1>2, <1>3
  <1>6. k <= n => k \in 1 .. n /\ k # n + 1
    BY <1>2, <1>5
  <1>7. k # n + 1 => k \in 1 .. n
    BY <1>2, <1>5
  <1>8. b.current = nullptr <=> k = n + 1
    BY <1>3, <1>7
  <1>9. b.current # nullptr => CurrentPacket(b) = c[k]
    BY <1>3, <1>7, <1>8 DEF CurrentPacket
  <1>10. b.first = nullptr <=> n = 0
    <2>1. CASE n = 0
      BY <1>3, <2>1
    <2>2. CASE n # 0
      <3>1. 1 \in 1 .. n
        BY <1>2, <2>2
      <3>2. s[1] # nullptr /\ b.first = s[1]
        BY <1>3, <2>2, <3>1
      <3> QED
        BY <2>2, <3>2
    <2> QED
      BY <2>1, <2>2
  <1>11. b.first = b.current <=> k = 1
    <2>1. CASE n = 0
      BY <1>3, <1>5, <1>8, <1>10, <2>1
    <2>2. CASE n # 0
      <3>1. 1 \in 1 .. n /\ n + 1 # 1
        BY <1>2, <2>2
      <3> QED
        BY <1>3, <1>7, <1>8, <1>10, <2>2, <3>1
    <2> QED
      BY <2>1, <2>2
  <1>12. k > 1 /\ k <= n => k - 1 \in 1 .. n /\ (k - 1) + 1 = k /\ k - 1 # n
    BY <1>2, <1>5
  <1>13. k > 1 /\ k <= n => b.prev = s[k - 1] /\ b.node[s[k - 1]].next = s[k]
                            /\ b.current = s[k] /\ s[k - 1] \in DOMAIN b.node
    BY <1>3, <1>4, <1>6, <1>12
  <1>16. c \in Seq(Packet)
    BY DEF Holds
  <1> QED
    BY <1>2, <1>3, <1>8, <1>9, <1>10, <1>11, <1>13, <1>16

\* The type of the heap and its pointers.
LEMMA HoldsTypes ==
  ASSUME NEW b, NEW c, NEW k, Holds(b, c, k)
  PROVE  /\ DOMAIN b.node \subseteq Address
         /\ \A a \in DOMAIN b.node :
              b.node[a].packet \in Packet /\ b.node[a].next \in Address \cup {nullptr}
         /\ {b.first, b.last, b.current} \subseteq DOMAIN b.node \cup {nullptr}
         /\ b.prev \in Address \cup {nullptr}
  <1>1. PICK s : View(b, s, c, k)
    BY DEF Holds
  <1> DEFINE n == Len(s)
  <1>2. DOMAIN b.node \subseteq Address /\ b.prev \in Address \cup {nullptr}
    BY <1>1 DEF View, Boxed
  <1>3. /\ n \in Nat /\ Len(c) = n /\ DOMAIN c = 1 .. n
        /\ \A i \in 1 .. n :
             /\ s[i] \in DOMAIN b.node /\ c[i] = b.node[s[i]].packet
             /\ b.node[s[i]].next = IF i = n THEN nullptr ELSE s[i + 1]
        /\ b.first = IF n = 0 THEN nullptr ELSE s[1]
        /\ b.last = IF n = 0 THEN nullptr ELSE s[n]
    BY <1>1, ViewIs, ViewPointers
  <1>4. \A a \in DOMAIN b.node : \E i \in 1 .. n : s[i] = a
    BY <1>1, ListIs DEF View
  <1>5. b.current \in DOMAIN b.node \cup {nullptr}
    BY <1>1 DEF View, CursorSound
  <1>6. \A i \in 1 .. n : c[i] \in Packet
    <2>1. c \in [1 .. Len(c) -> Packet]
      BY DEF Holds
    <2> HIDE DEF n
    <2> QED
      BY <1>3, <2>1
  <1> HIDE DEF n
  <1>7. ASSUME NEW a \in DOMAIN b.node
        PROVE  b.node[a].packet \in Packet /\ b.node[a].next \in Address \cup {nullptr}
    <2>1. PICK i \in 1 .. n : s[i] = a
      BY <1>4
    <2>2. i # n => i + 1 \in 1 .. n
      BY <1>3
    <2> QED
      BY <1>2, <1>3, <1>6, <2>1, <2>2
  <1>8. n # 0 => 1 \in 1 .. n /\ n \in 1 .. n
    BY <1>3
  <1>9. b.first \in DOMAIN b.node \cup {nullptr} /\ b.last \in DOMAIN b.node \cup {nullptr}
    BY <1>3, <1>8
  <1> QED
    BY <1>2, <1>5, <1>7, <1>9

LEMMA EmptyHolds == Holds(EmptyOutbox, <<>>, 1)
  BY EmptyView DEF Holds

LEMMA EmplaceHolds ==
  ASSUME NEW b, NEW c, NEW k, Holds(b, c, k), NEW p \in Packet, Unused(b) # {}
  PROVE  Holds(Emplace(b, NewNode(b), p), Append(c, p), k)
  <1>1. PICK s : View(b, s, c, k)
    BY DEF Holds
  <1>2. NewNode(b) \in Address \ DOMAIN b.node
    BY DEF Unused, NewNode
  <1>3. View(Emplace(b, NewNode(b), p), Append(s, NewNode(b)), Append(c, p), k)
    BY <1>1, <1>2, EmplaceView
  <1>4. Append(c, p) \in Seq(Packet)
    BY DEF Holds
  <1> QED
    BY <1>3, <1>4 DEF Holds

LEMMA EmplaceFrontHolds ==
  ASSUME NEW b, NEW c, NEW k, Holds(b, c, k), NEW p \in Packet, Unused(b) # {}
  PROVE  Holds(EmplaceFront(b, NewNode(b), p), <<p>> \o c, 1)
  <1>1. PICK s : View(b, s, c, k)
    BY DEF Holds
  <1>2. NewNode(b) \in Address \ DOMAIN b.node
    BY DEF Unused, NewNode
  <1>3. View(EmplaceFront(b, NewNode(b), p), <<NewNode(b)>> \o s, <<p>> \o c, 1)
    BY <1>1, <1>2, EmplaceFrontView
  <1>4. <<p>> \o c \in Seq(Packet)
    <2>1. c \in Seq(Packet) /\ <<p>> \in Seq(Packet)
      BY DEF Holds
    <2> QED
      BY <2>1
  <1> QED
    BY <1>3, <1>4 DEF Holds

LEMMA ResetCurrentHolds ==
  ASSUME NEW b, NEW c, NEW k, Holds(b, c, k)
  PROVE  Holds(ResetCurrent(b), c, 1)
  BY ResetCurrentView DEF Holds

LEMMA NextCurrentHolds ==
  ASSUME NEW b, NEW c, NEW k, Holds(b, c, k), k <= Len(c)
  PROVE  Holds(NextCurrent(b), c, k + 1)
  <1>1. PICK s : View(b, s, c, k)
    BY DEF Holds
  <1>2. Len(c) = Len(s)
    BY <1>1, ViewIs
  <1> QED
    BY <1>1, <1>2, NextCurrentView DEF Holds

\* What is left of a queue after some packets have been removed.
LEMMA SelectedHolds ==
  ASSUME NEW c, NEW k, c \in Seq(Packet),
         NEW u, NEW t, NEW d, NEW m, NEW f, Loses(c, k, u, t, d, m, f)
  PROVE  Holds(u, d, m)
  <1> DEFINE n == Len(c)
             l == Len(f)
  <1>0. View(u, t, d, m) /\ Selected(c, k, d, m, f)
    BY DEF Loses
  <1>1. n \in Nat /\ n = Len(c) /\ l = Len(f) /\ l = Len(d) /\ l = Len(t) /\ l \in Nat
    <2>1. Len(d) = Len(t) /\ Len(t) \in Nat /\ Len(c) \in Nat
      BY <1>0, ViewIs
    <2>2. Len(f) = Len(d)
      BY <1>0 DEF Selected
    <2> QED
      BY <2>1, <2>2
  <1>2. /\ f \in [1 .. l -> 1 .. n]
        /\ \A j \in 1 .. l : d[j] = c[f[j]]
    BY <1>0 DEF Selected
  <1>3. \A i \in 1 .. n : c[i] \in Packet
    OBVIOUS
  <1>4. d = [i \in 1 .. l |-> d[i]]
    <2>1. d = [i \in 1 .. Len(t) |-> u.node[t[i]].packet]
      BY <1>0 DEF View
    <2>2. DOMAIN d = 1 .. Len(t)
      BY <1>0, ViewIs
    <2> HIDE DEF l
    <2> QED
      BY <1>1, <2>1, <2>2
  <1> HIDE DEF n, l
  <1>5. d \in Seq(Packet)
    <2>1. \A j \in 1 .. l : d[j] \in Packet
      BY <1>2, <1>3
    <2> QED
      BY <1>1, <1>4, <2>1
  <1> QED
    BY <1>0, <1>5 DEF Holds

LEMMA MinIs ==
  ASSUME NEW S, S \subseteq Nat, S # {}
  PROVE  Min(S) \in S /\ \A y \in S : Min(S) <= y
  <1>1. \E x \in S : \A y \in S : x <= y
    BY Least
  <1> QED
    BY <1>1 DEF Min

LEMMA RemoveCurrentHolds ==
  ASSUME NEW b, NEW c, NEW k, Holds(b, c, k), k <= Len(c)
  PROVE  \E d, f :
           /\ Holds(RemoveCurrent(b), d, k) /\ Selected(c, k, d, k, f)
           /\ Len(d) = Len(c) - 1 /\ \A j \in 1 .. Len(c) : Takes(f, j) <=> j # k
  <1>1. PICK s : View(b, s, c, k)
    BY DEF Holds
  <1> DEFINE n == Len(s)
             u == RemoveCurrent(b)
  <1>2. n = Len(s) /\ Len(c) = n /\ n \in Nat /\ k \in 1 .. n + 1 /\ k <= n
        /\ b.current = IF k = n + 1 THEN nullptr ELSE s[k]
    BY <1>1, ViewIs DEF View
  <1>3. /\ b.prev \in Address \cup {nullptr}
        /\ \A i \in DOMAIN s : i > 1 /\ b.current = s[i] => b.prev = s[i - 1]
    BY <1>1 DEF View, Boxed, CursorSound
  <1>4. DOMAIN s = 1 .. n /\ c \in Seq(Packet)
    BY <1>1, ViewIs DEF Holds
  <1> HIDE DEF n
  <1>5. k \in 1 .. n /\ k # n + 1 /\ k \in Nat
    BY <1>2
  <1>6. b.current = s[k]
    BY <1>2, <1>5
  <1>8. k > 1 => b.prev = s[k - 1]
    BY <1>3, <1>4, <1>5, <1>6
  <1>9. PICK t, d, m, f :
          /\ Loses(c, k, Unlink(b, b.prev, s[k]), t, d, m, f)
          /\ \A j \in 1 .. Len(c) : Takes(f, j) <=> j # k
          /\ Len(d) = Len(c) - 1
          /\ m = IF k < k THEN k - 1 ELSE k
    <2> DEFINE p == b.prev
    <2>1. k \in 1 .. Len(s) /\ p \in Address \cup {nullptr} /\ (k > 1 => p = s[k - 1])
      BY <1>2, <1>3, <1>5, <1>8
    <2> HIDE DEF p
    <2>2. LosesOne(c, k, k, Unlink(b, p, s[k]))
      BY <1>1, <2>1, CutOne
    <2> QED
      BY <2>2 DEF p, LosesOne
  <1>10. u = Unlink(b, b.prev, s[k])
    BY <1>6 DEF RemoveCurrent
  <1> HIDE DEF u
  <1>11. m = k
    BY <1>5, <1>9
  <1>12. Holds(u, d, k)
    BY <1>1, <1>4, <1>9, <1>10, <1>11, SelectedHolds
  <1>13. Selected(c, k, d, k, f)
    BY <1>9, <1>11 DEF Loses
  <1> QED
    BY <1>9, <1>12, <1>13 DEF u

\* The outbox b loses the first of the packets and becomes u.
LosesFirst(b, c, k, packets, u) ==
  \E i \in 1 .. Len(c) : \E d, m, f :
    /\ c[i] \in packets /\ \A j \in 1 .. Len(c) : c[j] \in packets => i <= j
    /\ Holds(u, d, m) /\ Selected(c, k, d, m, f)
    /\ m = IF i < k THEN k - 1 ELSE k
    /\ Len(d) = Len(c) - 1 /\ \A j \in 1 .. Len(c) : Takes(f, j) <=> j # i

LEMMA RemoveFoundHolds ==
  ASSUME NEW b, NEW c, NEW k, Holds(b, c, k), NEW packets,
         \E i \in 1 .. Len(c) : c[i] \in packets
  PROVE  LosesFirst(b, c, k, packets, RemoveFound(b, packets))
  <1>1. PICK s : View(b, s, c, k)
    BY DEF Holds
  <1> DEFINE n == Len(s)
             u == RemoveFound(b, packets)
             I == {i \in 1 .. n : b.node[s[i]].packet \in packets}
             i == Min(I)
             prev == IF i = 1 THEN nullptr ELSE s[i - 1]
  <1>2. n = Len(s) /\ Len(c) = n /\ n \in Nat /\ Nodes(b) = s /\ c \in Seq(Packet)
    BY <1>1, ViewIs DEF Holds
  <1>3. /\ nullptr \notin DOMAIN b.node
        /\ \A x \in 1 .. n : s[x] \in DOMAIN b.node /\ c[x] = b.node[s[x]].packet
        /\ \A x, y \in 1 .. n : s[x] = s[y] => x = y
    BY <1>1, ListIs, ViewPointers DEF View
  <1>4. I \subseteq Nat /\ I # {} /\ I = {x \in 1 .. n : c[x] \in packets}
    BY <1>2, <1>3
  <1>5. i \in I /\ \A y \in I : i <= y
    <2> HIDE DEF I
    <2> QED
      BY <1>4, MinIs
  <1>6. u = Unlink(b, prev, s[i])
    <2>1. SelectInSeq(s, LAMBDA a : b.node[a].packet \in packets) = i
      BY <1>4 DEF SelectInSeq
    <2> HIDE DEF i
    <2> QED
      BY <1>2, <2>1 DEF RemoveFound
  <1>7. /\ i \in 1 .. n /\ c[i] \in packets
        /\ \A j \in 1 .. n : c[j] \in packets => i <= j
    BY <1>4, <1>5
  <1> HIDE DEF n, I, i, u
  <1>8. i # 1 => i > 1 /\ i - 1 \in 1 .. n /\ i - 1 # i
    BY <1>2, <1>7
  <1>9. prev \in Address \cup {nullptr}
    <2>1. DOMAIN b.node \subseteq Address
      BY <1>1 DEF View, Boxed
    <2> QED
      BY <1>3, <1>7, <1>8, <2>1
  <1>10. i > 1 => prev = s[i - 1]
    BY <1>7, <1>8
  <1> HIDE DEF prev
  <1>11. PICK t, d, m, f :
          /\ Loses(c, k, Unlink(b, prev, s[i]), t, d, m, f)
          /\ \A j \in 1 .. Len(c) : Takes(f, j) <=> j # i
          /\ Len(d) = Len(c) - 1
          /\ m = IF i < k THEN k - 1 ELSE k
    <2>1. i \in 1 .. Len(s)
      BY <1>2, <1>7
    <2>2. LosesOne(c, k, i, Unlink(b, prev, s[i]))
      BY <1>1, <1>9, <1>10, <2>1, CutOne
    <2> QED
      BY <2>2 DEF LosesOne
  <1>12. Holds(u, d, m) /\ Selected(c, k, d, m, f)
    <2>1. Loses(c, k, u, t, d, m, f)
      BY <1>6, <1>11
    <2>2. Selected(c, k, d, m, f)
      BY <2>1 DEF Loses
    <2> QED
      BY <1>2, <2>1, <2>2, SelectedHolds
  <1>13. /\ c[i] \in packets /\ \A j \in 1 .. Len(c) : c[j] \in packets => i <= j
         /\ Holds(u, d, m) /\ Selected(c, k, d, m, f)
         /\ m = IF i < k THEN k - 1 ELSE k
         /\ Len(d) = Len(c) - 1 /\ \A j \in 1 .. Len(c) : Takes(f, j) <=> j # i
         /\ i \in 1 .. Len(c)
    BY <1>2, <1>7, <1>11, <1>12
  <1> QED
    BY <1>13 DEF u, LosesFirst

\* The outbox b keeps only the packets in kept and becomes u.
LosesUnless(c, k, kept, u) ==
  \E d, m, f :
    /\ Holds(u, d, m) /\ Selected(c, k, d, m, f)
    /\ \A i \in 1 .. Len(c) : Takes(f, i) <=> c[i] \in kept

LEMMA RemoveUnlessHolds ==
  ASSUME NEW b, NEW c, NEW k, Holds(b, c, k), NEW kept
  PROVE  \/ RemoveUnless(b, kept).wild = TRUE /\ Torn(c, kept)
         \/ /\ RemoveUnless(b, kept).wild = FALSE
            /\ LosesUnless(c, k, kept, RemoveUnless(b, kept).box)
  <1> DEFINE r == RemoveUnless(b, kept)
  <1>1. PICK s : View(b, s, c, k)
    BY DEF Holds
  <1>2. SweptWhole(c, k, kept, r)
    BY <1>1, RemoveUnlessView
  <1> HIDE DEF r
  <1>3. ASSUME r.wild = FALSE,
               NEW t, NEW d, NEW m, NEW f, Loses(c, k, r.box, t, d, m, f),
               \A i \in 1 .. Len(c) : Takes(f, i) <=> c[i] \in kept
        PROVE  LosesUnless(c, k, kept, r.box)
    <2>1. c \in Seq(Packet)
      BY DEF Holds
    <2>2. Holds(r.box, d, m) /\ Selected(c, k, d, m, f)
      BY <1>3, <2>1, SelectedHolds DEF Loses
    <2> QED
      BY <1>3, <2>2 DEF LosesUnless
  <1>4. \/ r.wild = TRUE /\ Torn(c, kept)
        \/ r.wild = FALSE /\ LosesUnless(c, k, kept, r.box)
    BY <1>2, <1>3 DEF SweptWhole
  <1> QED
    BY <1>4 DEF r

(***************************************************************************)
(* The packets                                                             *)
(***************************************************************************)

LEMMA PacketIs ==
  ASSUME NEW p \in Packet
  PROVE  /\ p = [type |-> p.type, id |-> p.id] /\ p.id \in 0 .. MaxId /\ p.id \in Nat
         /\ p.type \in {"CONNECT", "SMALL", "BROKEN", "PUBLISH", "SUBSCRIBE"}
         /\ p.type \in {"PUBLISH", "SUBSCRIBE"} => p.id # 0
         /\ p \in Publishes <=> p.type = "PUBLISH"
         /\ Size(p) \in 0 .. PublishSize
         /\ p.type # "BROKEN" => Size(p) > 0
  <1>1. MaxId \in Nat /\ PublishSize \in Nat \ {0}
    BY SessionAssumption
  <1>2. /\ p = [type |-> p.type, id |-> p.id] /\ p.id \in 0 .. MaxId
        /\ p.type \in {"CONNECT", "SMALL", "BROKEN", "PUBLISH", "SUBSCRIBE"}
        /\ p.type \in {"PUBLISH", "SUBSCRIBE"} => p.id # 0
    BY <1>1 DEF Packet
  <1>3. Size(p) = PublishSize \/ Size(p) = 0 \/ Size(p) = 1
    BY DEF Size
  <1>4. Size(p) \in 0 .. PublishSize
    BY <1>1, <1>3
  <1>5. p.type # "BROKEN" => Size(p) > 0
    BY <1>1 DEF Size
  <1> QED
    BY <1>1, <1>2, <1>4, <1>5 DEF Publishes

LEMMA SamePacket ==
  ASSUME NEW p \in Packet, NEW q \in Packet, p.type = q.type, p.id = q.id
  PROVE  p = q
  <1>1. p = [type |-> p.type, id |-> p.id] /\ q = [type |-> q.type, id |-> q.id]
    BY PacketIs
  <1> QED
    BY <1>1

LEMMA PacketKinds ==
  /\ CONNECT \in Packet \ Publishes /\ SMALL \in Packet \ Publishes
  /\ BROKEN(0) \in Packet \ Publishes
  /\ CONNECT.id = 0 /\ SMALL.id = 0 /\ BROKEN(0).id = 0
  /\ CONNECT.type = "CONNECT" /\ SMALL.type = "SMALL" /\ BROKEN(0).type = "BROKEN"
  /\ Size(CONNECT) = 1 /\ Size(BROKEN(0)) = 0
  /\ \A id \in 1 .. MaxId :
       /\ PUBLISH(id) \in Publishes /\ PUBLISH(id) \in Packet /\ PUBLISH(id).id = id
       /\ BROKEN(id) \in Packet \ Publishes /\ BROKEN(id).id = id
       /\ SUBSCRIBE(id) \in Packet \ Publishes /\ SUBSCRIBE(id).id = id
  BY DEF CONNECT, SMALL, BROKEN, PUBLISH, SUBSCRIBE, Packet, Publishes, Size

LEMMA PublishIs ==
  ASSUME NEW p \in Publishes
  PROVE  /\ p \in Packet /\ p.id \in 1 .. MaxId /\ p = PUBLISH(p.id)
         /\ ~Removable(p) /\ Size(p) = PublishSize
  <1>1. p \in Packet /\ p.type = "PUBLISH"
    BY DEF Publishes
  <1>2. MaxId \in Nat
    BY SessionAssumption
  <1>3. p.id \in 1 .. MaxId
    BY <1>1, <1>2, PacketIs
  <1>4. p = PUBLISH(p.id)
    BY <1>1, PacketIs DEF PUBLISH
  <1>5. Size(p) = PublishSize
    BY <1>1 DEF Size
  <1>6. p.id # 0
    BY <1>2, <1>3
  <1> QED
    BY <1>1, <1>3, <1>4, <1>5, <1>6 DEF Removable

LEMMA PublishIdsIs ==
  ASSUME NEW s, s \in Seq(Packet)
  PROVE  /\ PublishIds(s) \subseteq Ids
         /\ \A id : id \in PublishIds(s) <=> \E i \in 1 .. Len(s) : s[i] = PUBLISH(id) /\ id \in Ids
         /\ \A i \in 1 .. Len(s) : s[i] \in Publishes => s[i].id \in PublishIds(s)
  <1>1. DOMAIN s = 1 .. Len(s)
    OBVIOUS
  <1>2. \A i \in 1 .. Len(s) : s[i] \in Publishes =>
          s[i].id \in Ids /\ s[i] = PUBLISH(s[i].id)
    BY PublishIs DEF Ids
  <1>3. \A id \in Ids : PUBLISH(id) \in Publishes /\ PUBLISH(id).id = id
    BY PacketKinds DEF Ids
  <1> QED
    BY <1>1, <1>2, <1>3 DEF PublishIds

(***************************************************************************)
(* What the steps do to the queue                                          *)
(***************************************************************************)

Held == Holds(box, Items, At)

LEMMA HeldIs ==
  ASSUME NEW c, NEW k, Holds(box, c, k)
  PROVE  Held /\ Items = c /\ At = k
  BY HoldsIs DEF Held, Items, At

LEMMA NextHeldIs ==
  ASSUME NEW c, NEW k, Holds(box', c, k)
  PROVE  Held' /\ Items' = c /\ At' = k
  <1>1. Contents(box') = c /\ Cursor(box') = k
    BY HoldsIs
  <1> QED
    BY <1>1 DEF Held, Items, At

LEMMA AddPacketHeld ==
  ASSUME Held, NEW p \in Packet, AddPacket(p)
  PROVE  Held' /\ Items' = Append(Items, p) /\ At' = At
  <1>1. Holds(box', Append(Items, p), At)
    BY EmplaceHolds DEF Held, AddPacket
  <1> QED
    BY <1>1, NextHeldIs

LEMMA AddPacketFrontHeld ==
  ASSUME Held, NEW p \in Packet, AddPacketFront(p)
  PROVE  Held' /\ Items' = <<p>> \o Items /\ At' = 1
  <1>1. Holds(box', <<p>> \o Items, 1)
    BY EmplaceFrontHolds DEF Held, AddPacketFront
  <1> QED
    BY <1>1, NextHeldIs

LEMMA SameHeld ==
  ASSUME Held, UNCHANGED box
  PROVE  Held' /\ Items' = Items /\ At' = At
  BY DEF Held, Items, At

LEMMA ResetHeld ==
  ASSUME Held, box' = ResetCurrent(box)
  PROVE  Held' /\ Items' = Items /\ At' = 1
  <1>1. Holds(box', Items, 1)
    BY ResetCurrentHolds DEF Held
  <1> QED
    BY <1>1, NextHeldIs

\* The current packet in terms of the queue.
LEMMA CurrentIs ==
  ASSUME Held
  PROVE  /\ Len(Items) \in Nat /\ Items \in Seq(Packet) /\ DOMAIN Items = 1 .. Len(Items)
         /\ At \in 1 .. Len(Items) + 1 /\ At \in Nat
         /\ box.current # nullptr <=> At \in 1 .. Len(Items)
         /\ box.current # nullptr => CurrentPacket(box) = Items[At] /\ Items[At] \in Packet
         /\ SentWhole <=> At \in 1 .. Len(Items) /\ bytesSent = Size(Items[At])
         /\ \A i \in 1 .. Len(Items) : Items[i] \in Packet
  <1> DEFINE c == Items
             k == At
             n == Len(Items)
  <1>1. /\ c \in Seq(Packet) /\ n \in Nat /\ DOMAIN c = 1 .. n
        /\ k \in 1 .. n + 1
        /\ box.current = nullptr <=> k = n + 1
        /\ box.current # nullptr => CurrentPacket(box) = c[k]
    BY HoldsIs DEF Held
  <1>2. \A i \in 1 .. n : c[i] \in Packet
    BY <1>1
  <1> HIDE DEF c, k, n
  <1>3. k \in Nat /\ (k # n + 1 <=> k \in 1 .. n)
    BY <1>1
  <1>4. box.current # nullptr <=> k \in 1 .. n
    BY <1>1, <1>3
  <1>5. box.current # nullptr => CurrentPacket(box) = c[k] /\ c[k] \in Packet
    BY <1>1, <1>2, <1>4
  <1>6. SentWhole <=> k \in 1 .. n /\ bytesSent = Size(c[k])
    BY <1>4, <1>5 DEF SentWhole
  <1> QED
    BY <1>1, <1>2, <1>3, <1>4, <1>5, <1>6 DEF c, k, n

LEMMA SelectedIs ==
  ASSUME NEW c, NEW k, NEW d, NEW m, NEW f, Selected(c, k, d, m, f)
  PROVE  /\ Len(f) = Len(d) /\ f \in [1 .. Len(d) -> 1 .. Len(c)]
         /\ \A i, j \in 1 .. Len(d) : i < j => f[i] < f[j]
         /\ \A j \in 1 .. Len(d) : d[j] = c[f[j]] /\ (j < m <=> f[j] < k)
  BY DEF Selected

\* No publish is lost, and nothing is reordered or made up.
Thinner(c, d) ==
  /\ PublishIds(d) = PublishIds(c) /\ (Ordered(c) => Ordered(d))
  /\ \A i \in 1 .. Len(d) : \E j \in 1 .. Len(c) : d[i] = c[j]

LEMMA SelectedOrder ==
  ASSUME NEW c \in Seq(Packet), NEW d \in Seq(Packet), NEW k, NEW m, NEW f,
         Selected(c, k, d, m, f)
  PROVE  /\ Ordered(c) => Ordered(d)
         /\ \A i \in 1 .. Len(d) : \E j \in 1 .. Len(c) : d[i] = c[j]
         /\ PublishIds(d) \subseteq PublishIds(c)
  <1>1. /\ f \in [1 .. Len(d) -> 1 .. Len(c)]
        /\ \A i, j \in 1 .. Len(d) : i < j => f[i] < f[j]
        /\ \A j \in 1 .. Len(d) : d[j] = c[f[j]]
    BY SelectedIs
  <1>2. DOMAIN c = 1 .. Len(c) /\ DOMAIN d = 1 .. Len(d)
    OBVIOUS
  <1>3. Ordered(c) => Ordered(d)
    BY <1>1, <1>2 DEF Ordered
  <1>4. \A i \in 1 .. Len(d) : \E j \in 1 .. Len(c) : d[i] = c[j]
    BY <1>1
  <1>5. PublishIds(d) \subseteq PublishIds(c)
    BY <1>4, PublishIdsIs
  <1> QED
    BY <1>3, <1>4, <1>5

LEMMA SelectedThinner ==
  ASSUME NEW c \in Seq(Packet), NEW d \in Seq(Packet), NEW k, NEW m, NEW f,
         Selected(c, k, d, m, f),
         \A i \in 1 .. Len(c) : c[i] \in Publishes => Takes(f, i)
  PROVE  Thinner(c, d)
  <1>1. /\ Len(f) = Len(d) /\ f \in [1 .. Len(d) -> 1 .. Len(c)]
        /\ \A j \in 1 .. Len(d) : d[j] = c[f[j]]
    BY SelectedIs
  <1>2. ASSUME NEW id \in PublishIds(c) PROVE id \in PublishIds(d)
    <2>1. PICK i \in 1 .. Len(c) : c[i] = PUBLISH(id) /\ id \in Ids
      BY PublishIdsIs
    <2>2. c[i] \in Publishes
      BY <2>1, PacketKinds DEF Ids
    <2>3. PICK j \in 1 .. Len(d) : f[j] = i
      BY <1>1, <2>2 DEF Takes
    <2>4. d[j] = PUBLISH(id)
      BY <1>1, <2>1, <2>3
    <2> QED
      BY <2>1, <2>4, PublishIdsIs
  <1> QED
    BY <1>2, SelectedOrder DEF Thinner

LEMMA SameThinner ==
  ASSUME NEW c
  PROVE  Thinner(c, c)
  BY DEF Thinner

LEMMA AdvancedHolds ==
  ASSUME Held
  PROVE  \E d, m :
           /\ Holds(Advanced, d, m) /\ Thinner(Items, d)
           /\ ~SentWhole => d = Items /\ m = At
           /\ SentWhole /\ ~Removable(Items[At]) => d = Items /\ m = At + 1
           /\ SentWhole /\ Removable(Items[At]) => m = At /\ \E f :
                /\ Selected(Items, At, d, At, f) /\ Len(d) = Len(Items) - 1
                /\ \A j \in 1 .. Len(Items) : Takes(f, j) <=> j # At
  <1> DEFINE c == Items
             k == At
  <1>1. /\ c \in Seq(Packet) /\ Len(c) \in Nat
        /\ SentWhole => k \in 1 .. Len(c) /\ CurrentPacket(box) = c[k] /\ k <= Len(c)
    <2>1. SentWhole => k \in 1 .. Len(c) /\ CurrentPacket(box) = c[k]
      BY CurrentIs DEF SentWhole
    <2>2. Len(c) \in Nat /\ c \in Seq(Packet)
      BY CurrentIs
    <2> HIDE DEF c, k
    <2> QED
      BY <2>1, <2>2
  <1>2. Holds(box, c, k)
    BY DEF Held
  <1>3. Thinner(c, c)
    BY SameThinner
  <1>4. CASE ~SentWhole
    <2>1. Advanced = box
      BY <1>4 DEF Advanced
    <2> QED
      BY <1>2, <1>3, <1>4, <2>1
  <1>5. CASE SentWhole /\ ~Removable(c[k])
    <2>1. Advanced = NextCurrent(box)
      BY <1>1, <1>5 DEF Advanced
    <2>2. Holds(NextCurrent(box), c, k + 1)
      BY <1>1, <1>2, <1>5, NextCurrentHolds
    <2> QED
      BY <1>3, <1>5, <2>1, <2>2
  <1>6. CASE SentWhole /\ Removable(c[k])
    <2>1. Advanced = RemoveCurrent(box)
      BY <1>1, <1>6 DEF Advanced
    <2>2. PICK d, f :
            /\ Holds(RemoveCurrent(box), d, k) /\ Selected(c, k, d, k, f)
            /\ Len(d) = Len(c) - 1 /\ \A j \in 1 .. Len(c) : Takes(f, j) <=> j # k
      BY <1>1, <1>2, <1>6, RemoveCurrentHolds
    <2>3. d \in Seq(Packet)
      BY <2>2 DEF Holds
    <2>4. \A i \in 1 .. Len(c) : c[i] \in Publishes => Takes(f, i)
      BY <1>6, <2>2, PublishIs
    <2>5. Thinner(c, d)
      BY <1>1, <2>2, <2>3, <2>4, SelectedThinner
    <2> QED
      BY <1>6, <2>1, <2>2, <2>5
  <1> QED
    BY <1>4, <1>5, <1>6

LEMMA AdvanceHeld ==
  ASSUME Held, box' = Advanced
  PROVE  /\ Held' /\ Thinner(Items, Items')
         /\ ~SentWhole => Items' = Items /\ At' = At
         /\ SentWhole /\ ~Removable(Items[At]) => Items' = Items /\ At' = At + 1
         /\ SentWhole /\ Removable(Items[At]) => At' = At /\ \E f :
              /\ Selected(Items, At, Items', At, f) /\ Len(Items') = Len(Items) - 1
              /\ \A j \in 1 .. Len(Items) : Takes(f, j) <=> j # At
  <1>1. PICK d, m :
           /\ Holds(Advanced, d, m) /\ Thinner(Items, d)
           /\ ~SentWhole => d = Items /\ m = At
           /\ SentWhole /\ ~Removable(Items[At]) => d = Items /\ m = At + 1
           /\ SentWhole /\ Removable(Items[At]) => m = At /\ \E f :
                /\ Selected(Items, At, d, At, f) /\ Len(d) = Len(Items) - 1
                /\ \A j \in 1 .. Len(Items) : Takes(f, j) <=> j # At
    BY AdvancedHolds
  <1>2. Held' /\ Items' = d /\ At' = m
    BY <1>1, NextHeldIs
  <1> QED
    BY <1>1, <1>2

\* _clearQueue keeps every publish, or ruins the outbox.
LEMMA SweepHeld ==
  ASSUME Held, Sweep(Publishes)
  PROVE  /\ Held' /\ Thinner(Items, Items')
         /\ \/ ruined' = TRUE /\ Torn(Items, Publishes) /\ Items' = Items /\ At' = At
            \/ ruined' = FALSE /\ \E f : Selected(Items, At, Items', At', f)
  <1> DEFINE r == RemoveUnless(box, Publishes)
  <1>1. ruined' = r.wild /\ box' = IF r.wild THEN box ELSE r.box
    BY DEF Sweep
  <1>2. \/ r.wild = TRUE /\ Torn(Items, Publishes)
        \/ r.wild = FALSE /\ LosesUnless(Items, At, Publishes, r.box)
    BY RemoveUnlessHolds DEF Held
  <1> HIDE DEF r
  <1>3. CASE r.wild = TRUE /\ Torn(Items, Publishes)
    BY <1>1, <1>3, SameHeld, SameThinner
  <1>4. CASE r.wild = FALSE /\ LosesUnless(Items, At, Publishes, r.box)
    <2>1. PICK d, m, f :
            /\ Holds(r.box, d, m) /\ Selected(Items, At, d, m, f)
            /\ \A i \in 1 .. Len(Items) : Takes(f, i) <=> Items[i] \in Publishes
      BY <1>4 DEF LosesUnless
    <2>2. Held' /\ Items' = d /\ At' = m
      BY <1>1, <1>4, <2>1, NextHeldIs
    <2>3. Items \in Seq(Packet) /\ d \in Seq(Packet)
      BY <2>1 DEF Held, Holds
    <2>4. Thinner(Items, d)
      BY <2>1, <2>3, SelectedThinner
    <2> QED
      BY <1>1, <1>4, <2>1, <2>2, <2>4
  <1> QED
    BY <1>2, <1>3, <1>4

\* The i-th packet is removed.
RemovedAt(i) ==
  /\ i \in 1 .. Len(Items) /\ At' = IF i < At THEN At - 1 ELSE At
  /\ Len(Items') = Len(Items) - 1
  /\ \E f : /\ Selected(Items, At, Items', At', f)
            /\ \A j \in 1 .. Len(Items) : Takes(f, j) <=> j # i

LEMMA FoundHeld ==
  ASSUME Held, NEW packets, \E i \in 1 .. Len(Items) : Items[i] \in packets,
         box' = RemoveFound(box, packets)
  PROVE  /\ Held'
         /\ \E i : /\ RemovedAt(i) /\ Items[i] \in packets
                   /\ \A j \in 1 .. Len(Items) : Items[j] \in packets => i <= j
  <1>1. PICK i \in 1 .. Len(Items) : \E d, m, f :
          /\ Items[i] \in packets /\ \A j \in 1 .. Len(Items) : Items[j] \in packets => i <= j
          /\ Holds(RemoveFound(box, packets), d, m) /\ Selected(Items, At, d, m, f)
          /\ m = IF i < At THEN At - 1 ELSE At
          /\ Len(d) = Len(Items) - 1 /\ \A j \in 1 .. Len(Items) : Takes(f, j) <=> j # i
    <2>1. LosesFirst(box, Items, At, packets, RemoveFound(box, packets))
      BY RemoveFoundHolds DEF Held
    <2> QED
      BY <2>1 DEF LosesFirst
  <1>2. PICK d, m, f :
          /\ Items[i] \in packets /\ \A j \in 1 .. Len(Items) : Items[j] \in packets => i <= j
          /\ Holds(RemoveFound(box, packets), d, m) /\ Selected(Items, At, d, m, f)
          /\ m = IF i < At THEN At - 1 ELSE At
          /\ Len(d) = Len(Items) - 1 /\ \A j \in 1 .. Len(Items) : Takes(f, j) <=> j # i
    BY <1>1
  <1>3. Held' /\ Items' = d /\ At' = m
    BY <1>2, NextHeldIs
  <1>4. RemovedAt(i)
    BY <1>2, <1>3 DEF RemovedAt
  <1> QED
    BY <1>2, <1>3, <1>4

LEMMA PubackHeld ==
  ASSUME Held, NEW t, Puback(t)
  PROVE  /\ Held'
         /\ \/ Items' = Items /\ At' = At
            \/ \E i : /\ RemovedAt(i) /\ Items[i] \in Publishes /\ Items[i] = Head(acks)
                      /\ \A j \in 1 .. Len(Items) : Items[j] \in Publishes => i <= j
  <1> DEFINE n == Len(Items)
             U == {i \in 1 .. n : Items[i] \in Publishes}
  <1>1. n \in Nat /\ DOMAIN Items = 1 .. n
    BY CurrentIs
  <1>2. U = Unacknowledged /\ Items = Contents(box)
    BY <1>1 DEF Unacknowledged, Items
  <1>3. CASE box' = box
    BY <1>3, SameHeld
  <1>4. CASE U # {} /\ Items[Min(U)] = Head(acks) /\ box' = RemoveFound(box, Publishes)
    <2>1. PICK i : /\ RemovedAt(i) /\ Items[i] \in Publishes
                   /\ \A j \in 1 .. Len(Items) : Items[j] \in Publishes => i <= j
      BY <1>4, FoundHeld
    <2>2. Held'
      BY <1>4, FoundHeld
    <2>3. i \in U /\ \A j \in U : i <= j
      BY <2>1 DEF RemovedAt
    <2>4. Min(U) \in U /\ \A j \in U : Min(U) <= j
      <3>1. U \subseteq Nat
        OBVIOUS
      <3> HIDE DEF U
      <3> QED
        BY <1>4, <3>1, MinIs
    <2>5. Min(U) = i
      <3> DEFINE y == Min(U)
      <3>1. y \in Nat /\ i \in Nat
        <4>1. U \subseteq Nat
          OBVIOUS
        <4> HIDE DEF U, y
        <4> QED
          BY <2>3, <2>4, <4>1 DEF y
      <3>2. y <= i /\ i <= y
        BY <2>3, <2>4
      <3> HIDE DEF y, U
      <3>3. y = i
        BY <3>1, <3>2
      <3> QED
        BY <3>3 DEF y
    <2> QED
      BY <1>4, <2>1, <2>2, <2>5
  <1> HIDE DEF U
  <1>5. QED
    <2>1. box' = IF U # {} /\ Items[Min(U)] = Head(acks) THEN RemoveFound(box, Publishes) ELSE box
      BY <1>2 DEF Puback
    <2> QED
      BY <1>3, <1>4, <2>1

LEMMA SubackHeld ==
  ASSUME Held, acks \in Seq(Packet), NEW t, Suback(t)
  PROVE  /\ Held' /\ Thinner(Items, Items')
         /\ \/ Items' = Items /\ At' = At
            \/ \E i : RemovedAt(i) /\ Items[i] = Head(acks)
  <1> DEFINE a == Head(acks)
  <1>1. /\ DOMAIN Items = 1 .. Len(Items) /\ Items = Contents(box)
        /\ Items \in Seq(Packet) /\ a \in Packet \ Publishes
    <2>1. acks # <<>> /\ a.type = "SUBSCRIBE"
      BY DEF Suback, Incoming, Acknowledged
    <2>2. a \in Packet
      BY <2>1
    <2> HIDE DEF a
    <2>3. a \notin Publishes
      BY <2>1, <2>2, PacketIs
    <2> QED
      BY <2>2, <2>3, CurrentIs DEF Items
  <1>2. box' = IF \E i \in DOMAIN Items : Items[i] = a THEN RemoveFound(box, {a}) ELSE box
    BY <1>1 DEF Suback
  <1> HIDE DEF a
  <1>3. CASE box' = box
    BY <1>3, SameHeld, SameThinner
  <1>4. CASE (\E i \in 1 .. Len(Items) : Items[i] = a) /\ box' = RemoveFound(box, {a})
    <2>1. PICK i : RemovedAt(i) /\ Items[i] \in {a}
      BY <1>4, FoundHeld
    <2>2. Held'
      BY <1>4, FoundHeld
    <2>3. Items' \in Seq(Packet)
      BY <2>2 DEF Held, Holds
    <2>4. PICK f : /\ Selected(Items, At, Items', At', f)
                   /\ \A j \in 1 .. Len(Items) : Takes(f, j) <=> j # i
      BY <2>1 DEF RemovedAt
    <2>5. \A j \in 1 .. Len(Items) : Items[j] \in Publishes => Takes(f, j)
      BY <1>1, <2>1, <2>4
    <2>6. Thinner(Items, Items')
      BY <1>1, <2>3, <2>4, <2>5, SelectedThinner
    <2> QED
      BY <2>1, <2>2, <2>6 DEF a
  <1> QED
    BY <1>1, <1>2, <1>3, <1>4

(***************************************************************************)
(* Types                                                                   *)
(***************************************************************************)

RestOK ==
  /\ state \in {"disconnected", "connectingTcp1", "connecting", "connected",
                "disconnecting"}
  /\ bytesSent \in 0 .. PublishSize /\ packetId \in 0 .. MaxId
  /\ pc \in [LoopTasks -> {"idle", "advance", "connack", "clear", "closed"}]
  /\ onWire.packet \in Packet /\ onWire.bytes \in 0 .. PublishSize
  /\ toBroker \in Seq(Packet) /\ acks \in Seq(Packet)
  /\ received \subseteq Ids /\ buffered \subseteq Ids
  /\ ruined \in BOOLEAN /\ garbled \in BOOLEAN

LEMMA TypeSplits ==
  ASSUME Held
  PROVE  TypeOK <=> RestOK
  <1>1. Holds(box, Items, At)
    BY DEF Held
  <1> QED
    BY <1>1, HoldsTypes DEF TypeOK, RestOK

LEMMA InitHeld ==
  ASSUME Init
  PROVE  Held /\ RestOK /\ Items = <<>> /\ At = 1
  <1>1. Holds(box, <<>>, 1)
    BY EmptyHolds DEF Init
  <1>2. Held /\ Items = <<>> /\ At = 1
    BY <1>1, HeldIs
  <1>3. MaxId \in Nat /\ PublishSize \in Nat
    BY SessionAssumption
  <1>4. RestOK
    <2>1. onWire.packet = BROKEN(0) /\ onWire.bytes = 0
      BY DEF Init, Nothing
    <2>2. BROKEN(0) \in Packet
      BY PacketKinds
    <2>3. pc \in [LoopTasks -> {"idle", "advance", "connack", "clear", "closed"}]
      BY DEF Init
    <2>4. toBroker \in Seq(Packet) /\ acks \in Seq(Packet)
      BY DEF Init
    <2>5. ruined \in BOOLEAN /\ garbled \in BOOLEAN
      BY Zenon DEF Init
    <2>6. onWire.packet \in Packet /\ onWire.bytes \in 0 .. PublishSize
      BY <1>3, <2>1, <2>2
    <2>7. /\ state = "disconnected" /\ bytesSent = 0 /\ packetId = 0
          /\ received = {} /\ buffered = {}
      BY DEF Init
    <2> QED
      BY <1>3, <2>3, <2>4, <2>5, <2>6, <2>7 DEF RestOK
  <1> QED
    BY <1>2, <1>4

LEMMA NextIdIs ==
  ASSUME RestOK, NextPacketId
  PROVE  packetId' \in 1 .. MaxId /\ packetId' = packetId + 1 /\ packetId \in Nat
  BY SessionAssumption DEF RestOK, NextPacketId

LEMMA TasksAre ==
  ASSUME NEW t \in LoopTasks
  PROVE  t \in {"client", "ntw"}
  BY SessionAssumption

LEMMA SendTypes ==
  ASSUME Held, RestOK, NEW t \in LoopTasks, SendPacket(t)
  PROVE  /\ RestOK'
         /\ At \in 1 .. Len(Items) /\ bytesSent' \in 1 .. Size(Items[At])
         /\ bytesSent' > bytesSent
         /\ garbled' = (garbled \/ ~Continues(Items[At]))
         /\ onWire' = IF bytesSent' = Size(Items[At]) THEN Nothing
                      ELSE [packet |-> Items[At], bytes |-> bytesSent']
         /\ toBroker' = IF bytesSent' = Size(Items[At]) /\ ~garbled'
                        THEN Append(toBroker, Items[At]) ELSE toBroker
  <1> DEFINE p == Items[At]
             z == Size(p)
  <1>1. At \in 1 .. Len(Items) /\ CurrentPacket(box) = p /\ p \in Packet
    BY CurrentIs DEF SendPacket
  <1>2. PICK bytes \in 1 .. z - bytesSent : Send(p, bytes)
    BY <1>1 DEF SendPacket
  <1>3. z \in 0 .. PublishSize /\ PublishSize \in Nat
    BY <1>1, PacketIs, SessionAssumption
  <1>4. bytesSent' = bytesSent + bytes /\ bytesSent \in 0 .. PublishSize
    BY <1>2 DEF Send, RestOK
  <1> HIDE DEF z
  <1>5. bytesSent' \in 1 .. z /\ bytesSent' \in 0 .. PublishSize /\ bytesSent' > bytesSent
    BY <1>3, <1>4
  <1>6. /\ garbled' = (garbled \/ ~Continues(p))
        /\ onWire' = IF bytesSent' = z THEN Nothing
                     ELSE [packet |-> p, bytes |-> bytesSent']
        /\ toBroker' = IF bytesSent' = z /\ ~garbled' THEN Append(toBroker, p) ELSE toBroker
    BY <1>2 DEF Send, z
  <1> HIDE DEF p
  <1>7. onWire'.packet \in Packet /\ onWire'.bytes \in 0 .. PublishSize
    <2>1. Nothing.packet \in Packet /\ Nothing.bytes = 0
      BY PacketKinds DEF Nothing
    <2>2. CASE onWire' = Nothing
      BY <1>3, <2>1, <2>2
    <2>3. CASE onWire' = [packet |-> p, bytes |-> bytesSent']
      BY <1>1, <1>5, <2>3
    <2> QED
      BY <1>6, <2>2, <2>3
  <1>8. toBroker' \in Seq(Packet)
    <2>1. toBroker \in Seq(Packet)
      BY DEF RestOK
    <2>2. Append(toBroker, p) \in Seq(Packet)
      BY <1>1, <2>1
    <2> QED
      BY <1>6, <2>1, <2>2
  <1>9. pc' \in [LoopTasks -> {"idle", "advance", "connack", "clear", "closed"}]
    BY DEF SendPacket, RestOK
  <1>10. garbled' \in BOOLEAN
    BY <1>6
  <1>11. RestOK'
    <2>1. UNCHANGED <<state, packetId, ruined, acks, received, buffered>>
      BY DEF SendPacket
    <2> QED
      BY <1>5, <1>7, <1>8, <1>9, <1>10, <2>1 DEF RestOK, Ids
  <1> QED
    BY <1>1, <1>5, <1>6, <1>11 DEF p, z

LEMMA IncomingIs ==
  ASSUME RestOK, NEW t, NEW type, Incoming(t, type)
  PROVE  /\ acks \in Seq(Packet) /\ acks # <<>> /\ acks' = Tail(acks)
         /\ acks' \in Seq(Packet) /\ Head(acks) \in Packet /\ Head(acks).type = type
         /\ 1 \in 1 .. Len(acks) /\ acks[1] = Head(acks)
         /\ Len(acks') = Len(acks) - 1 /\ Len(acks) \in Nat
         /\ \A i \in 1 .. Len(acks') : i + 1 \in 1 .. Len(acks) /\ acks'[i] = acks[i + 1]
  <1>1. acks \in Seq(Packet) /\ acks # <<>> /\ acks' = Tail(acks) /\ Head(acks).type = type
    BY DEF RestOK, Incoming, Acknowledged
  <1> QED
    BY <1>1

LEMMA BrokerIs ==
  ASSUME RestOK, BrokerGets
  PROVE  /\ toBroker \in Seq(Packet) /\ toBroker' = Tail(toBroker)
         /\ toBroker' \in Seq(Packet) /\ Head(toBroker) \in Packet
         /\ 1 \in 1 .. Len(toBroker) /\ toBroker[1] = Head(toBroker)
         /\ Len(toBroker') = Len(toBroker) - 1 /\ Len(toBroker) \in Nat
         /\ \A i \in 1 .. Len(toBroker') :
              i + 1 \in 1 .. Len(toBroker) /\ toBroker'[i] = toBroker[i + 1]
  <1>1. toBroker \in Seq(Packet) /\ toBroker # <<>> /\ toBroker' = Tail(toBroker)
    BY DEF RestOK, BrokerGets
  <1> QED
    BY <1>1

LEMMA BrokerTypes ==
  ASSUME RestOK, BrokerGets
  PROVE  RestOK'
  <1> DEFINE p == Head(toBroker)
  <1>1. toBroker' \in Seq(Packet) /\ p \in Packet
    BY BrokerIs
  <1>2. acks' \in Seq(Packet)
    <2>1. acks \in Seq(Packet) /\ (acks' = acks \/ acks' = Append(acks, p))
      BY DEF RestOK, BrokerGets
    <2> HIDE DEF p
    <2> QED
      BY <1>1, <2>1
  <1>3. received' \subseteq Ids
    <2>1. CASE p.type = "PUBLISH"
      <3>1. p.id \in 1 .. MaxId
        BY <1>1, <2>1, PacketIs, PublishIs
      <3>2. received' = received \cup {p.id}
        BY <2>1 DEF BrokerGets
      <3>3. MaxId \in Nat /\ received \subseteq Ids
        BY SessionAssumption DEF RestOK
      <3> DEFINE x == p.id
      <3>4. x \in 1 .. MaxId /\ received' = received \cup {x}
        BY <3>1, <3>2
      <3> HIDE DEF x
      <3> QED
        BY <3>3, <3>4 DEF Ids
    <2>2. CASE p.type # "PUBLISH"
      BY <2>2 DEF BrokerGets, RestOK, Ids
    <2> QED
      BY <2>1, <2>2
  <1> QED
    BY <1>1, <1>2, <1>3 DEF BrokerGets, RestOK, Ids, queueVars

LEMMA TypeStep ==
  ASSUME Held, RestOK, [Next]_vars
  PROVE  Held' /\ RestOK'
  <1>0. MaxId \in Nat /\ PublishSize \in Nat
    BY SessionAssumption
  <1>1. CASE Connect
    <2>1. Held'
      BY <1>1, AddPacketFrontHeld, PacketKinds DEF Connect
    <2> QED
      BY <1>1, <2>1 DEF Connect, RestOK, otherVars, brokerVars, wireVars, Ids
  <1>2. CASE ConnectBroken
    <2>1. Held'
      BY <1>2, AddPacketFrontHeld, PacketKinds DEF ConnectBroken
    <2> QED
      BY <1>2, <2>1 DEF ConnectBroken, RestOK, otherVars, brokerVars, wireVars, Ids
  <1>3. CASE Publish
    <2>1. packetId' \in 1 .. MaxId /\ packetId' \in 0 .. MaxId
      BY <1>0, <1>3, NextIdIs DEF Publish
    <2>2. Held'
      BY <1>3, <2>1, AddPacketHeld, PacketKinds DEF Publish
    <2>3. buffered' \subseteq Ids
      BY <1>3, <2>1 DEF Publish, RestOK, Ids
    <2> QED
      BY <1>3, <2>1, <2>2, <2>3 DEF Publish, RestOK, otherVars, brokerVars, wireVars, Ids
  <1>4. CASE PublishBroken
    <2>1. packetId' \in 1 .. MaxId /\ packetId' \in 0 .. MaxId
      BY <1>0, <1>4, NextIdIs DEF PublishBroken
    <2>2. Held'
      BY <1>4, <2>1, AddPacketHeld, PacketKinds DEF PublishBroken
    <2> QED
      BY <1>4, <2>1, <2>2 DEF PublishBroken, RestOK, otherVars, brokerVars, wireVars, Ids
  <1>5. CASE PublishFails
    <2>1. packetId' \in 0 .. MaxId
      BY <1>0, <1>5, NextIdIs DEF PublishFails
    <2>2. Held'
      BY <1>5, SameHeld DEF PublishFails, queueVars
    <2> QED
      BY <1>5, <2>1, <2>2 DEF PublishFails, RestOK, queueVars, otherVars, brokerVars, wireVars, Ids
  <1>6. CASE Subscribe
    <2>1. packetId' \in 1 .. MaxId /\ packetId' \in 0 .. MaxId
      BY <1>0, <1>6, NextIdIs DEF Subscribe
    <2>2. Held'
      BY <1>6, <2>1, AddPacketHeld, PacketKinds DEF Subscribe
    <2> QED
      BY <1>6, <2>1, <2>2 DEF Subscribe, RestOK, otherVars, brokerVars, wireVars, Ids
  <1>7. ASSUME NEW t \in LoopTasks, SendPacket(t) PROVE Held' /\ RestOK'
    <2>1. Held'
      BY <1>7, SameHeld DEF SendPacket
    <2> QED
      BY <1>7, <2>1, SendTypes
  <1>8. ASSUME NEW t \in LoopTasks, AdvanceOutbox(t) PROVE Held' /\ RestOK'
    <2>1. Held'
      BY <1>8, AdvanceHeld DEF AdvanceOutbox
    <2>2. bytesSent' \in 0 .. PublishSize
      BY <1>0, <1>8 DEF AdvanceOutbox, RestOK
    <2> QED
      BY <1>8, <2>1, <2>2 DEF AdvanceOutbox, RestOK, otherVars, brokerVars, wireVars, Ids
  <1>9. ASSUME NEW t \in LoopTasks, Connack(t) PROVE Held' /\ RestOK'
    <2>1. Held'
      BY <1>9, SameHeld DEF Connack, queueVars
    <2>2. acks' \in Seq(Packet)
      BY <1>9, IncomingIs DEF Connack
    <2> QED
      BY <1>9, <2>1, <2>2 DEF Connack, RestOK, queueVars, Ids
  <1>19. ASSUME NEW t \in LoopTasks, ClearSession(t) PROVE Held' /\ RestOK'
    <2>1. Held' /\ ruined' \in BOOLEAN
      BY <1>19, SweepHeld DEF ClearSession
    <2> QED
      BY <1>19, <2>1 DEF ClearSession, RestOK, otherVars, brokerVars, wireVars, Ids
  <1>10. ASSUME NEW t \in LoopTasks, Puback(t) PROVE Held' /\ RestOK'
    <2>1. Held'
      BY <1>10, PubackHeld
    <2>2. acks' \in Seq(Packet)
      BY <1>10, IncomingIs DEF Puback
    <2> QED
      BY <1>10, <2>1, <2>2 DEF Puback, RestOK, Ids
  <1>11. ASSUME NEW t \in LoopTasks, Suback(t) PROVE Held' /\ RestOK'
    <2>1. Held'
      BY <1>11, SubackHeld DEF RestOK
    <2>2. acks' \in Seq(Packet)
      BY <1>11, IncomingIs DEF Suback
    <2> QED
      BY <1>11, <2>1, <2>2 DEF Suback, RestOK, Ids
  <1>12. ASSUME NEW t \in LoopTasks, AddSmall(t) PROVE Held' /\ RestOK'
    <2>1. Held'
      BY <1>12, AddPacketHeld, PacketKinds DEF AddSmall
    <2> QED
      BY <1>12, <2>1 DEF AddSmall, RestOK, otherVars, brokerVars, wireVars, Ids
  <1>13. ASSUME NEW t \in LoopTasks, CheckTimeout(t) PROVE Held' /\ RestOK'
    <2>1. Held'
      BY <1>13, ResetHeld DEF CheckTimeout
    <2> QED
      BY <1>13, <2>1 DEF CheckTimeout, RestOK, otherVars, brokerVars, wireVars, Ids
  <1>14. ASSUME Disconnected PROVE Held' /\ RestOK'
    <2>1. Held'
      BY <1>14, SameHeld DEF Disconnected, queueVars
    <2>2. Nothing.packet \in Packet /\ Nothing.bytes \in 0 .. PublishSize
      BY <1>0, PacketKinds DEF Nothing
    <2>3. /\ onWire'.packet \in Packet /\ onWire'.bytes \in 0 .. PublishSize
          /\ toBroker' \in Seq(Packet) /\ acks' \in Seq(Packet)
      <3>1. onWire' = Nothing /\ toBroker' = <<>> /\ acks' = <<>>
        BY <1>14 DEF Disconnected
      <3> QED
        BY <2>2, <3>1
    <2>4. /\ state' = "disconnecting" /\ garbled' = FALSE
          /\ UNCHANGED <<bytesSent, packetId, pc, ruined, received, buffered>>
      BY <1>14 DEF Disconnected, queueVars
    <2> QED
      BY <2>1, <2>3, <2>4 DEF RestOK, Ids
  <1>15. ASSUME NEW t \in LoopTasks, ClearClosed(t) PROVE Held' /\ RestOK'
    <2>1. Held' /\ ruined' \in BOOLEAN
      BY <1>15, SweepHeld DEF ClearClosed, KeptBySession
    <2> QED
      BY <1>15, <2>1 DEF ClearClosed, RestOK, otherVars, brokerVars, wireVars, Ids
  <1>20. ASSUME NEW t \in LoopTasks, Closed(t) PROVE Held' /\ RestOK'
    <2>1. Held'
      BY <1>20, SameHeld DEF Closed
    <2> QED
      BY <1>0, <1>20, <2>1 DEF Closed, RestOK, otherVars, brokerVars, wireVars, Ids
  <1>16. CASE Dialled
    <2>1. Held'
      BY <1>16, SameHeld DEF Dialled, queueVars
    <2> QED
      BY <1>16, <2>1 DEF Dialled, RestOK, queueVars, otherVars, brokerVars, wireVars, Ids
  <1>17. CASE BrokerGets
    <2>1. Held'
      BY <1>17, SameHeld DEF BrokerGets, queueVars
    <2> QED
      BY <1>17, <2>1, BrokerTypes
  <1>18. CASE UNCHANGED vars
    <2>1. Held'
      BY <1>18, SameHeld DEF vars, queueVars
    <2> QED
      BY <1>18, <2>1 DEF vars, RestOK, queueVars, otherVars, brokerVars, wireVars, Ids
  <1> QED
    BY <1>1, <1>2, <1>3, <1>4, <1>5, <1>6, <1>7, <1>8, <1>9, <1>10, <1>11, <1>12,
       <1>13, <1>14, <1>15, <1>16, <1>17, <1>18, <1>19, <1>20
       DEF Next, Loop, Drop, KeepaliveExpires, BrokerCloses, Ruined

(***************************************************************************)
(* The order of the outbox, and that no publish is lost                    *)
(***************************************************************************)

LEMMA AppendIs ==
  ASSUME NEW s \in Seq(Packet), NEW p \in Packet
  PROVE  /\ Append(s, p) \in Seq(Packet) /\ Len(Append(s, p)) = Len(s) + 1 /\ Len(s) \in Nat
         /\ \A i \in 1 .. Len(s) : Append(s, p)[i] = s[i] /\ i \in 1 .. Len(s) + 1
         /\ Append(s, p)[Len(s) + 1] = p /\ Len(s) + 1 \in 1 .. Len(s) + 1
         /\ \A i \in 1 .. Len(s) + 1 : i \in 1 .. Len(s) \/ i = Len(s) + 1
  <1>1. Append(s, p) \in Seq(Packet) /\ Len(Append(s, p)) = Len(s) + 1 /\ Len(s) \in Nat
    OBVIOUS
  <1>2. (\A i \in 1 .. Len(s) : Append(s, p)[i] = s[i]) /\ Append(s, p)[Len(s) + 1] = p
    OBVIOUS
  <1> DEFINE n == Len(s)
  <1>3. n \in Nat
    OBVIOUS
  <1> HIDE DEF n
  <1>4. /\ \A i \in 1 .. n : i \in 1 .. n + 1
        /\ n + 1 \in 1 .. n + 1
        /\ \A i \in 1 .. n + 1 : i \in 1 .. n \/ i = n + 1
    BY <1>3
  <1> QED
    BY <1>1, <1>2, <1>4 DEF n

LEMMA FrontIs ==
  ASSUME NEW s \in Seq(Packet), NEW p \in Packet
  PROVE  /\ <<p>> \o s \in Seq(Packet) /\ Len(<<p>> \o s) = Len(s) + 1 /\ Len(s) \in Nat
         /\ (<<p>> \o s)[1] = p
         /\ \A i \in 1 .. Len(s) + 1 : i # 1 => i - 1 \in 1 .. Len(s) /\ (<<p>> \o s)[i] = s[i - 1]
         /\ \A i \in 1 .. Len(s) : i + 1 \in 1 .. Len(s) + 1 /\ (<<p>> \o s)[i + 1] = s[i]
  <1> DEFINE n == Len(s)
             t == <<p>> \o s
  <1>1. t \in Seq(Packet) /\ Len(t) = n + 1 /\ n \in Nat /\ t[1] = p
    OBVIOUS
  <1>2. \A i \in 1 .. n + 1 : i # 1 => t[i] = s[i - 1]
    OBVIOUS
  <1> HIDE DEF n, t
  <1>3. \A i \in 1 .. n + 1 : i # 1 => i - 1 \in 1 .. n
    BY <1>1
  <1>4. \A i \in 1 .. n : i + 1 \in 1 .. n + 1 /\ i + 1 # 1 /\ (i + 1) - 1 = i
    BY <1>1
  <1>5. \A i \in 1 .. n : t[i + 1] = s[i]
    BY <1>2, <1>4
  <1> QED
    BY <1>1, <1>2, <1>3, <1>4, <1>5 DEF n, t

LEMMA IdsOfAppend ==
  ASSUME NEW s \in Seq(Packet), NEW p \in Packet
  PROVE  PublishIds(Append(s, p))
           = PublishIds(s) \cup (IF p \in Publishes THEN {p.id} ELSE {})
  <1> DEFINE t == Append(s, p)
             n == Len(s)
  <1>1. /\ t \in Seq(Packet) /\ Len(t) = n + 1 /\ n = Len(s) /\ t[n + 1] = p
        /\ n + 1 \in 1 .. n + 1
        /\ \A i \in 1 .. n : t[i] = s[i] /\ i \in 1 .. n + 1
        /\ \A i \in 1 .. n + 1 : i \in 1 .. n \/ i = n + 1
    BY AppendIs
  <1> HIDE DEF t, n
  <1>2. ASSUME NEW id PROVE id \in PublishIds(t) <=>
          id \in PublishIds(s) \/ (p = PUBLISH(id) /\ id \in Ids)
    BY <1>1, PublishIdsIs
  <1>3. \A id : (p = PUBLISH(id) /\ id \in Ids) <=> p \in Publishes /\ id = p.id
    BY PacketKinds, PublishIs DEF Ids
  <1> QED
    BY <1>2, <1>3 DEF t

LEMMA IdsOfTail ==
  ASSUME NEW s \in Seq(Packet), s # <<>>
  PROVE  PublishIds(s) = PublishIds(Tail(s)) \cup (IF Head(s) \in Publishes THEN {Head(s).id} ELSE {})
  <1> DEFINE t == Tail(s)
             n == Len(s)
             p == Head(s)
  <1>1. /\ t \in Seq(Packet) /\ Len(t) = n - 1 /\ n = Len(s) /\ n \in Nat /\ n >= 1
        /\ s[1] = p /\ \A i \in 1 .. n - 1 : t[i] = s[i + 1]
    OBVIOUS
  <1> HIDE DEF t, n, p
  <1>2. /\ \A i \in 1 .. n - 1 : i + 1 \in 1 .. n
        /\ \A i \in 1 .. n : i # 1 => i - 1 \in 1 .. n - 1 /\ (i - 1) + 1 = i
        /\ 1 \in 1 .. n
    BY <1>1
  <1>3. \A i \in 1 .. n : i # 1 => s[i] = t[i - 1]
    BY <1>1, <1>2
  <1>4. ASSUME NEW id PROVE id \in PublishIds(s) <=>
          id \in PublishIds(t) \/ (p = PUBLISH(id) /\ id \in Ids)
    <2>1. id \in PublishIds(s) <=> \E i \in 1 .. n : s[i] = PUBLISH(id) /\ id \in Ids
      BY <1>1, PublishIdsIs
    <2>2. id \in PublishIds(t) <=> \E i \in 1 .. n - 1 : t[i] = PUBLISH(id) /\ id \in Ids
      BY <1>1, PublishIdsIs
    <2> QED
      BY <1>1, <1>2, <1>3, <2>1, <2>2
  <1>5. \A id : (p = PUBLISH(id) /\ id \in Ids) <=> p \in Publishes /\ id = p.id
    BY PacketKinds, PublishIs DEF Ids
  <1> QED
    BY <1>4, <1>5 DEF t, p

LEMMA IdsOfFront ==
  ASSUME NEW s \in Seq(Packet), NEW p \in Packet \ Publishes
  PROVE  PublishIds(<<p>> \o s) = PublishIds(s)
  <1> DEFINE t == <<p>> \o s
             n == Len(s)
  <1>1. /\ t \in Seq(Packet) /\ Len(t) = n + 1 /\ n = Len(s) /\ t[1] = p
        /\ \A i \in 1 .. n + 1 : i # 1 => i - 1 \in 1 .. n /\ t[i] = s[i - 1]
        /\ \A i \in 1 .. n : i + 1 \in 1 .. n + 1 /\ t[i + 1] = s[i]
    BY FrontIs
  <1>2. \A id \in Ids : p # PUBLISH(id)
    BY PacketKinds DEF Ids
  <1> HIDE DEF t, n
  <1>3. ASSUME NEW id PROVE id \in PublishIds(t) <=> id \in PublishIds(s)
    <2>1. id \in PublishIds(s) <=> \E i \in 1 .. n : s[i] = PUBLISH(id) /\ id \in Ids
      BY <1>1, PublishIdsIs
    <2>2. id \in PublishIds(t) <=> \E i \in 1 .. n + 1 : t[i] = PUBLISH(id) /\ id \in Ids
      BY <1>1, PublishIdsIs
    <2> QED
      BY <1>1, <1>2, <2>1, <2>2
  <1> QED
    BY <1>3 DEF t

LEMMA OrderedAppend ==
  ASSUME NEW s \in Seq(Packet), NEW p \in Packet, Ordered(s),
         \A i \in 1 .. Len(s) : p.id # 0 => s[i].id < p.id
  PROVE  Ordered(Append(s, p))
  <1> DEFINE t == Append(s, p)
             n == Len(s)
  <1>1. /\ t \in Seq(Packet) /\ Len(t) = n + 1 /\ n = Len(s) /\ n \in Nat /\ t[n + 1] = p
        /\ \A i \in 1 .. n : t[i] = s[i]
        /\ \A i \in 1 .. n + 1 : i \in 1 .. n \/ i = n + 1
    BY AppendIs
  <1>2. DOMAIN t = 1 .. n + 1 /\ DOMAIN s = 1 .. n
    <2>1. DOMAIN t = 1 .. Len(t) /\ DOMAIN s = 1 .. Len(s)
      OBVIOUS
    <2> HIDE DEF t, n
    <2> QED
      BY <1>1, <2>1
  <1> HIDE DEF t, n
  <1>3. ASSUME NEW i \in 1 .. n + 1, NEW j \in 1 .. n + 1, i < j, t[i].id # 0, t[j].id # 0
        PROVE  t[i].id < t[j].id
    <2>1. i \in 1 .. n
      BY <1>1, <1>3
    <2>2. CASE j \in 1 .. n
      <3>1. t[i] = s[i] /\ t[j] = s[j] /\ i \in DOMAIN s /\ j \in DOMAIN s
        BY <1>1, <1>2, <2>1, <2>2
      <3>2. \A x, y \in DOMAIN s : x < y /\ s[x].id # 0 /\ s[y].id # 0 => s[x].id < s[y].id
        BY DEF Ordered
      <3> QED
        BY <1>3, <3>1, <3>2
    <2>3. CASE j = n + 1
      BY <1>1, <1>3, <2>1, <2>3
    <2> QED
      BY <1>1, <2>2, <2>3
  <1> QED
    BY <1>2, <1>3 DEF Ordered, t

LEMMA OrderedFront ==
  ASSUME NEW s \in Seq(Packet), NEW p \in Packet, p.id = 0, Ordered(s)
  PROVE  Ordered(<<p>> \o s)
  <1> DEFINE t == <<p>> \o s
             n == Len(s)
  <1>1. /\ t \in Seq(Packet) /\ Len(t) = n + 1 /\ n = Len(s) /\ n \in Nat /\ t[1] = p
        /\ \A i \in 1 .. n + 1 : i # 1 => i - 1 \in 1 .. n /\ t[i] = s[i - 1]
    BY FrontIs
  <1>2. DOMAIN t = 1 .. n + 1 /\ DOMAIN s = 1 .. n
    <2>1. DOMAIN t = 1 .. Len(t) /\ DOMAIN s = 1 .. Len(s)
      BY <1>1
    <2> HIDE DEF t, n
    <2> QED
      BY <1>1, <2>1
  <1> HIDE DEF t, n
  <1>3. ASSUME NEW i \in 1 .. n + 1, NEW j \in 1 .. n + 1, i < j, t[i].id # 0, t[j].id # 0
        PROVE  t[i].id < t[j].id
    <2>1. i # 1
      BY <1>1, <1>3
    <2>2. j # 1 /\ i - 1 < j - 1
      <3>1. i \in Nat /\ j \in Nat /\ i >= 1
        BY <1>1
      <3> QED
        BY <1>3, <3>1
    <2>3. /\ t[i] = s[i - 1] /\ t[j] = s[j - 1]
          /\ i - 1 \in DOMAIN s /\ j - 1 \in DOMAIN s
      BY <1>1, <1>2, <2>1, <2>2
    <2>4. \A x, y \in DOMAIN s : x < y /\ s[x].id # 0 /\ s[y].id # 0 => s[x].id < s[y].id
      BY DEF Ordered
    <2> QED
      BY <1>3, <2>2, <2>3, <2>4
  <1> QED
    BY <1>2, <1>3 DEF Ordered, t

\* The first publish is acknowledged and removed.
LEMMA RemovedIds ==
  ASSUME Held, Held', Ordered(Items), NEW i, RemovedAt(i), Items[i] \in Publishes,
         \A j \in 1 .. Len(Items) : Items[j] \in Publishes => i <= j
  PROVE  /\ Ordered(Items') /\ \A j \in 1 .. Len(Items') : \E x \in 1 .. Len(Items) : Items'[j] = Items[x]
         /\ PublishIds(Items') = PublishIds(Items) \ {Items[i].id}
         /\ \A id \in PublishIds(Items) : Items[i].id <= id
  <1> DEFINE c == Items
             d == Items'
             x == Items[i].id
  <1>1. /\ c \in Seq(Packet) /\ d \in Seq(Packet) /\ DOMAIN c = 1 .. Len(c) /\ Len(c) \in Nat
        /\ i \in 1 .. Len(c)
    BY CurrentIs DEF Held, Holds, RemovedAt
  <1>2. PICK f : /\ Selected(c, At, d, At', f)
                 /\ \A j \in 1 .. Len(c) : Takes(f, j) <=> j # i
    BY DEF RemovedAt
  <1>3. x \in 1 .. MaxId /\ c[i] = PUBLISH(x)
    BY PublishIs
  <1>4. /\ Len(f) = Len(d) /\ f \in [1 .. Len(d) -> 1 .. Len(c)]
        /\ \A j \in 1 .. Len(d) : d[j] = c[f[j]]
    BY <1>2, SelectedIs
  <1>5. /\ Ordered(d)
        /\ \A y \in 1 .. Len(d) : \E j \in 1 .. Len(c) : d[y] = c[j]
        /\ PublishIds(d) \subseteq PublishIds(c)
    BY <1>1, <1>2, SelectedOrder
  <1>6. Ordered(c) /\ \A j \in 1 .. Len(c) : c[j] \in Publishes => i <= j
    OBVIOUS
  <1> HIDE DEF c, d
  <1>7. ASSUME NEW j \in 1 .. Len(c), NEW id \in Ids, c[j] = PUBLISH(id), j # i
        PROVE  x < id
    <2>1. i < j
      <3>1. c[j] \in Publishes
        BY <1>7, PacketKinds DEF Ids
      <3>2. i <= j
        BY <1>6, <3>1
      <3> QED
        BY <1>1, <1>7, <3>2
    <2>2. c[j].id = id /\ id # 0 /\ c[i].id = x /\ x # 0
      BY <1>3, <1>7, PacketKinds, SessionAssumption DEF Ids
    <2> QED
      BY <1>1, <1>6, <2>1, <2>2 DEF Ordered
  <1>8. \A id \in PublishIds(c) : x <= id
    <2> SUFFICES ASSUME NEW id \in PublishIds(c) PROVE x <= id
      OBVIOUS
    <2>1. PICK j \in 1 .. Len(c) : c[j] = PUBLISH(id) /\ id \in Ids
      BY <1>1, PublishIdsIs
    <2>2. CASE j = i
      <3>1. c[i].id = x /\ c[j].id = id
        BY <1>3, <2>1, PacketKinds DEF Ids
      <3> QED
        BY <1>3, <2>2, <3>1, SessionAssumption
    <2>3. CASE j # i
      <3>1. x < id
        BY <1>7, <2>1, <2>3
      <3> QED
        BY <1>3, <2>1, <3>1, SessionAssumption DEF Ids
    <2> QED
      BY <2>2, <2>3
  <1>9. PublishIds(d) = PublishIds(c) \ {x}
    <2>1. ASSUME NEW id \in PublishIds(d) PROVE id # x
      <3>1. PICK y \in 1 .. Len(d) : d[y] = PUBLISH(id) /\ id \in Ids
        BY <1>1, PublishIdsIs
      <3>2. f[y] \in 1 .. Len(c) /\ Takes(f, f[y]) /\ c[f[y]] = PUBLISH(id)
        BY <1>4, <3>1 DEF Takes
      <3>3. f[y] # i
        BY <1>2, <3>2
      <3>4. x < id
        BY <1>7, <3>1, <3>2, <3>3
      <3> QED
        BY <1>3, <3>1, <3>4, SessionAssumption DEF Ids
    <2>2. ASSUME NEW id \in PublishIds(c), id # x PROVE id \in PublishIds(d)
      <3>1. PICK j \in 1 .. Len(c) : c[j] = PUBLISH(id) /\ id \in Ids
        BY <1>1, PublishIdsIs
      <3>2. j # i
        BY <1>3, <2>2, <3>1, PacketKinds DEF Ids
      <3>3. PICK y \in 1 .. Len(d) : f[y] = j
        BY <1>2, <1>4, <3>2 DEF Takes
      <3>4. d[y] = PUBLISH(id)
        BY <1>4, <3>1, <3>3
      <3> QED
        BY <1>1, <3>1, <3>4, PublishIdsIs
    <2> QED
      BY <1>5, <2>1, <2>2
  <1> QED
    BY <1>5, <1>8, <1>9 DEF c, d

\* Every publish that was buffered and not received is in the outbox.
Kept == buffered \subseteq received \cup PublishIds(Items)

(* The invariant: the outbox holds a queue, its packets are in the order of  *)
(* their ids, the publishes in it are the last that were buffered, and what  *)
(* is acknowledged was received.                                             *)
QueueInv == Held /\ RestOK /\ OrderInv /\ AckInv /\ Kept

LEMMA OrderIs ==
  ASSUME Held, RestOK
  PROVE  OrderInv <=>
           /\ Ordered(Items) /\ \A i \in 1 .. Len(Items) : Items[i].id <= packetId
           /\ buffered \subseteq 1 .. packetId /\ PublishIds(Items) \subseteq buffered
           /\ \A id \in PublishIds(Items), later \in buffered :
                id < later => later \in PublishIds(Items)
  <1>1. DOMAIN Items = 1 .. Len(Items)
    BY CurrentIs
  <1> QED
    BY <1>1 DEF OrderInv

LEMMA KeptIs ==
  ASSUME Held, RestOK
  PROVE  Kept => AtLeastOnce
  <1>1. Items \in Seq(Packet) /\ DOMAIN Items = 1 .. Len(Items) /\ buffered \subseteq Ids
    BY CurrentIs DEF RestOK
  <1>2. \A id \in Ids : InOutbox(id) <=> id \in PublishIds(Items)
    BY <1>1, PublishIdsIs DEF InOutbox, Items
  <1> QED
    BY <1>1, <1>2 DEF Kept, AtLeastOnce

\* Whatever only thins the outbox keeps its order and every publish.
LEMMA ThinnerKeeps ==
  ASSUME QueueInv, Held', RestOK', Thinner(Items, Items'),
         packetId' \in {packetId, packetId + 1}, UNCHANGED buffered,
         received \subseteq received'
  PROVE  OrderInv' /\ Kept'
  <1>1. /\ Ordered(Items) /\ \A i \in 1 .. Len(Items) : Items[i].id <= packetId
        /\ buffered \subseteq 1 .. packetId /\ PublishIds(Items) \subseteq buffered
        /\ \A id \in PublishIds(Items), later \in buffered :
             id < later => later \in PublishIds(Items)
    BY OrderIs DEF QueueInv
  <1>2. DOMAIN Items' = 1 .. Len(Items')
    BY DEF Held, Holds
  <1>3. /\ Ordered(Items') /\ PublishIds(Items') = PublishIds(Items)
        /\ \A i \in 1 .. Len(Items') : \E j \in 1 .. Len(Items) : Items'[i] = Items[j]
    BY <1>1 DEF Thinner
  <1>4. /\ \A i \in 1 .. Len(Items') : Items'[i].id <= packetId'
        /\ buffered \subseteq 1 .. packetId'
    <2>1. packetId \in Nat /\ MaxId \in Nat
      BY SessionAssumption DEF QueueInv, RestOK
    <2>2. packetId' \in Nat /\ packetId <= packetId'
      BY <2>1
    <2>3. \A i \in 1 .. Len(Items) : Items[i].id \in Nat
      <3>1. \A i \in 1 .. Len(Items) : Items[i] \in Packet
        BY CurrentIs DEF QueueInv
      <3> QED
        BY <3>1, PacketIs
    <2>4. \A i \in 1 .. Len(Items) : Items[i].id <= packetId'
      BY <1>1, <2>1, <2>2, <2>3
    <2>5. buffered \subseteq 1 .. packetId'
      BY <1>1, <2>1, <2>2
    <2> QED
      BY <1>3, <2>4, <2>5
  <1>5. OrderInv'
    BY <1>1, <1>2, <1>3, <1>4 DEF OrderInv, Ordered, PublishIds
  <1>6. Kept'
    BY <1>3 DEF QueueInv, Kept, PublishIds
  <1> QED
    BY <1>5, <1>6

\* A packet is put behind all others; it has the next id or none.
LEMMA AppendKeeps ==
  ASSUME QueueInv, Held', RestOK', NEW p \in Packet, Items' = Append(Items, p),
         \/ p.id = 0 /\ packetId' = packetId
         \/ p.id = packetId' /\ packetId' = packetId + 1,
         buffered' = buffered \cup (IF p \in Publishes THEN {p.id} ELSE {}),
         UNCHANGED received
  PROVE  OrderInv' /\ Kept'
  <1>1. /\ Ordered(Items) /\ \A i \in 1 .. Len(Items) : Items[i].id <= packetId
        /\ buffered \subseteq 1 .. packetId /\ PublishIds(Items) \subseteq buffered
        /\ \A id \in PublishIds(Items), later \in buffered :
             id < later => later \in PublishIds(Items)
        /\ packetId \in Nat
    <2>1. packetId \in 0 .. MaxId /\ MaxId \in Nat
      BY SessionAssumption DEF QueueInv, RestOK
    <2>2. packetId \in Nat
      BY <2>1
    <2> QED
      BY <2>2, OrderIs DEF QueueInv
  <1> DEFINE c == Items
             d == Items'
             n == Len(Items)
  <1>2. /\ c \in Seq(Packet) /\ n = Len(c) /\ d = Append(c, p)
        /\ \A i \in 1 .. n : c[i].id \in Nat
    <2>1. c \in Seq(Packet) /\ \A i \in 1 .. n : c[i] \in Packet
      BY CurrentIs DEF QueueInv
    <2> QED
      BY <2>1, PacketIs
  <1>3. c = Items /\ d = Items'
    OBVIOUS
  <1> HIDE DEF c, d, n
  <1>4. \A i \in 1 .. n : p.id # 0 => c[i].id < p.id
    BY <1>1, <1>2, <1>3
  <1>5. Ordered(d)
    <2>1. Ordered(c) /\ \A i \in 1 .. Len(c) : p.id # 0 => c[i].id < p.id
      BY <1>1, <1>2, <1>3, <1>4
    <2> QED
      BY <1>2, <2>1, OrderedAppend
  <1>6. PublishIds(d) = PublishIds(c) \cup (IF p \in Publishes THEN {p.id} ELSE {})
    BY <1>2, IdsOfAppend
  <1>7. p \in Publishes => p.id = packetId' /\ packetId' = packetId + 1
    <2>1. p \in Publishes => p.id # 0
      BY PublishIs, SessionAssumption
    <2> QED
      BY <2>1
  <1>8. packetId' \in Nat /\ packetId <= packetId' /\ p.id <= packetId'
    <2>1. packetId' = packetId \/ packetId' = packetId + 1
      OBVIOUS
    <2>2. packetId' \in Nat
      BY <1>1, <2>1
    <2> QED
      BY <1>1, <2>1, <2>2
  <1>9. \A i \in 1 .. Len(d) : d[i].id <= packetId'
    <2>1. /\ Len(d) = n + 1 /\ d[n + 1] = p
          /\ \A i \in 1 .. n : d[i] = c[i]
          /\ \A i \in 1 .. n + 1 : i \in 1 .. n \/ i = n + 1
      BY <1>2, AppendIs
    <2>2. \A i \in 1 .. n : c[i].id <= packetId'
      BY <1>1, <1>2, <1>3, <1>8
    <2> QED
      BY <1>8, <2>1, <2>2
  <1>10. buffered' \subseteq 1 .. packetId'
    <2>1. buffered \subseteq 1 .. packetId'
      BY <1>1, <1>8
    <2>2. p \in Publishes => p.id \in 1 .. packetId'
      BY <1>1, <1>7, <1>8
    <2> QED
      BY <2>1, <2>2
  <1>11. PublishIds(d) \subseteq buffered'
    BY <1>1, <1>3, <1>6
  <1>12. ASSUME NEW id \in PublishIds(d), NEW later \in buffered', id < later
         PROVE  later \in PublishIds(d)
    <2>1. CASE later \in PublishIds(d)
      BY <2>1
    <2>2. CASE later \in buffered /\ id \in PublishIds(c)
      BY <1>1, <1>3, <1>6, <1>12, <2>2
    <2>3. CASE later \in buffered /\ id \notin PublishIds(c)
      <3>1. p \in Publishes /\ id = packetId + 1
        BY <1>6, <1>7, <2>3
      <3>2. later \in 1 .. packetId
        BY <1>1, <2>3
      <3> QED
        BY <1>1, <1>12, <3>1, <3>2
    <2> QED
      BY <1>6, <2>1, <2>2, <2>3
  <1>15. DOMAIN Items' = 1 .. Len(Items')
    BY DEF Held, Holds
  <1>13. OrderInv'
    BY <1>3, <1>5, <1>9, <1>10, <1>11, <1>12, <1>15 DEF OrderInv
  <1>14. Kept'
    BY <1>3, <1>6 DEF QueueInv, Kept
  <1> QED
    BY <1>13, <1>14

LEMMA FrontKeeps ==
  ASSUME QueueInv, Held', RestOK', NEW p \in Packet, p.id = 0, Items' = <<p>> \o Items,
         UNCHANGED <<packetId, buffered, received>>
  PROVE  OrderInv' /\ Kept'
  <1>1. /\ Ordered(Items) /\ \A i \in 1 .. Len(Items) : Items[i].id <= packetId
        /\ buffered \subseteq 1 .. packetId /\ PublishIds(Items) \subseteq buffered
        /\ \A id \in PublishIds(Items), later \in buffered :
             id < later => later \in PublishIds(Items)
        /\ packetId \in Nat
    <2>1. packetId \in 0 .. MaxId /\ MaxId \in Nat
      BY SessionAssumption DEF QueueInv, RestOK
    <2>2. packetId \in Nat
      BY <2>1
    <2> QED
      BY <2>2, OrderIs DEF QueueInv
  <1>2. Items \in Seq(Packet) /\ p \notin Publishes
    BY CurrentIs, PublishIs, SessionAssumption DEF QueueInv
  <1>3. Ordered(Items') /\ PublishIds(Items') = PublishIds(Items)
    BY <1>1, <1>2, OrderedFront, IdsOfFront
  <1>4. \A i \in 1 .. Len(Items') : Items'[i].id <= packetId
    <2> DEFINE d == Items'
    <2>1. /\ Len(d) = Len(Items) + 1 /\ d[1] = p
          /\ \A i \in 1 .. Len(Items) + 1 : i # 1 => i - 1 \in 1 .. Len(Items) /\ d[i] = Items[i - 1]
      BY <1>2, FrontIs
    <2> HIDE DEF d
    <2>2. \A i \in 1 .. Len(d) : d[i].id <= packetId
      BY <1>1, <2>1
    <2> QED
      BY <2>2 DEF d
  <1>5. DOMAIN Items' = 1 .. Len(Items')
    BY DEF Held, Holds
  <1>6. OrderInv'
    BY <1>1, <1>3, <1>4, <1>5 DEF OrderInv
  <1>7. Kept'
    BY <1>3 DEF QueueInv, Kept
  <1> QED
    BY <1>6, <1>7

LEMMA AckKeeps ==
  ASSUME AckInv, buffered \subseteq buffered', UNCHANGED received,
         PublishIds(acks') \subseteq PublishIds(acks),
         PublishIds(toBroker') \subseteq buffered
  PROVE  AckInv'
  BY DEF AckInv

LEMMA SendKeeps ==
  ASSUME QueueInv, NEW t \in LoopTasks, SendPacket(t)
  PROVE  AckInv'
  <1>1. /\ toBroker \in Seq(Packet) /\ Items \in Seq(Packet)
        /\ PublishIds(toBroker) \subseteq buffered /\ PublishIds(Items) \subseteq buffered
    BY CurrentIs DEF QueueInv, RestOK, AckInv, OrderInv
  <1>2. /\ At \in 1 .. Len(Items)
        /\ toBroker' = Append(toBroker, Items[At]) \/ toBroker' = toBroker
    BY SendTypes DEF QueueInv
  <1>3. Items[At] \in Packet /\ (Items[At] \in Publishes => Items[At].id \in buffered)
    BY <1>1, <1>2, PublishIdsIs
  <1>4. PublishIds(toBroker') \subseteq buffered
    BY <1>1, <1>2, <1>3, IdsOfAppend
  <1> QED
    BY <1>4, AckKeeps DEF SendPacket, QueueInv

LEMMA IncomingKeeps ==
  ASSUME QueueInv, NEW t, NEW type, Incoming(t, type),
         UNCHANGED <<buffered, received, toBroker>>
  PROVE  AckInv'
  <1>1. PublishIds(acks') \subseteq PublishIds(acks)
    BY IncomingIs, IdsOfTail DEF QueueInv
  <1>2. PublishIds(toBroker') \subseteq buffered
    BY DEF QueueInv, AckInv
  <1> QED
    BY <1>1, <1>2, AckKeeps DEF QueueInv

LEMMA LostKeeps ==
  ASSUME QueueInv, toBroker' = <<>>, acks' = <<>>, UNCHANGED <<buffered, received>>
  PROVE  AckInv'
  <1>1. PublishIds(<<>>) = {}
    BY DEF PublishIds
  <1> QED
    BY <1>1, AckKeeps DEF QueueInv

LEMMA SameKeeps ==
  ASSUME QueueInv, buffered \subseteq buffered',
         UNCHANGED <<received, toBroker, acks>>
  PROVE  AckInv'
  BY DEF QueueInv, AckInv

LEMMA BrokerKeeps ==
  ASSUME QueueInv, RestOK', BrokerGets
  PROVE  AckInv' /\ received \subseteq received'
  <1> DEFINE p == Head(toBroker)
  <1>1. /\ PublishIds(toBroker) = PublishIds(toBroker')
             \cup (IF p \in Publishes THEN {p.id} ELSE {})
        /\ p \in Packet /\ (p \in Publishes <=> p.type = "PUBLISH")
    BY BrokerIs, IdsOfTail, PacketIs DEF QueueInv, BrokerGets
  <1>2. /\ acks \in Seq(Packet) /\ (acks' = acks \/ acks' = Append(acks, p))
        /\ received' = received \cup (IF p \in Publishes THEN {p.id} ELSE {})
        /\ buffered' = buffered
    BY <1>1 DEF QueueInv, RestOK, BrokerGets
  <1> HIDE DEF p
  <1>3. PublishIds(acks') \subseteq PublishIds(acks) \cup (IF p \in Publishes THEN {p.id} ELSE {})
    BY <1>1, <1>2, IdsOfAppend
  <1> QED
    BY <1>1, <1>2, <1>3 DEF QueueInv, AckInv

\* The broker has acknowledged the first publish.
LEMMA RemovedKeeps ==
  ASSUME QueueInv, Held', RestOK', NEW i, RemovedAt(i), Items[i] \in Publishes,
         \A j \in 1 .. Len(Items) : Items[j] \in Publishes => i <= j,
         Items[i].id \in received, UNCHANGED <<packetId, buffered, received>>
  PROVE  OrderInv' /\ Kept'
  <1>1. /\ Ordered(Items) /\ \A j \in 1 .. Len(Items) : Items[j].id <= packetId
        /\ buffered \subseteq 1 .. packetId /\ PublishIds(Items) \subseteq buffered
        /\ \A id \in PublishIds(Items), later \in buffered :
             id < later => later \in PublishIds(Items)
        /\ packetId \in Nat
    <2>1. packetId \in 0 .. MaxId /\ MaxId \in Nat
      BY SessionAssumption DEF QueueInv, RestOK
    <2>2. packetId \in Nat
      BY <2>1
    <2> QED
      BY <2>2, OrderIs DEF QueueInv
  <1>2. /\ Ordered(Items')
        /\ \A j \in 1 .. Len(Items') : \E x \in 1 .. Len(Items) : Items'[j] = Items[x]
        /\ PublishIds(Items') = PublishIds(Items) \ {Items[i].id}
        /\ \A id \in PublishIds(Items) : Items[i].id <= id
    BY <1>1, RemovedIds DEF QueueInv
  <1>3. DOMAIN Items' = 1 .. Len(Items')
    BY DEF Held, Holds
  <1>4. Items[i].id \in Nat
    BY PublishIs
  <1>5. ASSUME NEW id \in PublishIds(Items'), NEW later \in buffered, id < later
        PROVE  later \in PublishIds(Items')
    <2>1. later \in PublishIds(Items) /\ Items[i].id <= id
      BY <1>1, <1>2, <1>5
    <2>2. later # Items[i].id
      <3>1. id \in Nat /\ later \in Nat
        <4>1. id \in buffered /\ later \in buffered
          BY <1>1, <1>2
        <4> QED
          BY <1>1, <4>1
      <3> QED
        BY <1>4, <1>5, <2>1, <3>1
    <2> QED
      BY <1>2, <2>1, <2>2
  <1>6. \A j \in 1 .. Len(Items') : Items'[j].id <= packetId
    BY <1>1, <1>2
  <1>7. OrderInv'
    BY <1>1, <1>2, <1>3, <1>5, <1>6 DEF OrderInv
  <1>8. Kept'
    BY <1>2 DEF QueueInv, Kept
  <1> QED
    BY <1>7, <1>8

LEMMA QueueStep ==
  ASSUME QueueInv, [Next]_vars
  PROVE  QueueInv'
  <1>0. Held' /\ RestOK'
    BY TypeStep DEF QueueInv
  <1> SUFFICES OrderInv' /\ Kept' /\ AckInv'
    BY <1>0 DEF QueueInv
  <1>1. CASE Connect
    <2>1. Items' = <<CONNECT>> \o Items
      BY <1>1, AddPacketFrontHeld, PacketKinds DEF Connect, QueueInv
    <2>2. OrderInv' /\ Kept'
      BY <1>0, <1>1, <2>1, FrontKeeps, PacketKinds DEF Connect, otherVars, brokerVars
    <2> QED
      BY <1>1, <2>2, SameKeeps DEF Connect, otherVars, brokerVars, wireVars
  <1>2. CASE ConnectBroken
    <2>1. Items' = <<BROKEN(0)>> \o Items
      BY <1>2, AddPacketFrontHeld, PacketKinds DEF ConnectBroken, QueueInv
    <2>2. OrderInv' /\ Kept'
      BY <1>0, <1>2, <2>1, FrontKeeps, PacketKinds DEF ConnectBroken, otherVars, brokerVars
    <2> QED
      BY <1>2, <2>2, SameKeeps DEF ConnectBroken, otherVars, brokerVars, wireVars
  <1>3. CASE Publish
    <2> DEFINE p == PUBLISH(packetId')
    <2>1. packetId' \in 1 .. MaxId /\ packetId' = packetId + 1
      BY <1>3, NextIdIs DEF Publish, QueueInv
    <2>2. p \in Packet /\ p \in Publishes /\ p.id = packetId'
      BY <2>1, PacketKinds
    <2>3. buffered' = buffered \cup {packetId'} /\ UNCHANGED brokerVars /\ AddPacket(p)
      BY <1>3 DEF Publish
    <2> HIDE DEF p
    <2>4. Items' = Append(Items, p)
      BY <2>2, <2>3, AddPacketHeld DEF QueueInv
    <2>5. OrderInv' /\ Kept'
      BY <1>0, <2>1, <2>2, <2>3, <2>4, AppendKeeps DEF otherVars, brokerVars
    <2> QED
      BY <2>3, <2>5, SameKeeps DEF otherVars, brokerVars, wireVars
  <1>4. ASSUME NEW p \in Packet \ Publishes, AddPacket(p), UNCHANGED <<brokerVars, buffered>>,
               \/ p.id = 0 /\ packetId' = packetId
               \/ p.id = packetId' /\ packetId' = packetId + 1
        PROVE  OrderInv' /\ Kept' /\ AckInv'
    <2>1. Items' = Append(Items, p)
      BY <1>4, AddPacketHeld DEF QueueInv
    <2>2. OrderInv' /\ Kept'
      BY <1>0, <1>4, <2>1, AppendKeeps DEF otherVars, brokerVars
    <2> QED
      BY <1>4, <2>2, SameKeeps DEF otherVars, brokerVars, wireVars
  <1>5. CASE PublishBroken
    <2>1. packetId' \in 1 .. MaxId /\ packetId' = packetId + 1
      BY <1>5, NextIdIs DEF PublishBroken, QueueInv
    <2>2. BROKEN(packetId') \in Packet \ Publishes /\ BROKEN(packetId').id = packetId'
      BY <2>1, PacketKinds
    <2> QED
      BY <1>4, <1>5, <2>1, <2>2 DEF PublishBroken, otherVars
  <1>6. CASE PublishFails
    <2>1. packetId' = packetId + 1
      BY <1>6, NextIdIs DEF PublishFails, QueueInv
    <2>2. Items' = Items
      BY <1>6, SameHeld DEF PublishFails, queueVars, QueueInv
    <2>3. OrderInv' /\ Kept'
      BY <1>0, <1>6, <2>1, <2>2, SameThinner, ThinnerKeeps DEF PublishFails, otherVars, brokerVars
    <2> QED
      BY <1>6, <2>3, SameKeeps DEF PublishFails, otherVars, brokerVars, wireVars
  <1>7. CASE Subscribe
    <2>1. packetId' \in 1 .. MaxId /\ packetId' = packetId + 1
      BY <1>7, NextIdIs DEF Subscribe, QueueInv
    <2>2. /\ BROKEN(packetId') \in Packet \ Publishes /\ BROKEN(packetId').id = packetId'
          /\ SUBSCRIBE(packetId') \in Packet \ Publishes /\ SUBSCRIBE(packetId').id = packetId'
      BY <2>1, PacketKinds
    <2> QED
      BY <1>4, <1>7, <2>1, <2>2 DEF Subscribe, otherVars
  <1>8. ASSUME Items' = Items, UNCHANGED <<packetId, buffered, received>>
        PROVE  OrderInv' /\ Kept'
    BY <1>0, <1>8, SameThinner, ThinnerKeeps
  <1>9. ASSUME NEW t \in LoopTasks, SendPacket(t) PROVE OrderInv' /\ Kept' /\ AckInv'
    <2>1. Items' = Items
      BY <1>9, SameHeld DEF SendPacket, QueueInv
    <2>2. OrderInv' /\ Kept'
      BY <1>8, <1>9, <2>1 DEF SendPacket
    <2> QED
      BY <1>9, <2>2, SendKeeps
  <1>10. ASSUME NEW t \in LoopTasks, AdvanceOutbox(t) PROVE OrderInv' /\ Kept' /\ AckInv'
    <2>1. Thinner(Items, Items')
      BY <1>10, AdvanceHeld DEF AdvanceOutbox, QueueInv
    <2>2. OrderInv' /\ Kept'
      BY <1>0, <1>10, <2>1, ThinnerKeeps DEF AdvanceOutbox, otherVars, brokerVars
    <2> QED
      BY <1>10, <2>2, SameKeeps DEF AdvanceOutbox, otherVars, brokerVars, wireVars
  <1>11. ASSUME NEW t \in LoopTasks, Connack(t) PROVE OrderInv' /\ Kept' /\ AckInv'
    <2>1. Items' = Items
      BY <1>11, SameHeld DEF Connack, queueVars, QueueInv
    <2>2. OrderInv' /\ Kept'
      BY <1>8, <1>11, <2>1 DEF Connack
    <2> QED
      BY <1>11, <2>2, IncomingKeeps DEF Connack
  <1>21. ASSUME NEW t \in LoopTasks, ClearSession(t) PROVE OrderInv' /\ Kept' /\ AckInv'
    <2>1. Thinner(Items, Items')
      BY <1>21, SweepHeld DEF ClearSession, QueueInv
    <2>2. OrderInv' /\ Kept'
      BY <1>0, <1>21, <2>1, ThinnerKeeps DEF ClearSession, otherVars, brokerVars
    <2> QED
      BY <1>21, <2>2, SameKeeps DEF ClearSession, otherVars, brokerVars, wireVars
  <1>12. ASSUME NEW t \in LoopTasks, Puback(t) PROVE OrderInv' /\ Kept' /\ AckInv'
    <2>1. UNCHANGED <<packetId, buffered, received>>
      BY <1>12 DEF Puback
    <2>2. CASE Items' = Items
      BY <1>8, <1>12, <2>1, <2>2, IncomingKeeps DEF Puback
    <2>3. CASE Items' # Items
      <3>1. PICK i : /\ RemovedAt(i) /\ Items[i] \in Publishes /\ Items[i] = Head(acks)
                     /\ \A j \in 1 .. Len(Items) : Items[j] \in Publishes => i <= j
        BY <1>12, <2>3, PubackHeld DEF QueueInv
      <3>2. acks \in Seq(Packet) /\ acks # <<>>
        BY <1>12, IncomingIs DEF Puback, QueueInv
      <3>3. Items[i].id \in received
        BY <3>1, <3>2, IdsOfTail DEF QueueInv, AckInv
      <3>4. OrderInv' /\ Kept'
        BY <1>0, <2>1, <3>1, <3>3, RemovedKeeps
      <3> QED
        BY <1>12, <3>4, IncomingKeeps DEF Puback
    <2> QED
      BY <2>2, <2>3
  <1>13. ASSUME NEW t \in LoopTasks, Suback(t) PROVE OrderInv' /\ Kept' /\ AckInv'
    <2>1. Thinner(Items, Items')
      BY <1>13, SubackHeld DEF QueueInv, RestOK
    <2>2. OrderInv' /\ Kept'
      BY <1>0, <1>13, <2>1, ThinnerKeeps DEF Suback
    <2> QED
      BY <1>13, <2>2, IncomingKeeps DEF Suback
  <1>14. ASSUME NEW t \in LoopTasks, AddSmall(t) PROVE OrderInv' /\ Kept' /\ AckInv'
    BY <1>4, <1>14, PacketKinds DEF AddSmall, otherVars
  <1>15. ASSUME NEW t \in LoopTasks, CheckTimeout(t) PROVE OrderInv' /\ Kept' /\ AckInv'
    <2>1. Items' = Items
      BY <1>15, ResetHeld DEF CheckTimeout, QueueInv
    <2>2. OrderInv' /\ Kept'
      BY <1>8, <1>15, <2>1 DEF CheckTimeout, otherVars, brokerVars
    <2> QED
      BY <1>15, <2>2, SameKeeps DEF CheckTimeout, otherVars, brokerVars, wireVars
  <1>16. ASSUME Disconnected PROVE OrderInv' /\ Kept' /\ AckInv'
    <2>1. Items' = Items
      BY <1>16, SameHeld DEF Disconnected, queueVars, QueueInv
    <2>2. OrderInv' /\ Kept'
      BY <1>8, <1>16, <2>1 DEF Disconnected
    <2> QED
      BY <1>16, <2>2, LostKeeps DEF Disconnected
  <1>17. ASSUME NEW t \in LoopTasks, ClearClosed(t) PROVE OrderInv' /\ Kept' /\ AckInv'
    <2>1. Thinner(Items, Items')
      BY <1>17, SweepHeld DEF ClearClosed, KeptBySession, QueueInv
    <2>2. OrderInv' /\ Kept'
      BY <1>0, <1>17, <2>1, ThinnerKeeps DEF ClearClosed, otherVars, brokerVars
    <2> QED
      BY <1>17, <2>2, SameKeeps DEF ClearClosed, otherVars, brokerVars, wireVars
  <1>22. ASSUME NEW t \in LoopTasks, Closed(t) PROVE OrderInv' /\ Kept' /\ AckInv'
    <2>1. Items' = Items
      BY <1>22, SameHeld DEF Closed, QueueInv
    <2>2. OrderInv' /\ Kept'
      BY <1>8, <1>22, <2>1 DEF Closed, otherVars, brokerVars
    <2> QED
      BY <1>22, <2>2, SameKeeps DEF Closed, otherVars, brokerVars, wireVars
  <1>18. CASE Dialled
    <2>1. Items' = Items
      BY <1>18, SameHeld DEF Dialled, queueVars, QueueInv
    <2>2. OrderInv' /\ Kept'
      BY <1>8, <1>18, <2>1 DEF Dialled, otherVars, brokerVars
    <2> QED
      BY <1>18, <2>2, SameKeeps DEF Dialled, otherVars, brokerVars, wireVars
  <1>19. CASE BrokerGets
    <2>1. Items' = Items
      BY <1>19, SameHeld DEF BrokerGets, queueVars, QueueInv
    <2>2. AckInv' /\ received \subseteq received'
      BY <1>0, <1>19, BrokerKeeps
    <2>3. OrderInv' /\ Kept'
      BY <1>0, <1>19, <2>1, <2>2, SameThinner, ThinnerKeeps DEF BrokerGets
    <2> QED
      BY <2>2, <2>3
  <1>20. CASE UNCHANGED vars
    <2>1. Items' = Items
      BY <1>20, SameHeld DEF vars, queueVars, QueueInv
    <2>2. OrderInv' /\ Kept'
      BY <1>8, <1>20, <2>1 DEF vars, otherVars, brokerVars
    <2> QED
      BY <1>20, <2>2, SameKeeps DEF vars, otherVars, brokerVars, wireVars
  <1> QED
    BY <1>1, <1>2, <1>3, <1>5, <1>6, <1>7, <1>9, <1>10, <1>11, <1>12, <1>13, <1>14,
       <1>15, <1>16, <1>17, <1>18, <1>19, <1>20, <1>21, <1>22
       DEF Next, Loop, Drop, KeepaliveExpires, BrokerCloses, Ruined

LEMMA QueueInit ==
  ASSUME Init
  PROVE  QueueInv
  <1>1. Held /\ RestOK /\ Items = <<>>
    BY InitHeld
  <1>2. PublishIds(<<>>) = {}
    BY DEF PublishIds
  <1>3. /\ buffered = {} /\ received = {} /\ packetId = 0
        /\ toBroker = <<>> /\ acks = <<>>
    BY DEF Init
  <1> QED
    BY <1>1, <1>2, <1>3 DEF QueueInv, OrderInv, Ordered, AckInv, Kept

LEMMA QueueInvariant == Spec => []QueueInv
  BY QueueInit, QueueStep, PTL DEF Spec

(* Every variable has its type, every pointer of the outbox among them.      *)
THEOREM SessionTypeCorrect == Spec => []TypeOK
  <1>1. QueueInv => TypeOK
    BY TypeSplits DEF QueueInv
  <1> QED
    BY <1>1, QueueInvariant, PTL

LEMMA HeldIsSound ==
  ASSUME Held
  PROVE  ListSound
  <1>1. Holds(box, Items, At)
    BY DEF Held
  <1>2. /\ Cardinality(DOMAIN box.node) = Len(Contents(box))
        /\ Items = Contents(box)
    BY <1>1, HoldsIs DEF Items
  <1>3. box.current \notin {nullptr, box.first} =>
          box.prev \in DOMAIN box.node /\ box.node[box.prev].next = box.current
    <2> DEFINE n == Len(Items)
    <2>1. /\ box.current = nullptr <=> At = n + 1
          /\ box.first = box.current <=> At = 1
          /\ At > 1 /\ At <= n =>
               box.prev \in DOMAIN box.node /\ box.node[box.prev].next = box.current
          /\ At \in 1 .. n + 1 /\ n \in Nat
      BY <1>1, HoldsIs
    <2> HIDE DEF n
    <2>2. At # n + 1 /\ At # 1 => At > 1 /\ At <= n
      BY <2>1
    <2> QED
      BY <2>1, <2>2
  <1> QED
    BY <1>2, <1>3 DEF ListSound

(* Outbox.h removes the current packet by way of _prev, which resetCurrent   *)
(* and the removal of other packets leave stale: where it is followed it is  *)
(* the predecessor, and no node is leaked or freed while it is listed, as    *)
(* long as no sweep has written to a deleted node.                           *)
THEOREM OutboxIsSound == Spec => []ListSound
  <1>1. QueueInv => ListSound
    BY HeldIsSound DEF QueueInv
  <1> QED
    BY <1>1, QueueInvariant, PTL

(* A publish that was buffered is in the outbox until the broker has got it, *)
(* whichever tasks run loop(), and however writes, acknowledgements, retries *)
(* and lost connections interleave, as long as no sweep has ruined it.       *)
THEOREM NoPublishIsLost == Spec => []AtLeastOnce
  <1>1. QueueInv => AtLeastOnce
    BY KeptIs DEF QueueInv
  <1> QED
    BY <1>1, QueueInvariant, PTL

(***************************************************************************)
(* The outbox implements the queue of PacketQueue                          *)
(***************************************************************************)

\* If nothing is left out nothing has changed.
LEMMA SelectedLen ==
  ASSUME NEW c \in Seq(Packet), NEW d \in Seq(Packet), NEW k \in 1 .. Len(c) + 1,
         NEW m \in 1 .. Len(d) + 1, NEW f, Selected(c, k, d, m, f)
  PROVE  Len(d) < Len(c) \/ (d = c /\ m = k)
  <1> DEFINE n == Len(c)
             l == Len(d)
  <1>1. /\ f \in [1 .. l -> 1 .. n]
        /\ \A i, j \in 1 .. l : i < j => f[i] < f[j]
        /\ \A j \in 1 .. l : d[j] = c[f[j]] /\ (j < m <=> f[j] < k)
        /\ n \in Nat /\ l \in Nat /\ k \in 1 .. n + 1 /\ m \in 1 .. l + 1
    BY SelectedIs, SMTT(30)
  <1>2. c \in [1 .. n -> Packet] /\ d \in [1 .. l -> Packet]
    OBVIOUS
  <1> HIDE DEF n, l
  <1>3. \A i, j \in 1 .. l : f[i] = f[j] => i = j
    <2> SUFFICES ASSUME NEW i \in 1 .. l, NEW j \in 1 .. l, f[i] = f[j] PROVE i = j
      OBVIOUS
    <2>1. f[i] \in Nat
      BY <1>1
    <2>2. ~(i < j) /\ ~(j < i)
      BY <1>1, <2>1
    <2> QED
      BY <2>2
  <1>4. f \in Injection(1 .. l, 1 .. n)
    BY <1>1, <1>3 DEF Injection, IsInjective
  <1>5. /\ IsFiniteSet(1 .. n) /\ Cardinality(1 .. n) = n /\ Cardinality(1 .. l) = l
    <2>1. IsFiniteSet(1 .. n) /\ Cardinality(1 .. n) = n
      <3>1. n \in Int /\ 1 \in Int /\ (1 > n => n = 0)
        BY <1>1
      <3>2. IsFiniteSet(1 .. n) /\ Cardinality(1 .. n) = IF 1 > n THEN 0 ELSE n - 1 + 1
        BY <3>1, FS_Interval
      <3> QED
        BY <3>1, <3>2
    <2>2. Cardinality(1 .. l) = l
      BY <1>1, FS_Interval
    <2> QED
      BY <2>1, <2>2
  <1>6. l <= n /\ (l = n => f \in Surjection(1 .. l, 1 .. n))
    BY <1>4, <1>5, FS_Injection
  <1>7. CASE l = n
    <2>1. \A i \in 1 .. n : \E j \in 1 .. n : f[j] = i
      BY <1>6, <1>7 DEF Surjection
    <2>2. \A j \in 1 .. n : f[j] = j
      <3> DEFINE U == {j \in 1 .. n : f[j] # j}
      <3> SUFFICES ASSUME U # {} PROVE FALSE
        OBVIOUS
      <3>1. PICK x \in U : \A y \in U : x <= y
        <4>1. U \subseteq Nat
          OBVIOUS
        <4> HIDE DEF U
        <4> QED
          BY <4>1, Least
      <3>2. x \in 1 .. n /\ f[x] \in 1 .. n /\ f[x] # x
        BY <1>1, <1>7
      <3>3. \A y \in 1 .. n : y < x => f[y] = y
        BY <3>1
      <3>4. PICK z \in 1 .. n : f[z] = x
        BY <2>1, <3>2
      <3>5. x < z /\ f[x] < x
        <4>1. ~(z < x) /\ z # x
          BY <3>2, <3>3, <3>4
        <4>2. x < z
          BY <1>1, <3>2, <4>1
        <4>3. f[x] < f[z]
          BY <1>1, <1>7, <3>2, <4>2
        <4> QED
          BY <3>4, <4>2, <4>3
      <3>6. f[f[x]] = f[x] /\ f[f[x]] < f[x]
        BY <1>1, <1>7, <3>2, <3>3, <3>5
      <3> QED
        BY <3>2, <3>6
    <2>3. d = c
      BY <1>1, <1>2, <1>7, <2>2
    <2>4. m = k
      <3>1. \A j \in 1 .. n : j < m <=> j < k
        BY <1>1, <1>7, <2>2
      <3>2. k < m => k \in 1 .. n /\ ~(k < k)
        BY <1>1, <1>7
      <3>3. m < k => m \in 1 .. n /\ ~(m < m)
        BY <1>1, <1>7
      <3>4. ~(k < m) /\ ~(m < k)
        BY <3>1, <3>2, <3>3
      <3>5. k \in Int /\ m \in Int
        BY <1>1
      <3> QED
        BY <3>4, <3>5
    <2> QED
      BY <2>3, <2>4
  <1> QED
    BY <1>1, <1>6, <1>7 DEF n, l

QueueStutters == [Queue!Next]_<<Contents(box), Cursor(box), ruined>>
Sound == ~ruined /\ UNCHANGED ruined

LEMMA SelectedStep ==
  ASSUME Sound, Held, Held', NEW f, Selected(Items, At, Items', At', f)
  PROVE  QueueStutters
  <1>1. /\ Items \in Seq(Packet) /\ At \in 1 .. Len(Items) + 1 /\ DOMAIN Items = 1 .. Len(Items)
    BY CurrentIs
  <1>2. /\ Items' \in Seq(Packet) /\ At' \in 1 .. Len(Items') + 1
        /\ DOMAIN Items' = 1 .. Len(Items')
    <2>1. Holds(box', Items', At')
      BY DEF Held
    <2> QED
      BY <2>1, HoldsIs
  <1>3. CASE Items' = Items /\ At' = At
    BY <1>3 DEF QueueStutters, Items, At, Sound
  <1>4. CASE Len(Items') < Len(Items)
    <2>1. /\ f \in [DOMAIN Items' -> DOMAIN Items]
          /\ \A i, j \in DOMAIN Items' : i < j => f[i] < f[j]
          /\ \A i \in DOMAIN Items' : Items'[i] = Items[f[i]] /\ (i < At' <=> f[i] < At)
          /\ DOMAIN f = DOMAIN Items'
      <3>1. /\ f \in [1 .. Len(Items') -> 1 .. Len(Items)]
            /\ \A i, j \in 1 .. Len(Items') : i < j => f[i] < f[j]
            /\ \A i \in 1 .. Len(Items') : Items'[i] = Items[f[i]] /\ (i < At' <=> f[i] < At)
        BY SelectedIs
      <3> QED
        BY <1>1, <1>2, <3>1
    <2>2. Queue!Delete
      BY <1>2, <1>4, <2>1 DEF Queue!Delete, Items, At
    <2> QED
      BY <2>2 DEF QueueStutters, Queue!Next, Sound
  <1> QED
    BY <1>1, <1>2, <1>3, <1>4, SelectedLen

LEMMA SameStep ==
  ASSUME Sound, Items' = Items, At' = At
  PROVE  QueueStutters
  BY DEF QueueStutters, Items, At, Sound

LEMMA AppendStep ==
  ASSUME Sound, Held, NEW p \in Packet, AddPacket(p)
  PROVE  QueueStutters
  <1>1. Items' = Append(Items, p) /\ At' = At /\ Items \in Seq(Packet)
    BY AddPacketHeld, CurrentIs
  <1>2. Len(Items') = Len(Items) + 1 /\ Items'[Len(Items')] = p
    BY <1>1, AppendIs
  <1>3. Queue!Last(Items') = p
    BY <1>2 DEF Queue!Last
  <1>4. Queue!Add
    BY <1>1, <1>2, <1>3 DEF Queue!Add, Items, At
  <1> QED
    BY <1>4 DEF QueueStutters, Queue!Next, Sound

LEMMA FrontStep ==
  ASSUME Sound, Held, NEW p \in Packet, AddPacketFront(p)
  PROVE  QueueStutters
  <1>1. Items' = <<p>> \o Items /\ At' = 1 /\ Items \in Seq(Packet)
    BY AddPacketFrontHeld, CurrentIs
  <1>2. Len(Items') = Len(Items) + 1 /\ Head(Items') = p /\ Tail(Items') = Items
    BY <1>1
  <1>3. Queue!AddFront
    BY <1>1, <1>2 DEF Queue!AddFront, Items, At
  <1> QED
    BY <1>3 DEF QueueStutters, Queue!Next, Sound

LEMMA AdvanceStep ==
  ASSUME Sound, Held, box' = Advanced
  PROVE  QueueStutters
  <1>1. /\ Held'
        /\ ~SentWhole => Items' = Items /\ At' = At
        /\ SentWhole /\ ~Removable(Items[At]) => Items' = Items /\ At' = At + 1
        /\ SentWhole /\ Removable(Items[At]) => \E f : Selected(Items, At, Items', At', f)
    BY AdvanceHeld
  <1>2. CASE ~SentWhole
    BY <1>1, <1>2, SameStep
  <1>3. CASE SentWhole /\ ~Removable(Items[At])
    <2>1. At \in DOMAIN Items
      BY <1>3, CurrentIs
    <2>2. Queue!Advance
      BY <1>1, <1>3, <2>1 DEF Queue!Advance, Items, At
    <2> QED
      BY <2>2 DEF QueueStutters, Queue!Next, Sound
  <1>4. CASE SentWhole /\ Removable(Items[At])
    BY <1>1, <1>4, SelectedStep
  <1> QED
    BY <1>2, <1>3, <1>4

LEMMA ResetStep ==
  ASSUME Sound, Held, box' = ResetCurrent(box)
  PROVE  QueueStutters
  <1>1. Items' = Items /\ At' = 1
    BY ResetHeld
  <1>2. Queue!Rewind
    BY <1>1 DEF Queue!Rewind, Items, At
  <1> QED
    BY <1>2 DEF QueueStutters, Queue!Next, Sound

LEMMA RuinStep ==
  ASSUME Held, ~ruined, ruined' = TRUE, Torn(Items, Publishes), Items' = Items, At' = At
  PROVE  QueueStutters
  <1>1. DOMAIN Items = 1 .. Len(Items)
    BY CurrentIs
  <1>2. Queue!Ruin
    BY <1>1 DEF Queue!Ruin, Torn, Items, At
  <1> QED
    BY <1>2 DEF QueueStutters, Queue!Next

LEMMA SweepStep ==
  ASSUME ~ruined, ruined \in BOOLEAN, Held, Sweep(Publishes)
  PROVE  QueueStutters
  <1>1. /\ Held'
        /\ \/ ruined' = TRUE /\ Torn(Items, Publishes) /\ Items' = Items /\ At' = At
           \/ ruined' = FALSE /\ \E f : Selected(Items, At, Items', At', f)
    BY SweepHeld
  <1>2. ruined' = FALSE => Sound
    <2>1. ruined = FALSE
      OBVIOUS
    <2> QED
      BY <2>1 DEF Sound
  <1> QED
    BY <1>1, <1>2, RuinStep, SelectedStep

LEMMA QueueMoves ==
  ASSUME QueueInv, [Next]_vars
  PROVE  QueueStutters
  <1>0. Held /\ RestOK /\ Held' /\ RestOK'
    BY TypeStep DEF QueueInv
  <1>1. CASE Publish \/ PublishBroken \/ Subscribe
    <2>1. packetId' \in 1 .. MaxId
      BY <1>0, <1>1, NextIdIs DEF Publish, PublishBroken, Subscribe
    <2>2. /\ PUBLISH(packetId') \in Packet /\ BROKEN(packetId') \in Packet
          /\ SUBSCRIBE(packetId') \in Packet
      BY <2>1, PacketKinds
    <2>3. Sound
      BY <1>1 DEF Publish, PublishBroken, Subscribe, NtwMayCall, Sound
    <2> QED
      BY <1>0, <1>1, <2>2, <2>3, AppendStep DEF Publish, PublishBroken, Subscribe
  <1>2. CASE Connect \/ ConnectBroken
    <2>1. Sound
      BY <1>2 DEF Connect, ConnectBroken, NtwMayCall, Sound
    <2> QED
      BY <1>0, <1>2, <2>1, FrontStep, PacketKinds DEF Connect, ConnectBroken
  <1>3. ASSUME UNCHANGED box, UNCHANGED ruined PROVE QueueStutters
    BY <1>3 DEF QueueStutters
  <1>4. CASE \/ PublishFails \/ Dialled \/ Disconnected \/ BrokerGets \/ UNCHANGED vars
    BY <1>3, <1>4 DEF PublishFails, Dialled, Disconnected, BrokerGets, vars, queueVars
  <1>5. ASSUME NEW t \in LoopTasks, Loop(t)
        PROVE  QueueStutters
    <2>1. CASE SendPacket(t) \/ Connack(t) \/ Closed(t)
      BY <1>3, <2>1 DEF SendPacket, Connack, Closed, queueVars
    <2>2. CASE AdvanceOutbox(t)
      <3>1. Sound
        BY <2>2 DEF AdvanceOutbox, MayRun, Sound
      <3> QED
        BY <1>0, <2>2, <3>1, AdvanceStep DEF AdvanceOutbox
    <2>3. CASE ClearSession(t) \/ ClearClosed(t)
      BY <1>0, <2>3, SweepStep
        DEF ClearSession, ClearClosed, KeptBySession, MayBegin, MayRun, RestOK
    <2>4. CASE Puback(t) \/ Suback(t)
      <3>1. (Items' = Items /\ At' = At) \/ \E i : RemovedAt(i)
        BY <1>0, <2>4, PubackHeld, SubackHeld DEF RestOK
      <3>2. (\E i : RemovedAt(i)) => \E f : Selected(Items, At, Items', At', f)
        BY DEF RemovedAt
      <3>3. Sound
        BY <2>4 DEF Puback, Suback, Incoming, MayBegin, MayRun, Sound
      <3> QED
        BY <1>0, <3>1, <3>2, <3>3, SameStep, SelectedStep
    <2>5. CASE AddSmall(t)
      <3>1. Sound
        BY <2>5 DEF AddSmall, MayBegin, MayRun, Sound
      <3> QED
        BY <1>0, <2>5, <3>1, AppendStep, PacketKinds DEF AddSmall
    <2>6. CASE CheckTimeout(t)
      <3>1. Sound
        BY <2>6 DEF CheckTimeout, MayBegin, MayRun, Sound
      <3> QED
        BY <1>0, <2>6, <3>1, ResetStep DEF CheckTimeout
    <2>7. CASE KeepaliveExpires(t)
      BY <1>4, <2>7 DEF KeepaliveExpires
    <2> QED
      BY <1>5, <2>1, <2>2, <2>3, <2>4, <2>5, <2>6, <2>7 DEF Loop
  <1>6. CASE Drop \/ BrokerCloses \/ Ruined
    BY <1>4, <1>6 DEF Drop, BrokerCloses, Ruined
  <1> QED
    BY <1>1, <1>2, <1>4, <1>5, <1>6 DEF Next

LEMMA QueueStarts ==
  ASSUME Init
  PROVE  Queue!Init
  <1>1. Items = <<>> /\ At = 1
    BY InitHeld
  <1> QED
    BY <1>1 DEF Init, Queue!Init, Items, At

(* The outbox, a linked list with a cursor, a _prev that retries leave stale *)
(* and removing iterators, is a queue, whichever tasks run loop(): a packet  *)
(* joins behind all others, CONNECT before them, none is lost, doubled or    *)
(* reordered, and no removal makes the cursor skip or repeat a packet, until *)
(* _clearQueue has to remove two packets in a row behind a publish.          *)
THEOREM OutboxIsQueue == Spec => IsQueue
  <1>1. Init => QueueInv /\ Queue!Init
    BY QueueInit, QueueStarts
  <1>2. QueueInv /\ [Next]_vars => QueueInv'
    BY QueueStep
  <1>3. QueueInv /\ [Next]_vars => [Queue!Next]_<<Contents(box), Cursor(box), ruined>>
    BY QueueMoves DEF QueueStutters
  <1> QED
    BY <1>1, <1>2, <1>3, PTL DEF Spec, IsQueue, Queue!Spec
=============================================================================
