----------------------- MODULE LinkedSemaphoreProofs ------------------------
(***************************************************************************)
(* Proofs about the wait queue of QueuedSemaphore as it is in memory, for  *)
(* any initial capacity and any set of threads.                            *)
(*                                                                         *)
(* The operations of WaitQueue are functions from lists to lists, so what  *)
(* each of them keeps is a lemma without primes: a list has the shape of a *)
(* queue q and a cache c, and the operation gives one of a longer or       *)
(* shorter q and c.                                                        *)
(***************************************************************************)
EXTENDS LinkedSemaphore, QueuedSemaphoreProofs

-----------------------------------------------------------------------------
(* The shape of a list.                                                    *)

NodeType == [prev : Nat, next : Nat, wakeable : BOOLEAN]

ListType ==
  [head : Nat, tail : Nat, cache_head : Nat, cur_queue_capacity : Nat \ {0},
   node : Seq(NodeType)]

\* The list l consists of the nodes q, linked both ways, and of the nodes c of the
\* cache, linked forwards only; together they are all nodes, once each.
Shape(l, q, c) ==
  /\ l \in ListType /\ Len(l.node) = l.cur_queue_capacity
  /\ q \in Seq(Nodes(l)) /\ c \in Seq(Nodes(l)) /\ Distinct(q) /\ Distinct(c)
  /\ \A n \in Nodes(l) : (Occurs(n, q) \/ Occurs(n, c)) /\ ~(Occurs(n, q) /\ Occurs(n, c))
  /\ QueueIs(l, q) /\ Chained(l, l.cache_head, c)
  /\ \A i \in 1..Len(c) : l.node[c[i]].prev = nullptr

\* The same, with the empty sequence told by its length.
LEMMA ShapeParts ==
  ASSUME NEW l, NEW q, NEW c, Shape(l, q, c)
  PROVE  /\ l \in ListType /\ Len(l.node) = l.cur_queue_capacity
         /\ Len(q) \in Nat /\ Len(c) \in Nat /\ Nodes(l) = 1..Len(l.node) /\ Len(l.node) \in Nat
         /\ \A i \in 1..Len(q) : q[i] \in Nodes(l) /\ q[i] \in Nat /\ q[i] # nullptr
         /\ \A i \in 1..Len(c) : c[i] \in Nodes(l) /\ c[i] \in Nat /\ c[i] # nullptr
         /\ l.head = IF Len(q) = 0 THEN nullptr ELSE q[1]
         /\ l.tail = IF Len(q) = 0 THEN nullptr ELSE q[Len(q)]
         /\ l.cache_head = IF Len(c) = 0 THEN nullptr ELSE c[1]
         /\ \A i \in 1..Len(q) :
              /\ l.node[q[i]].next = IF i = Len(q) THEN nullptr ELSE q[i + 1]
              /\ l.node[q[i]].prev = IF i = 1 THEN nullptr ELSE q[i - 1]
         /\ \A i \in 1..Len(c) :
              /\ l.node[c[i]].next = IF i = Len(c) THEN nullptr ELSE c[i + 1]
              /\ l.node[c[i]].prev = nullptr
<1>1. l \in ListType /\ Len(l.node) = l.cur_queue_capacity
  BY DEF Shape
<1>2. l.node \in Seq(NodeType)
  BY <1>1 DEF ListType
<1>3. Nodes(l) = 1..Len(l.node) /\ Len(l.node) \in Nat
  BY <1>2, LenProperties DEF Nodes
<1>4. q \in Seq(Nodes(l)) /\ c \in Seq(Nodes(l))
  BY DEF Shape
<1>5. /\ Len(q) \in Nat /\ Len(c) \in Nat /\ (q = <<>> <=> Len(q) = 0) /\ (c = <<>> <=> Len(c) = 0)
      /\ \A i \in 1..Len(q) : q[i] \in Nodes(l)
      /\ \A i \in 1..Len(c) : c[i] \in Nodes(l)
  BY <1>4, LenProperties, ElementOfSeq, EmptySeq
<1>6. \A n \in Nodes(l) : n \in Nat /\ n # nullptr
  BY <1>3 DEF nullptr
<1>7. QueueIs(l, q) /\ Chained(l, l.cache_head, c) /\ \A i \in 1..Len(c) : l.node[c[i]].prev = nullptr
  BY DEF Shape
<1>8. /\ l.head = IF Len(q) = 0 THEN nullptr ELSE q[1]
      /\ l.tail = IF Len(q) = 0 THEN nullptr ELSE q[Len(q)]
      /\ l.cache_head = IF Len(c) = 0 THEN nullptr ELSE c[1]
  BY <1>5, <1>7 DEF QueueIs, Chained
<1>9. \A i \in 1..Len(q) :
        /\ l.node[q[i]].next = IF i = Len(q) THEN nullptr ELSE q[i + 1]
        /\ l.node[q[i]].prev = IF i = 1 THEN nullptr ELSE q[i - 1]
  BY <1>7 DEF QueueIs, Chained
<1>10. \A i \in 1..Len(c) :
        /\ l.node[c[i]].next = IF i = Len(c) THEN nullptr ELSE c[i + 1]
        /\ l.node[c[i]].prev = nullptr
  BY <1>7 DEF Chained
<1> QED
  BY <1>1, <1>3, <1>5, <1>6, <1>8, <1>9, <1>10

LEMMA QueueLinks ==
  ASSUME NEW l, NEW q, NEW c, Shape(l, q, c), NEW i \in 1..Len(q)
  PROVE  /\ l.node[q[i]].next = IF i = Len(q) THEN nullptr ELSE q[i + 1]
         /\ l.node[q[i]].prev = IF i = 1 THEN nullptr ELSE q[i - 1]
  BY DEF Shape, QueueIs, Chained

LEMMA CacheLinks ==
  ASSUME NEW l, NEW q, NEW c, Shape(l, q, c), NEW i \in 1..Len(c)
  PROVE  /\ l.node[c[i]].next = IF i = Len(c) THEN nullptr ELSE c[i + 1]
         /\ l.node[c[i]].prev = nullptr
  BY DEF Shape, Chained

LEMMA ShapeFrom ==
  ASSUME NEW l \in ListType, Len(l.node) = l.cur_queue_capacity,
         NEW q \in Seq(Nodes(l)), NEW c \in Seq(Nodes(l)), Distinct(q), Distinct(c),
         \A n \in Nodes(l) :
           (Occurs(n, q) \/ Occurs(n, c)) /\ ~(Occurs(n, q) /\ Occurs(n, c)),
         l.head = IF Len(q) = 0 THEN nullptr ELSE q[1],
         l.tail = IF Len(q) = 0 THEN nullptr ELSE q[Len(q)],
         l.cache_head = IF Len(c) = 0 THEN nullptr ELSE c[1],
         \A i \in 1..Len(q) :
           /\ l.node[q[i]].next = IF i = Len(q) THEN nullptr ELSE q[i + 1]
           /\ l.node[q[i]].prev = IF i = 1 THEN nullptr ELSE q[i - 1],
         \A i \in 1..Len(c) :
           /\ l.node[c[i]].next = IF i = Len(c) THEN nullptr ELSE c[i + 1]
           /\ l.node[c[i]].prev = nullptr
  PROVE  Shape(l, q, c)
<1>1. (q = <<>> <=> Len(q) = 0) /\ (c = <<>> <=> Len(c) = 0)
  BY EmptySeq
<1>2. Chained(l, l.head, q) /\ Chained(l, l.cache_head, c)
  BY <1>1 DEF Chained
<1>3. QueueIs(l, q)
  BY <1>1, <1>2 DEF QueueIs
<1> QED
  BY <1>2, <1>3 DEF Shape

-----------------------------------------------------------------------------
(* wake_head().                                                            *)

\* Only the flag of the first node changes.
LEMMA WakeKeepsShape ==
  ASSUME NEW l, NEW q, NEW c, Shape(l, q, c)
  PROVE  /\ Shape(wake_head(l), q, c) /\ Nodes(wake_head(l)) = Nodes(l)
         /\ Len(q) # 0 => wake_head(l).node[q[1]].wakeable = TRUE
         /\ \A n \in Nodes(l) : (Len(q) = 0 \/ n # q[1]) =>
              wake_head(l).node[n].wakeable = l.node[n].wakeable
<1> DEFINE m == wake_head(l)
<1>1. /\ l \in ListType /\ Len(l.node) = l.cur_queue_capacity
      /\ Len(q) \in Nat /\ Nodes(l) = 1..Len(l.node) /\ Len(l.node) \in Nat
      /\ \A i \in 1..Len(q) : q[i] \in Nodes(l) /\ q[i] # nullptr
      /\ l.head = IF Len(q) = 0 THEN nullptr ELSE q[1]
  BY ShapeParts
<1>2. CASE Len(q) = 0
  BY <1>1, <1>2 DEF wake_head
<1>3. CASE Len(q) # 0
  <2>1. l.head = q[1] /\ q[1] \in Nodes(l) /\ q[1] # nullptr
    BY <1>1, <1>3
  <2>2. l.node \in Seq(NodeType) /\ \A n \in Nodes(l) : l.node[n] \in NodeType
    BY <1>1, ElementOfSeq DEF ListType
  <2> DEFINE new == [l.node EXCEPT ![q[1]].wakeable = TRUE]
  <2>3. m = [l EXCEPT !.node = new]
    BY <2>1, <1>1 DEF wake_head, ListType
  <2>4. /\ DOMAIN new = Nodes(l)
        /\ \A n \in Nodes(l) :
             /\ new[n] \in NodeType /\ new[n].next = l.node[n].next /\ new[n].prev = l.node[n].prev
             /\ new[n].wakeable = IF n = q[1] THEN TRUE ELSE l.node[n].wakeable
    <3>1. DOMAIN new = Nodes(l)
      BY DEF Nodes
    <3>2. ASSUME NEW n \in Nodes(l)
          PROVE  /\ new[n] \in NodeType /\ new[n].next = l.node[n].next
                 /\ new[n].prev = l.node[n].prev
                 /\ new[n].wakeable = IF n = q[1] THEN TRUE ELSE l.node[n].wakeable
      <4>1. CASE n = q[1]
        <5>1. new[n] = [l.node[n] EXCEPT !.wakeable = TRUE] /\ l.node[n] \in NodeType
          BY <2>1, <2>2, <4>1 DEF Nodes
        <5> HIDE DEF new
        <5> QED
          BY <5>1, <4>1 DEF NodeType
      <4>2. CASE n # q[1]
        <5>1. new[n] = l.node[n]
          BY <2>1, <2>2, <4>2 DEF Nodes
        <5> QED
          BY <5>1, <2>2, <4>2
      <4> QED
        BY <4>1, <4>2
    <3> QED
      BY <3>1, <3>2
  <2>5. new \in Seq(NodeType) /\ Len(new) = Len(l.node)
    <3> HIDE DEF new
    <3>1. new \in [1..Len(l.node) -> NodeType]
      <4>1. new = [n \in Nodes(l) |-> new[n]]
        BY <2>2, <2>4 DEF new, Nodes
      <4> QED
        BY <1>1, <2>4, <4>1
    <3> QED
      BY <1>1, <3>1, IsASeq
  <2> HIDE DEF new
  <2>6. /\ m.head = l.head /\ m.tail = l.tail /\ m.cache_head = l.cache_head
        /\ m.cur_queue_capacity = l.cur_queue_capacity /\ m.node = new /\ m \in ListType
    BY <1>1, <2>3, <2>5 DEF ListType
  <2> HIDE DEF m
  <2>7. Nodes(m) = Nodes(l) /\ Len(m.node) = m.cur_queue_capacity
    BY <1>1, <2>4, <2>5, <2>6 DEF Nodes
  <2>8. Shape(m, q, c)
    <3>1. /\ \A i \in 1..Len(q) : q[i] \in Nodes(l)
          /\ \A i \in 1..Len(c) : c[i] \in Nodes(l)
      BY ShapeParts
    <3>2. \A n \in Nodes(l) : m.node[n].next = l.node[n].next /\ m.node[n].prev = l.node[n].prev
      BY <2>4, <2>6
    <3>3. QueueIs(m, q) /\ Chained(m, m.cache_head, c)
      BY <2>6, <3>1, <3>2, ZenonT(30) DEF Shape, QueueIs, Chained
    <3> QED
      BY <2>6, <2>7, <3>1, <3>2, <3>3 DEF Shape
  <2>9. m.node[q[1]].wakeable = TRUE
    BY <2>1, <2>4, <2>6
  <2>10. ASSUME NEW n \in Nodes(l), n # q[1] PROVE m.node[n].wakeable = l.node[n].wakeable
    BY <2>4, <2>6, <2>10
  <2> QED
    BY <1>3, <2>7, <2>8, <2>9, <2>10 DEF m
<1> QED
  BY <1>2, <1>3


-----------------------------------------------------------------------------
(* alloc_cache().                                                          *)

\* As many new nodes as cur_queue_capacity says, behind the old ones, each linked
\* to the one before it.
LEMMA AllocFields ==
  ASSUME NEW l \in ListType
  PROVE  LET m == alloc_cache(l)
             N == Len(l.node)
             C == l.cur_queue_capacity
         IN
         /\ m \in ListType /\ m.head = l.head /\ m.tail = l.tail /\ m.cache_head = N + C
         /\ m.cur_queue_capacity = C /\ Len(m.node) = N + C
         /\ \A i \in 1..N : m.node[i] = l.node[i]
         /\ \A i \in 1..C : /\ m.node[N + i].prev = nullptr
                            /\ m.node[N + i].next = IF i = 1 THEN l.cache_head ELSE N + i - 1
<1> DEFINE m == alloc_cache(l)
           N == Len(l.node)
           C == l.cur_queue_capacity
           link(i) == IF i = 1 THEN l.cache_head ELSE N + i - 1
           fresh(i) == [prev |-> nullptr, wakeable |-> FALSE, next |-> link(i)]
           new == [i \in 1..C |-> fresh(i)]
<1>1. /\ l.node \in Seq(NodeType) /\ N \in Nat /\ C \in Nat \ {0} /\ l.cache_head \in Nat
      /\ l.head \in Nat /\ l.tail \in Nat
  BY LenProperties DEF ListType
<1>2. \A i \in 1..C : link(i) \in Nat
  BY <1>1
<1>3. m = [l EXCEPT !.cache_head = N + C, !.node = l.node \o new]
  BY DEF alloc_cache, ListType
<1> HIDE DEF link
<1>4. \A i \in 1..C : fresh(i) \in NodeType /\ fresh(i).prev = nullptr /\ fresh(i).next = link(i)
  BY <1>2 DEF NodeType, nullptr
<1> HIDE DEF fresh
<1>5. new \in Seq(NodeType)
  BY <1>1, <1>4, IsASeq
<1>6. Len(new) = C
  BY <1>1
<1>7. \A i \in 1..C : new[i] = fresh(i)
  OBVIOUS
<1> HIDE DEF new
<1>8. /\ l.node \o new \in Seq(NodeType) /\ Len(l.node \o new) = N + C
      /\ \A i \in 1..(N + C) : (l.node \o new)[i] = IF i <= N THEN l.node[i] ELSE new[i - N]
  <2>1. /\ l.node \o new \in Seq(NodeType) /\ Len(l.node \o new) = N + Len(new)
        /\ \A i \in 1..(N + Len(new)) :
             (l.node \o new)[i] = IF i <= N THEN l.node[i] ELSE new[i - N]
    BY <1>1, <1>5, ConcatProperties
  <2> QED
    BY <1>6, <2>1
<1> DEFINE all == l.node \o new
<1> HIDE DEF all
<1>9. /\ m \in ListType /\ m.head = l.head /\ m.tail = l.tail /\ m.cache_head = N + C
      /\ m.cur_queue_capacity = C /\ m.node = all
  <2>1. m = [l EXCEPT !.cache_head = N + C, !.node = all] /\ all \in Seq(NodeType) /\ N + C \in Nat
    BY <1>1, <1>3, <1>8 DEF all
  <2> HIDE DEF m, N
  <2>2. C \in Nat \ {0}
    BY <1>1
  <2> QED
    BY <2>1, <2>2 DEF ListType
<1>10. \A i \in 1..N : all[i] = l.node[i]
  BY <1>1, <1>8 DEF all
<1>11. ASSUME NEW i \in 1..C PROVE all[N + i].prev = nullptr /\ all[N + i].next = link(i)
  <2>1. N + i \in 1..(N + C) /\ ~(N + i <= N) /\ (N + i) - N = i
    BY <1>1
  <2>2. all[N + i] = new[i]
    BY <1>8, <2>1 DEF all
  <2> QED
    BY <1>4, <1>7, <2>2
<1>12. Len(all) = N + C
  BY <1>8 DEF all
<1> QED
  BY <1>9, <1>10, <1>11, <1>12 DEF link

\* The cache of a list after alloc_cache(): the new nodes, the last one first.
Downwards(N, C) == [i \in 1..C |-> N + C + 1 - i]

\* A list with an empty cache gets a new one.
LEMMA AllocShape ==
  ASSUME NEW l \in ListType, NEW q \in Seq(Nodes(l)), Distinct(q),
         \A n \in Nodes(l) : Occurs(n, q), QueueIs(l, q), l.cache_head = nullptr,
         NEW m \in ListType, m.head = l.head, m.tail = l.tail,
         m.cache_head = Len(l.node) + l.cur_queue_capacity,
         m.cur_queue_capacity = Len(m.node),
         Len(m.node) = Len(l.node) + l.cur_queue_capacity,
         \A i \in 1..Len(l.node) : m.node[i] = l.node[i],
         \A i \in 1..l.cur_queue_capacity :
           /\ m.node[Len(l.node) + i].prev = nullptr
           /\ m.node[Len(l.node) + i].next = IF i = 1 THEN l.cache_head ELSE Len(l.node) + i - 1
  PROVE  \E c : Shape(m, q, c) /\ Len(c) # 0
<1> DEFINE N == Len(l.node)
           C == l.cur_queue_capacity
           d == Downwards(N, C)
<1>1. /\ N \in Nat /\ C \in Nat /\ C # 0 /\ Nodes(l) = 1..N /\ Nodes(m) = 1..(N + C)
  <2>1. l.node \in Seq(NodeType) /\ m.node \in Seq(NodeType) /\ C \in Nat /\ C # 0
    BY DEF ListType
  <2> QED
    BY <2>1, LenProperties DEF Nodes
<1>2. /\ d \in Seq(Nodes(m)) /\ Len(d) = C
      /\ \A i \in 1..C : d[i] = N + C + 1 - i
  <2> DEFINE e(i) == N + C + 1 - i
  <2>1. \A i \in 1..C : e(i) \in Nodes(m)
    BY <1>1
  <2>2. d = [i \in 1..C |-> e(i)]
    BY DEF Downwards
  <2> HIDE DEF e, d
  <2>3. d \in [1..C -> Nodes(m)]
    BY <2>1, <2>2
  <2> HIDE DEF C
  <2>4. d \in Seq(Nodes(m)) /\ Len(d) = C
    BY <1>1, <2>3, LenProperties
  <2> QED
    BY <2>2, <2>4 DEF e
<1>3. q \in Seq(Nodes(m)) /\ Len(q) \in Nat /\ \A i \in 1..Len(q) : q[i] \in 1..N
  <2>1. Nodes(l) \subseteq Nodes(m)
    BY <1>1
  <2>2. Len(q) \in Nat /\ \A i \in 1..Len(q) : q[i] \in Nodes(l)
    BY LenProperties, ElementOfSeq
  <2>3. q = [i \in 1..Len(q) |-> q[i]]
    BY LenProperties
  <2> DEFINE e(i) == q[i]
  <2>4. [i \in 1..Len(q) |-> e(i)] \in Seq(Nodes(m))
    BY <2>1, <2>2, IsASeq
  <2> QED
    BY <1>1, <2>2, <2>3, <2>4
<1> HIDE DEF N, C, d
<1>4. Distinct(d)
  BY <1>1, <1>2 DEF Distinct
<1>5. \A n \in Nodes(m) : Occurs(n, d) <=> n > N
  <2>1. ASSUME NEW n \in Nodes(m), Occurs(n, d) PROVE n > N
    BY <1>1, <1>2, <2>1 DEF Occurs
  <2>2. ASSUME NEW n \in Nodes(m), n > N PROVE Occurs(n, d)
    <3>1. (N + C + 1 - n) \in 1..C /\ N + C + 1 - (N + C + 1 - n) = n
      BY <1>1, <2>2
    <3> QED
      BY <1>2, <3>1 DEF Occurs
  <2> QED
    BY <2>1, <2>2
<1>6. ASSUME NEW n \in Nodes(m)
      PROVE  (Occurs(n, q) \/ Occurs(n, d)) /\ ~(Occurs(n, q) /\ Occurs(n, d))
  <2>1. Occurs(n, q) => n \in 1..N
    BY <1>3 DEF Occurs
  <2>2. n \in 1..N => Occurs(n, q)
    BY <1>1
  <2>3. n > N <=> ~(n \in 1..N)
    BY <1>1
  <2> QED
    BY <1>5, <2>1, <2>2, <2>3
<1>7. QueueIs(m, q)
  <2>1. \A i \in 1..Len(q) : m.node[q[i]] = l.node[q[i]]
    BY <1>3 DEF N
  <2> QED
    BY <2>1 DEF QueueIs, Chained
<1>8. ASSUME NEW i \in 1..Len(d)
      PROVE  /\ m.node[d[i]].next = IF i = Len(d) THEN nullptr ELSE d[i + 1]
             /\ m.node[d[i]].prev = nullptr
  <2> DEFINE j == C + 1 - i
  <2>1. j \in 1..C /\ d[i] = N + j
    BY <1>1, <1>2
  <2>2. m.node[N + j].prev = nullptr /\ m.node[N + j].next = IF j = 1 THEN nullptr ELSE N + j - 1
    <3> HIDE DEF j
    <3> QED
      BY <2>1 DEF N, C
  <2>3. j = 1 <=> i = Len(d)
    BY <1>1, <1>2
  <2>4. i # Len(d) => d[i + 1] = N + j - 1
    BY <1>1, <1>2
  <2> HIDE DEF j
  <2> QED
    BY <2>1, <2>2, <2>3, <2>4
<1>9. m.cache_head = IF d = <<>> THEN nullptr ELSE d[1]
  <2>1. d # <<>> /\ d[1] = N + C
    BY <1>1, <1>2, EmptySeq
  <2> QED
    BY <2>1 DEF N, C
<1>10. Chained(m, m.cache_head, d)
  BY <1>8, <1>9 DEF Chained
<1>11. Shape(m, q, d)
  BY <1>2, <1>3, <1>4, <1>6, <1>7, <1>8, <1>10 DEF Shape
<1> QED
  BY <1>1, <1>2, <1>11


\* The constructed list: everything is in the cache.
LEMMA NewQueueShape == \E c : Shape(NewQueue, <<>>, c)
<1> DEFINE l == [head |-> nullptr, tail |-> nullptr, cache_head |-> nullptr,
                 cur_queue_capacity |-> InitialCapacity, node |-> <<>>]
           m == NewQueue
<1>1. <<>> \in Seq(NodeType) /\ Len(<<>>) = 0
  BY EmptySeq
<1>2. /\ l \in ListType /\ l.cache_head = nullptr /\ l.head = nullptr /\ l.tail = nullptr
      /\ l.node = <<>> /\ l.cur_queue_capacity = InitialCapacity
  BY <1>1, CapacityAssumption DEF CapacityAssumption, ListType, nullptr
<1>3. m = alloc_cache(l)
  BY DEF NewQueue
<1> HIDE DEF l, m
<1>4. Nodes(l) = {} /\ Len(l.node) = 0
  BY <1>1, <1>2 DEF Nodes
<1>5. QueueIs(l, <<>>) /\ Distinct(<<>>) /\ <<>> \in Seq(Nodes(l))
  BY <1>1, <1>2, EmptySeq DEF QueueIs, Chained, Distinct
<1>6. /\ m \in ListType /\ m.head = l.head /\ m.tail = l.tail
      /\ m.cache_head = Len(l.node) + l.cur_queue_capacity
      /\ m.cur_queue_capacity = l.cur_queue_capacity
      /\ Len(m.node) = Len(l.node) + l.cur_queue_capacity
      /\ \A i \in 1..Len(l.node) : m.node[i] = l.node[i]
      /\ \A i \in 1..l.cur_queue_capacity :
           /\ m.node[Len(l.node) + i].prev = nullptr
           /\ m.node[Len(l.node) + i].next = IF i = 1 THEN l.cache_head ELSE Len(l.node) + i - 1
  BY <1>2, <1>3, AllocFields
<1>7. m.cur_queue_capacity = Len(m.node)
  BY <1>2, <1>4, <1>6, CapacityAssumption DEF CapacityAssumption
<1>8. \A n \in Nodes(l) : Occurs(n, <<>>)
  BY <1>4
<1>9. \E c : Shape(m, <<>>, c) /\ Len(c) # 0
  BY <1>2, <1>5, <1>6, <1>7, <1>8, AllocShape
<1> QED
  BY <1>9 DEF m

\* What alloc_cache() and the doubled capacity make of a list whose cache is empty.
LEMMA RefilledFields ==
  ASSUME NEW l \in ListType, Len(l.node) = l.cur_queue_capacity, l.cache_head = nullptr
  PROVE  LET m == Refilled(l) IN
         /\ m \in ListType /\ m.head = l.head /\ m.tail = l.tail
         /\ m.cache_head = Len(l.node) + l.cur_queue_capacity
         /\ m.cur_queue_capacity = Len(m.node)
         /\ Len(m.node) = Len(l.node) + l.cur_queue_capacity
         /\ \A i \in 1..Len(l.node) : m.node[i] = l.node[i]
         /\ \A i \in 1..l.cur_queue_capacity :
              /\ m.node[Len(l.node) + i].prev = nullptr
              /\ m.node[Len(l.node) + i].next
                   = IF i = 1 THEN l.cache_head ELSE Len(l.node) + i - 1
<1> DEFINE a == alloc_cache(l)
           m == Refilled(l)
<1>1. /\ a \in ListType /\ a.head = l.head /\ a.tail = l.tail
      /\ a.cache_head = Len(l.node) + l.cur_queue_capacity
      /\ a.cur_queue_capacity = l.cur_queue_capacity
      /\ Len(a.node) = Len(l.node) + l.cur_queue_capacity
      /\ \A i \in 1..Len(l.node) : a.node[i] = l.node[i]
      /\ \A i \in 1..l.cur_queue_capacity :
           /\ a.node[Len(l.node) + i].prev = nullptr
           /\ a.node[Len(l.node) + i].next = IF i = 1 THEN l.cache_head ELSE Len(l.node) + i - 1
  BY AllocFields
<1> HIDE DEF a
<1>2. m = [a EXCEPT !.cur_queue_capacity = 2 * @]
  BY DEF Refilled, a
<1>3. l.cur_queue_capacity \in Nat \ {0} /\ 2 * l.cur_queue_capacity \in Nat \ {0}
  <2>1. l.cur_queue_capacity \in Nat \ {0}
    BY DEF ListType
  <2> QED
    BY <2>1
<1>4. /\ m \in ListType /\ m.head = a.head /\ m.tail = a.tail /\ m.cache_head = a.cache_head
      /\ m.cur_queue_capacity = 2 * l.cur_queue_capacity /\ m.node = a.node
  BY <1>1, <1>2, <1>3 DEF ListType
<1> HIDE DEF m
<1>5. m.cur_queue_capacity = Len(m.node)
  BY <1>1, <1>3, <1>4
<1> QED
  BY <1>1, <1>4, <1>5 DEF m

\* A node is in the cache after Refilled, and the nodes of the queue are as before.
LEMMA RefilledShape ==
  ASSUME NEW l, NEW q, NEW c, Shape(l, q, c)
  PROVE  /\ \E d : Shape(Refilled(l), q, d) /\ Len(d) # 0
         /\ \A i \in 1..Len(q) : Refilled(l).node[q[i]] = l.node[q[i]]
<1>1. /\ l \in ListType /\ Len(l.node) = l.cur_queue_capacity
      /\ Nodes(l) = 1..Len(l.node) /\ Len(c) \in Nat
      /\ \A i \in 1..Len(q) : q[i] \in Nodes(l)
      /\ \A i \in 1..Len(c) : c[i] # nullptr
      /\ l.cache_head = IF Len(c) = 0 THEN nullptr ELSE c[1]
  BY ShapeParts
<1>2. CASE Len(c) # 0
  <2>1. l.cache_head # nullptr
    BY <1>1, <1>2
  <2>2. Refilled(l) = l
    BY <2>1 DEF Refilled
  <2> QED
    BY <1>2, <2>2
<1>3. CASE Len(c) = 0
  <2>1. l.cache_head = nullptr
    BY <1>1, <1>3
  <2>2. q \in Seq(Nodes(l)) /\ Distinct(q) /\ QueueIs(l, q)
    BY DEF Shape
  <2>3. \A n \in Nodes(l) : Occurs(n, q)
    <3>1. \A n : ~Occurs(n, c)
      BY <1>3 DEF Occurs
    <3> QED
      BY <3>1 DEF Shape
  <2> DEFINE m == Refilled(l)
  <2>4. /\ m \in ListType /\ m.head = l.head /\ m.tail = l.tail
        /\ m.cache_head = Len(l.node) + l.cur_queue_capacity
        /\ m.cur_queue_capacity = Len(m.node)
        /\ Len(m.node) = Len(l.node) + l.cur_queue_capacity
        /\ \A i \in 1..Len(l.node) : m.node[i] = l.node[i]
        /\ \A i \in 1..l.cur_queue_capacity :
             /\ m.node[Len(l.node) + i].prev = nullptr
             /\ m.node[Len(l.node) + i].next
                  = IF i = 1 THEN l.cache_head ELSE Len(l.node) + i - 1
    BY <1>1, <2>1, RefilledFields
  <2> HIDE DEF m
  <2>5. \E d : Shape(m, q, d) /\ Len(d) # 0
    BY <1>1, <2>1, <2>2, <2>3, <2>4, AllocShape
  <2> QED
    BY <1>1, <2>4, <2>5 DEF m
<1> QED
  BY <1>2, <1>3


-----------------------------------------------------------------------------
(* enqueue().                                                              *)

\* The fields of the list that enqueue() makes of l, once l has a node in its cache.
LEMMA EnqueueFields ==
  ASSUME NEW list0, NEW l \in ListType, l = Refilled(list0), l.cache_head \in Nodes(l),
         Nodes(l) = 1..Len(l.node)
  PROVE  LET m == enqueue(list0)
             cur == l.cache_head
         IN
         /\ m \in ListType /\ Nodes(m) = Nodes(l) /\ Len(m.node) = Len(l.node)
         /\ m.cur_queue_capacity = l.cur_queue_capacity
         /\ m.cache_head = l.node[cur].next /\ m.tail = cur
         /\ m.head = IF l.tail = nullptr THEN cur ELSE l.head
         /\ m.node[cur].wakeable = FALSE /\ m.node[cur].next = nullptr
         /\ m.node[cur].prev = IF l.tail = nullptr THEN l.node[cur].prev ELSE l.tail
         /\ \A n \in Nodes(l) \ {cur} :
              /\ m.node[n].wakeable = l.node[n].wakeable /\ m.node[n].prev = l.node[n].prev
              /\ m.node[n].next = IF n = l.tail THEN cur ELSE l.node[n].next
<1> DEFINE cur == l.cache_head
           m == enqueue(list0)
           before == IF l.tail = nullptr THEN l.node[cur].prev ELSE l.tail
           changed(n) ==
             IF n = cur THEN [wakeable |-> FALSE, next |-> nullptr,
                              prev |-> IF l.tail = nullptr THEN l.node[n].prev ELSE l.tail]
             ELSE IF n = l.tail THEN [l.node[n] EXCEPT !.next = cur]
             ELSE l.node[n]
           new == [n \in Nodes(l) |-> changed(n)]
           first == IF l.tail = nullptr THEN cur ELSE l.head
<1>1. /\ l.head \in Nat /\ l.tail \in Nat /\ l.cache_head \in Nat
      /\ l.node \in Seq(NodeType) /\ Len(l.node) \in Nat
  BY LenProperties DEF ListType
<1>2. \A n \in Nodes(l) : l.node[n] \in NodeType
  BY <1>1, ElementOfSeq
<1>3. m = [l EXCEPT !.cache_head = l.node[cur].next, !.head = first, !.tail = cur, !.node = new]
  BY DEF enqueue, ListType
<1>4. /\ changed(cur) \in NodeType /\ changed(cur).wakeable = FALSE
      /\ changed(cur).next = nullptr /\ changed(cur).prev = before
  <2>1. before \in Nat
    BY <1>1, <1>2 DEF NodeType
  <2>2. changed(cur) = [wakeable |-> FALSE, next |-> nullptr, prev |-> before]
    OBVIOUS
  <2> HIDE DEF before, changed
  <2> QED
    BY <2>1, <2>2 DEF NodeType, nullptr
<1>5. ASSUME NEW n \in Nodes(l) \ {cur}
      PROVE  /\ changed(n) \in NodeType /\ changed(n).wakeable = l.node[n].wakeable
             /\ changed(n).prev = l.node[n].prev
             /\ changed(n).next = IF n = l.tail THEN cur ELSE l.node[n].next
  <2>1. CASE n = l.tail
    <3>1. changed(n) = [l.node[n] EXCEPT !.next = cur] /\ l.node[n] \in NodeType /\ cur \in Nat
      BY <1>1, <1>2, <2>1
    <3> HIDE DEF changed, cur
    <3> QED
      BY <2>1, <3>1 DEF NodeType
  <2>2. CASE n # l.tail
    <3>1. changed(n) = l.node[n] /\ l.node[n] \in NodeType
      BY <1>2, <2>2
    <3> QED
      BY <2>2, <3>1
  <2> QED
    BY <2>1, <2>2
<1> HIDE DEF changed
<1>6. new \in Seq(NodeType) /\ Len(new) = Len(l.node) /\ DOMAIN new = Nodes(l)
  <2>1. new \in [1..Len(l.node) -> NodeType]
    BY <1>4, <1>5
  <2> QED
    BY <1>1, <2>1
<1>7. \A n \in Nodes(l) : new[n] = changed(n)
  OBVIOUS
<1> HIDE DEF new
<1>8. l.node[cur].next \in Nat /\ first \in Nat
  BY <1>1, <1>2 DEF NodeType
<1>9. /\ m \in ListType /\ m.head = first /\ m.tail = cur /\ m.cache_head = l.node[cur].next
      /\ m.cur_queue_capacity = l.cur_queue_capacity /\ m.node = new
  <2>1. PICK f, nx, cr : f = first /\ nx = l.node[cur].next /\ cr = cur
    OBVIOUS
  <2>2. m = [l EXCEPT !.cache_head = nx, !.head = f, !.tail = cr, !.node = new]
    BY <1>3, <2>1
  <2>3. f \in Nat /\ nx \in Nat /\ cr \in Nat
    BY <1>1, <1>8, <2>1
  <2> HIDE DEF m, first, cur
  <2>4. /\ m \in ListType /\ m.head = f /\ m.tail = cr /\ m.cache_head = nx
        /\ m.cur_queue_capacity = l.cur_queue_capacity /\ m.node = new
    BY <1>6, <2>2, <2>3 DEF ListType
  <2> QED
    BY <2>1, <2>4
<1> HIDE DEF m
<1>10. Nodes(m) = Nodes(l)
  BY <1>6, <1>9 DEF Nodes
<1>11. /\ m.node[cur].wakeable = FALSE /\ m.node[cur].next = nullptr /\ m.node[cur].prev = before
  BY <1>4, <1>7, <1>9
<1>12. ASSUME NEW n \in Nodes(l) \ {cur}
       PROVE  /\ m.node[n].wakeable = l.node[n].wakeable /\ m.node[n].prev = l.node[n].prev
              /\ m.node[n].next = IF n = l.tail THEN cur ELSE l.node[n].next
  BY <1>5, <1>7, <1>9
<1> QED
  BY <1>6, <1>9, <1>10, <1>11, <1>12 DEF m


\* The list m is l with the node n, its flag cleared, put at the end of the queue
\* q; the cache is c then.
Enqueued(m, l, q, n, c) ==
  /\ Shape(m, Append(q, n), c) /\ n \in Nodes(m) /\ ~Occurs(n, q)
  /\ m.tail = n /\ m.node[n].wakeable = FALSE
  /\ \A i \in 1..Len(q) : m.node[q[i]].wakeable = l.node[q[i]].wakeable

\* enqueue() moves the first node of the cache to the end of the queue.
LEMMA LinkShape ==
  ASSUME NEW list0, NEW l, l = Refilled(list0), NEW q, NEW d, Shape(l, q, d), Len(d) # 0
  PROVE  Enqueued(enqueue(list0), l, q, d[1], Tail(d))
<1> DEFINE m == enqueue(list0)
           cur == l.cache_head
           w == Append(q, cur)
           r == Tail(d)
<1>1. /\ l \in ListType /\ Len(l.node) = l.cur_queue_capacity
      /\ Len(q) \in Nat /\ Len(d) \in Nat /\ Nodes(l) = 1..Len(l.node)
      /\ \A i \in 1..Len(q) : q[i] \in Nodes(l) /\ q[i] \in Nat /\ q[i] # nullptr
      /\ \A i \in 1..Len(d) : d[i] \in Nodes(l) /\ d[i] \in Nat /\ d[i] # nullptr
      /\ l.head = IF Len(q) = 0 THEN nullptr ELSE q[1]
      /\ l.tail = IF Len(q) = 0 THEN nullptr ELSE q[Len(q)]
      /\ l.cache_head = IF Len(d) = 0 THEN nullptr ELSE d[1]
  BY ShapeParts
<1>2. ASSUME NEW i \in 1..Len(q)
      PROVE  /\ l.node[q[i]].next = IF i = Len(q) THEN nullptr ELSE q[i + 1]
             /\ l.node[q[i]].prev = IF i = 1 THEN nullptr ELSE q[i - 1]
  BY QueueLinks, SMTT(30)
<1>c. ASSUME NEW i \in 1..Len(d)
      PROVE  /\ l.node[d[i]].next = IF i = Len(d) THEN nullptr ELSE d[i + 1]
             /\ l.node[d[i]].prev = nullptr
  BY CacheLinks
<1>3. /\ q \in Seq(Nodes(l)) /\ d \in Seq(Nodes(l)) /\ Distinct(q) /\ Distinct(d)
      /\ \A n \in Nodes(l) : (Occurs(n, q) \/ Occurs(n, d)) /\ ~(Occurs(n, q) /\ Occurs(n, d))
  BY DEF Shape
<1>4. 1 \in 1..Len(d) /\ cur \in Nodes(l) /\ cur \in Nat /\ cur # nullptr /\ d[1] = cur
  BY <1>1
<1>5. ~Occurs(cur, q)
  BY <1>3, <1>4 DEF Occurs
<1>6. /\ l.tail = nullptr <=> Len(q) = 0
      /\ \A i \in 1..Len(q) : q[i] # cur /\ (q[i] = l.tail <=> i = Len(q))
      /\ \A i \in 1..Len(d) : (d[i] = cur <=> i = 1) /\ d[i] # l.tail
  <2>1. l.tail = nullptr <=> Len(q) = 0
    BY <1>1
  <2>2. \A i \in 1..Len(q) : q[i] # cur
    BY <1>5 DEF Occurs
  <2>3. \A i \in 1..Len(q) : q[i] = l.tail <=> i = Len(q)
    BY <1>1, <1>3 DEF Distinct
  <2>4. \A i \in 1..Len(d) : d[i] = cur <=> i = 1
    BY <1>3, <1>4 DEF Distinct
  <2>5. ASSUME NEW i \in 1..Len(d) PROVE d[i] # l.tail
    <3>1. CASE Len(q) = 0
      BY <1>1, <3>1
    <3>2. CASE Len(q) # 0
      <4>1. Len(q) \in 1..Len(q) /\ l.tail = q[Len(q)]
        BY <1>1, <3>2
      <4> QED
        BY <1>1, <1>3, <4>1 DEF Occurs
    <3> QED
      BY <3>1, <3>2
  <2> QED
    BY <2>1, <2>2, <2>3, <2>4, <2>5
<1>7. /\ m \in ListType /\ Nodes(m) = Nodes(l) /\ Len(m.node) = Len(l.node)
      /\ m.cur_queue_capacity = l.cur_queue_capacity
      /\ m.cache_head = l.node[cur].next /\ m.tail = cur
      /\ m.head = IF l.tail = nullptr THEN cur ELSE l.head
      /\ m.node[cur].wakeable = FALSE /\ m.node[cur].next = nullptr
      /\ m.node[cur].prev = IF l.tail = nullptr THEN l.node[cur].prev ELSE l.tail
      /\ \A n \in Nodes(l) \ {cur} :
           /\ m.node[n].wakeable = l.node[n].wakeable /\ m.node[n].prev = l.node[n].prev
           /\ m.node[n].next = IF n = l.tail THEN cur ELSE l.node[n].next
  BY <1>1, <1>4, EnqueueFields, ZenonT(30)
<1>8. /\ w \in Seq(Nodes(l)) /\ Len(w) = Len(q) + 1 /\ w[Len(q) + 1] = cur
      /\ \A i \in 1..Len(q) : w[i] = q[i]
      /\ Distinct(w) /\ \A n : Occurs(n, w) <=> Occurs(n, q) \/ n = cur
  <2> HIDE DEF cur
  <2>1. /\ w \in Seq(Nodes(l)) /\ Len(w) = Len(q) + 1 /\ w[Len(q) + 1] = cur
        /\ \A i \in 1..Len(q) : w[i] = q[i]
    BY <1>1, <1>3, <1>4, AppendProperties
  <2>2. Distinct(w) /\ \A n : Occurs(n, w) <=> Occurs(n, q) \/ n = cur
    BY <1>3, <1>4, <1>5, EnqueueQueue
  <2> QED
    BY <2>1, <2>2
<1>9. /\ r \in Seq(Nodes(l)) /\ Len(r) = Len(d) - 1
      /\ \A i \in 1..Len(r) : r[i] = d[i + 1]
      /\ Distinct(r) /\ \A n : Occurs(n, r) <=> Occurs(n, d) /\ n # cur
  <2>1. d # <<>> /\ Head(d) = d[1]
    BY <1>1, <1>3, EmptySeq, HeadTailProperties
  <2>2. r = Dequeue(d)
    BY <2>1 DEF Dequeue
  <2>3. /\ Distinct(Dequeue(d))
        /\ \A n : Occurs(n, Dequeue(d)) <=> Occurs(n, d) /\ n # Head(d)
    BY <1>3, <2>1, DequeueQueue
  <2>4. r \in Seq(Nodes(l)) /\ Len(r) = Len(d) - 1 /\ \A i \in 1..Len(r) : r[i] = d[i + 1]
    BY <1>1, <1>3, <2>1, HeadTailProperties
  <2>5. Head(d) = cur
    BY <1>4, <2>1
  <2> HIDE DEF r, cur
  <2> QED
    BY <2>2, <2>3, <2>4, <2>5
<1> HIDE DEF m, cur, w, r
<1>10. \A n \in Nodes(m) : (Occurs(n, w) \/ Occurs(n, r)) /\ ~(Occurs(n, w) /\ Occurs(n, r))
  BY <1>3, <1>4, <1>5, <1>7, <1>8, <1>9
<1>11. m.head = w[1]
  BY <1>1, <1>6, <1>7, <1>8
<1>12. m.tail = w[Len(w)]
  BY <1>7, <1>8
<1>13. m.cache_head = IF Len(r) = 0 THEN nullptr ELSE r[1]
  <2>1. m.cache_head = IF Len(d) = 1 THEN nullptr ELSE d[2]
    <3>1. l.node[d[1]].next = IF 1 = Len(d) THEN nullptr ELSE d[1 + 1]
      BY <1>4, <1>c
    <3> QED
      BY <1>1, <1>4, <1>7, <3>1
  <2> QED
    BY <1>1, <1>9, <2>1
<1>14. ASSUME NEW i \in 1..Len(w)
       PROVE  /\ m.node[w[i]].next = IF i = Len(w) THEN nullptr ELSE w[i + 1]
              /\ m.node[w[i]].prev = IF i = 1 THEN nullptr ELSE w[i - 1]
  <2>1. CASE i = Len(q) + 1
    <3>1. m.node[w[i]].next = nullptr
      BY <1>7, <1>8, <2>1
    <3>2. m.node[w[i]].prev = IF Len(q) = 0 THEN nullptr ELSE q[Len(q)]
      <4>1. l.node[cur].prev = nullptr
        BY <1>4, <1>c
      <4> QED
        BY <1>1, <1>6, <1>7, <1>8, <2>1, <4>1
    <3>3. Len(q) # 0 => i - 1 = Len(q) /\ w[i - 1] = q[Len(q)]
      BY <1>1, <1>8, <2>1
    <3> QED
      BY <1>1, <1>8, <2>1, <3>1, <3>2, <3>3
  <2>2. CASE i # Len(q) + 1
    <3>1. i \in 1..Len(q) /\ w[i] = q[i] /\ q[i] \in Nodes(l) \ {cur}
      BY <1>1, <1>6, <1>8, <2>2
    <3>2. /\ m.node[w[i]].prev = l.node[q[i]].prev
          /\ m.node[w[i]].next = IF i = Len(q) THEN cur ELSE l.node[q[i]].next
      BY <1>6, <1>7, <3>1
    <3>3. i # Len(w) /\ w[i + 1] = IF i = Len(q) THEN cur ELSE q[i + 1]
      <4>1. CASE i = Len(q)
        BY <1>1, <1>8, <4>1
      <4>2. CASE i # Len(q)
        <5>1. i + 1 \in 1..Len(q) /\ i # Len(w)
          BY <1>1, <1>8, <3>1, <4>2
        <5> QED
          BY <1>8, <4>2, <5>1
      <4> QED
        BY <4>1, <4>2
    <3>4. ASSUME i # 1 PROVE w[i - 1] = q[i - 1]
      <4>1. Len(q) \in Nat
        BY <1>1
      <4>2. i - 1 \in 1..Len(q)
        BY <3>1, <3>4, <4>1
      <4> QED
        BY <1>8, <4>2
    <3> QED
      BY <1>2, <3>1, <3>2, <3>3, <3>4
  <2> QED
    BY <2>1, <2>2
<1>15. ASSUME NEW i \in 1..Len(r)
       PROVE  /\ m.node[r[i]].next = IF i = Len(r) THEN nullptr ELSE r[i + 1]
              /\ m.node[r[i]].prev = nullptr
  <2>1. i + 1 \in 1..Len(d) /\ i + 1 # 1 /\ r[i] = d[i + 1] /\ (i = Len(r) <=> i + 1 = Len(d))
    BY <1>1, <1>9
  <2>2. d[i + 1] \in Nodes(l) \ {cur} /\ d[i + 1] # l.tail
    BY <1>1, <1>6, <2>1
  <2>3. i # Len(r) => r[i + 1] = d[(i + 1) + 1]
    BY <1>1, <1>9
  <2>4. m.node[r[i]].next = l.node[d[i + 1]].next /\ m.node[r[i]].prev = l.node[d[i + 1]].prev
    BY <1>7, <2>1, <2>2
  <2> QED
    BY <1>c, <2>1, <2>3, <2>4
<1>16. Shape(m, w, r)
  <2>1. Len(w) # 0 /\ Len(m.node) = m.cur_queue_capacity
    BY <1>1, <1>7, <1>8
  <2>2. w \in Seq(Nodes(m)) /\ r \in Seq(Nodes(m))
    BY <1>7, <1>8, <1>9
  <2> QED
    BY <1>7, <1>8, <1>9, <1>10, <1>11, <1>12, <1>13, <1>14, <1>15, <2>1, <2>2, ShapeFrom
<1>17. \A i \in 1..Len(q) : m.node[q[i]].wakeable = l.node[q[i]].wakeable
  BY <1>1, <1>6, <1>7
<1> QED
  <2>1. Shape(m, w, r) /\ m.tail = d[1] /\ m.node[d[1]].wakeable = FALSE
    BY <1>4, <1>7, <1>16
  <2>2. d[1] \in Nodes(m) /\ ~Occurs(d[1], q) /\ w = Append(q, d[1])
    BY <1>4, <1>5, <1>7 DEF w
  <2> QED
    BY <1>17, <2>1, <2>2 DEF Enqueued, m, r

\* enqueue() puts a node that is not in the queue at its end, with the flag cleared,
\* whether the node was used before or is new.
LEMMA EnqueueShape ==
  ASSUME NEW l, NEW q, NEW c, Shape(l, q, c)
  PROVE  \E n, d : Enqueued(enqueue(l), l, q, n, d)
<1>1. PICK d : Shape(Refilled(l), q, d) /\ Len(d) # 0
  BY RefilledShape
<1>2. \A i \in 1..Len(q) : Refilled(l).node[q[i]] = l.node[q[i]]
  BY RefilledShape
<1>3. Enqueued(enqueue(l), Refilled(l), q, d[1], Tail(d))
  BY <1>1, LinkShape
<1>4. Enqueued(enqueue(l), l, q, d[1], Tail(d))
  BY <1>2, <1>3 DEF Enqueued
<1> QED
  BY <1>4

-----------------------------------------------------------------------------
(* remove(), also the body of dequeue().                                   *)

LEMMA RemoveFields ==
  ASSUME NEW l \in ListType, NEW n \in Nodes(l), n # nullptr, Nodes(l) = 1..Len(l.node)
  PROVE  LET m == remove(l, n)
             P == l.node[n].prev
             X == l.node[n].next
         IN
         /\ m \in ListType /\ Nodes(m) = Nodes(l) /\ Len(m.node) = Len(l.node)
         /\ m.cur_queue_capacity = l.cur_queue_capacity /\ m.cache_head = n
         /\ m.head = IF n = l.head THEN IF l.head = l.tail THEN nullptr ELSE X ELSE l.head
         /\ m.tail = IF n = l.tail THEN IF l.head = l.tail THEN nullptr ELSE P ELSE l.tail
         /\ m.node[n].prev = nullptr /\ m.node[n].next = l.cache_head
         /\ m.node[n].wakeable = l.node[n].wakeable
         /\ \A k \in Nodes(l) \ {n} :
              /\ m.node[k].wakeable = l.node[k].wakeable
              /\ m.node[k].next = IF k = P THEN X ELSE l.node[k].next
              /\ m.node[k].prev = IF k = X THEN P ELSE l.node[k].prev
<1> DEFINE m == remove(l, n)
           P == l.node[n].prev
           X == l.node[n].next
           last == n = l.head /\ l.head = l.tail
           h == IF last THEN nullptr ELSE l.head
           e == IF last THEN nullptr ELSE l.tail
           first == IF n = h THEN X ELSE h
           end == IF n = e THEN P ELSE e
           changed(i) ==
             IF i = n THEN [l.node[i] EXCEPT !.prev = nullptr, !.next = l.cache_head]
             ELSE [l.node[i] EXCEPT !.next = IF i = P THEN X ELSE @,
                                    !.prev = IF i = X THEN P ELSE @]
           new == [i \in Nodes(l) |-> changed(i)]
<1>1. /\ l.head \in Nat /\ l.tail \in Nat /\ l.cache_head \in Nat
      /\ l.node \in Seq(NodeType) /\ Len(l.node) \in Nat
  BY LenProperties DEF ListType
<1>2. \A i \in Nodes(l) : l.node[i] \in NodeType
  BY <1>1, ElementOfSeq
<1>3. P \in Nat /\ X \in Nat /\ n \in Nat
  BY <1>1, <1>2 DEF NodeType
<1>4. m = [l EXCEPT !.head = first, !.tail = end, !.cache_head = n, !.node = new]
  BY DEF remove, ListType
<1>5. /\ first = IF n = l.head THEN IF l.head = l.tail THEN nullptr ELSE X ELSE l.head
      /\ end = IF n = l.tail THEN IF l.head = l.tail THEN nullptr ELSE P ELSE l.tail
  OBVIOUS
<1>6. first \in Nat /\ end \in Nat
  BY <1>1, <1>3, <1>5 DEF nullptr
<1> HIDE DEF first, end, P, X
<1>7. /\ changed(n) \in NodeType /\ changed(n).prev = nullptr /\ changed(n).next = l.cache_head
      /\ changed(n).wakeable = l.node[n].wakeable
  <2>1. changed(n) = [l.node[n] EXCEPT !.prev = nullptr, !.next = l.cache_head]
    OBVIOUS
  <2>2. l.node[n] \in NodeType /\ nullptr \in Nat
    BY <1>2 DEF nullptr
  <2> HIDE DEF changed
  <2> QED
    BY <1>1, <2>1, <2>2 DEF NodeType
<1>8. ASSUME NEW k \in Nodes(l) \ {n}
      PROVE  /\ changed(k) \in NodeType /\ changed(k).wakeable = l.node[k].wakeable
             /\ changed(k).next = IF k = P THEN X ELSE l.node[k].next
             /\ changed(k).prev = IF k = X THEN P ELSE l.node[k].prev
  <2>1. changed(k) = [l.node[k] EXCEPT !.next = IF k = P THEN X ELSE @,
                                       !.prev = IF k = X THEN P ELSE @]
    OBVIOUS
  <2>2. l.node[k] \in NodeType
    BY <1>2
  <2> HIDE DEF changed
  <2> QED
    BY <1>3, <2>1, <2>2 DEF NodeType
<1> HIDE DEF changed
<1>9. new \in Seq(NodeType) /\ Len(new) = Len(l.node) /\ DOMAIN new = Nodes(l)
  <2>1. new \in [1..Len(l.node) -> NodeType]
    BY <1>7, <1>8
  <2> QED
    BY <1>1, <2>1
<1>10. \A k \in Nodes(l) : new[k] = changed(k)
  OBVIOUS
<1> HIDE DEF new, m
<1>11. /\ m \in ListType /\ m.head = first /\ m.tail = end /\ m.cache_head = n
       /\ m.cur_queue_capacity = l.cur_queue_capacity /\ m.node = new
  BY <1>3, <1>4, <1>6, <1>9 DEF ListType
<1>12. Nodes(m) = Nodes(l)
  BY <1>9, <1>11 DEF Nodes
<1>13. /\ m.node[n].prev = nullptr /\ m.node[n].next = l.cache_head
       /\ m.node[n].wakeable = l.node[n].wakeable
  BY <1>7, <1>10, <1>11
<1>14. ASSUME NEW k \in Nodes(l) \ {n}
       PROVE  /\ m.node[k].wakeable = l.node[k].wakeable
              /\ m.node[k].next = IF k = P THEN X ELSE l.node[k].next
              /\ m.node[k].prev = IF k = X THEN P ELSE l.node[k].prev
  BY <1>8, <1>10, <1>11
<1> QED
  BY <1>5, <1>9, <1>11, <1>12, <1>13, <1>14 DEF m, P, X

\* The sequence s with e in front of it.
InFront(e, s) == [i \in 1..(Len(s) + 1) |-> IF i = 1 THEN e ELSE s[i - 1]]

LEMMA InFrontSeq ==
  ASSUME NEW S, NEW s \in Seq(S), NEW e \in S, Distinct(s), ~Occurs(e, s)
  PROVE  /\ InFront(e, s) \in Seq(S) /\ Len(InFront(e, s)) = Len(s) + 1
         /\ InFront(e, s)[1] = e
         /\ \A i \in 1..Len(s) : InFront(e, s)[i + 1] = s[i]
         /\ Distinct(InFront(e, s))
         /\ \A x : Occurs(x, InFront(e, s)) <=> Occurs(x, s) \/ x = e
<1> DEFINE w == InFront(e, s)
<1>1. Len(s) \in Nat /\ \A i \in 1..Len(s) : s[i] \in S
  BY LenProperties, ElementOfSeq
<1>2. w \in [1..(Len(s) + 1) -> S]
  <2>1. \A i \in 1..(Len(s) + 1) : (IF i = 1 THEN e ELSE s[i - 1]) \in S
    BY <1>1
  <2> QED
    BY <2>1 DEF InFront
<1>3. w[1] = e /\ \A i \in 2..(Len(s) + 1) : w[i] = s[i - 1]
  BY <1>1 DEF InFront
<1> HIDE DEF w
<1>4. w \in Seq(S) /\ Len(w) = Len(s) + 1
  BY <1>1, <1>2
<1>5. ASSUME NEW i \in 1..Len(s) PROVE w[i + 1] = s[i]
  <2>1. i + 1 \in 2..(Len(s) + 1) /\ (i + 1) - 1 = i
    BY <1>1
  <2> QED
    BY <1>3, <2>1
<1>6. ASSUME NEW i \in 1..Len(w) PROVE i = 1 \/ (i - 1 \in 1..Len(s) /\ w[i] = s[i - 1])
  BY <1>1, <1>3, <1>4
<1>7. ASSUME NEW i \in 1..Len(w), NEW j \in 1..Len(w), w[i] = w[j] PROVE i = j
  <2>1. CASE i = 1 \/ j = 1
    BY <1>3, <1>6, <1>7, <2>1 DEF Occurs
  <2>2. CASE i # 1 /\ j # 1
    <3>1. i - 1 = j - 1
      BY <1>6, <1>7, <2>2 DEF Distinct
    <3> QED
      BY <1>1, <1>4, <3>1
  <2> QED
    BY <2>1, <2>2
<1>8. ASSUME NEW x, Occurs(x, w) PROVE Occurs(x, s) \/ x = e
  BY <1>3, <1>6, <1>8 DEF Occurs
<1>9. ASSUME NEW x, Occurs(x, s) PROVE Occurs(x, w)
  <2>1. PICK i \in 1..Len(s) : s[i] = x
    BY <1>9 DEF Occurs
  <2>2. i + 1 \in 1..Len(w)
    BY <1>1, <1>4
  <2> QED
    BY <1>5, <2>1, <2>2 DEF Occurs
<1>10. Occurs(e, w)
  <2>1. 1 \in 1..Len(w)
    BY <1>1, <1>4
  <2> QED
    BY <1>3, <2>1 DEF Occurs
<1>11. Distinct(w) /\ \A x : Occurs(x, w) <=> Occurs(x, s) \/ x = e
  BY <1>7, <1>8, <1>9, <1>10 DEF Distinct
<1> QED
  BY <1>3, <1>4, <1>5, <1>11 DEF w


\* The elements of Without(s, s[p]) and where they come from.
LEMMA WithoutSeq ==
  ASSUME NEW S, NEW s \in Seq(S), Distinct(s), NEW p \in 1..Len(s)
  PROVE  /\ Without(s, s[p]) \in Seq(S) /\ Len(Without(s, s[p])) = Len(s) - 1
         /\ \A i \in 1..(Len(s) - 1) : Without(s, s[p])[i] = IF i < p THEN s[i] ELSE s[i + 1]
         /\ Distinct(Without(s, s[p]))
         /\ \A x : Occurs(x, Without(s, s[p])) <=> Occurs(x, s) /\ x # s[p]
<1>1. Position(s, s[p]) = p
  <2>1. \E i \in 1..Len(s) : s[i] = s[p]
    OBVIOUS
  <2>2. Position(s, s[p]) \in 1..Len(s) /\ s[Position(s, s[p])] = s[p]
    BY <2>1 DEF Position
  <2> QED
    BY <2>2 DEF Distinct
<1>2. Without(s, s[p]) = [i \in 1..(Len(s) - 1) |-> IF i < p THEN s[i] ELSE s[i + 1]]
  BY <1>1 DEF Without
<1>3. Occurs(s[p], s)
  BY DEF Occurs
<1>4. /\ Distinct(Without(s, s[p])) /\ Len(Without(s, s[p])) = Len(s) - 1
      /\ \A x : Occurs(x, Without(s, s[p])) <=> Occurs(x, s) /\ x # s[p]
  BY <1>3, RemoveQueue
<1>5. Without(s, s[p]) \in Seq(S)
  BY WithoutType
<1>6. \A i \in 1..(Len(s) - 1) : Without(s, s[p])[i] = IF i < p THEN s[i] ELSE s[i + 1]
  BY <1>2
<1> QED
  BY <1>4, <1>5, <1>6

\* The list m is l without the node n of its queue q, which is in the cache c.
Removed(m, l, q, n, c) ==
  /\ Shape(m, Without(q, n), c) /\ Nodes(m) = Nodes(l)
  /\ \A k \in Nodes(l) : m.node[k].wakeable = l.node[k].wakeable

\* remove() unlinks a node at an end or in the middle of the queue and puts it in
\* front of the cache.
LEMMA RemoveShape ==
  ASSUME NEW l, NEW q, NEW c, Shape(l, q, c), NEW p \in 1..Len(q)
  PROVE  Removed(remove(l, q[p]), l, q, q[p], InFront(q[p], c))
<1> DEFINE n == Len(q)
           x == q[p]
           m == remove(l, x)
           w == Without(q, q[p])
           r == InFront(q[p], c)
           P == IF p = 1 THEN nullptr ELSE q[p - 1]
           X == IF p = n THEN nullptr ELSE q[p + 1]
<1>1. /\ l \in ListType /\ Len(l.node) = l.cur_queue_capacity
      /\ n \in Nat /\ Len(c) \in Nat /\ Nodes(l) = 1..Len(l.node)
      /\ \A i \in 1..n : q[i] \in Nodes(l) /\ q[i] # nullptr
      /\ \A i \in 1..Len(c) : c[i] \in Nodes(l) /\ c[i] # nullptr
      /\ l.head = IF n = 0 THEN nullptr ELSE q[1]
      /\ l.tail = IF n = 0 THEN nullptr ELSE q[n]
      /\ l.cache_head = IF Len(c) = 0 THEN nullptr ELSE c[1]
  BY ShapeParts
<1>2. ASSUME NEW i \in 1..n
      PROVE  /\ l.node[q[i]].next = IF i = n THEN nullptr ELSE q[i + 1]
             /\ l.node[q[i]].prev = IF i = 1 THEN nullptr ELSE q[i - 1]
  BY QueueLinks
<1>c. ASSUME NEW i \in 1..Len(c)
      PROVE  /\ l.node[c[i]].next = IF i = Len(c) THEN nullptr ELSE c[i + 1]
             /\ l.node[c[i]].prev = nullptr
  BY CacheLinks
<1>3. /\ q \in Seq(Nodes(l)) /\ c \in Seq(Nodes(l)) /\ Distinct(q) /\ Distinct(c)
      /\ \A k \in Nodes(l) : (Occurs(k, q) \/ Occurs(k, c)) /\ ~(Occurs(k, q) /\ Occurs(k, c))
  BY DEF Shape
<1>n. n \in Nat /\ p \in Int /\ 1 <= p /\ p <= n
  BY <1>1
<1>4. /\ x \in Nodes(l) /\ x # nullptr /\ Occurs(x, q) /\ ~Occurs(x, c)
      /\ l.node[x].prev = P /\ l.node[x].next = X
  BY <1>1, <1>2, <1>3 DEF Occurs
<1>5. /\ m \in ListType /\ Nodes(m) = Nodes(l) /\ Len(m.node) = Len(l.node)
      /\ m.cur_queue_capacity = l.cur_queue_capacity /\ m.cache_head = x
      /\ m.head = IF x = l.head THEN IF l.head = l.tail THEN nullptr ELSE l.node[x].next ELSE l.head
      /\ m.tail = IF x = l.tail THEN IF l.head = l.tail THEN nullptr ELSE l.node[x].prev ELSE l.tail
      /\ m.node[x].prev = nullptr /\ m.node[x].next = l.cache_head
      /\ m.node[x].wakeable = l.node[x].wakeable
      /\ \A k \in Nodes(l) \ {x} :
           /\ m.node[k].wakeable = l.node[k].wakeable
           /\ m.node[k].next = IF k = l.node[x].prev THEN l.node[x].next ELSE l.node[k].next
           /\ m.node[k].prev = IF k = l.node[x].next THEN l.node[x].prev ELSE l.node[k].prev
  <2>1. l \in ListType /\ Nodes(l) = 1..Len(l.node) /\ x \in Nodes(l) /\ x # nullptr
    BY <1>1, <1>4
  <2> HIDE DEF x
  <2> QED
    BY ONLY <2>1, RemoveFields
<1>6. /\ w \in Seq(Nodes(l)) /\ Len(w) = n - 1
      /\ \A i \in 1..(n - 1) : w[i] = IF i < p THEN q[i] ELSE q[i + 1]
      /\ Distinct(w) /\ \A k : Occurs(k, w) <=> Occurs(k, q) /\ k # x
  BY <1>3, WithoutSeq
<1>7. /\ r \in Seq(Nodes(l)) /\ Len(r) = Len(c) + 1 /\ r[1] = x
      /\ \A i \in 1..Len(c) : r[i + 1] = c[i]
      /\ Distinct(r) /\ \A k : Occurs(k, r) <=> Occurs(k, c) \/ k = x
  BY <1>3, <1>4, InFrontSeq
<1>8. /\ x = l.head <=> p = 1
      /\ x = l.tail <=> p = n
      /\ l.head = l.tail <=> n = 1
      /\ l.head = q[1] /\ l.tail = q[n]
  <2>1. 1 \in 1..n /\ n \in 1..n
    BY <1>n
  <2>2. l.head = q[1] /\ l.tail = q[n]
    BY <1>1, <1>n
  <2>3. \A i, j \in 1..n : q[i] = q[j] <=> i = j
    BY <1>3 DEF Distinct
  <2> HIDE DEF n
  <2> QED
    BY <1>n, <2>1, <2>2, <2>3
<1>9. ASSUME NEW j \in 1..n
      PROVE  (q[j] = P <=> j = p - 1) /\ (q[j] = X <=> j = p + 1)
  BY <1>1, <1>3 DEF Distinct
<1> HIDE DEF m, n, x, w, r
<1>10. ASSUME NEW i \in 1..Len(c)
       PROVE  c[i] \in Nodes(l) \ {x} /\ c[i] # P /\ c[i] # X
  <2>1. Occurs(c[i], c) /\ c[i] \in Nodes(l) /\ c[i] # nullptr
    BY <1>1 DEF Occurs
  <2>2. \A j \in 1..n : c[i] # q[j]
    BY <1>3, <2>1 DEF Occurs, n
  <2>3. P = nullptr \/ \E j \in 1..n : P = q[j]
    BY <1>n
  <2>4. X = nullptr \/ \E j \in 1..n : X = q[j]
    BY <1>n
  <2> QED
    BY <1>n, <2>1, <2>2, <2>3, <2>4 DEF x
<1> HIDE DEF P, X
\* Where the nodes of the new queue come from.
<1>11. ASSUME NEW i \in 1..Len(w)
       PROVE  \E j \in 1..n : /\ j # p /\ w[i] = q[j]
                              /\ i = IF j < p THEN j ELSE j - 1
  <2>1. CASE i < p
    BY <1>6, <1>n, <2>1
  <2>2. CASE ~(i < p)
    <3>1. i + 1 \in 1..n /\ i + 1 # p /\ ~(i + 1 < p) /\ i = (i + 1) - 1
      BY <1>6, <1>n, <2>2
    <3> QED
      BY <1>6, <2>2, <3>1
  <2> QED
    BY <2>1, <2>2
<1>12. n # 1 => /\ w[1] = IF p = 1 THEN q[2] ELSE q[1]
                /\ w[n - 1] = IF p = n THEN q[n - 1] ELSE q[n]
  <2>1. ASSUME n # 1 PROVE w[1] = IF p = 1 THEN q[2] ELSE q[1]
    <3>1. 1 \in 1..(n - 1)
      BY <1>n, <2>1
    <3> QED
      BY <1>6, <1>n, <3>1
  <2>2. ASSUME n # 1 PROVE w[n - 1] = IF p = n THEN q[n - 1] ELSE q[n]
    <3>1. n - 1 \in 1..(n - 1) /\ (n - 1 < p <=> p = n) /\ (n - 1) + 1 = n
      BY <1>n, <2>2
    <3> QED
      BY <1>6, <3>1
  <2> QED
    BY <2>1, <2>2
<1>13. m.head = IF Len(w) = 0 THEN nullptr ELSE w[1]
  <2>1. m.head = IF p = 1 THEN IF n = 1 THEN nullptr ELSE X ELSE q[1]
    BY <1>4, <1>5, <1>8
  <2>2. p = 1 /\ n # 1 => X = q[2]
    BY <1>n DEF X
  <2>3. Len(w) = 0 <=> n = 1
    BY <1>6, <1>n
  <2> QED
    BY <1>12, <1>n, <2>1, <2>2, <2>3
<1>14. m.tail = IF Len(w) = 0 THEN nullptr ELSE w[Len(w)]
  <2>1. m.tail = IF p = n THEN IF n = 1 THEN nullptr ELSE P ELSE q[n]
    BY <1>4, <1>5, <1>8
  <2>2. p = n /\ n # 1 => P = q[n - 1]
    BY <1>n DEF P
  <2>3. Len(w) = 0 <=> n = 1
    BY <1>6, <1>n
  <2> QED
    BY <1>6, <1>12, <1>n, <2>1, <2>2, <2>3
<1>15. ASSUME NEW i \in 1..Len(w)
       PROVE  /\ m.node[w[i]].next = IF i = Len(w) THEN nullptr ELSE w[i + 1]
              /\ m.node[w[i]].prev = IF i = 1 THEN nullptr ELSE w[i - 1]
  <2>1. PICK j \in 1..n : j # p /\ w[i] = q[j] /\ i = IF j < p THEN j ELSE j - 1
    BY <1>11
  <2>2. /\ m.node[q[j]].next = IF j = p - 1 THEN X ELSE l.node[q[j]].next
        /\ m.node[q[j]].prev = IF j = p + 1 THEN P ELSE l.node[q[j]].prev
    <3>1. q[j] \in Nodes(l) \ {x}
      BY <1>1, <1>3, <2>1 DEF n, x, Distinct
    <3> QED
      BY <1>4, <1>5, <1>9, <3>1
  <2>3. /\ l.node[q[j]].prev = IF j = 1 THEN nullptr ELSE q[j - 1]
        /\ l.node[q[j]].next = IF j = n THEN nullptr ELSE q[j + 1]
    BY <1>2
  <2>4. m.node[w[i]].prev = IF i = 1 THEN nullptr ELSE w[i - 1]
    <3>1. CASE j = p + 1
      <4>1. i = p /\ m.node[w[i]].prev = P
        BY <1>n, <2>1, <2>2, <3>1
      <4>2. i # 1 => i - 1 \in 1..(n - 1) /\ i - 1 < p /\ w[i - 1] = q[p - 1]
        BY <1>6, <1>n, <4>1, <2>1, <3>1
      <4> QED
        BY <4>1, <4>2 DEF P
    <3>2. CASE j < p
      BY <1>6, <1>n, <2>1, <2>2, <2>3, <3>2
    <3>3. CASE j > p + 1
      <4>1. i = j - 1 /\ i # 1 /\ j # 1 /\ i - 1 \in 1..(n - 1) /\ ~(i - 1 < p) /\ (i - 1) + 1 = j - 1
        BY <1>n, <2>1, <3>3
      <4> QED
        BY <1>6, <1>n, <2>1, <2>2, <2>3, <3>3, <4>1
    <3> QED
      BY <1>n, <2>1, <3>1, <3>2, <3>3
  <2>5. m.node[w[i]].next = IF i = Len(w) THEN nullptr ELSE w[i + 1]
    <3>1. CASE j = p - 1
      <4>1. i = p - 1 /\ m.node[w[i]].next = X
        BY <1>n, <2>1, <2>2, <3>1
      <4>2. p = n <=> i = Len(w)
        BY <1>6, <1>n, <4>1
      <4>3. p # n => w[i + 1] = q[p + 1]
        BY <1>6, <1>n, <4>1
      <4> QED
        BY <4>1, <4>2, <4>3 DEF X
    <3>2. CASE j < p - 1
      <4>1. i = j /\ j # p - 1 /\ j # n /\ i # Len(w) /\ i + 1 \in 1..(n - 1) /\ i + 1 < p
        BY <1>6, <1>n, <2>1, <3>2
      <4> QED
        BY <1>6, <2>1, <2>2, <2>3, <4>1
    <3>3. CASE j > p
      <4>1. i = j - 1 /\ j # p - 1 /\ (j = n <=> i = Len(w))
        BY <1>6, <1>n, <2>1, <3>3
      <4>2. j # n => i + 1 \in 1..(n - 1) /\ ~(i + 1 < p) /\ (i + 1) + 1 = j + 1
        BY <1>6, <1>n, <2>1, <3>3, <4>1
      <4> QED
        BY <1>6, <2>1, <2>2, <2>3, <4>1, <4>2
    <3> QED
      BY <1>n, <2>1, <3>1, <3>2, <3>3
  <2> QED
    BY <2>4, <2>5
<1>16. ASSUME NEW i \in 1..Len(r)
       PROVE  /\ m.node[r[i]].next = IF i = Len(r) THEN nullptr ELSE r[i + 1]
              /\ m.node[r[i]].prev = nullptr
  <2>1. CASE i = 1
    <3>1. Len(c) # 0 => r[1 + 1] = c[1]
      BY <1>1, <1>7
    <3> QED
      BY <1>1, <1>5, <1>7, <2>1, <3>1
  <2>2. CASE i # 1
    <3> DEFINE j == i - 1
    <3>1. j \in 1..Len(c) /\ i = j + 1 /\ (i = Len(r) <=> j = Len(c)) /\ r[i] = c[j]
      BY <1>1, <1>7, <2>2, SMTT(30)
    <3>2. j # Len(c) => r[i + 1] = c[j + 1]
      BY <1>1, <1>7, <3>1
    <3> HIDE DEF j
    <3>3. m.node[c[j]].next = l.node[c[j]].next /\ m.node[c[j]].prev = l.node[c[j]].prev
      BY <1>4, <1>5, <1>10, <3>1
    <3> QED
      BY <1>c, <3>1, <3>2, <3>3
  <2> QED
    BY <2>1, <2>2
<1>17. \A k \in Nodes(m) : (Occurs(k, w) \/ Occurs(k, r)) /\ ~(Occurs(k, w) /\ Occurs(k, r))
  BY <1>3, <1>4, <1>5, <1>6, <1>7
<1>18. Shape(m, w, r)
  <2>1. Len(m.node) = m.cur_queue_capacity /\ w \in Seq(Nodes(m)) /\ r \in Seq(Nodes(m))
    BY <1>1, <1>5, <1>6, <1>7
  <2>2. m.cache_head = IF Len(r) = 0 THEN nullptr ELSE r[1]
    BY <1>1, <1>5, <1>7
  <2> QED
    BY <1>5, <1>6, <1>7, <1>13, <1>14, <1>15, <1>16, <1>17, <2>1, <2>2, ShapeFrom
<1>19. Nodes(m) = Nodes(l) /\ \A k \in Nodes(l) : m.node[k].wakeable = l.node[k].wakeable
  BY <1>5
<1> QED
  BY <1>18, <1>19 DEF Removed, m, w, r, x


-----------------------------------------------------------------------------
(* The list and the queue of threads.                                      *)

\* The nodes wn of the threads of the queue q, in its order.
NodesOf(q, wn) == [i \in 1..Len(q) |-> wn[q[i]]]

\* The list l stands for the queue q of threads with the flags wk.
StandsFor(l, q, wn, wk) ==
  /\ \E c : Shape(l, NodesOf(q, wn), c)
  /\ \A i \in 1..Len(q) : l.node[wn[q[i]]].wakeable = wk[q[i]]

LEMMA NodesOfSeq ==
  ASSUME NEW q \in Seq(Threads), NEW wn
  PROVE  /\ Len(q) \in Nat /\ Len(NodesOf(q, wn)) = Len(q)
         /\ \A i \in 1..Len(q) : q[i] \in Threads /\ NodesOf(q, wn)[i] = wn[q[i]]
         /\ DOMAIN NodesOf(q, wn) = 1..Len(q)
<1>1. Len(q) \in Nat /\ \A i \in 1..Len(q) : q[i] \in Threads
  BY LenProperties, ElementOfSeq
<1>2. DOMAIN NodesOf(q, wn) = 1..Len(q)
  BY DEF NodesOf
<1>3. Len(NodesOf(q, wn)) = Len(q)
  BY <1>1 DEF NodesOf
<1> QED
  BY <1>1, <1>2, <1>3 DEF NodesOf

LEMMA WakeStandsFor ==
  ASSUME NEW q \in Seq(Threads), NEW wn, NEW wk \in [Threads -> BOOLEAN], NEW l,
         StandsFor(l, q, wn, wk), Distinct(q)
  PROVE  StandsFor(wake_head(l), q, wn, WakeHead(q, wk))
<1> DEFINE w == NodesOf(q, wn)
           m == wake_head(l)
<1>1. PICK c : Shape(l, w, c)
  BY DEF StandsFor
<1>2. /\ Len(q) \in Nat /\ Len(w) = Len(q)
      /\ \A i \in 1..Len(q) : q[i] \in Threads /\ w[i] = wn[q[i]]
  BY NodesOfSeq
<1> HIDE DEF w, m
<1>3. /\ Shape(m, w, c)
      /\ Len(w) # 0 => m.node[w[1]].wakeable = TRUE
      /\ \A n \in Nodes(l) : (Len(w) = 0 \/ n # w[1]) => m.node[n].wakeable = l.node[n].wakeable
  BY <1>1, WakeKeepsShape DEF m
<1>4. Distinct(w) /\ \A i \in 1..Len(w) : w[i] \in Nodes(l)
  <2>1. Distinct(w)
    BY <1>1 DEF Shape
  <2> QED
    BY <1>1, <2>1, ShapeParts
<1>5. ASSUME NEW i \in 1..Len(q) PROVE m.node[wn[q[i]]].wakeable = WakeHead(q, wk)[q[i]]
  <2>1. q # <<>> /\ Head(q) = q[1] /\ 1 \in 1..Len(q)
    BY <1>2, EmptySeq, HeadTailProperties
  <2>2. WakeHead(q, wk) = [wk EXCEPT ![q[1]] = TRUE]
    BY <2>1 DEF WakeHead
  <2>3. CASE i = 1
    <3>1. WakeHead(q, wk)[q[i]] = TRUE
      BY <1>2, <2>1, <2>2, <2>3
    <3>2. m.node[wn[q[i]]].wakeable = TRUE
      BY <1>2, <1>3, <2>1, <2>3
    <3> QED
      BY <3>1, <3>2
  <2>4. CASE i # 1
    <3>1. q[i] # q[1] /\ w[i] # w[1]
      BY <1>2, <1>4, <2>1, <2>4 DEF Distinct
    <3>2. WakeHead(q, wk)[q[i]] = wk[q[i]]
      BY <1>2, <2>1, <2>2, <3>1
    <3>3. m.node[w[i]].wakeable = l.node[w[i]].wakeable
      BY <1>2, <1>3, <1>4, <3>1
    <3>4. l.node[wn[q[i]]].wakeable = wk[q[i]]
      BY DEF StandsFor
    <3> QED
      BY <1>2, <3>2, <3>3, <3>4
  <2> QED
    BY <2>3, <2>4
<1> QED
  BY <1>3, <1>5 DEF StandsFor, m, w

LEMMA EnqueueStandsFor ==
  ASSUME NEW q \in Seq(Threads), NEW wn \in [Threads -> Nat],
         NEW wk \in [Threads -> BOOLEAN], NEW l, StandsFor(l, q, wn, wk),
         NEW t \in Threads, ~Occurs(t, q)
  PROVE  /\ enqueue(l).tail \in Nat
         /\ StandsFor(enqueue(l), Append(q, t), [wn EXCEPT ![t] = enqueue(l).tail],
                      [wk EXCEPT ![t] = FALSE])
<1> DEFINE w == NodesOf(q, wn)
           m == enqueue(l)
           a == Append(q, t)
<1>1. PICK c : Shape(l, w, c)
  BY DEF StandsFor
<1>2. /\ Len(q) \in Nat /\ Len(w) = Len(q)
      /\ \A i \in 1..Len(q) : q[i] \in Threads /\ w[i] = wn[q[i]]
  BY NodesOfSeq
<1>3. /\ a \in Seq(Threads) /\ Len(a) = Len(q) + 1 /\ a[Len(q) + 1] = t
      /\ \A i \in 1..Len(q) : a[i] = q[i] /\ a[i] # t
  BY <1>2, AppendProperties DEF Occurs
<1> HIDE DEF w, m, a
<1>4. PICK n, d : Enqueued(m, l, w, n, d)
  BY <1>1, EnqueueShape DEF m
<1>5. m.tail = n /\ Shape(m, Append(w, n), d)
  BY <1>4 DEF Enqueued
<1>6. n \in Nat
  <2>1. n \in Nodes(m)
    BY <1>4 DEF Enqueued
  <2>2. Nodes(m) = 1..Len(m.node) /\ Len(m.node) \in Nat
    BY <1>5, ShapeParts
  <2> QED
    BY <2>1, <2>2
<1> DEFINE wn2 == [wn EXCEPT ![t] = n]
           wk2 == [wk EXCEPT ![t] = FALSE]
<1>7. /\ wn2[t] = n /\ wk2[t] = FALSE
      /\ \A u \in Threads \ {t} : wn2[u] = wn[u] /\ wk2[u] = wk[u]
  OBVIOUS
<1> HIDE DEF wn2, wk2
<1>8. NodesOf(a, wn2) = Append(w, n)
  <2> DEFINE v == NodesOf(a, wn2)
  <2>1. /\ Len(v) = Len(q) + 1 /\ DOMAIN v = 1..(Len(q) + 1)
        /\ \A i \in 1..(Len(q) + 1) : v[i] = wn2[a[i]]
    BY <1>3, NodesOfSeq
  <2>2. v = [i \in 1..(Len(q) + 1) |-> v[i]]
    BY <1>3 DEF NodesOf
  <2>3. w \in Seq(Nodes(l)) /\ w \in Seq(Nodes(l) \cup {n})
    <3>1. w \in Seq(Nodes(l))
      BY <1>1 DEF Shape
    <3> QED
      BY <3>1, SeqMonotonic
  <2>4. /\ Append(w, n) \in Seq(Nodes(l) \cup {n}) /\ Len(Append(w, n)) = Len(q) + 1
        /\ \A i \in 1..Len(q) : Append(w, n)[i] = w[i]
        /\ Append(w, n)[Len(q) + 1] = n
    BY <1>2, <2>3, AppendProperties
  <2> HIDE DEF v
  <2>5. ASSUME NEW i \in 1..(Len(q) + 1) PROVE v[i] = Append(w, n)[i]
    <3>1. CASE i = Len(q) + 1
      BY <1>3, <1>7, <2>1, <2>4, <3>1
    <3>2. CASE i # Len(q) + 1
      <4>1. i \in 1..Len(q)
        BY <1>2, <3>2
      <4>2. a[i] = q[i] /\ q[i] \in Threads \ {t}
        BY <1>2, <1>3, <4>1
      <4>3. v[i] = wn[q[i]]
        BY <1>7, <2>1, <4>2
      <4> QED
        BY <1>2, <2>4, <4>1, <4>3
    <3> QED
      BY <3>1, <3>2
  <2>6. Append(w, n) = [i \in 1..(Len(q) + 1) |-> Append(w, n)[i]]
    BY <2>4, LenProperties
  <2> QED
    BY <2>2, <2>5, <2>6 DEF v
<1>9. ASSUME NEW i \in 1..Len(a) PROVE m.node[wn2[a[i]]].wakeable = wk2[a[i]]
  <2>1. CASE i = Len(q) + 1
    <3>1. m.node[n].wakeable = FALSE
      BY <1>4 DEF Enqueued
    <3> QED
      BY <1>3, <1>7, <2>1, <3>1
  <2>2. CASE i # Len(q) + 1
    <3>1. i \in 1..Len(q) /\ a[i] = q[i] /\ q[i] \in Threads \ {t}
      BY <1>2, <1>3, <2>2
    <3>2. m.node[w[i]].wakeable = l.node[w[i]].wakeable
      BY <1>2, <1>4, <3>1 DEF Enqueued
    <3>3. l.node[wn[q[i]]].wakeable = wk[q[i]]
      BY <3>1 DEF StandsFor
    <3>4. wn2[a[i]] = w[i] /\ w[i] = wn[q[i]] /\ wk2[a[i]] = wk[q[i]]
      BY <1>2, <1>7, <3>1
    <3> QED
      BY <3>2, <3>3, <3>4
  <2> QED
    BY <2>1, <2>2
<1>10. StandsFor(m, a, wn2, wk2)
  BY <1>5, <1>8, <1>9 DEF StandsFor
<1> QED
  BY <1>5, <1>6, <1>10 DEF m, a, wn2, wk2


\* The first node is that of the first thread.
LEMMA HeadStandsFor ==
  ASSUME NEW q \in Seq(Threads), q # <<>>, NEW wn, NEW wk, NEW l, StandsFor(l, q, wn, wk)
  PROVE  l.head = wn[Head(q)]
<1>1. PICK c : Shape(l, NodesOf(q, wn), c)
  BY DEF StandsFor
<1>2. Len(q) # 0 /\ Len(q) \in Nat /\ Head(q) = q[1]
  BY EmptySeq, HeadTailProperties, LenProperties
<1>3. Len(NodesOf(q, wn)) = Len(q) /\ NodesOf(q, wn)[1] = wn[q[1]]
  BY <1>2, NodesOfSeq
<1>4. l.head = IF Len(NodesOf(q, wn)) = 0 THEN nullptr ELSE NodesOf(q, wn)[1]
  BY <1>1, ShapeParts
<1> QED
  BY <1>2, <1>3, <1>4

\* The thread t leaves the queue; what its node and its flag are then is all the
\* same.
LEMMA RemoveStandsFor ==
  ASSUME NEW q \in Seq(Threads), Distinct(q), NEW wn, NEW wk, NEW l, StandsFor(l, q, wn, wk),
         NEW t, Occurs(t, q), NEW wn2, NEW wk2,
         \A u \in Threads \ {t} : wn2[u] = wn[u] /\ wk2[u] = wk[u]
  PROVE  StandsFor(remove(l, wn[t]), Without(q, t), wn2, wk2)
<1> DEFINE w == NodesOf(q, wn)
           m == remove(l, wn[t])
           a == Without(q, t)
<1>1. PICK c : Shape(l, w, c)
  BY DEF StandsFor
<1>2. /\ Len(q) \in Nat /\ Len(w) = Len(q)
      /\ \A i \in 1..Len(q) : q[i] \in Threads /\ w[i] = wn[q[i]]
  BY NodesOfSeq
<1>3. PICK p \in 1..Len(q) : q[p] = t
  BY DEF Occurs
<1>4. /\ a \in Seq(Threads) /\ Len(a) = Len(q) - 1
      /\ \A i \in 1..(Len(q) - 1) : a[i] = IF i < p THEN q[i] ELSE q[i + 1]
  <2>1. /\ Without(q, q[p]) \in Seq(Threads) /\ Len(Without(q, q[p])) = Len(q) - 1
        /\ \A i \in 1..(Len(q) - 1) : Without(q, q[p])[i] = IF i < p THEN q[i] ELSE q[i + 1]
    BY ONLY q \in Seq(Threads), Distinct(q), p \in 1..Len(q), WithoutSeq
  <2> QED
    BY <1>3, <2>1
<1> HIDE DEF w, m, a
<1>5. w \in Seq(Nodes(l)) /\ Distinct(w) /\ w[p] = wn[t] /\ p \in 1..Len(w)
  <2>1. w \in Seq(Nodes(l)) /\ Distinct(w)
    BY <1>1 DEF Shape
  <2> QED
    BY <1>2, <1>3, <2>1
<1>6. Removed(m, l, w, w[p], InFront(w[p], c))
  <2>1. Removed(remove(l, w[p]), l, w, w[p], InFront(w[p], c))
    BY <1>1, <1>5, RemoveShape
  <2> QED
    BY <1>5, <2>1 DEF m
<1> DEFINE b == Without(w, w[p])
<1>7. /\ b \in Seq(Nodes(l)) /\ Len(b) = Len(q) - 1
      /\ \A i \in 1..(Len(q) - 1) : b[i] = IF i < p THEN w[i] ELSE w[i + 1]
  <2>1. /\ b \in Seq(Nodes(l)) /\ Len(b) = Len(w) - 1
        /\ \A i \in 1..(Len(w) - 1) : b[i] = IF i < p THEN w[i] ELSE w[i + 1]
    BY ONLY <1>5, WithoutSeq
  <2> QED
    BY <1>2, <2>1
<1> HIDE DEF b
<1>8. ASSUME NEW i \in 1..(Len(q) - 1)
      PROVE  \E j \in 1..Len(q) : /\ a[i] = q[j] /\ b[i] = w[j] /\ q[j] # t
                                  /\ wn2[a[i]] = w[j] /\ wk2[a[i]] = wk[q[j]]
  <2> DEFINE j == IF i < p THEN i ELSE i + 1
  <2>1. j \in 1..Len(q) /\ j # p
    BY <1>2
  <2>2. a[i] = q[j] /\ b[i] = w[j]
    BY <1>4, <1>7
  <2> HIDE DEF j
  <2>3. q[j] # t /\ q[j] \in Threads
    BY <1>2, <1>3, <2>1 DEF Distinct
  <2>4. wn2[q[j]] = wn[q[j]] /\ wk2[q[j]] = wk[q[j]] /\ w[j] = wn[q[j]]
    BY <1>2, <2>1, <2>3
  <2> QED
    BY <2>1, <2>2, <2>3, <2>4
<1>9. NodesOf(a, wn2) = b
  <2>1. NodesOf(a, wn2) = [i \in 1..(Len(q) - 1) |-> wn2[a[i]]]
    BY <1>4 DEF NodesOf
  <2>2. b = [i \in 1..(Len(q) - 1) |-> b[i]]
    BY <1>7, LenProperties
  <2>3. \A i \in 1..(Len(q) - 1) : wn2[a[i]] = b[i]
    BY <1>8
  <2> QED
    BY <2>1, <2>2, <2>3
<1>10. ASSUME NEW i \in 1..Len(a) PROVE m.node[wn2[a[i]]].wakeable = wk2[a[i]]
  <2>1. PICK j \in 1..Len(q) : wn2[a[i]] = w[j] /\ wk2[a[i]] = wk[q[j]]
    BY <1>4, <1>8
  <2>2. w[j] \in Nodes(l) /\ w[j] = wn[q[j]]
    BY <1>2, <1>5, ElementOfSeq
  <2>3. m.node[w[j]].wakeable = l.node[w[j]].wakeable
    BY <1>6, <2>2 DEF Removed
  <2>4. l.node[wn[q[j]]].wakeable = wk[q[j]]
    BY DEF StandsFor
  <2> QED
    BY <2>1, <2>2, <2>3, <2>4
<1>11. Shape(m, b, InFront(w[p], c))
  BY <1>6 DEF Removed, b
<1> QED
  BY <1>9, <1>10, <1>11 DEF StandsFor, m, a

-----------------------------------------------------------------------------
(* The semaphore with its list.                                            *)

\* The list and the sequence agree.
ListInv ==
  /\ wait_node \in [Threads -> Nat]
  /\ StandsFor(list, queue, wait_node, wakeable)

\* What the semaphore reads through the pointers, as long as they do.
LEMMA Reads ==
  ASSUME TypeOK, QueueInv, ListInv
  PROVE  /\ is_empty(list) <=> queue = <<>>
         /\ \A t \in Threads : pc[t] = "wait" => Woken(t) = wakeable[t]
<1> DEFINE W == NodesOf(queue, wait_node)
<1>1. PICK c : Shape(list, W, c)
  BY DEF ListInv, StandsFor
<1>2. Len(queue) \in Nat /\ Len(W) = Len(queue) /\ (queue = <<>> <=> Len(queue) = 0)
  BY NodesOfSeq, EmptySeq DEF TypeOK
<1>3. is_empty(list) <=> queue = <<>>
  <2> HIDE DEF W
  <2>1. /\ list.head = IF Len(W) = 0 THEN nullptr ELSE W[1]
        /\ \A i \in 1..Len(W) : W[i] # nullptr
    BY <1>1, ShapeParts
  <2> QED
    BY <1>2, <2>1 DEF is_empty
<1>4. ASSUME NEW t \in Threads, pc[t] = "wait" PROVE Woken(t) = wakeable[t]
  <2>1. PICK i \in 1..Len(queue) : queue[i] = t
    BY <1>4 DEF QueueInv, QueueExact
  <2> QED
    BY <2>1 DEF ListInv, StandsFor, Woken
<1> QED
  BY <1>3, <1>4

\* While the pointers stand for the queue, whoever decides by them makes a step of the
\* semaphore that decides by the sequence.
LEMMA LinkedStep ==
  ASSUME TypeOK, QueueInv, ListInv, [LinkedNext]_linkedVars
  PROVE  [Next]_vars
<1>1. CASE UNCHANGED linkedVars
  BY <1>1 DEF linkedVars
<1>2. ASSUME NEW t \in Threads, NEW op \in Ops, NEW r \in Requests,
             \/ AcquireAtOnce(t, op, r, is_empty(list))
             \/ AcquireBlock(t, op, r, is_empty(list))
      PROVE  Next
  <2>1. AcquireAtOnce(t, op, r, queue = <<>>) \/ AcquireBlock(t, op, r, queue = <<>>)
    BY <1>2, Reads DEF AcquireAtOnce, AcquireBlock
  <2> QED
    BY <2>1 DEF Next
<1>3. ASSUME NEW t \in Threads, Granted(t) \/ Requeue(t) \/ GiveUp(t) PROVE Next
  <2>1. pc[t] = "wait"
    BY <1>3 DEF Granted, Requeue, GiveUp, ResumeGranted, ResumeRequeue, Timeout
  <2>2. Woken(t) = wakeable[t]
    BY <2>1, Reads
  <2>3. \/ ResumeGranted(t, wakeable[t]) \/ ResumeRequeue(t, wakeable[t])
        \/ Timeout(t, wakeable[t])
    BY <1>3, <2>2 DEF Granted, Requeue, GiveUp
  <2> QED
    BY <2>3 DEF Next, Resume
<1>4. ASSUME NEW t \in Threads, NEW r \in Requests, TryAcquire(t, r) \/ Post(t, r) PROVE Next
  BY <1>4 DEF Next
<1>5. ASSUME NEW t \in Threads, Release(t) PROVE Next
  BY <1>5 DEF Next
<1> QED
  BY <1>1, <1>2, <1>3, <1>4, <1>5 DEF LinkedNext, WithoutWaiting, Block, GiveBack, Issue

LEMMA ListInit == LinkedInit => ListInv
<1> SUFFICES ASSUME LinkedInit PROVE ListInv
  OBVIOUS
<1>1. queue = <<>> /\ list = NewQueue /\ wait_node = [t \in Threads |-> nullptr]
  BY DEF LinkedInit, Init
<1>2. wait_node \in [Threads -> Nat]
  BY <1>1 DEF nullptr
<1>3. Len(queue) = 0
  BY <1>1, EmptySeq
<1>4. NodesOf(queue, wait_node) = <<>>
  BY <1>3 DEF NodesOf
<1> QED
  BY <1>1, <1>2, <1>3, <1>4, NewQueueShape DEF ListInv, StandsFor


LEMMA ListStep ==
  ASSUME TypeOK, QueueInv, TypeOK', QueueInv', ListInv, [LinkedNext]_linkedVars
  PROVE  ListInv'
<1>1. /\ queue \in Seq(Threads) /\ wakeable \in [Threads -> BOOLEAN]
      /\ queue' \in Seq(Threads) /\ wakeable' \in [Threads -> BOOLEAN]
      /\ Distinct(queue) /\ Distinct(queue')
      /\ \A t \in Threads : pc[t] = "wait" <=> Occurs(t, queue)
      /\ \A t \in Threads : pc[t] = "wait" /\ wakeable[t] => queue # <<>> /\ Head(queue) = t
  BY QueueExactAlt, QueueExactAltNext DEF TypeOK, QueueInv, WakeableIsHead
<1>2. wait_node \in [Threads -> Nat] /\ StandsFor(list, queue, wait_node, wakeable)
  BY DEF ListInv
\* The woken thread dequeues its own node.
<1>3. ASSUME NEW t \in Threads, pc[t] = "wait", wakeable[t],
             NEW wn, NEW wk, \A u \in Threads \ {t} : wn[u] = wait_node[u] /\ wk[u] = wakeable[u]
      PROVE  StandsFor(remove(list, list.head), Dequeue(queue), wn, wk) /\ ~Occurs(t, Dequeue(queue))
  <2>1. queue # <<>> /\ Head(queue) = t /\ Occurs(t, queue)
    BY <1>1, <1>3
  <2>2. list.head = wait_node[t]
    BY <1>1, <1>2, <2>1, HeadStandsFor
  <2>3. Without(queue, t) = Dequeue(queue)
    BY <1>1, <2>1, WithoutHead
  <2>4. StandsFor(remove(list, wait_node[t]), Without(queue, t), wn, wk)
    BY <1>1, <1>2, <1>3, <2>1, RemoveStandsFor
  <2>5. ~Occurs(t, Dequeue(queue))
    BY <1>1, <2>1, DequeueQueue
  <2> QED
    BY <2>2, <2>3, <2>4, <2>5
<1>4. CASE UNCHANGED linkedVars
  BY <1>2, <1>4 DEF linkedVars, vars, ListInv
<1>5. ASSUME NEW t \in Threads, WithoutWaiting(t) PROVE ListInv'
  <2>1. UNCHANGED <<queue, wakeable, list, wait_node>>
    BY <1>5 DEF WithoutWaiting, AcquireAtOnce, TryAcquire
  <2> QED
    BY <1>2, <2>1 DEF ListInv
<1>6. ASSUME NEW t \in Threads, Block(t) PROVE ListInv'
  <2>1. /\ pc[t] = "idle" /\ queue' = Append(queue, t)
        /\ wakeable' = [wakeable EXCEPT ![t] = FALSE]
        /\ list' = enqueue(list) /\ wait_node' = [wait_node EXCEPT ![t] = list'.tail]
    BY <1>6 DEF Block, AcquireBlock, Calls
  <2>2. ~Occurs(t, queue)
    BY <1>1, <2>1
  <2>3. /\ enqueue(list).tail \in Nat
        /\ StandsFor(enqueue(list), Append(queue, t),
                     [wait_node EXCEPT ![t] = enqueue(list).tail], [wakeable EXCEPT ![t] = FALSE])
    BY <1>1, <1>2, <2>2, EnqueueStandsFor
  <2>4. wait_node' \in [Threads -> Nat]
    BY <1>2, <2>1, <2>3
  <2> QED
    BY <2>1, <2>3, <2>4 DEF ListInv
<1>7. ASSUME NEW t \in Threads, Granted(t) PROVE ListInv'
  <2> DEFINE own == [wakeable EXCEPT ![t] = FALSE]
             wn == [wait_node EXCEPT ![t] = nullptr]
             enough == permits' >= RecordMin(request_record')
             l == remove(list, list.head)
  <2>1. /\ pc[t] = "wait" /\ wakeable[t] /\ queue' = Dequeue(queue)
        /\ wakeable' = IF enough THEN WakeHead(queue', own) ELSE own
        /\ list' = IF enough THEN wake_head(l) ELSE l
        /\ wait_node' = wn
    BY <1>7, Reads DEF Granted, ResumeGranted, WakeIfAny
  <2>2. own \in [Threads -> BOOLEAN] /\ wn \in [Threads -> Nat]
    BY <1>1, <1>2 DEF nullptr
  <2>3. \A u \in Threads \ {t} : wn[u] = wait_node[u] /\ own[u] = wakeable[u]
    BY <1>1, <1>2
  <2> HIDE DEF own, wn, enough, l
  <2>4. StandsFor(l, queue', wn, own)
    BY <1>3, <2>1, <2>3 DEF l
  <2>5. StandsFor(wake_head(l), queue', wn, WakeHead(queue', own))
    BY <1>1, <2>2, <2>4, WakeStandsFor
  <2>6. StandsFor(list', queue', wait_node', wakeable')
    BY <2>1, <2>4, <2>5
  <2> QED
    BY <2>1, <2>2, <2>6 DEF ListInv
<1>8. ASSUME NEW t \in Threads, Requeue(t) PROVE ListInv'
  <2> DEFINE l == remove(list, list.head)
             q == Dequeue(queue)
  <2>1. /\ pc[t] = "wait" /\ wakeable[t] /\ queue' = Append(q, t)
        /\ wakeable' = [wakeable EXCEPT ![t] = FALSE]
        /\ list' = enqueue(l) /\ wait_node' = [wait_node EXCEPT ![t] = list'.tail]
    BY <1>8, Reads DEF Requeue, ResumeRequeue
  <2>2. StandsFor(l, q, wait_node, wakeable) /\ ~Occurs(t, q)
    BY <1>3, <2>1
  <2>3. q \in Seq(Threads)
    BY <1>1, DequeueType
  <2> HIDE DEF l, q
  <2>4. /\ enqueue(l).tail \in Nat
        /\ StandsFor(enqueue(l), Append(q, t),
                     [wait_node EXCEPT ![t] = enqueue(l).tail], [wakeable EXCEPT ![t] = FALSE])
    BY <1>1, <1>2, <2>2, <2>3, EnqueueStandsFor
  <2>5. wait_node' \in [Threads -> Nat]
    BY <1>2, <2>1, <2>4
  <2> QED
    BY <2>1, <2>4, <2>5 DEF ListInv
<1>9. ASSUME NEW t \in Threads, GiveUp(t) PROVE ListInv'
  <2>1. /\ pc[t] = "wait" /\ queue' = Without(queue, t) /\ wakeable' = wakeable
        /\ list' = remove(list, wait_node[t])
        /\ wait_node' = [wait_node EXCEPT ![t] = nullptr]
    BY <1>9 DEF GiveUp, Timeout
  <2>2. Occurs(t, queue)
    BY <1>1, <2>1
  <2>3. wait_node' \in [Threads -> Nat] /\ \A u \in Threads \ {t} : wait_node'[u] = wait_node[u]
    BY <1>2, <2>1 DEF nullptr
  <2>4. StandsFor(remove(list, wait_node[t]), Without(queue, t), wait_node', wakeable)
    BY <1>1, <1>2, <2>2, <2>3, RemoveStandsFor
  <2> QED
    BY <2>1, <2>3, <2>4 DEF ListInv
<1>10. ASSUME NEW t \in Threads, GiveBack(t) \/ Issue(t) PROVE ListInv'
  <2> DEFINE enough == permits' >= RecordMin(request_record')
  <2>1. /\ UNCHANGED <<queue, request_record, wait_node>>
        /\ wakeable' = IF permits' >= RecordMin(request_record)
                       THEN WakeHead(queue, wakeable) ELSE wakeable
        /\ list' = IF enough THEN wake_head(list) ELSE list
    BY <1>10 DEF GiveBack, Issue, Release, Post, DoRelease, WakeIfAny
  <2>2. wakeable' = IF enough THEN WakeHead(queue, wakeable) ELSE wakeable
    BY <2>1
  <2> HIDE DEF enough
  <2>3. StandsFor(wake_head(list), queue, wait_node, WakeHead(queue, wakeable))
    BY <1>1, <1>2, WakeStandsFor
  <2>4. StandsFor(list', queue', wait_node', wakeable')
    BY <1>2, <2>1, <2>2, <2>3
  <2> QED
    BY <1>2, <2>1, <2>4 DEF ListInv
<1> QED
  BY <1>4, <1>5, <1>6, <1>7, <1>8, <1>9, <1>10 DEF LinkedNext

\* In every reachable state the list stands for the queue. The list decides the next
\* step, so this is one induction for the queue and the list together.
LEMMA ListInvariant == LinkedSpec => [](TypeOK /\ QueueInv /\ ListInv)
<1>1. LinkedInit => TypeOK /\ QueueInv /\ ListInv
  BY TypeInit, QueueInit, ListInit DEF LinkedInit
<1>2. TypeOK /\ QueueInv /\ ListInv /\ [LinkedNext]_linkedVars => (TypeOK /\ QueueInv /\ ListInv)'
  <2> SUFFICES ASSUME TypeOK, QueueInv, ListInv, [LinkedNext]_linkedVars
               PROVE  TypeOK' /\ QueueInv' /\ ListInv'
    OBVIOUS
  <2>1. [Next]_vars
    BY LinkedStep
  <2>2. TypeOK' /\ QueueInv'
    BY <2>1, TypeStep, QueueStep
  <2> QED
    BY <2>2, ListStep
<1> QED
  BY <1>1, <1>2, PTL DEF LinkedSpec

\* The semaphore that reads head and the flags of its nodes, through whatever
\* enqueue(), remove() and wake_head() made of the pointers, implements the one that
\* reads a sequence of threads: what is proved of that one holds of the code's list.
THEOREM LinkedIsQueued == LinkedSpec => ImplementsQueued
<1>1. LinkedInit => Init
  BY DEF LinkedInit
<1>2. TypeOK /\ QueueInv /\ ListInv /\ [LinkedNext]_linkedVars => [Next]_vars
  BY LinkedStep
<1> QED
  BY <1>1, <1>2, ListInvariant, PTL DEF LinkedSpec, Spec, ImplementsQueued

\* The linked list is always the queue of the waiting threads, linked both ways, with
\* their flags, for any capacity to start with: enqueue(), dequeue(), remove() of a
\* node that timed out, wake_head() and the growth of the cache keep it so.
THEOREM ListAlwaysQueue == LinkedSpec => []ListIsQueue
<1>1. ASSUME TypeOK, QueueInv, ListInv PROVE ListIsQueue
  <2>1. PICK c : Shape(list, NodesOf(queue, wait_node), c)
    BY <1>1 DEF ListInv, StandsFor
  <2>2. QueueIs(list, [i \in 1..Len(queue) |-> wait_node[queue[i]]])
    BY <2>1 DEF Shape, NodesOf
  <2>3. ASSUME NEW t \in Threads, pc[t] = "wait"
        PROVE  list.node[wait_node[t]].wakeable = wakeable[t]
    <3>1. PICK i \in 1..Len(queue) : queue[i] = t
      BY <1>1, <2>3 DEF QueueInv, QueueExact
    <3> QED
      BY <1>1, <3>1 DEF ListInv, StandsFor
  <2> QED
    BY <2>2, <2>3 DEF ListIsQueue
<1> QED
  BY <1>1, ListInvariant, PTL

\* A sequence without repetition counts its elements.
LEMMA DistinctCount ==
  ASSUME NEW S, NEW s \in Seq(S), Distinct(s), \A x \in S : Occurs(x, s)
  PROVE  Cardinality(S) = Len(s) /\ Len(s) \in Nat /\ s \in [1..Len(s) -> S]
<1>1. Len(s) \in Nat /\ s \in [1..Len(s) -> S]
  BY LenProperties
<1>2. s \in Bijection(1..Len(s), S)
  BY <1>1 DEF Bijection, Injection, Surjection, IsInjective, Distinct, Occurs
<1>3. ExistsBijection(1..Len(s), S)
  BY <1>2 DEF ExistsBijection
<1> QED
  BY <1>1, <1>3, FS_CountingElements

\* No node is lost or in use twice, however the cache grows and nodes are re-used:
\* each is at one waiting thread or in the cache.
THEOREM NodesAlwaysAccounted == LinkedSpec => []NodesAccounted
<1>1. ASSUME TypeOK, QueueInv, ListInv PROVE NodesAccounted
  <2> DEFINE W == NodesOf(queue, wait_node)
             used == {wait_node[t] : t \in {u \in Threads : pc[u] = "wait"}}
             free == Nodes(list) \ used
  <2>1. PICK c : Shape(list, W, c)
    BY <1>1 DEF ListInv, StandsFor
  <2>2. /\ Len(queue) \in Nat /\ Len(W) = Len(queue)
        /\ \A i \in 1..Len(queue) : queue[i] \in Threads /\ W[i] = wait_node[queue[i]]
    BY <1>1, NodesOfSeq DEF TypeOK
  <2>3. \A t \in Threads : pc[t] = "wait" <=> \E i \in 1..Len(queue) : queue[i] = t
    BY <1>1 DEF QueueInv, QueueExact
  <2> HIDE DEF W
  <2>4. /\ c \in Seq(Nodes(list)) /\ Distinct(W) /\ Distinct(c)
        /\ \A n \in Nodes(list) : (Occurs(n, W) \/ Occurs(n, c)) /\ ~(Occurs(n, W) /\ Occurs(n, c))
        /\ Len(list.node) = list.cur_queue_capacity
        /\ Chained(list, list.cache_head, c)
        /\ \A i \in 1..Len(c) : list.node[c[i]].prev = nullptr
    BY <2>1 DEF Shape
  <2>5. \A n : n \in used <=> Occurs(n, W)
    <3>1. ASSUME NEW n, n \in used PROVE Occurs(n, W)
      <4>1. PICK t \in Threads : pc[t] = "wait" /\ n = wait_node[t]
        BY <3>1
      <4>2. PICK i \in 1..Len(queue) : queue[i] = t
        BY <2>3, <4>1
      <4> QED
        BY <2>2, <4>1, <4>2 DEF Occurs
    <3>2. ASSUME NEW n, Occurs(n, W) PROVE n \in used
      <4>1. PICK i \in 1..Len(queue) : W[i] = n
        BY <2>2, <3>2 DEF Occurs
      <4>2. queue[i] \in Threads /\ pc[queue[i]] = "wait" /\ n = wait_node[queue[i]]
        BY <2>2, <2>3, <4>1
      <4> QED
        BY <4>2
    <3> QED
      BY <3>1, <3>2
  <2>6. ASSUME NEW t \in Threads, NEW u \in Threads, pc[t] = "wait", pc[u] = "wait",
               wait_node[t] = wait_node[u]
        PROVE  t = u
    <3>1. PICK i \in 1..Len(queue), j \in 1..Len(queue) : queue[i] = t /\ queue[j] = u
      BY <2>3, <2>6
    <3>2. W[i] = W[j]
      BY <2>2, <2>6, <3>1
    <3>3. i = j
      BY <2>2, <2>4, <3>2 DEF Distinct
    <3> QED
      BY <3>1, <3>3
  <2>7. \A n : n \in free <=> Occurs(n, c)
    <3>1. \A n : Occurs(n, c) => n \in Nodes(list)
      BY <2>4, ElementOfSeq DEF Occurs
    <3> HIDE DEF used
    <3> QED
      BY <2>4, <2>5, <3>1
  <2> HIDE DEF free
  <2>8. c \in Seq(free)
    <3>1. Len(c) \in Nat /\ c \in [1..Len(c) -> Nodes(list)]
      BY <2>4, LenProperties
    <3>2. \A i \in 1..Len(c) : c[i] \in free
      BY <2>7 DEF Occurs
    <3>3. c \in [1..Len(c) -> free]
      BY <3>1, <3>2
    <3> QED
      BY <3>1, <3>3
  <2>9. Cardinality(free) = Len(c) /\ c \in [1..Len(c) -> free]
    BY <2>4, <2>7, <2>8, DistinctCount
  <2>10. {c[i] : i \in 1..Len(c)} = free
    BY <2>7 DEF Occurs
  <2>11. \E s \in [1..Cardinality(free) -> free] :
           Chained(list, list.cache_head, s) /\ {s[i] : i \in 1..Len(s)} = free
    BY <2>4, <2>9, <2>10
  <2>12. \A n \in free : list.node[n].prev = nullptr
    BY <2>4, <2>7 DEF Occurs
  <2> QED
    BY <2>4, <2>6, <2>11, <2>12 DEF NodesAccounted, free, used
<1> QED
  BY <1>1, ListInvariant, PTL


=============================================================================
