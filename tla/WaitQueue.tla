------------------------------ MODULE WaitQueue -----------------------------
(***************************************************************************)
(* QueuedSemaphore::WaitQueue (src/concurrency/semaphore.h): a doubly      *)
(* linked list of wait nodes, and a forward linked cache of unused ones.   *)
(*                                                                         *)
(* A list is a record of the class's fields and of the nodes on the heap,  *)
(* which are numbered in the order of their allocation; 0 is nullptr. The  *)
(* semaphore calls everything under its main_lock, so the operations are   *)
(* functions from lists to lists.                                          *)
(***************************************************************************)
EXTENDS Integers, Sequences

CONSTANT InitialCapacity   \* 256 in the code

ASSUME CapacityAssumption == InitialCapacity \in Nat \ {0}

nullptr == 0

Nodes(l) == DOMAIN l.node

\* The new nodes are chained in front of the cache, the last one first.
alloc_cache(l) ==
  LET n == Len(l.node) IN
  [l EXCEPT !.cache_head = n + l.cur_queue_capacity,
            !.node = @ \o [i \in 1..l.cur_queue_capacity |->
                             [prev |-> nullptr, wakeable |-> FALSE,
                              next |-> IF i = 1 THEN l.cache_head ELSE n + i - 1]]]

NewQueue ==
  alloc_cache([head |-> nullptr, tail |-> nullptr, cache_head |-> nullptr,
               cur_queue_capacity |-> InitialCapacity, node |-> <<>>])

\* The list with a node in its cache.
Refilled(l) ==
  IF l.cache_head # nullptr THEN l
  ELSE [alloc_cache(l) EXCEPT !.cur_queue_capacity = 2 * @]

EnqueueStale(list) ==   \* mutant: the flag of a used node is not cleared
  LET l == Refilled(list)
      cur == l.cache_head
  IN
  [l EXCEPT
     !.cache_head = l.node[cur].next,
     !.head = IF l.tail = nullptr THEN cur ELSE @,
     !.tail = cur,
     !.node = [i \in Nodes(l) |->
       IF i = cur THEN [l.node[i] EXCEPT !.next = nullptr,
                                         !.prev = IF l.tail = nullptr THEN @ ELSE l.tail]
       ELSE IF i = l.tail THEN [l.node[i] EXCEPT !.next = cur]
       ELSE l.node[i]]]

\* enqueue() returns the node at the head of the cache; prev of a first node is
\* left as it is.
enqueue(list) ==
  LET l == Refilled(list)
      cur == l.cache_head
  IN
  [l EXCEPT
     !.cache_head = l.node[cur].next,
     !.head = IF l.tail = nullptr THEN cur ELSE @,
     !.tail = cur,
     !.node = [i \in Nodes(l) |->
       IF i = cur THEN [wakeable |-> FALSE, next |-> nullptr,
                        prev |-> IF l.tail = nullptr THEN l.node[i].prev ELSE l.tail]
       ELSE IF i = l.tail THEN [l.node[i] EXCEPT !.next = cur]
       ELSE l.node[i]]]

\* remove(): the list without node n, which goes to the cache
RemoveKeepingPrev(l, n) ==   \* mutant: a recycled node keeps its old prev
  IF n = nullptr THEN l
  ELSE
    [l EXCEPT
       !.head = IF n = @ THEN l.node[n].next ELSE @,
       !.tail = IF n = @ THEN l.node[n].prev ELSE @,
       !.cache_head = n,
       !.node = [i \in Nodes(l) |->
         IF i = n THEN [l.node[i] EXCEPT !.next = l.cache_head]
         ELSE [l.node[i] EXCEPT !.next = IF i = l.node[n].prev THEN l.node[n].next ELSE @,
                                !.prev = IF i = l.node[n].next THEN l.node[n].prev ELSE @]]]

remove(l, n) ==
  LET last == n = l.head /\ l.head = l.tail
      h == IF last THEN nullptr ELSE l.head
      e == IF last THEN nullptr ELSE l.tail
  IN
  IF n = nullptr THEN l
  ELSE
    [l EXCEPT
       !.head = IF n = h THEN l.node[n].next ELSE h,
       !.tail = IF n = e THEN l.node[n].prev ELSE e,
       !.cache_head = n,
       !.node = [i \in Nodes(l) |->
         IF i = n THEN [l.node[i] EXCEPT !.prev = nullptr, !.next = l.cache_head]
         ELSE [l.node[i] EXCEPT !.next = IF i = l.node[n].prev THEN l.node[n].next ELSE @,
                                !.prev = IF i = l.node[n].next THEN l.node[n].prev ELSE @]]]

is_empty(l) == l.head = nullptr

wake_nobody(l) == l   \* mutant: no wake-up
wake_tail(l) ==       \* mutant: the wrong end of the queue
  IF l.head = nullptr THEN l ELSE [l EXCEPT !.node[l.tail].wakeable = TRUE]

wake_head(l) == IF l.head = nullptr THEN l ELSE [l EXCEPT !.node[l.head].wakeable = TRUE]

-----------------------------------------------------------------------------
(* What the pointers stand for.                                            *)

\* Starting at first, the pointers next of the nodes give the sequence s.
Chained(l, first, s) ==
  /\ first = IF s = <<>> THEN nullptr ELSE s[1]
  /\ \A i \in 1..Len(s) : l.node[s[i]].next = IF i = Len(s) THEN nullptr ELSE s[i + 1]

\* The queue consists of the nodes s, linked both ways.
QueueIs(l, s) ==
  /\ Chained(l, l.head, s)
  /\ l.tail = IF s = <<>> THEN nullptr ELSE s[Len(s)]
  /\ \A i \in 1..Len(s) : l.node[s[i]].prev = IF i = 1 THEN nullptr ELSE s[i - 1]

=============================================================================
