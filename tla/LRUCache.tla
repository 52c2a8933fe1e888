------------------------------ MODULE LRUCache ------------------------------
(***************************************************************************)
(* conc11::LRUCache and BlockingLRUCache (src/util/lru_cache.h), the       *)
(* latter with FairSpinLock as its Mutex.                                  *)
(*                                                                         *)
(* Threads call the cache with the lock held. Each call is split into the  *)
(* operations on the map and on the intrusive list that it is made of, so  *)
(* that what the lock protects is visible. The map has one node per key,   *)
(* and a pointer to a node is its key. get(), get_copy() and               *)
(* get_copy_pointee() differ in what they hand out only.                   *)
(***************************************************************************)
EXTENDS FairSpinLock, LRU

CONSTANT Capacities   \* constructor arguments to try

ASSUME CapacitiesAssumption == Capacities \subseteq Nat /\ Capacities # {}

VARIABLES
  mem,             \* Entry of each key in the cache
  lru_list_head, lru_list_tail,
  capacity,
  pc,
  call,            \* the call each thread inside the lock makes
  cur,             \* the element it is working on
  out,             \* what the call returns
  before           \* history: the contents when the lock was taken

lockVars == <<next, active, ticket, line>>
listVars == <<mem, lru_list_head, lru_list_tail>>
vars == <<lockVars, listVars, capacity, pc, call, cur, out, before>>

NoCall == [kind |-> "clear", key |-> None, value |-> None]
Missed == [found |-> FALSE, value |-> None]

Init ==
  /\ LockInit
  /\ mem = <<>> /\ lru_list_head = None /\ lru_list_tail = None
  /\ capacity \in Capacities
  /\ pc = [t \in Threads |-> "idle"]
  /\ call = [t \in Threads |-> NoCall]
  /\ cur = [t \in Threads |-> None]
  /\ out = [t \in Threads |-> Missed]
  /\ before = <<>>

Goto(t, l) == pc' = [pc EXCEPT ![t] = l]

-----------------------------------------------------------------------------
(* What the list stands for.                                               *)

\* The elements of the cache in the order s: both chains of pointers, both ends.
Linked(s) ==
  /\ \A i, j \in 1..Len(s) : s[i] = s[j] => i = j
  /\ lru_list_head = IF s = <<>> THEN None ELSE s[1]
  /\ lru_list_tail = IF s = <<>> THEN None ELSE s[Len(s)]
  /\ \A i \in 1..Len(s) :
       /\ mem[s[i]].parent = IF i = 1 THEN None ELSE s[i - 1]
       /\ mem[s[i]].child = IF i = Len(s) THEN None ELSE s[i + 1]

Orders == [1..Cardinality(DOMAIN mem) -> DOMAIN mem]

Contents ==
  LET s == CHOOSE s \in Orders : Linked(s) IN
  [i \in 1..Len(s) |-> [key |-> s[i], value |-> mem[s[i]].value]]

-----------------------------------------------------------------------------
(* The list operations.                                                    *)

InsertKeepingHead(e) ==   \* mutant: the old head does not learn of its parent
  /\ lru_list_head' = e
  /\ lru_list_tail' = IF lru_list_head = None THEN e ELSE lru_list_tail
  /\ mem' = [mem EXCEPT ![e].parent = None, ![e].child = lru_list_head]

list_insert_head(e) ==
  /\ lru_list_head' = e
  /\ lru_list_tail' = IF lru_list_head = None THEN e ELSE lru_list_tail
  /\ mem' = [k \in DOMAIN mem |->
               CASE k = e             -> [mem[k] EXCEPT !.parent = None, !.child = lru_list_head]
                 [] k = lru_list_head -> [mem[k] EXCEPT !.parent = e]
                 [] OTHER             -> mem[k]]

list_release(e) ==
  LET p == mem[e].parent
      c == mem[e].child
  IN
  /\ lru_list_head' = IF p = None THEN c ELSE lru_list_head
  /\ lru_list_tail' = IF c = None THEN p ELSE lru_list_tail
  /\ mem' = [k \in DOMAIN mem |-> [mem[k] EXCEPT !.child  = IF k = p THEN c ELSE @,
                                                 !.parent = IF k = c THEN p ELSE @]]

-----------------------------------------------------------------------------
(* lock() and unlock() around each call.                                   *)

Lock(t) ==
  /\ pc[t] = "idle"
  /\ TakeTicket(t)
  /\ Goto(t, "spin")
  /\ UNCHANGED <<listVars, capacity, call, cur, out, before>>

\* Which call it is matters only from here on.
Enter(t) ==
  /\ pc[t] = "spin" /\ Admitted(t)
  /\ \E c \in Calls : call' = [call EXCEPT ![t] = c]
  /\ before' = Contents
  /\ Goto(t, "find")
  /\ UNCHANGED <<lockVars, listVars, capacity, cur, out>>

\* The locals of the call end with it.
Unlock(t) ==
  /\ pc[t] = "unlock"
  /\ PassOn(t)
  /\ Goto(t, "idle")
  /\ call' = [call EXCEPT ![t] = NoCall]
  /\ cur' = [cur EXCEPT ![t] = None]
  /\ out' = [out EXCEPT ![t] = Missed]
  /\ before' = <<>>
  /\ UNCHANGED <<listVars, capacity>>

-----------------------------------------------------------------------------
(* The calls. Each begins with mem.find(key).                              *)

Hit(t)  == pc[t] = "find" /\ call[t].key \in DOMAIN mem
Miss(t) == pc[t] = "find" /\ call[t].key \notin DOMAIN mem

FindAgain(t) ==   \* mutant: a call that finds nothing looks again
  /\ Miss(t) /\ call[t].kind \notin {"set", "clear"}
  /\ UNCHANGED vars

\* Nothing found; clear() and a set() of a new key are below.
NotFound(t) ==
  /\ Miss(t) /\ call[t].kind \notin {"set", "clear"}
  /\ Goto(t, "unlock")
  /\ UNCHANGED <<lockVars, listVars, capacity, call, cur, out, before>>

HasKey(t) ==
  /\ Hit(t) /\ call[t].kind = "has_key"
  /\ out' = [out EXCEPT ![t] = [found |-> TRUE, value |-> None]]
  /\ Goto(t, "unlock")
  /\ UNCHANGED <<lockVars, listVars, capacity, call, cur, before>>

SetNew(t) ==
  LET k == call[t].key IN
  /\ Miss(t) /\ call[t].kind = "set"
  /\ mem' = [x \in DOMAIN mem \cup {k} |->
               IF x = k THEN [value |-> call[t].value, parent |-> None, child |-> None]
               ELSE mem[x]]
  /\ cur' = [cur EXCEPT ![t] = k]
  /\ Goto(t, "insert_new")
  /\ UNCHANGED <<lockVars, lru_list_head, lru_list_tail, capacity, call, out, before>>

SetKnown(t) ==
  /\ Hit(t) /\ call[t].kind = "set"
  /\ mem' = [mem EXCEPT ![call[t].key].value = call[t].value]
  /\ cur' = [cur EXCEPT ![t] = call[t].key]
  /\ Goto(t, "move_release")
  /\ UNCHANGED <<lockVars, lru_list_head, lru_list_tail, capacity, call, out, before>>

GetWithoutTouch(t) ==   \* mutant: a lookup does not count as a use
  /\ Hit(t) /\ call[t].kind = "get"
  /\ out' = [out EXCEPT ![t] = [found |-> TRUE, value |-> mem[call[t].key].value]]
  /\ Goto(t, "unlock")
  /\ UNCHANGED <<lockVars, listVars, capacity, call, cur, before>>

Get(t) ==
  /\ Hit(t) /\ call[t].kind = "get"
  /\ out' = [out EXCEPT ![t] = [found |-> TRUE, value |-> mem[call[t].key].value]]
  /\ cur' = [cur EXCEPT ![t] = call[t].key]
  /\ Goto(t, "move_release")
  /\ UNCHANGED <<lockVars, listVars, capacity, call, before>>

\* get_move() and erase()
Take(t) ==
  /\ Hit(t) /\ call[t].kind \in {"take", "erase"}
  /\ out' = [out EXCEPT ![t] = [found |-> TRUE,
       value |-> IF call[t].kind = "take" THEN mem[call[t].key].value ELSE None]]
  /\ cur' = [cur EXCEPT ![t] = call[t].key]
  /\ Goto(t, "drop_release")
  /\ UNCHANGED <<lockVars, listVars, capacity, call, before>>

Clear(t) ==
  /\ pc[t] = "find" /\ call[t].kind = "clear"
  /\ mem' = <<>> /\ lru_list_head' = None /\ lru_list_tail' = None
  /\ Goto(t, "unlock")
  /\ UNCHANGED <<lockVars, capacity, call, cur, out, before>>

-----------------------------------------------------------------------------
(* The rest of a call that found its element, or made it.                  *)

Release(t) ==
  /\ pc[t] \in {"move_release", "drop_release"}
  /\ list_release(cur[t])
  /\ Goto(t, IF pc[t] = "move_release" THEN "move_insert" ELSE "drop_erase")
  /\ UNCHANGED <<lockVars, capacity, call, cur, out, before>>

\* Only a new element can be one too many.
Insert(t) ==
  /\ pc[t] \in {"move_insert", "insert_new"}
  /\ list_insert_head(cur[t])
  /\ Goto(t, IF pc[t] = "insert_new" /\ Cardinality(DOMAIN mem) > capacity
             THEN "gc" ELSE "unlock")
  /\ UNCHANGED <<lockVars, capacity, call, cur, out, before>>

\* gc1() chooses the tail and then does what erase() does.
Gc(t) ==
  /\ pc[t] = "gc"
  /\ cur' = [cur EXCEPT ![t] = lru_list_tail]
  /\ Goto(t, "drop_release")
  /\ UNCHANGED <<lockVars, listVars, capacity, call, out, before>>

\* mem.erase()
Erase(t) ==
  /\ pc[t] = "drop_erase"
  /\ mem' = [k \in DOMAIN mem \ {cur[t]} |-> mem[k]]
  /\ Goto(t, "unlock")
  /\ UNCHANGED <<lockVars, lru_list_head, lru_list_tail, capacity, call, cur, out, before>>

-----------------------------------------------------------------------------
(* Specification.                                                          *)

Step(t) ==
  \/ Enter(t) \/ Unlock(t)
  \/ NotFound(t) \/ HasKey(t) \/ SetNew(t) \/ SetKnown(t) \/ Get(t) \/ Take(t) \/ Clear(t)
  \/ Release(t) \/ Insert(t) \/ Gc(t) \/ Erase(t)

Next == \E t \in Threads : Lock(t) \/ Step(t)

Spec == Init /\ [][Next]_vars

\* A thread inside a call, spinning or not, is scheduled. Nobody has to call.
FairSpec == Spec /\ \A t \in Threads : WF_vars(Step(t))

-----------------------------------------------------------------------------
(* Properties.                                                             *)

\* Between the calls the map and the list hold the same elements, the list can be
\* followed from either end, and the cache is within its capacity, whatever was
\* set, used, evicted, taken out or erased before and by whom.
ListExact ==
  (\A t \in Threads : pc[t] \in {"idle", "spin", "find", "unlock"}) =>
    /\ \E s \in Orders : Linked(s)
    /\ Cardinality(DOMAIN mem) <= capacity

\* Each call does what the least-recently-used cache would, on the contents it
\* found when it got the lock: the right victim is evicted, each use counts and
\* has_key() does not ("Does not count as a usage"), and the answer is right.
CallsAreLRU ==
  \A t \in Threads : pc[t] = "unlock" =>
    /\ Contents = After(before, call[t], capacity)
    /\ out[t] = Answer(before, call[t])

\* "A fair spin lock": threads get the lock in the order in which they drew their
\* tickets, one at a time, also when the counters wrap around and there are as
\* many threads as tickets.
ServedInOrder ==
  \A t \in Threads : pc[t] \notin {"idle", "spin"} => line # <<>> /\ Head(line) = t

\* Every call on the cache returns, however often the other threads call.
CallReturns == \A t \in Threads : pc[t] = "spin" ~> pc[t] = "idle"

=============================================================================
