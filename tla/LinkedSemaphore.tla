--------------------------- MODULE LinkedSemaphore --------------------------
(***************************************************************************)
(* QueuedSemaphore with its wait queue as it is in memory. The steps are   *)
(* those of module QueuedSemaphore, but all they read of the wait queue    *)
(* they read through the pointers: whether it is empty, and whether the    *)
(* thread's own node was woken. The sequence queue and the flags wakeable  *)
(* are written along and read by no guard; they are the history that says  *)
(* what the list should stand for.                                         *)
(***************************************************************************)
EXTENDS QueuedSemaphore, WaitQueue

VARIABLES
  list,        \* the member queue
  wait_node    \* the local variable of try_acquire0() in each waiting thread

linkedVars == <<vars, list, wait_node>>

LinkedInit ==
  /\ Init
  /\ list = NewQueue
  /\ wait_node = [t \in Threads |-> nullptr]

\* The wait predicate of thread t
Woken(t) == list.node[wait_node[t]].wakeable

\* The calls that do not touch the list.
WithoutWaiting(t) ==
  /\ \/ \E op \in Ops, r \in Requests : AcquireAtOnce(t, op, r, is_empty(list))
     \/ \E r \in Requests : TryAcquire(t, r)
  /\ UNCHANGED <<list, wait_node>>

Block(t) ==
  /\ \E op \in Ops, r \in Requests : AcquireBlock(t, op, r, is_empty(list))
  /\ list' = enqueue(list)
  /\ wait_node' = [wait_node EXCEPT ![t] = list'.tail]

\* "propogate waking signal if there are permits left now"
WakeIfAny(l) == IF permits' >= RecordMin(request_record') THEN wake_head(l) ELSE l

Granted(t) ==
  /\ ResumeGranted(t, Woken(t))
  /\ list' = WakeIfAny(remove(list, list.head))
  /\ wait_node' = [wait_node EXCEPT ![t] = nullptr]

Requeue(t) ==
  /\ ResumeRequeue(t, Woken(t))
  /\ list' = enqueue(remove(list, list.head))
  /\ wait_node' = [wait_node EXCEPT ![t] = list'.tail]

GiveUp(t) ==
  /\ Timeout(t, Woken(t))
  /\ list' = remove(list, wait_node[t])
  /\ wait_node' = [wait_node EXCEPT ![t] = nullptr]

\* release() by a thread that holds permits, and by one that does not
GiveBack(t) == Release(t) /\ list' = WakeIfAny(list) /\ UNCHANGED wait_node

Issue(t) ==
  /\ \E r \in Requests : Post(t, r)
  /\ list' = WakeIfAny(list)
  /\ UNCHANGED wait_node

LinkedNext ==
  \E t \in Threads :
    \/ WithoutWaiting(t) \/ Block(t) \/ Granted(t) \/ Requeue(t) \/ GiveUp(t)
    \/ GiveBack(t) \/ Issue(t)

LinkedSpec == LinkedInit /\ [][LinkedNext]_linkedVars

\* A woken thread is eventually scheduled, and whoever holds permits gives them back.
LinkedFairness ==
  \A t \in Threads : /\ WF_linkedVars(Granted(t) \/ Requeue(t))
                    /\ WF_linkedVars(GiveBack(t))

FairLinkedSpec == LinkedSpec /\ LinkedFairness

-----------------------------------------------------------------------------
(* Properties.                                                             *)

\* The linked list is the queue: its nodes are those of the waiting threads in
\* their order, linked both ways with the right ends, and the flag of each node is
\* the one its thread is to see. Blocking, waking, leaving from the middle by a
\* time-out and re-use of nodes in any order keep it so.
ListIsQueue ==
  /\ QueueIs(list, [i \in 1..Len(queue) |-> wait_node[queue[i]]])
  /\ \A t \in Threads : pc[t] = "wait" => list.node[wait_node[t]].wakeable = wakeable[t]

\* The semaphore that decides by its pointers does what the one that decides by a
\* sequence of waiting threads does: is_empty() never mistakes the queue, and nobody
\* leaves its wait, or fails to, by the flag of a node that is not its own or that was
\* left set by an earlier user.
ImplementsQueued == Spec

\* No node is lost or used twice: those that nobody waits at are in the cache, once
\* each, with prev cleared ("already guaranteed", says enqueue()), and there are as
\* many nodes as cur_queue_capacity says.
NodesAccounted ==
  LET used == {wait_node[t] : t \in {u \in Threads : pc[u] = "wait"}}
      free == Nodes(list) \ used
  IN
  /\ Len(list.node) = list.cur_queue_capacity
  /\ \A t, u \in Threads : pc[t] = "wait" /\ pc[u] = "wait" /\ wait_node[t] = wait_node[u] => t = u
  /\ \E s \in [1..Cardinality(free) -> free] :
       Chained(list, list.cache_head, s) /\ {s[i] : i \in 1..Len(s)} = free
  /\ \A n \in free : list.node[n].prev = nullptr

=============================================================================
