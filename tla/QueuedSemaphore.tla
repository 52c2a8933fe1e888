--------------------------- MODULE QueuedSemaphore --------------------------
(***************************************************************************)
(* conc11::QueuedSemaphore (src/concurrency/semaphore.h).                  *)
(*                                                                         *)
(* Every member function runs under main_lock up to its end or to a wait   *)
(* on the condition variable of its own WaitNode, so each such section is  *)
(* one step. A waiting thread owns exactly one WaitNode; the wait queue is *)
(* the sequence of the owners. Its condition variable needs no state of    *)
(* its own: the wait predicate is the flag wakeable, and a thread that     *)
(* wakes up without it waits again.                                        *)
(***************************************************************************)
EXTENDS IntConversions, Sequences, FiniteSets

CONSTANTS
  Threads,
  Requests,        \* sizes of the requests made
  InitialPermits,  \* constructor argument
  Menu,            \* Menu[t]: the calls <<operation, request>> thread t makes
  PermitBound,     \* bound: releases without an acquire stop at this many permits
  RecordBound      \* bound: no timed call when its size is recorded this often

\* "acquire": acquire(), also through SemaphoreGuard and lock() of the adapter;
\* "timed": try_acquire_for(); "try": try_acquire(); "post": release() by a
\* thread that acquired nothing.
Ops == {"acquire", "timed", "try", "post"}

ASSUME ConstantsAssumption ==
  /\ Requests \subseteq UnsignedInt /\ Requests # {}
  /\ InitialPermits \in Int
  /\ PermitBound \in Nat /\ RecordBound \in Nat
  /\ Menu \in [Threads -> SUBSET (Ops \X Requests)]

VARIABLES
  permits,
  queue,           \* the waiting threads, head first
  wakeable,        \* WaitNode::wakeable of the node of each thread
  request_record,  \* how often each request size is recorded as waiting
  pc,
  request,         \* the argument of the call each thread is in
  timed,           \* whether that call has a deadline
  arrivals         \* history: the blocked threads in the order they blocked

vars == <<permits, queue, wakeable, request_record, pc, request, timed, arrivals>>

PC == {"idle", "wait", "hold"}

Init ==
  /\ permits = InitialPermits
  /\ queue = <<>>
  /\ wakeable = [t \in Threads |-> FALSE]
  /\ request_record = [r \in Requests |-> 0]
  /\ pc = [t \in Threads |-> "idle"]
  /\ request = [t \in Threads |-> CHOOSE r \in Requests : TRUE]
  /\ timed = [t \in Threads |-> FALSE]
  /\ arrivals = <<>>

-----------------------------------------------------------------------------
(* Helpers.                                                                *)

\* The smallest size in the record rec.
Smallest(rec) ==
  CHOOSE r \in Requests : rec[r] > 0 /\ \A q \in Requests : rec[q] > 0 => r <= q

\* request_record_min() returns it as an int.
RecordMin(rec) == IF \E r \in Requests : rec[r] > 0 THEN AsInt(Smallest(rec)) ELSE 0

\* request_record_insert() and request_record_remove()
InsertKnown(rec, r) ==   \* mutant: a size seen for the first time is not recorded
  [rec EXCEPT ![r] = IF @ > 0 THEN @ + 1 ELSE @]
RecordInsert(rec, r) == [rec EXCEPT ![r] = @ + 1]

RemoveTwice(rec, r) ==   \* mutant: the last one is erased and decremented
  [rec EXCEPT ![r] = IF @ = 1 THEN @ - 2 ELSE @ - 1]
RecordRemove(rec, r) == [rec EXCEPT ![r] = IF @ > 0 THEN @ - 1 ELSE @]

\* WaitQueue::wake_head() on the queue q and flags wk
WakeHead(q, wk) == IF q = <<>> THEN wk ELSE [wk EXCEPT ![Head(q)] = TRUE]

\* WaitQueue::remove(): unlink the node of t from the sequence s
Position(s, t) == CHOOSE i \in 1..Len(s) : s[i] = t

StillLinked(s, t) == s   \* mutant: the node stays in the queue
Without(s, t) ==
  [i \in 1..(Len(s) - 1) |-> IF i < Position(s, t) THEN s[i] ELSE s[i + 1]]

\* WaitQueue::dequeue() removes whatever is at the head, if anything.
Dequeue(q) == IF q = <<>> THEN q ELSE Tail(q)

\* Thread t, not in a call, calls operation op with request r.
Calls(t, op, r) == pc[t] = "idle" /\ <<op, r>> \in Menu[t]

-----------------------------------------------------------------------------
(* try_acquire0(), the body of acquire() and try_acquire_for(). What it     *)
(* reads of the wait queue is an argument of its steps: empty is what      *)
(* is_empty() says and woken the flag of the thread's node.                *)

AcquireBarging(t, op, r, empty) ==   \* mutant: overtakes the queue
  /\ op \in {"acquire", "timed"} /\ Calls(t, op, r)
  /\ permits >= AsInt(r)
  /\ permits' = permits - AsInt(r)
  /\ pc' = [pc EXCEPT ![t] = "hold"]
  /\ request' = [request EXCEPT ![t] = r]
  /\ UNCHANGED <<queue, wakeable, request_record, timed, arrivals>>

\* There are permits and nobody waits.
AcquireAtOnce(t, op, r, empty) ==
  /\ op \in {"acquire", "timed"} /\ Calls(t, op, r)
  /\ permits >= AsInt(r) /\ empty
  /\ permits' = permits - AsInt(r)
  /\ pc' = [pc EXCEPT ![t] = "hold"]
  /\ request' = [request EXCEPT ![t] = r]
  /\ UNCHANGED <<queue, wakeable, request_record, timed, arrivals>>

\* Otherwise record the request, enqueue a node and wait.
AcquireBlock(t, op, r, empty) ==
  /\ op \in {"acquire", "timed"} /\ Calls(t, op, r)
  /\ ~(permits >= AsInt(r) /\ empty)
  /\ op = "timed" => request_record[r] < RecordBound
  /\ request_record' = RecordInsert(request_record, r)
  /\ queue' = Append(queue, t)
  /\ wakeable' = [wakeable EXCEPT ![t] = FALSE]
  /\ pc' = [pc EXCEPT ![t] = "wait"]
  /\ request' = [request EXCEPT ![t] = r]
  /\ timed' = [timed EXCEPT ![t] = (op = "timed")]
  /\ arrivals' = Append(arrivals, t)
  /\ UNCHANGED permits

\* The woken thread dequeues the head and takes its permits; what is left may
\* do for the next head.
ResumeGranted(t, woken) ==
  /\ pc[t] = "wait" /\ woken
  /\ permits >= AsInt(request[t])
  /\ permits' = permits - AsInt(request[t])
  /\ request_record' = RecordRemove(request_record, request[t])
  /\ queue' = Dequeue(queue)
  /\ LET own == [wakeable EXCEPT ![t] = FALSE] IN
     wakeable' = IF permits' >= RecordMin(request_record')
                 THEN WakeHead(queue', own) ELSE own
  /\ pc' = [pc EXCEPT ![t] = "hold"]
  /\ arrivals' = Without(arrivals, t)
  /\ UNCHANGED <<request, timed>>

\* Not enough permits: dequeue the head, enqueue a new node, wait again.
ResumeRequeue(t, woken) ==
  /\ pc[t] = "wait" /\ woken
  /\ ~(permits >= AsInt(request[t]))
  /\ queue' = Append(Dequeue(queue), t)
  /\ wakeable' = [wakeable EXCEPT ![t] = FALSE]
  /\ UNCHANGED <<permits, request_record, pc, request, timed, arrivals>>

\* wait_until() gives up, its predicate still false. The request stays in
\* request_record, and the new head of the queue is not looked at.
Timeout(t, woken) ==
  /\ pc[t] = "wait" /\ timed[t] /\ ~woken
  /\ queue' = Without(queue, t)
  /\ pc' = [pc EXCEPT ![t] = "idle"]
  /\ arrivals' = Without(arrivals, t)
  /\ UNCHANGED <<permits, wakeable, request_record, request, timed>>

-----------------------------------------------------------------------------
(* try_acquire() and release().                                            *)

TakeUnchecked(t, r) ==   \* mutant: no comparison
  /\ Calls(t, "try", r)
  /\ permits' = permits - AsInt(r)
  /\ pc' = [pc EXCEPT ![t] = "hold"]
  /\ request' = [request EXCEPT ![t] = r]
  /\ UNCHANGED <<queue, wakeable, request_record, timed, arrivals>>

TryAcquire(t, r) ==
  /\ Calls(t, "try", r)
  /\ AsUnsigned(permits) >= r
  /\ permits' = permits - AsInt(r)
  /\ pc' = [pc EXCEPT ![t] = "hold"]
  /\ request' = [request EXCEPT ![t] = r]
  /\ UNCHANGED <<queue, wakeable, request_record, timed, arrivals>>

ReleaseOne(r) ==   \* mutant: the argument is ignored
  /\ permits' = permits + 1
  /\ wakeable' = IF permits' >= RecordMin(request_record)
                 THEN WakeHead(queue, wakeable) ELSE wakeable
  /\ UNCHANGED <<queue, request_record, request, timed, arrivals>>

ReleaseTooStrict(r) ==   \* mutant: > for >=
  /\ permits' = permits + AsInt(r)
  /\ wakeable' = IF permits' > RecordMin(request_record)
                 THEN WakeHead(queue, wakeable) ELSE wakeable
  /\ UNCHANGED <<queue, request_record, request, timed, arrivals>>

DoRelease(r) ==
  /\ permits' = permits + AsInt(r)
  /\ wakeable' = IF permits' >= RecordMin(request_record)
                 THEN WakeHead(queue, wakeable) ELSE wakeable
  /\ UNCHANGED <<queue, request_record, request, timed, arrivals>>

Release(t) ==
  /\ pc[t] = "hold"
  /\ DoRelease(request[t])
  /\ pc' = [pc EXCEPT ![t] = "idle"]

Post(t, r) ==
  /\ Calls(t, "post", r)
  /\ permits + AsInt(r) <= PermitBound
  /\ DoRelease(r)
  /\ UNCHANGED pc

-----------------------------------------------------------------------------
(* Specification.                                                          *)

Resume(t) == ResumeGranted(t, wakeable[t]) \/ ResumeRequeue(t, wakeable[t])

Next ==
  \E t \in Threads :
    \/ \E op \in Ops, r \in Requests :
         AcquireAtOnce(t, op, r, queue = <<>>) \/ AcquireBlock(t, op, r, queue = <<>>)
    \/ \E r \in Requests : TryAcquire(t, r) \/ Post(t, r)
    \/ Resume(t) \/ Timeout(t, wakeable[t]) \/ Release(t)

Spec == Init /\ [][Next]_vars

\* A thread that was woken is eventually scheduled.
WakeFairness == \A t \in Threads : WF_vars(Resume(t))

\* Besides, whoever holds permits gives them back, as SemaphoreGuard does.
ReleaseFairness == \A t \in Threads : WF_vars(Release(t))

FairSpec == Spec /\ WakeFairness /\ ReleaseFairness

-----------------------------------------------------------------------------
(* Properties.                                                             *)

\* The types of the variables.
TypeOK ==
  /\ permits \in Int
  /\ queue \in Seq(Threads)
  /\ wakeable \in [Threads -> BOOLEAN]
  /\ request_record \in [Requests -> Nat]
  /\ pc \in [Threads -> PC]
  /\ request \in [Threads -> Requests]
  /\ timed \in [Threads -> BOOLEAN]
  /\ arrivals \in Seq(Threads)

\* The queue holds every blocked thread exactly once.
QueueExact ==
  /\ \A t \in Threads : pc[t] = "wait" <=> \E i \in 1..Len(queue) : queue[i] = t
  /\ \A i, j \in 1..Len(queue) : queue[i] = queue[j] => i = j

\* "When control reaches here current thread is at the head of the queue": a
\* woken thread is the head until it runs, whatever is released, timed out or
\* barged in between, so dequeue() removes its own node.
WakeableIsHead ==
  \A t \in Threads : pc[t] = "wait" /\ wakeable[t] => queue # <<>> /\ Head(queue) = t

\* The record never misses a waiting request, so release() never skips a wake-up
\* because request_record_min() is too large.
RecordCoversQueue ==
  \A r \in Requests :
    Cardinality({t \in Threads : pc[t] = "wait" /\ request[t] = r}) <= request_record[r]

\* Permits are never overdrawn ("BOOM when something went very wrong").
PermitsNonNegative == permits >= 0

\* The semaphore implements the counting semaphore: queueing, waking, timing out
\* and re-queueing never create, lose or overdraw permits.
Held == [t \in Threads |-> IF pc[t] = "hold" THEN request[t] ELSE 0]
Abstract == INSTANCE Semaphore WITH held <- Held, Sizes <- Requests
ImplementsSemaphore == Abstract!Spec

\* No wake-up is missing: when the head of the queue could be served, it has been
\* woken. (Requests of one size only; see the README.)
NoStrandedHead ==
  queue # <<>> /\ permits >= request[Head(queue)] => wakeable[Head(queue)]

\* "A fair semaphore with an internal waiting queue": blocked threads get their
\* permits in the order in which they blocked.
GrantedInOrder ==
  [][\A t \in Threads : pc[t] = "wait" /\ pc'[t] = "hold" => t = Head(arrivals)]_vars

\* The head of the queue gets its permits once there are enough of them: "propogate
\* waking signal if there are permits left now".
HeadServed ==
  \A t \in Threads :
    (queue # <<>> /\ Head(queue) = t /\ permits >= request[t])
      ~> (pc[t] # "wait" \/ permits < request[t])

\* Nobody waits for ever while every holder gives its permits back.
WaiterServed == \A t \in Threads : pc[t] = "wait" ~> pc[t] # "wait"

=============================================================================
