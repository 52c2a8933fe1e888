--------------------------- MODULE SimpleSemaphore --------------------------
(***************************************************************************)
(* conc11::SimpleSemaphore (src/concurrency/semaphore.h), used directly,   *)
(* through SemaphoreGuard or through SemaphoreTimedLockableAdapter.        *)
(*                                                                         *)
(* A section under mtx is one step. release() notifies after it unlocked   *)
(* mtx, so its two halves are two steps.                                   *)
(***************************************************************************)
EXTENDS IntConversions

CONSTANTS
  Threads,
  Requests,        \* sizes of the requests made
  InitialPermits,  \* constructor argument
  Menu,            \* Menu[t]: the calls <<operation, request>> thread t makes
  CountBound       \* bound: releases without an acquire stop at this count

\* "acquire": acquire(), the guard's constructor, the adapter's lock();
\* "for", "until", "try": the timed and the untimed try_acquire family and the
\* adapter's try_lock family; "post": release() by a thread that acquired nothing.
Ops == {"acquire", "for", "until", "try", "post"}

ASSUME ConstantsAssumption ==
  /\ Requests \subseteq UnsignedInt /\ Requests # {}
  /\ InitialPermits \in Int
  /\ CountBound \in Nat
  /\ Menu \in [Threads -> SUBSET (Ops \X Requests)]

VARIABLES
  count,
  pc,
  op,       \* the operation each thread is in
  request,  \* its argument, and what the thread will release
  taken     \* history: the permits each thread took and did not return

vars == <<count, pc, op, request, taken>>

\* "check": about to lock mtx and compare; "wait": asleep in cv; "notify":
\* released, mtx unlocked, cv.notify_all() still to come.
PC == {"idle", "check", "wait", "hold", "notify"}

Init ==
  /\ count = InitialPermits
  /\ pc = [t \in Threads |-> "idle"]
  /\ op = [t \in Threads |-> "acquire"]
  /\ request = [t \in Threads |-> CHOOSE r \in Requests : TRUE]
  /\ taken = [t \in Threads |-> 0]

\* What the loop compares with count: try_acquire_until() passes true, which is
\* 1, where its request belongs.
Asked(t) == IF op[t] = "until" THEN 1 ELSE request[t]

Call(t, o, r) ==
  /\ pc[t] = "idle" /\ <<o, r>> \in Menu[t] /\ o # "post"
  /\ op' = [op EXCEPT ![t] = o]
  /\ request' = [request EXCEPT ![t] = r]
  /\ pc' = [pc EXCEPT ![t] = "check"]
  /\ UNCHANGED <<count, taken>>

TakeAny(t) ==   \* mutant: compares with 1
  /\ pc[t] = "check" /\ count >= 1
  /\ count' = count - AsInt(Asked(t))
  /\ taken' = [taken EXCEPT ![t] = Asked(t)]
  /\ pc' = [pc EXCEPT ![t] = "hold"]
  /\ UNCHANGED <<op, request>>

Take(t) ==
  /\ pc[t] = "check" /\ count >= AsInt(Asked(t))
  /\ count' = count - AsInt(Asked(t))
  /\ taken' = [taken EXCEPT ![t] = Asked(t)]
  /\ pc' = [pc EXCEPT ![t] = "hold"]
  /\ UNCHANGED <<op, request>>

\* Too few permits: try_acquire() returns false, the others wait.
Fail(t) ==
  /\ pc[t] = "check" /\ count < AsInt(Asked(t))
  /\ pc' = [pc EXCEPT ![t] = IF op[t] = "try" THEN "idle" ELSE "wait"]
  /\ UNCHANGED <<count, op, request, taken>>

\* cv_status::timeout returns false at once, without another look at count.
Timeout(t) ==
  /\ pc[t] = "wait" /\ op[t] \in {"for", "until"}
  /\ pc' = [pc EXCEPT ![t] = "idle"]
  /\ UNCHANGED <<count, op, request, taken>>

Spurious(t) ==
  /\ pc[t] = "wait"
  /\ pc' = [pc EXCEPT ![t] = "check"]
  /\ UNCHANGED <<count, op, request, taken>>

Release(t) ==
  /\ pc[t] = "hold"
  /\ count' = count + AsInt(request[t])
  /\ taken' = [taken EXCEPT ![t] = 0]
  /\ pc' = [pc EXCEPT ![t] = "notify"]
  /\ UNCHANGED <<op, request>>

Post(t, r) ==
  /\ pc[t] = "idle" /\ <<"post", r>> \in Menu[t]
  /\ count + AsInt(r) <= CountBound
  /\ count' = count + AsInt(r)
  /\ pc' = [pc EXCEPT ![t] = "notify"]
  /\ UNCHANGED <<op, request, taken>>

NotifyOne(t) ==   \* mutant: notify_one() for waiters of different sizes
  /\ pc[t] = "notify"
  /\ \E u \in Threads :
       /\ pc[u] = "wait" \/ (u = t /\ \A v \in Threads : pc[v] # "wait")
       /\ pc' = [v \in Threads |-> IF v = t THEN "idle"
                                   ELSE IF v = u THEN "check" ELSE pc[v]]
  /\ UNCHANGED <<count, op, request, taken>>

NotifyAll(t) ==
  /\ pc[t] = "notify"
  /\ pc' = [u \in Threads |-> IF u = t THEN "idle"
                              ELSE IF pc[u] = "wait" THEN "check" ELSE pc[u]]
  /\ UNCHANGED <<count, op, request, taken>>

Next ==
  \E t \in Threads :
    \/ \E o \in Ops, r \in Requests : Call(t, o, r)
    \/ \E r \in Requests : Post(t, r)
    \/ Take(t) \/ Fail(t) \/ Timeout(t) \/ Spurious(t)
    \/ Release(t) \/ NotifyAll(t)

Spec == Init /\ [][Next]_vars

-----------------------------------------------------------------------------
(* Properties.                                                             *)

\* The types of the variables.
TypeOK ==
  /\ count \in Int
  /\ pc \in [Threads -> PC]
  /\ op \in [Threads -> Ops]
  /\ request \in [Threads -> Requests]
  /\ taken \in [Threads -> Nat]

\* release() notifying after it unlocked mtx loses no wake-up: a thread that
\* sleeps although count suffices for it has a notify_all() still ahead.
NoLostWakeup ==
  (\E t \in Threads : pc[t] = "wait" /\ count >= Asked(t)) =>
    \E u \in Threads : pc[u] = "notify"

\* The semaphore implements the counting semaphore: a thread gives back exactly
\* what it took. (try_acquire_until() for more than one permit breaks it.)
Abstract ==
  INSTANCE Semaphore WITH permits <- count, held <- taken,
                          Sizes <- Requests \cup {1}
ImplementsSemaphore == Abstract!Spec

=============================================================================
