------------------------------- MODULE Latch --------------------------------
(***************************************************************************)
(* conc11::Latch (src/concurrency/latch.h).                                *)
(*                                                                         *)
(* The counter is atomic and is changed without mtx, so every access to it *)
(* and every operation on mtx and cv is a step of its own: a waiter that   *)
(* looked at the counter under mtx may find it changed before it sleeps.   *)
(***************************************************************************)
EXTENDS Integers, FiniteSets

CONSTANTS
  Threads,
  Amounts,       \* arguments of count_down(); the callers here pass no negative one
  InitialValue,  \* constructor argument
  Floor,         \* bound: nobody begins to count down below this value
  NoThread

Ops == {"count_down", "wait", "count_down_and_wait"}

ASSUME ConstantsAssumption ==
  /\ Amounts \subseteq Nat /\ 1 \in Amounts
  /\ InitialValue \in Int /\ Floor \in Int
  /\ NoThread \notin Threads

VARIABLES
  value,
  mtx,      \* the thread that keeps mtx across steps
  pc,
  op,       \* the call each thread is in
  amount,   \* the argument of its count_down()
  signals   \* history: how many calls of count_down() signalled

vars == <<value, mtx, pc, op, amount, signals>>

\* Signalling: "sync" is about to lock and unlock mtx, "notify" to notify cv.
\* Waiting: "look" and "commit" have mtx, "commit" saw a positive counter.
Signalling == {"sync", "notify"}
PC == {"idle", "first", "count", "enter", "lock", "look", "commit", "asleep"}
        \cup Signalling

Init ==
  /\ value = InitialValue
  /\ mtx = NoThread
  /\ pc = [t \in Threads |-> "idle"]
  /\ op = [t \in Threads |-> "wait"]
  /\ amount = [t \in Threads |-> 1]
  /\ signals = 0

Goto(t, l) == pc' = [pc EXCEPT ![t] = l]

-----------------------------------------------------------------------------
(* The calls.                                                              *)

CallCountDown(t, n) ==
  /\ pc[t] = "idle" /\ value > Floor
  /\ Goto(t, "count")
  /\ op' = [op EXCEPT ![t] = "count_down"]
  /\ amount' = [amount EXCEPT ![t] = n]
  /\ UNCHANGED <<value, mtx, signals>>

CallWait(t) ==
  /\ pc[t] = "idle"
  /\ Goto(t, "enter")
  /\ op' = [op EXCEPT ![t] = "wait"]
  /\ UNCHANGED <<value, mtx, amount, signals>>

CallCountDownAndWait(t) ==
  /\ pc[t] = "idle"
  /\ Goto(t, "first")
  /\ op' = [op EXCEPT ![t] = "count_down_and_wait"]
  /\ amount' = [amount EXCEPT ![t] = 1]
  /\ UNCHANGED <<value, mtx, signals>>

\* count_down_and_wait() counts only if the counter is not down already; others
\* may count between this look and the subtraction.
First(t) ==
  /\ pc[t] = "first"
  /\ Goto(t, IF value <= 0 THEN "idle" ELSE "count")
  /\ UNCHANGED <<value, mtx, op, amount, signals>>

-----------------------------------------------------------------------------
(* count_down().                                                           *)

\* Where count_down() returns to.
After(t) == IF op[t] = "count_down_and_wait" THEN "enter" ELSE "idle"

CrossesBelow(t) == value <= amount[t]   \* mutant: also when it was down already

\* This subtraction takes the counter from above zero to zero or below.
Crosses(t) == 0 < value /\ value <= amount[t]

Subtract(t) ==
  /\ pc[t] = "count"
  /\ value' = value - amount[t]
  /\ IF Crosses(t)
     THEN Goto(t, "sync") /\ signals' = signals + 1
     ELSE Goto(t, After(t)) /\ UNCHANGED signals
  /\ UNCHANGED <<mtx, op, amount>>

SyncSkipped(t) ==   \* mutant: does not lock mtx before it notifies
  /\ pc[t] = "sync"
  /\ Goto(t, "notify")
  /\ UNCHANGED <<value, mtx, op, amount, signals>>

\* "Sync with the thread that already acquired lock but not yet waiting"
Sync(t) ==
  /\ pc[t] = "sync" /\ mtx = NoThread
  /\ Goto(t, "notify")
  /\ UNCHANGED <<value, mtx, op, amount, signals>>

NotifyOne(t) ==   \* mutant: wakes one waiter only
  /\ pc[t] = "notify"
  /\ \E u \in Threads :
       /\ pc[u] = "asleep" \/ (u = t /\ \A v \in Threads : pc[v] # "asleep")
       /\ pc' = [v \in Threads |-> IF v = t THEN After(t)
                                   ELSE IF v = u THEN "lock" ELSE pc[v]]
  /\ UNCHANGED <<value, mtx, op, amount, signals>>

NotifyAll(t) ==
  /\ pc[t] = "notify"
  /\ pc' = [u \in Threads |-> IF u = t THEN After(t)
                              ELSE IF pc[u] = "asleep" THEN "lock" ELSE pc[u]]
  /\ UNCHANGED <<value, mtx, op, amount, signals>>

-----------------------------------------------------------------------------
(* wait().                                                                 *)

Enter(t) ==
  /\ pc[t] = "enter"
  /\ Goto(t, IF value <= 0 THEN "idle" ELSE "lock")
  /\ UNCHANGED <<value, mtx, op, amount, signals>>

Lock(t) ==
  /\ pc[t] = "lock" /\ mtx = NoThread
  /\ mtx' = t
  /\ Goto(t, "look")
  /\ UNCHANGED <<value, op, amount, signals>>

\* The second check, and every evaluation of the wait predicate.
Look(t) ==
  /\ pc[t] = "look"
  /\ IF value <= 0
     THEN Goto(t, "idle") /\ mtx' = NoThread
     ELSE Goto(t, "commit") /\ UNCHANGED mtx
  /\ UNCHANGED <<value, op, amount, signals>>

SleepHolding(t) ==   \* mutant: sleeps without giving mtx up
  /\ pc[t] = "commit"
  /\ Goto(t, "asleep")
  /\ UNCHANGED <<value, mtx, op, amount, signals>>

\* cv.wait() gives mtx up and sleeps in one step.
Sleep(t) ==
  /\ pc[t] = "commit"
  /\ mtx' = NoThread
  /\ Goto(t, "asleep")
  /\ UNCHANGED <<value, op, amount, signals>>

Spurious(t) ==
  /\ pc[t] = "asleep"
  /\ Goto(t, "lock")
  /\ UNCHANGED <<value, mtx, op, amount, signals>>

-----------------------------------------------------------------------------
(* Specification.                                                          *)

Step(t) ==
  \/ First(t) \/ Subtract(t) \/ Sync(t) \/ NotifyAll(t)
  \/ Enter(t) \/ Lock(t) \/ Look(t) \/ Sleep(t)

Call(t) ==
  \/ \E n \in Amounts : CallCountDown(t, n)
  \/ CallWait(t) \/ CallCountDownAndWait(t)

Next == \E t \in Threads : Call(t) \/ Step(t) \/ Spurious(t)

Spec == Init /\ [][Next]_vars

\* A thread inside a call is scheduled and mtx does not starve it; nobody has
\* to call anything.
FairSpec == Spec /\ \A t \in Threads : WF_vars(Step(t))

-----------------------------------------------------------------------------
(* Properties.                                                             *)

\* The types of the variables, and who has mtx.
TypeOK ==
  /\ value \in Int
  /\ mtx \in Threads \cup {NoThread}
  /\ pc \in [Threads -> PC]
  /\ op \in [Threads -> Ops]
  /\ amount \in [Threads -> Nat]
  /\ signals \in Nat
  /\ \A t \in Threads : pc[t] \in {"look", "commit"} <=> mtx = t

\* Locking and unlocking mtx before cv.notify_all() is enough although the
\* counter is changed without mtx: whoever sleeps, or is about to, when the
\* counter is down has the notification still ahead.
NoLostWakeup ==
  value <= 0 =>
    \A t \in Threads :
      /\ pc[t] = "asleep" => \E u \in Threads : pc[u] \in Signalling
      /\ pc[t] = "commit" => \E u \in Threads : pc[u] = "sync"

\* "will not block the caller thread, unless when the call is the one that caused
\* the counter to reach 0": of all the calls of count_down(), racing and
\* overshooting, exactly one locks mtx and notifies.
SignalledOnce == signals = IF InitialValue > 0 /\ value <= 0 THEN 1 ELSE 0

\* "Blocks the caller thread until the counter reaches 0": once it has, every
\* call of wait() and of the others returns.
OpenedReturns ==
  \A t \in Threads : (value <= 0 /\ pc[t] # "idle") ~> pc[t] = "idle"

=============================================================================
