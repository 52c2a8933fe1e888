----------------------------- MODULE LatchProofs ----------------------------
(***************************************************************************)
(* Latch never loses a wake-up and signals exactly once, for any number of *)
(* threads, any initial value and any amounts.                             *)
(***************************************************************************)
EXTENDS Latch, TLAPS

\* The counter only falls.
Fallen == value <= InitialValue

\* The inductive invariant.
LatchInv == TypeOK /\ NoLostWakeup /\ SignalledOnce /\ Fallen

-----------------------------------------------------------------------------

\* The constructor establishes the invariant.
LEMMA InitInv == Init => LatchInv
  BY ConstantsAssumption
  DEF ConstantsAssumption, Init, LatchInv, TypeOK, NoLostWakeup, SignalledOnce,
      Fallen, PC, Ops, Signalling

\* A step that leaves the counter, mtx and signals alone, moves one thread that
\* was not signalling to a place where it neither sleeps nor has mtx, and may
\* start a call, preserves the invariant.
LEMMA QuietStep ==
  ASSUME LatchInv, NEW t \in Threads, NEW l \in {"idle", "count", "enter", "first", "lock"},
         pc[t] \notin Signalling \cup {"look", "commit"},
         Goto(t, l), UNCHANGED <<value, mtx, signals>>,
         op' \in [Threads -> Ops], amount' \in [Threads -> Nat]
  PROVE  LatchInv'
<1>1. TypeOK'
  BY DEF LatchInv, TypeOK, Goto, PC, Signalling
<1>2. NoLostWakeup'
  BY DEF LatchInv, TypeOK, NoLostWakeup, Goto, PC, Signalling
<1>3. SignalledOnce' /\ Fallen'
  BY DEF LatchInv, SignalledOnce, Fallen
<1> QED
  BY <1>1, <1>2, <1>3 DEF LatchInv

\* Beginning a call.
LEMMA CallInv ==
  ASSUME LatchInv, NEW t \in Threads, Call(t)
  PROVE  LatchInv'
<1>1. CASE \E n \in Amounts : CallCountDown(t, n)
  <2> PICK n \in Amounts : CallCountDown(t, n)
    BY <1>1
  <2>1. op' \in [Threads -> Ops] /\ amount' \in [Threads -> Nat]
    BY ConstantsAssumption DEF ConstantsAssumption, CallCountDown, LatchInv, TypeOK, Ops
  <2> QED
    BY <2>1, QuietStep DEF CallCountDown, Signalling
<1>2. CASE CallWait(t)
  <2>1. op' \in [Threads -> Ops] /\ amount' \in [Threads -> Nat]
    BY <1>2 DEF CallWait, LatchInv, TypeOK, Ops
  <2> QED
    BY <1>2, <2>1, QuietStep DEF CallWait, Signalling
<1>3. CASE CallCountDownAndWait(t)
  <2>1. op' \in [Threads -> Ops] /\ amount' \in [Threads -> Nat]
    BY <1>3 DEF CallCountDownAndWait, LatchInv, TypeOK, Ops
  <2> QED
    BY <1>3, <2>1, QuietStep DEF CallCountDownAndWait, Signalling
<1> QED
  BY <1>1, <1>2, <1>3 DEF Call

\* The subtraction. If it crosses zero, this thread is the one that signals.
LEMMA SubtractInv ==
  ASSUME LatchInv, NEW t \in Threads, Subtract(t)
  PROVE  LatchInv'
<1>1. amount[t] \in Nat /\ value \in Int /\ value' = value - amount[t]
  BY DEF LatchInv, TypeOK, Subtract
<1>2. TypeOK'
  BY <1>1 DEF LatchInv, TypeOK, Subtract, Goto, After, PC, Signalling
<1>3. NoLostWakeup'
  <2>1. CASE value <= 0
    <3>1. pc' = [pc EXCEPT ![t] = After(t)]
      BY <2>1, <1>1 DEF Subtract, Crosses, Goto
    <3> QED
      BY <2>1, <3>1 DEF LatchInv, TypeOK, NoLostWakeup, Subtract, After, Signalling
  <2>2. CASE value > 0 /\ value' <= 0
    <3>1. pc'[t] = "sync"
      BY <2>2, <1>1 DEF LatchInv, TypeOK, Subtract, Crosses, Goto
    <3> QED
      BY <3>1 DEF NoLostWakeup, Signalling
  <2>3. CASE value' > 0
    BY <2>3, <1>1 DEF NoLostWakeup
  <2> QED
    BY <2>1, <2>2, <2>3, <1>1
<1>4. SignalledOnce' /\ Fallen'
  BY <1>1, ConstantsAssumption
  DEF ConstantsAssumption, LatchInv, TypeOK, Subtract, Crosses, SignalledOnce, Fallen
<1> QED
  BY <1>2, <1>3, <1>4 DEF LatchInv

\* Locking and unlocking mtx: nobody is between its look at the counter and its
\* sleep, because such a thread has mtx.
LEMMA SyncInv ==
  ASSUME LatchInv, NEW t \in Threads, Sync(t)
  PROVE  LatchInv'
<1>1. TypeOK'
  BY DEF LatchInv, TypeOK, Sync, Goto, PC, Signalling
<1>2. \A u \in Threads : pc'[u] # "commit"
  BY ConstantsAssumption DEF ConstantsAssumption, LatchInv, TypeOK, Sync, Goto
<1>3. pc'[t] \in Signalling
  BY DEF LatchInv, TypeOK, Sync, Goto, Signalling
<1>4. NoLostWakeup'
  BY <1>2, <1>3 DEF NoLostWakeup
<1>5. SignalledOnce' /\ Fallen'
  BY DEF LatchInv, Sync, SignalledOnce, Fallen
<1> QED
  BY <1>1, <1>4, <1>5 DEF LatchInv

\* The notification leaves nobody asleep.
LEMMA NotifyInv ==
  ASSUME LatchInv, NEW t \in Threads, NotifyAll(t)
  PROVE  LatchInv'
<1>1. TypeOK'
  BY DEF LatchInv, TypeOK, NotifyAll, After, PC, Signalling
<1>2. \A u \in Threads : pc'[u] # "asleep"
  BY DEF LatchInv, TypeOK, NotifyAll, After
<1>3. \A u \in Threads : /\ pc[u] = "sync" => pc'[u] = "sync"
                         /\ pc'[u] = "commit" => pc[u] = "commit"
  BY DEF LatchInv, TypeOK, NotifyAll, After
<1>4. NoLostWakeup'
  BY <1>2, <1>3 DEF LatchInv, NoLostWakeup, NotifyAll
<1>5. SignalledOnce' /\ Fallen'
  BY DEF LatchInv, NotifyAll, SignalledOnce, Fallen
<1> QED
  BY <1>1, <1>4, <1>5 DEF LatchInv

\* The steps of wait() that take or give up mtx.
LEMMA WaitInv ==
  ASSUME LatchInv, NEW t \in Threads, Lock(t) \/ Look(t) \/ Sleep(t)
  PROVE  LatchInv'
<1>1. SignalledOnce' /\ Fallen'
  BY DEF LatchInv, Lock, Look, Sleep, SignalledOnce, Fallen
<1>2. CASE Lock(t)
  <2>1. TypeOK'
    BY <1>2, ConstantsAssumption
    DEF ConstantsAssumption, LatchInv, TypeOK, Lock, Goto, PC
  <2>2. NoLostWakeup'
    BY <1>2 DEF LatchInv, TypeOK, NoLostWakeup, Lock, Goto, Signalling
  <2> QED
    BY <1>1, <2>1, <2>2 DEF LatchInv
<1>3. CASE Look(t)
  <2>1. TypeOK'
    BY <1>3, ConstantsAssumption
    DEF ConstantsAssumption, LatchInv, TypeOK, Look, Goto, PC
  <2>2. NoLostWakeup'
    BY <1>3 DEF LatchInv, TypeOK, NoLostWakeup, Look, Goto, Signalling
  <2> QED
    BY <1>1, <2>1, <2>2 DEF LatchInv
<1>4. CASE Sleep(t)
  <2>1. TypeOK'
    BY <1>4, ConstantsAssumption
    DEF ConstantsAssumption, LatchInv, TypeOK, Sleep, Goto, PC
  <2>2. NoLostWakeup'
    BY <1>4 DEF LatchInv, TypeOK, NoLostWakeup, Sleep, Goto, Signalling
  <2> QED
    BY <1>1, <2>1, <2>2 DEF LatchInv
<1> QED
  BY <1>2, <1>3, <1>4

\* Every step preserves the invariant.
LEMMA StepInv == LatchInv /\ [Next]_vars => LatchInv'
<1> SUFFICES ASSUME LatchInv, [Next]_vars PROVE LatchInv'
  OBVIOUS
<1>1. CASE UNCHANGED vars
  BY <1>1 DEF vars, LatchInv, TypeOK, NoLostWakeup, SignalledOnce, Fallen
<1>2. ASSUME NEW t \in Threads, Call(t) \/ Step(t) \/ Spurious(t) PROVE LatchInv'
  <2>1. CASE Call(t)
    BY <2>1, CallInv
  <2>2. CASE First(t) \/ Enter(t) \/ Spurious(t)
    <3>1. PICK l \in {"idle", "count", "lock"} : Goto(t, l)
      BY <2>2 DEF First, Enter, Spurious
    <3>2. /\ pc[t] \notin Signalling \cup {"look", "commit"}
          /\ UNCHANGED <<value, mtx, signals, op, amount>>
      BY <2>2 DEF First, Enter, Spurious, Signalling
    <3>3. op' \in [Threads -> Ops] /\ amount' \in [Threads -> Nat]
      BY <3>2 DEF LatchInv, TypeOK
    <3> QED
      BY <3>1, <3>2, <3>3, QuietStep
  <2>3. CASE Subtract(t)
    BY <2>3, SubtractInv
  <2>4. CASE Sync(t)
    BY <2>4, SyncInv
  <2>5. CASE NotifyAll(t)
    BY <2>5, NotifyInv
  <2>6. CASE Lock(t) \/ Look(t) \/ Sleep(t)
    BY <2>6, WaitInv
  <2> QED
    BY <1>2, <2>1, <2>2, <2>3, <2>4, <2>5, <2>6 DEF Step
<1> QED
  BY <1>1, <1>2 DEF Next

\* The inductive invariant holds in every reachable state.
LEMMA Invariance == Spec => []LatchInv
  BY InitInv, StepInv, PTL DEF Spec

-----------------------------------------------------------------------------

\* The latch's state keeps its type, and mtx is had by exactly the thread that
\* looks at the counter under it.
THEOREM TypeCorrect == Spec => []TypeOK
<1>1. LatchInv => TypeOK
  BY DEF LatchInv
<1> QED
  BY <1>1, Invariance, PTL

\* wait() cannot miss the notification of the count_down() that reaches zero,
\* although the counter is changed without mtx.
THEOREM WakeupSafe == Spec => []NoLostWakeup
<1>1. LatchInv => NoLostWakeup
  BY DEF LatchInv
<1> QED
  BY <1>1, Invariance, PTL

\* Exactly one count_down() takes the counter to zero, locks mtx and notifies.
THEOREM OneSignal == Spec => []SignalledOnce
<1>1. LatchInv => SignalledOnce
  BY DEF LatchInv
<1> QED
  BY <1>1, Invariance, PTL

=============================================================================
