------------------------ MODULE SimpleSemaphoreProofs -----------------------
(***************************************************************************)
(* Proofs about SimpleSemaphore, for any set of threads and requests.      *)
(***************************************************************************)
EXTENDS SimpleSemaphore, TLAPS

\* No request asks for more than an int can count. What does becomes a negative
\* number when it is compared and taken.
IntRequests == Requests \subseteq 0..IntMax

LEMMA RequestsNat == \A r \in Requests \cup {1} : r \in Nat /\ AsInt(r) \in Int
<1>1. IntMax \in Nat
  BY IntMaxAssumption DEF IntMaxAssumption
<1>2. Requests \subseteq UnsignedInt
  BY ConstantsAssumption DEF ConstantsAssumption
<1> QED
  BY <1>1, <1>2 DEF UnsignedInt, UIntRange, AsInt

LEMMA RequestsFit == IntRequests => \A r \in Requests \cup {1} : AsInt(r) = r
  BY IntMaxAssumption DEF IntMaxAssumption, IntRequests, AsInt

\* The loops compare count with a request, or with 1.
LEMMA AskedType ==
  ASSUME TypeOK, NEW t \in Threads
  PROVE  Asked(t) \in Requests \cup {1} /\ Asked(t) \in Nat /\ AsInt(Asked(t)) \in Int
<1>1. Asked(t) \in Requests \cup {1}
  BY DEF TypeOK, Asked
<1> QED
  BY <1>1, RequestsNat

\* Every step keeps the variables in their types.
LEMMA TypeStep == TypeOK /\ [Next]_vars => TypeOK'
<1> SUFFICES ASSUME TypeOK, [Next]_vars PROVE TypeOK'
  OBVIOUS
<1> USE ConstantsAssumption, RequestsNat DEF TypeOK, PC, Ops
<1>1. CASE UNCHANGED vars
  BY <1>1 DEF vars
<1>2. ASSUME NEW t \in Threads, NEW o \in Ops, NEW r \in Requests, Call(t, o, r)
      PROVE  TypeOK'
  BY <1>2 DEF Call
<1>3. ASSUME NEW t \in Threads, NEW r \in Requests, Post(t, r) PROVE TypeOK'
  BY <1>3 DEF Post
<1>4. ASSUME NEW t \in Threads, Take(t) PROVE TypeOK'
  <2>1. Asked(t) \in Nat /\ AsInt(Asked(t)) \in Int
    BY AskedType
  <2> QED
    BY <1>4, <2>1 DEF Take
<1>5. ASSUME NEW t \in Threads, Fail(t) PROVE TypeOK'
  BY <1>5 DEF Fail
<1>6. ASSUME NEW t \in Threads, Timeout(t) \/ Spurious(t) PROVE TypeOK'
  BY <1>6 DEF Timeout, Spurious
<1>7. ASSUME NEW t \in Threads, Release(t) PROVE TypeOK'
  <2>1. AsInt(request[t]) \in Int
    OBVIOUS
  <2> QED
    BY <1>7, <2>1 DEF Release
<1>8. ASSUME NEW t \in Threads, NotifyAll(t) PROVE TypeOK'
  BY <1>8 DEF NotifyAll
<1> QED
  BY <1>1, <1>2, <1>3, <1>4, <1>5, <1>6, <1>7, <1>8 DEF Next

LEMMA TypeInit == Init => TypeOK
  BY ConstantsAssumption DEF Init, TypeOK, PC, Ops

\* Whatever the threads call, the variables keep their types.
THEOREM TypeCorrect == Spec => []TypeOK
  BY TypeInit, TypeStep, PTL DEF Spec

\* As long as requests fit an int, release() may notify after it unlocked: no sleeping thread is ever left behind
\* with enough permits and no notification to come.
THEOREM WakeupSafe == ASSUME IntRequests PROVE Spec => []NoLostWakeup
<1>1. Init => NoLostWakeup
  BY DEF Init, NoLostWakeup
<1>2. TypeOK /\ NoLostWakeup /\ [Next]_vars => NoLostWakeup'
  <2> SUFFICES ASSUME TypeOK, NoLostWakeup, [Next]_vars PROVE NoLostWakeup'
    OBVIOUS
  <2> USE DEF TypeOK, PC, NoLostWakeup, Asked
  <2>1. CASE UNCHANGED vars
    BY <2>1 DEF vars
  <2>2. ASSUME NEW t \in Threads, NEW o \in Ops, NEW r \in Requests, Call(t, o, r)
        PROVE  NoLostWakeup'
    BY <2>2 DEF Call
  <2>3. ASSUME NEW t \in Threads, NEW r \in Requests, Post(t, r) PROVE NoLostWakeup'
    BY <2>3 DEF Post
  <2>4. ASSUME NEW t \in Threads, Take(t) PROVE NoLostWakeup'
    <3>1. count' <= count /\ count' \in Int
      <4>1. Asked(t) \in Nat /\ AsInt(Asked(t)) = Asked(t)
        BY AskedType, RequestsFit
      <4> QED
        BY <2>4, <4>1 DEF Take
    <3>2. ASSUME NEW u \in Threads, pc'[u] = "wait"
          PROVE  pc[u] = "wait" /\ Asked(u)' = Asked(u) /\ Asked(u) \in Int
      <4>1. pc[u] = "wait"
        BY <2>4, <3>2 DEF Take
      <4>2. Asked(u)' = Asked(u)
        BY <2>4 DEF Take
      <4>3. Asked(u) \in Int
        <5>1. Asked(u) \in Nat
          BY AskedType
        <5> QED
          BY <5>1
      <4> QED
        BY <4>1, <4>2, <4>3
    <3>3. ASSUME NEW u \in Threads, pc[u] = "notify" PROVE pc'[u] = "notify"
      BY <2>4, <3>3 DEF Take
    <3> QED
      BY <3>1, <3>2, <3>3
  <2>5. ASSUME NEW t \in Threads, Fail(t) PROVE NoLostWakeup'
    <3>1. ASSUME NEW u \in Threads, pc[u] = "notify" PROVE pc'[u] = "notify"
      BY <2>5, <3>1 DEF Fail
    <3>2. Asked(t) \in Nat /\ AsInt(Asked(t)) = Asked(t)
      BY AskedType, RequestsFit
    <3>3. ASSUME NEW u \in Threads, pc'[u] = "wait", count' >= Asked(u)'
          PROVE  pc[u] = "wait" /\ count >= Asked(u)
      BY <2>5, <3>2, <3>3 DEF Fail
    <3> QED
      BY <3>1, <3>3
  <2>6. ASSUME NEW t \in Threads, Timeout(t) \/ Spurious(t) PROVE NoLostWakeup'
    BY <2>6 DEF Timeout, Spurious
  <2>7. ASSUME NEW t \in Threads, Release(t) PROVE NoLostWakeup'
    BY <2>7 DEF Release
  <2>8. ASSUME NEW t \in Threads, NotifyAll(t) PROVE NoLostWakeup'
    BY <2>8 DEF NotifyAll
  <2> QED
    BY <2>1, <2>2, <2>3, <2>4, <2>5, <2>6, <2>7, <2>8 DEF Next
<1> QED
  BY <1>1, <1>2, TypeCorrect, PTL DEF Spec

-----------------------------------------------------------------------------
(* Refinement. The invariant ties the history variable to the program: a   *)
(* thread that is inside a call or outside it holds nothing, one that got  *)
(* its permits holds what it will give back.                               *)

TakenExact ==
  \A t \in Threads :
    /\ pc[t] = "hold" => taken[t] = request[t]
    /\ pc[t] # "hold" => taken[t] = 0
    /\ op[t] = "until" => request[t] = 1

\* Nobody calls try_acquire_until() for more than one permit.
UntilIsSingle == \A t \in Threads, r \in Requests : <<"until", r>> \in Menu[t] => r = 1

LEMMA TakenExactStep ==
  ASSUME UntilIsSingle, TypeOK, TakenExact, [Next]_vars
  PROVE  TakenExact'
<1> USE DEF TypeOK, PC, TakenExact, Asked
<1>1. CASE UNCHANGED vars
  BY <1>1 DEF vars
<1>2. ASSUME NEW t \in Threads, NEW o \in Ops, NEW r \in Requests, Call(t, o, r)
      PROVE  TakenExact'
  BY <1>2 DEF Call, UntilIsSingle
<1>3. ASSUME NEW t \in Threads, NEW r \in Requests, Post(t, r) PROVE TakenExact'
  BY <1>3 DEF Post
<1>4. ASSUME NEW t \in Threads, Take(t) PROVE TakenExact'
  BY <1>4 DEF Take
<1>5. ASSUME NEW t \in Threads, Fail(t) PROVE TakenExact'
  BY <1>5 DEF Fail
<1>6. ASSUME NEW t \in Threads, Timeout(t) \/ Spurious(t) PROVE TakenExact'
  BY <1>6 DEF Timeout, Spurious
<1>7. ASSUME NEW t \in Threads, Release(t) PROVE TakenExact'
  BY <1>7 DEF Release
<1>8. ASSUME NEW t \in Threads, NotifyAll(t) PROVE TakenExact'
  BY <1>8 DEF NotifyAll
<1> QED
  BY <1>1, <1>2, <1>3, <1>4, <1>5, <1>6, <1>7, <1>8 DEF Next

\* Every step of the semaphore is a step of the counting semaphore or changes
\* neither the permits nor who holds them.
LEMMA RefinementStep ==
  ASSUME IntRequests, TypeOK, TakenExact, [Next]_vars
  PROVE  [Abstract!Next]_<<count, taken>>
<1> USE DEF TypeOK, PC
<1>1. CASE UNCHANGED vars
  BY <1>1 DEF vars
<1>2. ASSUME NEW t \in Threads, NEW o \in Ops, NEW r \in Requests, Call(t, o, r)
      PROVE  UNCHANGED <<count, taken>>
  BY <1>2 DEF Call
<1>3. ASSUME NEW t \in Threads, NEW r \in Requests, Post(t, r) PROVE Abstract!Next
  BY <1>3, RequestsFit DEF Post, Abstract!Next, Abstract!Issue
<1>4. ASSUME NEW t \in Threads, Take(t) PROVE Abstract!Next
  <2>1. Asked(t) \in Requests \cup {1} /\ Asked(t) \in Nat /\ AsInt(Asked(t)) = Asked(t)
    BY AskedType, RequestsFit
  <2>2. taken[t] = 0 /\ taken[t] + Asked(t) = Asked(t)
    BY <1>4, <2>1 DEF Take, TakenExact
  <2>3. Abstract!Take(t, Asked(t))
    BY <1>4, <2>1, <2>2 DEF Take, Abstract!Take
  <2> QED
    BY <2>1, <2>3 DEF Abstract!Next
<1>5. ASSUME NEW t \in Threads, Fail(t) PROVE UNCHANGED <<count, taken>>
  BY <1>5 DEF Fail
<1>6. ASSUME NEW t \in Threads, Timeout(t) \/ Spurious(t)
      PROVE  UNCHANGED <<count, taken>>
  BY <1>6 DEF Timeout, Spurious
<1>7. ASSUME NEW t \in Threads, Release(t) PROVE Abstract!Next
  <2>1. /\ request[t] \in Requests \cup {1} /\ request[t] \in Nat
        /\ AsInt(request[t]) = request[t]
    BY RequestsNat, RequestsFit
  <2>2. taken[t] = request[t]
    BY <1>7 DEF Release, TakenExact
  <2>3. taken[t] >= request[t] /\ taken[t] - request[t] = 0
    BY <2>1, <2>2
  <2>4. Abstract!Give(t, request[t])
    BY <1>7, <2>1, <2>3, Zenon DEF Release, Abstract!Give
  <2> QED
    BY <2>1, <2>4 DEF Abstract!Next
<1>8. ASSUME NEW t \in Threads, NotifyAll(t) PROVE UNCHANGED <<count, taken>>
  BY <1>8 DEF NotifyAll
<1> QED
  BY <1>1, <1>2, <1>3, <1>4, <1>5, <1>6, <1>7, <1>8 DEF Next

\* If try_acquire_until() is only called for one permit and no request exceeds what
\* an int can count, the semaphore never creates, loses or overdraws permits.
THEOREM Refinement == ASSUME UntilIsSingle, IntRequests PROVE Spec => ImplementsSemaphore
<1>1. Init => TakenExact
  BY DEF Init, TakenExact
<1>2. Init => Abstract!Init
  BY DEF Init, Abstract!Init
<1>3. TypeOK /\ TakenExact /\ [Next]_vars => TakenExact'
  BY TakenExactStep
<1>4. TypeOK /\ TakenExact /\ [Next]_vars => [Abstract!Next]_<<count, taken>>
  BY RefinementStep
<1> QED
  BY <1>1, <1>2, <1>3, <1>4, TypeCorrect, PTL
  DEF Spec, ImplementsSemaphore, Abstract!Spec

=============================================================================
