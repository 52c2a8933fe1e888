------------------------ MODULE QueuedSemaphoreProofs -----------------------
(***************************************************************************)
(* Proofs about QueuedSemaphore, for any set of threads and requests.      *)
(***************************************************************************)
EXTENDS QueuedSemaphore, SequenceTheorems, FiniteSetTheorems, TLAPS

-----------------------------------------------------------------------------
(* The helpers.                                                            *)

\* No request asks for more than an int can count. What does becomes a negative
\* number in the comparisons, and then permits are granted that nobody has.
IntRequests == Requests \subseteq 0..IntMax

LEMMA RequestsNat == \A r \in Requests : r \in Nat /\ AsInt(r) \in Int
<1>1. IntMax \in Nat
  BY IntMaxAssumption DEF IntMaxAssumption
<1>2. Requests \subseteq UnsignedInt
  BY ConstantsAssumption DEF ConstantsAssumption
<1> QED
  BY <1>1, <1>2 DEF UnsignedInt, UIntRange, AsInt

LEMMA AsIntSmall == ASSUME NEW r \in 0..IntMax PROVE AsInt(r) = r
  BY DEF AsInt

LEMMA RequestsFit == IntRequests => \A r \in Requests : AsInt(r) = r
  BY AsIntSmall DEF IntRequests

\* What unlinking a node returns.
LEMMA WithoutType ==
  ASSUME NEW S, NEW s \in Seq(S), NEW t
  PROVE  Without(s, t) \in Seq(S)
<1>1. Len(s) \in Nat /\ \A i \in 1..Len(s) : s[i] \in S
  BY LenProperties, ElementOfSeq
<1>2. \A i \in 1..(Len(s) - 1) :
        (IF i < Position(s, t) THEN s[i] ELSE s[i + 1]) \in S
  BY <1>1
<1>3. CASE Len(s) = 0
  <2>1. 1..(Len(s) - 1) = 1..0
    BY <1>3
  <2> QED
    BY <1>2, <2>1, IsASeq DEF Without
<1>4. CASE Len(s) # 0
  <2>1. Len(s) - 1 \in Nat
    BY <1>1, <1>4
  <2> QED
    BY <1>2, <2>1, IsASeq DEF Without
<1> QED
  BY <1>3, <1>4

LEMMA DequeueType ==
  ASSUME NEW S, NEW s \in Seq(S) PROVE Dequeue(s) \in Seq(S)
  BY HeadTailProperties DEF Dequeue

\* Waking the head sets a flag of a thread in the queue and no other.
LEMMA WakeHeadType ==
  ASSUME NEW q \in Seq(Threads), NEW wk \in [Threads -> BOOLEAN]
  PROVE  WakeHead(q, wk) \in [Threads -> BOOLEAN]
  BY HeadTailProperties DEF WakeHead

-----------------------------------------------------------------------------
(* Type correctness.                                                       *)

LEMMA TypeInit == Init => TypeOK
<1> SUFFICES ASSUME Init PROVE TypeOK
  OBVIOUS
<1>1. (CHOOSE r \in Requests : TRUE) \in Requests
  BY ConstantsAssumption DEF ConstantsAssumption
<1>2. <<>> \in Seq(Threads)
  BY EmptySeq
<1> QED
  BY <1>1, <1>2, ConstantsAssumption DEF ConstantsAssumption, Init, TypeOK, PC

LEMMA TypeStep == TypeOK /\ [Next]_vars => TypeOK'
<1> SUFFICES ASSUME TypeOK, [Next]_vars PROVE TypeOK'
  OBVIOUS
<1> USE RequestsNat DEF TypeOK, PC
<1>1. CASE UNCHANGED vars
  BY <1>1 DEF vars
<1>2. ASSUME NEW t \in Threads, NEW op \in Ops, NEW r \in Requests,
             AcquireAtOnce(t, op, r, queue = <<>>)
      PROVE  TypeOK'
  BY <1>2 DEF AcquireAtOnce
<1>3. ASSUME NEW t \in Threads, NEW op \in Ops, NEW r \in Requests,
             AcquireBlock(t, op, r, queue = <<>>)
      PROVE  TypeOK'
  <2>1. queue' \in Seq(Threads) /\ arrivals' \in Seq(Threads)
    BY <1>3, AppendProperties DEF AcquireBlock
  <2>2. request_record' \in [Requests -> Nat]
    BY <1>3 DEF AcquireBlock, RecordInsert
  <2>3. /\ wakeable' \in [Threads -> BOOLEAN] /\ pc' \in [Threads -> PC]
        /\ request' \in [Threads -> Requests] /\ permits' \in Int
    BY <1>3 DEF AcquireBlock, RecordInsert
  <2>4. timed' \in [Threads -> BOOLEAN]
    BY <1>3, Zenon DEF AcquireBlock
  <2> QED
    BY <2>1, <2>2, <2>3, <2>4
<1>4. ASSUME NEW t \in Threads, ResumeGranted(t, wakeable[t]) PROVE TypeOK'
  <2>1. queue' \in Seq(Threads)
    BY <1>4, DequeueType DEF ResumeGranted
  <2>2. arrivals' \in Seq(Threads)
    BY <1>4, WithoutType DEF ResumeGranted
  <2>3. wakeable' \in [Threads -> BOOLEAN]
    <3>1. [wakeable EXCEPT ![t] = FALSE] \in [Threads -> BOOLEAN]
      OBVIOUS
    <3> QED
      BY <1>4, <2>1, <3>1, WakeHeadType DEF ResumeGranted
  <2>4. request_record' \in [Requests -> Nat]
    BY <1>4 DEF ResumeGranted, RecordRemove
  <2>5. permits' \in Int
    BY <1>4 DEF ResumeGranted
  <2>6. pc' \in [Threads -> PC] /\ UNCHANGED <<request, timed>>
    BY <1>4 DEF ResumeGranted
  <2> QED
    BY <2>1, <2>2, <2>3, <2>4, <2>5, <2>6
<1>5. ASSUME NEW t \in Threads, ResumeRequeue(t, wakeable[t]) PROVE TypeOK'
  <2>1. queue' \in Seq(Threads)
    BY <1>5, DequeueType, AppendProperties DEF ResumeRequeue
  <2> QED
    BY <1>5, <2>1 DEF ResumeRequeue
<1>6. ASSUME NEW t \in Threads, Timeout(t, wakeable[t]) PROVE TypeOK'
  <2>1. queue' \in Seq(Threads) /\ arrivals' \in Seq(Threads)
    BY <1>6, WithoutType DEF Timeout
  <2> QED
    BY <1>6, <2>1 DEF Timeout
<1>7. ASSUME NEW t \in Threads, NEW r \in Requests, TryAcquire(t, r) PROVE TypeOK'
  BY <1>7 DEF TryAcquire
<1>8. ASSUME NEW r \in Requests, DoRelease(r)
      PROVE  /\ permits' \in Int /\ wakeable' \in [Threads -> BOOLEAN]
             /\ UNCHANGED <<queue, request_record, request, timed, arrivals>>
  BY <1>8, WakeHeadType DEF DoRelease
<1>9. ASSUME NEW t \in Threads, Release(t) PROVE TypeOK'
  <2>1. DoRelease(request[t]) /\ pc' \in [Threads -> PC]
    BY <1>9 DEF Release
  <2> QED
    BY <1>8, <2>1
<1>10. ASSUME NEW t \in Threads, NEW r \in Requests, Post(t, r) PROVE TypeOK'
  BY <1>8, <1>10 DEF Post
<1> QED
  BY <1>1, <1>2, <1>3, <1>4, <1>5, <1>6, <1>7, <1>9, <1>10 DEF Next, Resume

\* Whatever the threads call, the variables keep their types.
THEOREM TypeCorrect == Spec => []TypeOK
  BY TypeInit, TypeStep, PTL DEF Spec

-----------------------------------------------------------------------------
(* Permits and the refinement of the counting semaphore.                   *)

\* Constructed with a non-negative number of permits and asked for no more than an
\* int can count, the semaphore never overdraws them, the unsigned comparison of try_acquire() included.
THEOREM NeverOverdrawn ==
  ASSUME InitialPermits >= 0, IntRequests PROVE Spec => []PermitsNonNegative
<1>1. Init => PermitsNonNegative
  BY DEF Init, PermitsNonNegative
<1>2. TypeOK /\ PermitsNonNegative /\ [Next]_vars => PermitsNonNegative'
  <2> SUFFICES ASSUME TypeOK, PermitsNonNegative, [Next]_vars
               PROVE  PermitsNonNegative'
    OBVIOUS
  <2> USE RequestsNat, RequestsFit DEF TypeOK, PermitsNonNegative
  <2>1. CASE UNCHANGED vars
    BY <2>1 DEF vars
  <2>2. ASSUME NEW t \in Threads, NEW op \in Ops, NEW r \in Requests,
               AcquireAtOnce(t, op, r, queue = <<>>) \/ AcquireBlock(t, op, r, queue = <<>>)
        PROVE  PermitsNonNegative'
    BY <2>2 DEF AcquireAtOnce, AcquireBlock
  <2>3. ASSUME NEW t \in Threads, Resume(t) \/ Timeout(t, wakeable[t])
        PROVE  PermitsNonNegative'
    BY <2>3 DEF Resume, ResumeGranted, ResumeRequeue, Timeout
  <2>4. ASSUME NEW t \in Threads, NEW r \in Requests, TryAcquire(t, r)
        PROVE  PermitsNonNegative'
    BY <2>4 DEF TryAcquire, AsUnsigned
  <2>5. ASSUME NEW t \in Threads, Release(t) PROVE PermitsNonNegative'
    BY <2>5 DEF Release, DoRelease
  <2>6. ASSUME NEW t \in Threads, NEW r \in Requests, Post(t, r)
        PROVE  PermitsNonNegative'
    BY <2>6 DEF Post, DoRelease
  <2> QED
    BY <2>1, <2>2, <2>3, <2>4, <2>5, <2>6 DEF Next
<1> QED
  BY <1>1, <1>2, TypeCorrect, PTL DEF Spec

\* A thread that gets r permits holds r more, one that returns holds none.
LEMMA HeldTaken ==
  ASSUME TypeOK, NEW t \in Threads, NEW r \in Requests, pc[t] # "hold",
         pc' = [pc EXCEPT ![t] = "hold"], request' = [request EXCEPT ![t] = r]
  PROVE  Held' = [Held EXCEPT ![t] = @ + r]
<1>1. Held[t] = 0 /\ Held'[t] = r
  BY DEF TypeOK, Held
<1>2. Held[t] + r = r
  BY <1>1, RequestsNat
<1>3. \A u \in Threads \ {t} : Held'[u] = Held[u]
  BY DEF TypeOK, Held
<1> QED
  BY <1>1, <1>2, <1>3, ZenonT(30) DEF Held

LEMMA HeldGiven ==
  ASSUME TypeOK, NEW t \in Threads, pc[t] = "hold",
         pc' = [pc EXCEPT ![t] = "idle"], request' = request
  PROVE  Held[t] = request[t] /\ Held' = [Held EXCEPT ![t] = @ - request[t]]
<1>1. Held[t] = request[t] /\ Held'[t] = 0
  BY DEF TypeOK, Held
<1>2. Held[t] - request[t] = 0
  BY <1>1, RequestsNat DEF TypeOK
<1>3. \A u \in Threads \ {t} : Held'[u] = Held[u]
  BY DEF TypeOK, Held
<1> QED
  BY <1>1, <1>2, <1>3 DEF Held

LEMMA HeldUnchanged ==
  ASSUME TypeOK, NEW t \in Threads, NEW r \in Requests, NEW p,
         pc[t] # "hold", p # "hold",
         pc' = [pc EXCEPT ![t] = p], request' = [request EXCEPT ![t] = r]
  PROVE  Held' = Held
  BY DEF TypeOK, Held

\* Every step is a step of the counting semaphore or changes neither the permits
\* nor who holds them.
LEMMA RefinementStep ==
  ASSUME IntRequests, TypeOK, PermitsNonNegative, [Next]_vars
  PROVE  [Abstract!Next]_<<permits, Held>>
<1> USE RequestsFit DEF TypeOK, PC
<1>0. ASSUME NEW t \in Threads, NEW r \in Requests, pc[t] # "hold", permits >= r,
             permits' = permits - r, pc' = [pc EXCEPT ![t] = "hold"],
             request' = [request EXCEPT ![t] = r]
      PROVE  Abstract!Next
  <2>1. Abstract!Take(t, r)
    BY <1>0, HeldTaken DEF Abstract!Take
  <2> QED
    BY <2>1 DEF Abstract!Next
<1>1. CASE UNCHANGED vars
  BY <1>1 DEF vars, Held
<1>2. ASSUME NEW t \in Threads, NEW op \in Ops, NEW r \in Requests,
             AcquireAtOnce(t, op, r, queue = <<>>)
      PROVE  Abstract!Next
  BY <1>0, <1>2 DEF AcquireAtOnce, Calls
<1>3. ASSUME NEW t \in Threads, NEW op \in Ops, NEW r \in Requests,
             AcquireBlock(t, op, r, queue = <<>>)
      PROVE  UNCHANGED <<permits, Held>>
  BY <1>3, HeldUnchanged DEF AcquireBlock, Calls
<1>4. ASSUME NEW t \in Threads, ResumeGranted(t, wakeable[t]) PROVE Abstract!Next
  <2>1. request' = [request EXCEPT ![t] = request[t]]
    BY <1>4 DEF ResumeGranted
  <2> QED
    BY <1>0, <1>4, <2>1 DEF ResumeGranted
<1>5. ASSUME NEW t \in Threads, ResumeRequeue(t, wakeable[t]) PROVE UNCHANGED <<permits, Held>>
  BY <1>5 DEF ResumeRequeue, Held
<1>6. ASSUME NEW t \in Threads, Timeout(t, wakeable[t]) PROVE UNCHANGED <<permits, Held>>
  <2>1. request' = [request EXCEPT ![t] = request[t]]
    BY <1>6 DEF Timeout
  <2> QED
    BY <1>6, <2>1, HeldUnchanged DEF Timeout
<1>7. ASSUME NEW t \in Threads, NEW r \in Requests, TryAcquire(t, r)
      PROVE  Abstract!Next
  <2>1. permits >= r
    BY <1>7, RequestsNat DEF TryAcquire, AsUnsigned, PermitsNonNegative
  <2> QED
    BY <1>0, <1>7, <2>1 DEF TryAcquire, Calls
<1>8. ASSUME NEW t \in Threads, Release(t) PROVE Abstract!Next
  <2>1. /\ Held[t] = request[t] /\ Held' = [Held EXCEPT ![t] = @ - request[t]]
        /\ permits' = permits + request[t]
    BY <1>8, HeldGiven DEF Release, DoRelease
  <2>2. Held[t] >= request[t]
    BY <2>1, RequestsNat
  <2>3. Abstract!Give(t, request[t])
    BY <2>1, <2>2 DEF Abstract!Give
  <2> QED
    BY <2>3 DEF Abstract!Next
<1>9. ASSUME NEW t \in Threads, NEW r \in Requests, Post(t, r) PROVE Abstract!Next
  BY <1>9 DEF Post, DoRelease, Held, Abstract!Next, Abstract!Issue
<1> QED
  BY <1>1, <1>2, <1>3, <1>4, <1>5, <1>6, <1>7, <1>8, <1>9 DEF Next, Resume

\* As long as requests fit an int, the queue, the wake-ups, the timeouts and barging
\* try_acquire() calls never create, lose or overdraw permits: the semaphore is a
\* counting semaphore.
THEOREM Refinement ==
  ASSUME InitialPermits >= 0, IntRequests PROVE Spec => ImplementsSemaphore
<1>1. Init => Abstract!Init
  BY DEF Init, Abstract!Init, Held
<1>2. TypeOK /\ PermitsNonNegative /\ [Next]_vars
        => [Abstract!Next]_<<permits, Held>>
  BY RefinementStep
<1> QED
  BY <1>1, <1>2, TypeCorrect, NeverOverdrawn, PTL
  DEF Spec, ImplementsSemaphore, Abstract!Spec

-----------------------------------------------------------------------------
(* The wait queue: what enqueue, dequeue and remove do to a sequence of    *)
(* distinct threads.                                                       *)

Occurs(x, s) == \E i \in 1..Len(s) : s[i] = x

Distinct(s) == \A i, j \in 1..Len(s) : s[i] = s[j] => i = j

LEMMA EnqueueQueue ==
  ASSUME NEW S, NEW s \in Seq(S), NEW t \in S, Distinct(s), ~Occurs(t, s)
  PROVE  /\ Distinct(Append(s, t))
         /\ \A x : Occurs(x, Append(s, t)) <=> Occurs(x, s) \/ x = t
         /\ s # <<>> => Head(Append(s, t)) = Head(s)
         /\ Append(s, t) # <<>>
         /\ Head(Append(s, t)) \in S
<1>1. /\ Append(s, t) \in Seq(S) /\ Len(s) \in Nat
      /\ Len(Append(s, t)) = Len(s) + 1
      /\ \A i \in 1..Len(s) : Append(s, t)[i] = s[i]
      /\ Append(s, t)[Len(s) + 1] = t
  BY AppendProperties, LenProperties
<1>2. Distinct(Append(s, t))
  BY <1>1 DEF Distinct, Occurs
<1>3. \A x : Occurs(x, Append(s, t)) <=> Occurs(x, s) \/ x = t
  BY <1>1 DEF Occurs
<1>4. Append(s, t) # <<>> /\ Head(Append(s, t)) \in S
  BY <1>1, EmptySeq, HeadTailProperties
<1>5. s # <<>> => Head(Append(s, t)) = Head(s)
  BY <1>1, EmptySeq
<1> QED
  BY <1>2, <1>3, <1>4, <1>5

LEMMA DequeueQueue ==
  ASSUME NEW S, NEW s \in Seq(S), Distinct(s), s # <<>>
  PROVE  /\ Distinct(Dequeue(s))
         /\ \A x : Occurs(x, Dequeue(s)) <=> Occurs(x, s) /\ x # Head(s)
         /\ Occurs(Head(s), s)
<1>1. /\ Dequeue(s) = Tail(s) /\ Len(s) \in Nat /\ Len(s) > 0
      /\ Len(Tail(s)) = Len(s) - 1 /\ Head(s) = s[1]
      /\ \A i \in 1..Len(Tail(s)) : Tail(s)[i] = s[i + 1]
  BY HeadTailProperties, LenProperties, EmptySeq DEF Dequeue
<1>2. Distinct(Dequeue(s))
  BY <1>1 DEF Distinct
<1>3. ASSUME NEW x, Occurs(x, Dequeue(s)) PROVE Occurs(x, s) /\ x # Head(s)
  BY <1>1, <1>3 DEF Distinct, Occurs
<1>4. ASSUME NEW x, Occurs(x, s), x # Head(s) PROVE Occurs(x, Dequeue(s))
  <2>1. PICK i \in 1..Len(s) : s[i] = x
    BY <1>4 DEF Occurs
  <2>2. i - 1 \in 1..Len(Tail(s)) /\ Tail(s)[i - 1] = s[i]
    BY <1>1, <1>4, <2>1
  <2> QED
    BY <1>1, <2>1, <2>2 DEF Occurs
<1>5. Occurs(Head(s), s)
  BY <1>1 DEF Occurs
<1> QED
  BY <1>2, <1>3, <1>4, <1>5

LEMMA RemoveQueue ==
  ASSUME NEW S, NEW s \in Seq(S), Distinct(s), NEW t, Occurs(t, s)
  PROVE  /\ Distinct(Without(s, t))
         /\ \A x : Occurs(x, Without(s, t)) <=> Occurs(x, s) /\ x # t
         /\ Len(Without(s, t)) = Len(s) - 1
         /\ Head(s) # t => Without(s, t) # <<>> /\ Head(Without(s, t)) = Head(s)
<1> DEFINE p == Position(s, t)
           w == Without(s, t)
<1>1. p \in 1..Len(s) /\ s[p] = t
  BY DEF Occurs, Position
<1>2. Len(s) \in Nat /\ Len(s) - 1 \in Nat
  BY <1>1, LenProperties
<1>3. w \in Seq(S)
  BY WithoutType
<1>4. Len(w) = Len(s) - 1
  <2>1. DOMAIN w = 1..(Len(s) - 1)
    BY DEF Without
  <2>2. DOMAIN w = 1..Len(w) /\ Len(w) \in Nat
    BY <1>3, LenProperties
  <2> QED
    BY <1>2, <2>1, <2>2
<1>5. \A i \in 1..Len(w) : w[i] = IF i < p THEN s[i] ELSE s[i + 1]
  BY <1>4 DEF Without
<1> HIDE DEF p, w
<1>6. Distinct(w)
  BY <1>1, <1>2, <1>4, <1>5 DEF Distinct
<1>7. ASSUME NEW x, Occurs(x, w) PROVE Occurs(x, s) /\ x # t
  <2>1. PICK i \in 1..Len(w) : w[i] = x
    BY <1>7 DEF Occurs
  <2>2. CASE i < p
    BY <1>1, <1>2, <1>4, <1>5, <2>1, <2>2 DEF Distinct, Occurs
  <2>3. CASE ~(i < p)
    <3>1. i + 1 \in 1..Len(s) /\ s[i + 1] = x /\ i + 1 # p
      BY <1>1, <1>2, <1>4, <1>5, <2>1, <2>3
    <3> QED
      BY <1>1, <3>1 DEF Distinct, Occurs
  <2> QED
    BY <2>2, <2>3
<1>8. ASSUME NEW x, Occurs(x, s), x # t PROVE Occurs(x, w)
  <2>1. PICK i \in 1..Len(s) : s[i] = x
    BY <1>8 DEF Occurs
  <2>2. CASE i < p
    BY <1>1, <1>2, <1>4, <1>5, <2>1, <2>2 DEF Occurs
  <2>3. CASE ~(i < p)
    <3>1. i - 1 \in 1..Len(w) /\ w[i - 1] = s[i]
      BY <1>1, <1>2, <1>4, <1>5, <1>8, <2>1, <2>3
    <3> QED
      BY <2>1, <3>1 DEF Occurs
  <2> QED
    BY <2>2, <2>3
<1>9. ASSUME Head(s) # t PROVE w # <<>> /\ Head(w) = Head(s)
  <2>1. Head(s) = s[1]
    BY <1>1, <1>2, HeadTailProperties
  <2>2. p > 1
    BY <1>1, <1>2, <1>9, <2>1
  <2>3. 1 \in 1..Len(w) /\ w[1] = s[1]
    BY <1>1, <1>2, <1>4, <1>5, <2>2
  <2> QED
    BY <1>3, <2>1, <2>3, EmptySeq, HeadTailProperties
<1> QED
  BY <1>4, <1>6, <1>7, <1>8, <1>9 DEF w

LEMMA WakeHeadOnly ==
  ASSUME NEW q \in Seq(Threads), NEW wk \in [Threads -> BOOLEAN]
  PROVE  /\ \A u \in Threads :
              WakeHead(q, wk)[u] => wk[u] \/ (q # <<>> /\ Head(q) = u)
         /\ q # <<>> => WakeHead(q, wk)[Head(q)]
         /\ \A u \in Threads : wk[u] => WakeHead(q, wk)[u]
<1>1. q # <<>> => Head(q) \in Threads
  BY HeadTailProperties
<1> QED
  BY <1>1 DEF WakeHead

-----------------------------------------------------------------------------
(* The queue invariant. QueueExact alone is not inductive: dequeue()       *)
(* removes the head, and only WakeableIsHead says that this is the node of *)
(* the thread that runs.                                                   *)

QueueInv == QueueExact /\ WakeableIsHead

LEMMA QueueExactAlt ==
  QueueExact <=> /\ \A t \in Threads : pc[t] = "wait" <=> Occurs(t, queue)
                 /\ Distinct(queue)
  BY DEF QueueExact, Occurs, Distinct

LEMMA QueueExactAltNext ==
  QueueExact' <=> /\ \A t \in Threads : pc'[t] = "wait" <=> Occurs(t, queue')
                  /\ Distinct(queue')
  BY DEF QueueExact, Occurs, Distinct

LEMMA QueueInit == Init => QueueInv
<1> SUFFICES ASSUME Init PROVE QueueInv
  OBVIOUS
<1>1. queue = <<>> /\ Len(queue) = 0 /\ \A t \in Threads : pc[t] = "idle"
  BY EmptySeq DEF Init
<1> QED
  BY <1>1 DEF QueueInv, QueueExact, WakeableIsHead

LEMMA QueueStep == TypeOK /\ QueueInv /\ [Next]_vars => QueueInv'
<1> SUFFICES ASSUME TypeOK, QueueInv, [Next]_vars PROVE QueueInv'
  OBVIOUS
<1> USE DEF TypeOK, PC
<1>a. /\ \A t \in Threads : pc[t] = "wait" <=> Occurs(t, queue)
      /\ Distinct(queue)
      /\ WakeableIsHead
  BY QueueExactAlt DEF QueueInv
\* A step that moves no thread into or out of a wait.
<1>b. ASSUME queue' = queue, \A u \in Threads : pc'[u] = "wait" <=> pc[u] = "wait"
      PROVE  QueueExact'
  BY <1>a, <1>b, QueueExactAltNext
<1>1. CASE UNCHANGED vars
  BY <1>1 DEF vars, QueueInv, QueueExact, WakeableIsHead
<1>2. ASSUME NEW t \in Threads, NEW op \in Ops, NEW r \in Requests,
             AcquireAtOnce(t, op, r, queue = <<>>)
      PROVE  QueueInv'
  <2>1. /\ queue' = queue /\ wakeable' = wakeable
        /\ \A u \in Threads : pc'[u] = "wait" <=> pc[u] = "wait"
    BY <1>2 DEF AcquireAtOnce, Calls
  <2> QED
    BY <1>a, <1>b, <2>1 DEF QueueInv, WakeableIsHead
<1>3. ASSUME NEW t \in Threads, NEW op \in Ops, NEW r \in Requests,
             AcquireBlock(t, op, r, queue = <<>>)
      PROVE  QueueInv'
  <2>1. /\ pc[t] = "idle" /\ queue' = Append(queue, t)
        /\ wakeable' = [wakeable EXCEPT ![t] = FALSE]
        /\ pc' = [pc EXCEPT ![t] = "wait"]
    BY <1>3, <1>a DEF AcquireBlock, RecordInsert, Calls
  <2>2. ~Occurs(t, queue)
    BY <1>a, <2>1
  <2>3. QueueExact'
    BY <1>a, <2>1, <2>2, EnqueueQueue, QueueExactAltNext
  <2>4. ASSUME NEW u \in Threads, pc'[u] = "wait", wakeable'[u]
        PROVE  queue' # <<>> /\ Head(queue') = u
    <3>1. u # t /\ pc[u] = "wait" /\ wakeable[u]
      BY <2>1, <2>4
    <3>2. queue # <<>> /\ Head(queue) = u
      BY <1>a, <3>1 DEF WakeableIsHead
    <3> QED
      BY <1>a, <2>1, <2>2, <3>2, EnqueueQueue
  <2> QED
    BY <2>3, <2>4 DEF QueueInv, WakeableIsHead
<1>4. ASSUME NEW t \in Threads, ResumeGranted(t, wakeable[t]) PROVE QueueInv'
  <2>1. queue # <<>> /\ Head(queue) = t
    BY <1>4, <1>a DEF ResumeGranted, RecordRemove, WakeableIsHead
  <2>2. queue' = Dequeue(queue) /\ pc' = [pc EXCEPT ![t] = "hold"]
    BY <1>4 DEF ResumeGranted
  <2>3. QueueExact'
    BY <1>a, <2>1, <2>2, DequeueQueue, QueueExactAltNext
  <2>4. ASSUME NEW u \in Threads, pc'[u] = "wait", wakeable'[u]
        PROVE  queue' # <<>> /\ Head(queue') = u
    <3> DEFINE own == [wakeable EXCEPT ![t] = FALSE]
    <3>1. own \in [Threads -> BOOLEAN] /\ queue' \in Seq(Threads)
      BY <2>2, DequeueType
    <3>2. wakeable' = own \/ wakeable' = WakeHead(queue', own)
      BY <1>4 DEF ResumeGranted
    <3>3. ~own[u]
      <4>1. u # t /\ pc[u] = "wait"
        BY <2>2, <2>4
      <4>2. ~wakeable[u]
        BY <1>a, <2>1, <4>1 DEF WakeableIsHead
      <4> QED
        BY <4>1, <4>2
    <3> HIDE DEF own
    <3> QED
      BY <2>4, <3>1, <3>2, <3>3, WakeHeadOnly, SMTT(30)
  <2> QED
    BY <2>3, <2>4 DEF QueueInv, WakeableIsHead
<1>5. ASSUME NEW t \in Threads, ResumeRequeue(t, wakeable[t]) PROVE QueueInv'
  <2>1. queue # <<>> /\ Head(queue) = t
    BY <1>5, <1>a DEF ResumeRequeue, WakeableIsHead
  <2>2. /\ queue' = Append(Dequeue(queue), t) /\ pc' = pc /\ pc[t] = "wait"
        /\ wakeable' = [wakeable EXCEPT ![t] = FALSE]
    BY <1>5 DEF ResumeRequeue
  <2>3. /\ Dequeue(queue) \in Seq(Threads) /\ Distinct(Dequeue(queue))
        /\ \A x : Occurs(x, Dequeue(queue)) <=> Occurs(x, queue) /\ x # t
        /\ Occurs(t, queue)
    BY <1>a, <2>1, DequeueQueue, DequeueType
  <2>4. QueueExact'
    BY <1>a, <2>2, <2>3, EnqueueQueue, QueueExactAltNext
  <2>5. \A u \in Threads : pc'[u] = "wait" => ~wakeable'[u]
    BY <1>a, <2>1, <2>2 DEF WakeableIsHead
  <2> QED
    BY <2>4, <2>5 DEF QueueInv, WakeableIsHead
<1>6. ASSUME NEW t \in Threads, Timeout(t, wakeable[t]) PROVE QueueInv'
  <2>1. /\ queue' = Without(queue, t) /\ pc' = [pc EXCEPT ![t] = "idle"]
        /\ pc[t] = "wait" /\ ~wakeable[t] /\ wakeable' = wakeable
    BY <1>6 DEF Timeout
  <2>2. Occurs(t, queue)
    BY <1>a, <2>1
  <2>3. QueueExact'
    BY <1>a, <2>1, <2>2, RemoveQueue, QueueExactAltNext
  <2>4. ASSUME NEW u \in Threads, pc'[u] = "wait", wakeable'[u]
        PROVE  queue' # <<>> /\ Head(queue') = u
    <3>1. u # t /\ Head(queue) = u
      BY <1>a, <2>1, <2>4 DEF WakeableIsHead
    <3> QED
      BY <1>a, <2>1, <2>2, <3>1, RemoveQueue
  <2> QED
    BY <2>3, <2>4 DEF QueueInv, WakeableIsHead
<1>7. ASSUME NEW t \in Threads, NEW r \in Requests, TryAcquire(t, r) PROVE QueueInv'
  <2>1. /\ queue' = queue /\ wakeable' = wakeable
        /\ \A u \in Threads : pc'[u] = "wait" <=> pc[u] = "wait"
    BY <1>7 DEF TryAcquire, Calls
  <2> QED
    BY <1>a, <1>b, <2>1 DEF QueueInv, WakeableIsHead
<1>8. ASSUME NEW r \in Requests, DoRelease(r),
             \A u \in Threads : pc'[u] = "wait" <=> pc[u] = "wait"
      PROVE  QueueInv'
  <2>1. queue' = queue /\ (wakeable' = wakeable \/ wakeable' = WakeHead(queue, wakeable))
    BY <1>8 DEF DoRelease
  <2>2. WakeableIsHead'
    BY <1>a, <1>8, <2>1, WakeHeadOnly DEF WakeableIsHead
  <2> QED
    BY <1>b, <1>8, <2>1, <2>2 DEF QueueInv
<1>9. ASSUME NEW t \in Threads, Release(t) PROVE QueueInv'
  BY <1>8, <1>9 DEF Release
<1>10. ASSUME NEW t \in Threads, NEW r \in Requests, Post(t, r) PROVE QueueInv'
  BY <1>8, <1>10 DEF Post
<1> QED
  BY <1>1, <1>2, <1>3, <1>4, <1>5, <1>6, <1>7, <1>9, <1>10 DEF Next, Resume

LEMMA QueueInvariant == Spec => []QueueInv
  BY QueueInit, QueueStep, TypeCorrect, PTL DEF Spec

\* The queue holds exactly the waiting threads, each once.
THEOREM QueueCorrect == Spec => []QueueExact
<1>1. QueueInv => QueueExact
  BY DEF QueueInv
<1> QED
  BY <1>1, QueueInvariant, PTL

\* "When control reaches here current thread is at the head of the queue": a
\* woken thread dequeues its own node.
THEOREM WokenIsHead == Spec => []WakeableIsHead
<1>1. QueueInv => WakeableIsHead
  BY DEF QueueInv
<1> QED
  BY <1>1, QueueInvariant, PTL

-----------------------------------------------------------------------------
(* The record. request_record holds more than the queue (a request that    *)
(* timed out stays recorded) but never less.                               *)

Waiting(r) == {t \in Threads : pc[t] = "wait" /\ request[t] = r}

\* However many threads there are, those that wait are in the queue, so they are
\* finitely many and can be counted.
LEMMA WaitingFinite ==
  ASSUME TypeOK, QueueExact, NEW r
  PROVE  IsFiniteSet(Waiting(r)) /\ Cardinality(Waiting(r)) \in Nat
<1> DEFINE f == [t \in Waiting(r) |-> CHOOSE i \in 1..Len(queue) : queue[i] = t]
<1>1. ASSUME NEW t \in Waiting(r) PROVE f[t] \in 1..Len(queue) /\ queue[f[t]] = t
  <2>1. \E i \in 1..Len(queue) : queue[i] = t
    BY <1>1 DEF Waiting, QueueExact
  <2> QED
    BY <2>1
<1>2. f \in [Waiting(r) -> 1..Len(queue)]
  BY <1>1
<1>3. \A t, u \in Waiting(r) : f[t] = f[u] => t = u
  BY <1>1
<1>4. f \in Injection(Waiting(r), 1..Len(queue))
  <2> HIDE DEF f
  <2> QED
    BY <1>2, <1>3 DEF Injection, IsInjective
<1>5. IsFiniteSet(1..Len(queue))
  BY LenProperties, FS_Interval DEF TypeOK
<1>6. IsFiniteSet(Waiting(r))
  BY <1>4, <1>5, FS_Injection
<1> QED
  BY <1>6, FS_CardinalityType

LEMMA RecordStep ==
  ASSUME TypeOK, TypeOK', QueueInv, QueueInv', RecordCoversQueue, [Next]_vars
  PROVE  RecordCoversQueue'
<1> SUFFICES ASSUME NEW r \in Requests
             PROVE  Cardinality(Waiting(r)') <= request_record'[r]
  BY DEF RecordCoversQueue, Waiting
<1>a. /\ IsFiniteSet(Waiting(r)) /\ Cardinality(Waiting(r)) \in Nat
      /\ request_record[r] \in Nat /\ Cardinality(Waiting(r)) <= request_record[r]
  BY WaitingFinite DEF QueueInv, RecordCoversQueue, Waiting, TypeOK
\* A step that blocks and unblocks nobody.
<1>b. ASSUME request_record' = request_record,
             \A u \in Threads : pc'[u] = "wait" <=> pc[u] = "wait",
             \A u \in Threads : pc[u] = "wait" => request'[u] = request[u]
      PROVE  Cardinality(Waiting(r)') <= request_record'[r]
  <2>1. Waiting(r)' = Waiting(r)
    BY <1>b DEF Waiting
  <2> QED
    BY <1>a, <1>b, <2>1
\* A step after which one thread waits no longer.
<1>c. ASSUME NEW t \in Threads, NEW p, p # "wait", pc[t] = "wait",
             pc' = [pc EXCEPT ![t] = p], request' = request
      PROVE  /\ request[t] = r => Cardinality(Waiting(r)') = Cardinality(Waiting(r)) - 1
             /\ request[t] # r => Cardinality(Waiting(r)') = Cardinality(Waiting(r))
  <2>1. Waiting(r)' = Waiting(r) \ {t}
    BY <1>c DEF Waiting, TypeOK
  <2>2. t \in Waiting(r) <=> request[t] = r
    BY <1>c DEF Waiting
  <2> QED
    BY <1>a, <2>1, <2>2, FS_RemoveElement
<1>1. CASE UNCHANGED vars
  BY <1>1, <1>b DEF vars
<1>2. ASSUME NEW t \in Threads, NEW op \in Ops, NEW q \in Requests,
             AcquireAtOnce(t, op, q, queue = <<>>)
      PROVE  Cardinality(Waiting(r)') <= request_record'[r]
  BY <1>2, <1>b DEF AcquireAtOnce, Calls, TypeOK
<1>3. ASSUME NEW t \in Threads, NEW op \in Ops, NEW q \in Requests,
             AcquireBlock(t, op, q, queue = <<>>)
      PROVE  Cardinality(Waiting(r)') <= request_record'[r]
  <2>1. /\ pc[t] = "idle" /\ pc' = [pc EXCEPT ![t] = "wait"]
        /\ request' = [request EXCEPT ![t] = q]
        /\ request_record' = [request_record EXCEPT ![q] = @ + 1]
    BY <1>3, <1>a DEF AcquireBlock, RecordInsert, Calls
  <2>2. CASE q = r
    <3>1. Waiting(r)' = Waiting(r) \cup {t} /\ t \notin Waiting(r)
      BY <2>1, <2>2 DEF Waiting, TypeOK
    <3>2. Cardinality(Waiting(r)') = Cardinality(Waiting(r)) + 1
      BY <1>a, <3>1, FS_AddElement
    <3>3. request_record'[r] = request_record[r] + 1
      BY <2>1, <2>2 DEF TypeOK
    <3> QED
      BY <1>a, <3>2, <3>3
  <2>3. CASE q # r
    <3>1. Waiting(r)' = Waiting(r) /\ request_record'[r] = request_record[r]
      BY <2>1, <2>3 DEF Waiting, TypeOK
    <3> QED
      BY <1>a, <3>1
  <2> QED
    BY <2>2, <2>3
<1>4. ASSUME NEW t \in Threads, ResumeGranted(t, wakeable[t])
      PROVE  Cardinality(Waiting(r)') <= request_record'[r]
  <2>1. /\ pc[t] = "wait" /\ pc' = [pc EXCEPT ![t] = "hold"] /\ request' = request
        /\ request_record' = [request_record EXCEPT ![request[t]] = IF @ > 0 THEN @ - 1 ELSE @]
    BY <1>4 DEF ResumeGranted, RecordRemove
  <2>2. CASE request[t] = r
    <3>1. request_record'[r] >= request_record[r] - 1
      BY <1>a, <2>1, <2>2 DEF TypeOK
    <3>2. Cardinality(Waiting(r)') = Cardinality(Waiting(r)) - 1
      BY <1>c, <2>1, <2>2
    <3>3. request_record'[r] \in Nat
      BY DEF TypeOK
    <3> QED
      BY <1>a, <3>1, <3>2, <3>3
  <2>3. CASE request[t] # r
    <3>1. request_record'[r] = request_record[r]
      BY <2>1, <2>3 DEF TypeOK
    <3>2. Cardinality(Waiting(r)') = Cardinality(Waiting(r))
      BY <1>c, <2>1, <2>3
    <3> QED
      BY <1>a, <3>1, <3>2
  <2> QED
    BY <2>2, <2>3
<1>5. ASSUME NEW t \in Threads, ResumeRequeue(t, wakeable[t])
      PROVE  Cardinality(Waiting(r)') <= request_record'[r]
  BY <1>5, <1>b DEF ResumeRequeue
<1>6. ASSUME NEW t \in Threads, Timeout(t, wakeable[t])
      PROVE  Cardinality(Waiting(r)') <= request_record'[r]
  <2>1. /\ pc[t] = "wait" /\ pc' = [pc EXCEPT ![t] = "idle"] /\ request' = request
        /\ request_record' = request_record
    BY <1>6 DEF Timeout
  <2>2. \/ Cardinality(Waiting(r)') = Cardinality(Waiting(r)) - 1
        \/ Cardinality(Waiting(r)') = Cardinality(Waiting(r))
    BY <1>c, <2>1
  <2> QED
    BY <1>a, <2>1, <2>2
<1>7. ASSUME NEW t \in Threads, NEW q \in Requests, TryAcquire(t, q)
      PROVE  Cardinality(Waiting(r)') <= request_record'[r]
  BY <1>7, <1>b DEF TryAcquire, Calls, TypeOK
<1>8. ASSUME NEW t \in Threads, Release(t)
      PROVE  Cardinality(Waiting(r)') <= request_record'[r]
  BY <1>8, <1>b DEF Release, DoRelease, TypeOK
<1>9. ASSUME NEW t \in Threads, NEW q \in Requests, Post(t, q)
      PROVE  Cardinality(Waiting(r)') <= request_record'[r]
  BY <1>9, <1>b DEF Post, DoRelease
<1> QED
  BY <1>1, <1>2, <1>3, <1>4, <1>5, <1>6, <1>7, <1>8, <1>9 DEF Next, Resume

\* request_record never misses a waiting request, for requests of any sizes and
\* any mix of timeouts and barging: what release() compares the permits with is
\* never larger than the smallest request in the queue.
THEOREM RecordAlwaysCovers == Spec => []RecordCoversQueue
<1>1. ASSUME Init PROVE RecordCoversQueue
  <2>1. ASSUME NEW r \in Requests
        PROVE  Cardinality({t \in Threads : pc[t] = "wait" /\ request[t] = r})
                 <= request_record[r]
    <3>1. {t \in Threads : pc[t] = "wait" /\ request[t] = r} = {}
      BY <1>1 DEF Init
    <3>2. request_record[r] = 0
      BY <1>1 DEF Init
    <3> QED
      BY <3>1, <3>2, FS_EmptySet
  <2> QED
    BY <2>1 DEF RecordCoversQueue
<1>2. TypeOK /\ TypeOK' /\ QueueInv /\ QueueInv' /\ RecordCoversQueue /\ [Next]_vars
        => RecordCoversQueue'
  BY RecordStep
<1> QED
  BY <1>1, <1>2, TypeCorrect, QueueInvariant, PTL DEF Spec

-----------------------------------------------------------------------------
(* Requests of one size. request_record_min() is then that size whenever   *)
(* anything is recorded, however stale the record is, and no wake-up is    *)
(* sent to the wrong thread.                                               *)

LEMMA RecordMinUniform ==
  ASSUME NEW k \in 0..IntMax, Requests = {k}, NEW rec \in [Requests -> Nat]
  PROVE  RecordMin(rec) = IF rec[k] > 0 THEN k ELSE 0
<1>1. CASE rec[k] > 0
  <2> DEFINE P(r) == rec[r] > 0 /\ \A q \in Requests : rec[q] > 0 => r <= q
  <2>1. \E r \in Requests : P(r)
    BY <1>1
  <2>2. (CHOOSE r \in Requests : P(r)) \in Requests
    BY <2>1
  <2>3. Smallest(rec) = k
    BY <2>2 DEF Smallest
  <2> QED
    BY <1>1, <2>3, AsIntSmall DEF RecordMin
<1>2. CASE ~(rec[k] > 0)
  BY <1>2 DEF RecordMin
<1> QED
  BY <1>1, <1>2

LEMMA StrandedStep ==
  ASSUME NEW k \in 0..IntMax, Requests = {k},
         TypeOK, TypeOK', QueueInv, QueueInv', NoStrandedHead, [Next]_vars
  PROVE  NoStrandedHead'
<1>a. /\ \A t \in Threads : request[t] = k /\ request'[t] = k
      /\ AsInt(k) = k /\ k \in Nat
  BY AsIntSmall DEF TypeOK
<1>b. queue # <<>> => Head(queue) \in Threads
  BY HeadTailProperties DEF TypeOK
<1>c. queue' # <<>> => Head(queue') \in Threads
  BY HeadTailProperties DEF TypeOK
<1>d. permits \in Int /\ permits' \in Int
  BY DEF TypeOK
<1>e. RecordMin(request_record') <= k /\ RecordMin(request_record) <= k
      /\ RecordMin(request_record') \in Nat /\ RecordMin(request_record) \in Nat
  <2>1. request_record \in [Requests -> Nat] /\ request_record' \in [Requests -> Nat]
    BY DEF TypeOK
  <2>2. RecordMin(request_record) = k \/ RecordMin(request_record) = 0
    BY <2>1, RecordMinUniform
  <2>3. RecordMin(request_record') = k \/ RecordMin(request_record') = 0
    BY <2>1, RecordMinUniform
  <2> QED
    BY <2>2, <2>3
\* It suffices that the new head is woken if there are permits for it.
<1>f. SUFFICES ASSUME queue' # <<>>, permits' >= k
               PROVE  wakeable'[Head(queue')]
  BY <1>a, <1>c DEF NoStrandedHead
<1>g. ASSUME queue # <<>>, permits >= k PROVE wakeable[Head(queue)]
  BY <1>a, <1>b, <1>g DEF NoStrandedHead
<1>1. CASE UNCHANGED vars
  BY <1>1, <1>f, <1>g DEF vars
<1>2. ASSUME NEW t \in Threads, NEW op \in Ops, NEW r \in Requests,
             AcquireAtOnce(t, op, r, queue = <<>>)
      PROVE  wakeable'[Head(queue')]
  BY <1>2, <1>f DEF AcquireAtOnce
<1>3. ASSUME NEW t \in Threads, NEW op \in Ops, NEW r \in Requests,
             AcquireBlock(t, op, r, queue = <<>>)
      PROVE  wakeable'[Head(queue')]
  <2>1. /\ ~(permits >= k /\ queue = <<>>) /\ permits' = permits
        /\ queue' = Append(queue, t) /\ wakeable' = [wakeable EXCEPT ![t] = FALSE]
        /\ pc[t] = "idle"
    BY <1>3, <1>a DEF AcquireBlock, RecordInsert, Calls
  <2>2. Distinct(queue) /\ ~Occurs(t, queue)
    BY <2>1, QueueExactAlt DEF QueueInv
  <2>3. queue # <<>> /\ Head(queue') = Head(queue) /\ Head(queue) # t
    BY <1>f, <2>1, <2>2, EnqueueQueue, DequeueQueue DEF TypeOK
  <2> QED
    BY <1>b, <1>f, <1>g, <2>1, <2>3 DEF TypeOK
<1>4. ASSUME NEW t \in Threads, ResumeGranted(t, wakeable[t]) PROVE wakeable'[Head(queue')]
  <2>1. permits' >= RecordMin(request_record')
    BY <1>d, <1>e, <1>f
  <2>2. wakeable' = WakeHead(queue', [wakeable EXCEPT ![t] = FALSE])
    BY <1>4, <2>1 DEF ResumeGranted
  <2> QED
    BY <1>f, <2>2, WakeHeadOnly DEF TypeOK
<1>5. ASSUME NEW t \in Threads, ResumeRequeue(t, wakeable[t]) PROVE wakeable'[Head(queue')]
  BY <1>5, <1>a, <1>f DEF ResumeRequeue
<1>6. ASSUME NEW t \in Threads, Timeout(t, wakeable[t]) PROVE wakeable'[Head(queue')]
  <2>1. /\ queue' = Without(queue, t) /\ pc[t] = "wait" /\ ~wakeable[t]
        /\ UNCHANGED <<permits, wakeable>>
    BY <1>6 DEF Timeout
  <2>2. Distinct(queue) /\ Occurs(t, queue)
    BY <2>1, QueueExactAlt DEF QueueInv
  <2>3. queue # <<>>
    BY <2>2, EmptySeq DEF Occurs
  <2>4. Head(queue) # t
    BY <1>f, <1>g, <2>1, <2>3
  <2> QED
    BY <1>f, <1>g, <2>1, <2>2, <2>3, <2>4, RemoveQueue DEF TypeOK
<1>7. ASSUME NEW t \in Threads, NEW r \in Requests, TryAcquire(t, r)
      PROVE  wakeable'[Head(queue')]
  BY <1>7, <1>a, <1>d, <1>f, <1>g DEF TryAcquire
<1>8. ASSUME NEW r \in Requests, DoRelease(r) PROVE wakeable'[Head(queue')]
  <2>1. permits' >= RecordMin(request_record) /\ queue' = queue
    BY <1>8, <1>a, <1>d, <1>e, <1>f DEF DoRelease
  <2>2. wakeable' = WakeHead(queue, wakeable)
    BY <1>8, <2>1 DEF DoRelease
  <2> QED
    BY <1>f, <2>1, <2>2, WakeHeadOnly DEF TypeOK
<1>9. ASSUME NEW t \in Threads, Release(t) PROVE wakeable'[Head(queue')]
  BY <1>8, <1>9 DEF Release, TypeOK
<1>10. ASSUME NEW t \in Threads, NEW r \in Requests, Post(t, r)
       PROVE  wakeable'[Head(queue')]
  BY <1>8, <1>10 DEF Post
<1> QED
  BY <1>1, <1>2, <1>3, <1>4, <1>5, <1>6, <1>7, <1>9, <1>10 DEF Next, Resume

\* With requests of one size, which fits an int, nobody is stranded: timed-out, barging and released
\* permits all leave the head of the queue woken when it could be served.
THEOREM NobodyStranded ==
  ASSUME NEW CONSTANT k \in 0..IntMax, Requests = {k}
  PROVE  Spec => []NoStrandedHead
<1>1. Init => NoStrandedHead
  BY DEF Init, NoStrandedHead
<1>2. TypeOK /\ TypeOK' /\ QueueInv /\ QueueInv' /\ NoStrandedHead /\ [Next]_vars
        => NoStrandedHead'
  BY StrandedStep
<1> QED
  BY <1>1, <1>2, TypeCorrect, QueueInvariant, PTL DEF Spec

-----------------------------------------------------------------------------
(* First come, first served: requests of one size and no barging.          *)

NoBarging == \A t \in Threads, r \in Requests : <<"try", r>> \notin Menu[t]

\* Nobody is re-queued, because a woken thread finds its permits: those that are
\* released go to the head and stay for it.
FifoInv ==
  /\ arrivals = queue
  /\ \A t \in Threads : pc[t] = "wait" /\ wakeable[t] => permits >= request[t]
  /\ \A r \in Requests : request_record[r] >= Len(queue)

LEMMA WithoutHead ==
  ASSUME NEW s \in Seq(Threads), Distinct(s), s # <<>>
  PROVE  Without(s, Head(s)) = Dequeue(s)
<1>1. /\ Dequeue(s) = Tail(s) /\ Len(s) \in Nat /\ Len(s) > 0
      /\ Len(Tail(s)) = Len(s) - 1 /\ Head(s) = s[1] /\ Tail(s) \in Seq(Threads)
      /\ \A i \in 1..Len(Tail(s)) : Tail(s)[i] = s[i + 1]
  BY HeadTailProperties, LenProperties, EmptySeq DEF Dequeue
<1>2. Position(s, Head(s)) = 1
  BY <1>1 DEF Position, Distinct
<1>3. Without(s, Head(s)) = [i \in 1..(Len(s) - 1) |-> s[i + 1]]
  BY <1>1, <1>2 DEF Without
<1>4. Without(s, Head(s)) \in Seq(Threads)
  BY WithoutType
<1>5. Len(Without(s, Head(s))) = Len(s) - 1
  <2>1. Occurs(Head(s), s)
    BY DequeueQueue
  <2> QED
    BY <2>1, RemoveQueue
<1> QED
  BY <1>1, <1>3, <1>4, <1>5, SeqEqual

LEMMA FifoStep ==
  ASSUME NEW k \in 0..IntMax, Requests = {k}, NoBarging,
         TypeOK, TypeOK', QueueInv, QueueInv', FifoInv, [Next]_vars
  PROVE  /\ FifoInv'
         /\ \A t \in Threads : pc[t] = "wait" /\ pc'[t] = "hold" => t = Head(arrivals)
<1> DEFINE InOrder ==
      \A t \in Threads : pc[t] = "wait" /\ pc'[t] = "hold" => t = Head(arrivals)
<1>a. /\ \A t \in Threads : request[t] = k /\ request'[t] = k
      /\ AsInt(k) = k /\ k \in Nat
  BY AsIntSmall DEF TypeOK
<1>b. permits \in Int /\ permits' \in Int /\ Len(queue) \in Nat /\ Len(queue') \in Nat
  BY LenProperties DEF TypeOK
<1>c. request_record[k] \in Nat /\ request_record[k] >= Len(queue)
  BY DEF TypeOK, FifoInv
<1>d. Distinct(queue) /\ (\A t \in Threads : pc[t] = "wait" <=> Occurs(t, queue))
  BY QueueExactAlt DEF QueueInv
\* A queue with somebody in it is never empty, nor is the record then.
<1>e. \A t \in Threads : pc'[t] = "wait" => queue' # <<>> /\ Len(queue') > 0
  <2>1. \A t \in Threads : pc'[t] = "wait" => Occurs(t, queue')
    BY QueueExactAltNext DEF QueueInv
  <2> QED
    BY <2>1, <1>b, EmptySeq DEF Occurs
\* Whoever wakes the head has compared the permits with k.
<1>f. ASSUME request_record'[k] >= Len(queue'), permits' >= RecordMin(request_record'),
             NEW t \in Threads, pc'[t] = "wait"
      PROVE  permits' >= k
  <2>1. request_record' \in [Requests -> Nat]
    BY DEF TypeOK
  <2>2. request_record'[k] > 0
    BY <1>b, <1>e, <1>f, <2>1
  <2>3. RecordMin(request_record') = k
    BY <2>1, <2>2, RecordMinUniform
  <2> QED
    BY <1>f, <2>3
<1> DEFINE Goal ==
      /\ arrivals' = queue'
      /\ \A t \in Threads : pc'[t] = "wait" /\ wakeable'[t] => permits' >= k
      /\ request_record'[k] >= Len(queue')
      /\ InOrder
<1>g. SUFFICES Goal
  BY <1>a DEF FifoInv
<1>h. \A t \in Threads : pc[t] = "wait" /\ wakeable[t] => permits >= k
  BY <1>a DEF FifoInv
<1>i. arrivals = queue
  BY DEF FifoInv
<1>1. CASE UNCHANGED vars
  BY <1>1, <1>c, <1>h, <1>i DEF vars
<1>2. ASSUME NEW t \in Threads, NEW op \in Ops, NEW r \in Requests,
             AcquireAtOnce(t, op, r, queue = <<>>)
      PROVE  Goal
  <2>1. /\ queue = <<>> /\ pc[t] = "idle" /\ pc' = [pc EXCEPT ![t] = "hold"]
        /\ UNCHANGED <<queue, wakeable, request_record, arrivals>>
    BY <1>2 DEF AcquireAtOnce, Calls
  <2>2. \A u \in Threads : pc'[u] # "wait"
    BY <1>e, <2>1
  <2>3. InOrder
    BY <2>1 DEF TypeOK
  <2> QED
    BY <1>c, <1>i, <2>1, <2>2, <2>3
<1>3. ASSUME NEW t \in Threads, NEW op \in Ops, NEW r \in Requests,
             AcquireBlock(t, op, r, queue = <<>>)
      PROVE  Goal
  <2>1. /\ queue' = Append(queue, t) /\ arrivals' = Append(arrivals, t)
        /\ wakeable' = [wakeable EXCEPT ![t] = FALSE]
        /\ pc' = [pc EXCEPT ![t] = "wait"] /\ permits' = permits
        /\ request_record' = [request_record EXCEPT ![k] = @ + 1]
    BY <1>3 DEF AcquireBlock, RecordInsert
  <2>2. Len(queue') = Len(queue) + 1 /\ request_record'[k] = request_record[k] + 1
    BY <2>1, AppendProperties DEF TypeOK
  <2>3. \A u \in Threads : pc'[u] = "wait" /\ wakeable'[u] => permits' >= k
    BY <1>h, <2>1 DEF TypeOK
  <2>4. InOrder
    BY <2>1 DEF TypeOK
  <2> QED
    BY <1>b, <1>c, <1>i, <2>1, <2>2, <2>3, <2>4
<1>4. ASSUME NEW t \in Threads, ResumeGranted(t, wakeable[t]) PROVE Goal
  <2>1. /\ pc[t] = "wait" /\ wakeable[t] /\ pc' = [pc EXCEPT ![t] = "hold"]
        /\ queue' = Dequeue(queue) /\ arrivals' = Without(arrivals, t)
        /\ request_record' = [request_record EXCEPT ![k] = IF @ > 0 THEN @ - 1 ELSE @]
        /\ wakeable' = IF permits' >= RecordMin(request_record')
                       THEN WakeHead(queue', [wakeable EXCEPT ![t] = FALSE])
                       ELSE [wakeable EXCEPT ![t] = FALSE]
    BY <1>4, <1>a DEF ResumeGranted, RecordRemove
  <2>2. queue # <<>> /\ Head(queue) = t
    BY <2>1 DEF QueueInv, WakeableIsHead
  <2>3. arrivals' = queue'
    BY <1>d, <1>i, <2>1, <2>2, WithoutHead DEF TypeOK
  <2>4. Len(queue') = Len(queue) - 1
    BY <2>1, <2>2, HeadTailProperties DEF TypeOK, Dequeue
  <2>5. request_record'[k] >= Len(queue')
    BY <1>b, <1>c, <2>1, <2>4 DEF TypeOK
  <2>6. ASSUME NEW u \in Threads, pc'[u] = "wait", wakeable'[u]
        PROVE  permits' >= k
    <3>1. u # t /\ pc[u] = "wait"
      BY <2>1, <2>6 DEF TypeOK
    <3>2. ~wakeable[u]
      BY <2>2, <3>1 DEF QueueInv, WakeableIsHead
    <3>3. ~[wakeable EXCEPT ![t] = FALSE][u]
      BY <3>1, <3>2 DEF TypeOK
    <3>4. permits' >= RecordMin(request_record')
      BY <2>1, <2>6, <3>3
    <3> QED
      BY <1>f, <2>5, <2>6, <3>4
  <2>7. InOrder
    BY <1>i, <2>1, <2>2 DEF TypeOK
  <2> QED
    BY <2>3, <2>5, <2>6, <2>7
<1>5. ASSUME NEW t \in Threads, ResumeRequeue(t, wakeable[t]) PROVE Goal
  <2>1. pc[t] = "wait" /\ wakeable[t] /\ ~(permits >= k)
    BY <1>5, <1>a DEF ResumeRequeue
  <2> QED
    BY <1>h, <2>1
<1>6. ASSUME NEW t \in Threads, Timeout(t, wakeable[t]) PROVE Goal
  <2>1. /\ queue' = Without(queue, t) /\ arrivals' = Without(arrivals, t)
        /\ pc[t] = "wait" /\ pc' = [pc EXCEPT ![t] = "idle"]
        /\ UNCHANGED <<permits, wakeable, request_record>>
    BY <1>6 DEF Timeout
  <2>2. Len(queue') = Len(queue) - 1
    BY <1>d, <2>1, RemoveQueue DEF TypeOK
  <2>3. InOrder
    BY <2>1 DEF TypeOK
  <2>4. \A u \in Threads : pc'[u] = "wait" /\ wakeable'[u] => permits' >= k
    BY <1>h, <2>1 DEF TypeOK
  <2> QED
    BY <1>b, <1>c, <1>i, <2>1, <2>2, <2>3, <2>4
<1>7. ASSUME NEW t \in Threads, NEW r \in Requests, TryAcquire(t, r) PROVE Goal
  BY <1>7 DEF TryAcquire, Calls, NoBarging
<1>8. ASSUME NEW r \in Requests, DoRelease(r),
             \A u \in Threads : pc'[u] = "wait" <=> pc[u] = "wait", InOrder
      PROVE  Goal
  <2>1. /\ permits' = permits + r /\ r = k
        /\ wakeable' = IF permits' >= RecordMin(request_record')
                       THEN WakeHead(queue', wakeable) ELSE wakeable
        /\ UNCHANGED <<queue, request_record, arrivals>>
    BY <1>8, <1>a DEF DoRelease
  <2>2. ASSUME NEW u \in Threads, pc'[u] = "wait", wakeable'[u]
        PROVE  permits' >= k
    <3>1. CASE permits' >= RecordMin(request_record')
      BY <1>c, <1>f, <2>1, <2>2, <3>1
    <3>2. CASE ~(permits' >= RecordMin(request_record'))
      <4>1. permits >= k
        BY <1>8, <1>h, <2>1, <2>2, <3>2
      <4> QED
        BY <4>1, <2>1, <1>b
    <3> QED
      BY <3>1, <3>2
  <2> QED
    BY <1>8, <1>c, <1>i, <2>1, <2>2
<1>9. ASSUME NEW t \in Threads, Release(t) PROVE Goal
  <2>1. DoRelease(k) /\ pc[t] = "hold" /\ pc' = [pc EXCEPT ![t] = "idle"]
    BY <1>9, <1>a DEF Release
  <2>2. InOrder /\ \A u \in Threads : pc'[u] = "wait" <=> pc[u] = "wait"
    BY <2>1 DEF TypeOK
  <2> QED
    BY <1>8, <2>1, <2>2
<1>10. ASSUME NEW t \in Threads, NEW r \in Requests, Post(t, r) PROVE Goal
  <2>1. DoRelease(r) /\ pc' = pc
    BY <1>10 DEF Post
  <2> QED
    BY <1>8, <2>1
<1> QED
  BY <1>1, <1>2, <1>3, <1>4, <1>5, <1>6, <1>7, <1>9, <1>10 DEF Next, Resume

\* "A fair semaphore with an internal waiting queue": with requests of one size
\* and no barging try_acquire(), permits are granted in the order of arrival,
\* whatever is released and whoever times out.
THEOREM FirstComeFirstServed ==
  ASSUME NEW CONSTANT k \in 0..IntMax, Requests = {k}, NoBarging
  PROVE  Spec => GrantedInOrder
<1>1. Init => FifoInv
  BY EmptySeq DEF Init, FifoInv
<1>2. TypeOK /\ TypeOK' /\ QueueInv /\ QueueInv' /\ FifoInv /\ [Next]_vars
        => /\ FifoInv'
           /\ \A t \in Threads :
                pc[t] = "wait" /\ pc'[t] = "hold" => t = Head(arrivals)
  BY FifoStep
<1> QED
  BY <1>1, <1>2, TypeCorrect, QueueInvariant, PTL DEF Spec, GrantedInOrder

=============================================================================
