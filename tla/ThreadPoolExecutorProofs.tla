---------------------- MODULE ThreadPoolExecutorProofs ----------------------
(***************************************************************************)
(* Proofs about ThreadPoolExecutor, for any pool sizes, any clients, any   *)
(* tasks and any (finite) set of worker addresses.                         *)
(***************************************************************************)
EXTENDS ThreadPoolExecutor, SequenceTheorems, FiniteSetTheorems, TLAPS

\* The task of a client inside submit() is a task.
Submitting == \A c \in Clients : cpc[c] = "insert" => ctask[c] \in Tasks

(***************************************************************************)
(* TypeOK is not inductive by itself: remove_self_locked() indexes the     *)
(* vector with worker_index, so it needs WorkersIndexed, and the queue     *)
(* only gets tasks because of Submitting.                                  *)
(***************************************************************************)
IndexInv == TypeOK /\ WorkersIndexed /\ Submitting

InVector(w) == \E i \in 1..Len(workers) : workers[i] = w

-----------------------------------------------------------------------------
(* The helpers.                                                            *)

\* notify_one() and notify_all() only turn sleepers into woken threads.
LEMMA NotifyOneMoves ==
  ASSUME NEW pc \in [Workers -> WorkerPC], NEW pc2 \in NotifyOne(pc)
  PROVE  /\ pc2 \in [Workers -> WorkerPC]
         /\ \A w \in Workers : pc2[w] = pc[w] \/ (pc[w] = "wait" /\ pc2[w] = "woken")
<1>1. CASE Asleep(pc) = {}
  BY <1>1 DEF NotifyOne
<1>2. CASE Asleep(pc) # {}
  <2>1. PICK w \in Asleep(pc) : pc2 = [pc EXCEPT ![w] = "woken"]
    BY <1>2 DEF NotifyOne
  <2>2. w \in Workers /\ pc[w] = "wait"
    BY <2>1 DEF Asleep
  <2>3. "woken" \in WorkerPC
    BY DEF WorkerPC, LivePC, Ready
  <2> QED
    BY <2>1, <2>2, <2>3
<1> QED
  BY <1>1, <1>2

LEMMA NotifyAllMoves ==
  ASSUME NEW pc \in [Workers -> WorkerPC]
  PROVE  /\ NotifyAll(pc) \in [Workers -> WorkerPC]
         /\ \A w \in Workers : \/ NotifyAll(pc)[w] = pc[w]
                               \/ pc[w] = "wait" /\ NotifyAll(pc)[w] = "woken"
<1>1. "woken" \in WorkerPC
  BY DEF WorkerPC, LivePC, Ready
<1> QED
  BY <1>1 DEF NotifyAll

LEMMA NotifyAllAwaitingMoves ==
  ASSUME NEW pc \in [Clients -> ClientPC]
  PROVE  /\ NotifyAllAwaiting(pc) \in [Clients -> ClientPC]
         /\ \A c \in Clients : \/ NotifyAllAwaiting(pc)[c] = pc[c]
                               \/ pc[c] = "blocked" /\ NotifyAllAwaiting(pc)[c] = "await"
  BY DEF NotifyAllAwaiting, ClientPC

\* A living worker finds itself at worker_index, and at no other place.
LEMMA IndexOf ==
  ASSUME TypeOK, WorkersIndexed, NEW w \in Workers, wpc[w] \in LivePC
  PROVE  /\ worker_index[w] + 1 \in 1..Len(workers)
         /\ workers[worker_index[w] + 1] = w
         /\ \A i \in 1..Len(workers) : workers[i] = w => i = worker_index[w] + 1
<1>1. PICK i \in 1..Len(workers) : workers[i] = w
  BY DEF WorkersIndexed
<1>2. worker_index[w] = i - 1 /\ Len(workers) \in Nat
  BY <1>1, LenProperties DEF WorkersIndexed, TypeOK
<1>3. worker_index[w] + 1 = i
  BY <1>2
<1>4. \A j \in 1..Len(workers) : workers[j] = w => worker_index[w] = j - 1
  BY DEF WorkersIndexed
<1> QED
  BY <1>1, <1>2, <1>3, <1>4

-----------------------------------------------------------------------------
(* Type correctness.                                                       *)

LEMMA IndexInit == Init => IndexInv
<1> SUFFICES ASSUME Init PROVE IndexInv
  OBVIOUS
<1> USE ConstantsAssumption DEF ConstantsAssumption
<1>1. workers \in [1..CorePoolSize -> Workers] /\ AllDistinct(workers)
  BY DEF Init
<1>2. workers \in Seq(Workers) /\ Len(workers) = CorePoolSize
  <2>1. workers \in Seq(Workers)
    BY <1>1, SeqDef
  <2>2. DOMAIN workers = 1..CorePoolSize /\ DOMAIN workers = 1..Len(workers)
        /\ Len(workers) \in Nat
    BY <1>1, <2>1, LenProperties
  <2> QED
    BY <2>1, <2>2
<1>3. ASSUME NEW i \in 1..CorePoolSize
      PROVE  (CHOOSE j \in 1..CorePoolSize : workers[j] = workers[i]) = i
  BY <1>1 DEF AllDistinct
<1>4. \A i \in 1..Len(workers) : worker_index[workers[i]] = i - 1
  <2> TAKE i \in 1..Len(workers)
  <2>1. workers[i] \in Workers /\ i \in 1..CorePoolSize
    BY <1>1, <1>2
  <2> QED
    BY <1>3, <2>1 DEF Init
<1>5. worker_index \in [Workers -> Nat]
  <2>1. ASSUME NEW w \in Workers, \E i \in 1..CorePoolSize : workers[i] = w
        PROVE  (CHOOSE i \in 1..CorePoolSize : workers[i] = w) - 1 \in Nat
    <3>1. (CHOOSE i \in 1..CorePoolSize : workers[i] = w) \in 1..CorePoolSize
      BY <2>1
    <3> QED
      BY <3>1
  <2> QED
    BY <2>1 DEF Init
<1>6. TypeOK
  <2>1. <<>> \in Seq(Tasks)
    BY EmptySeq
  <2>2. core \in [Workers -> BOOLEAN]
    BY Zenon DEF Init
  <2>3. wpc \in [Workers -> WorkerPC]
    <3>1. "loop" \in WorkerPC /\ "free" \in WorkerPC
      BY DEF WorkerPC, LivePC, Ready
    <3> QED
      BY <3>1 DEF Init
  <2>4. cpc \in [Clients -> ClientPC]
    BY DEF Init, ClientPC
  <2>5. /\ wtask \in [Workers -> Tasks \cup {NoTask}]
        /\ ctask \in [Clients -> Tasks \cup {NoTask}]
        /\ future \in [Tasks -> {"none", "refused", "pending", "ready"}]
    BY DEF Init
  <2>6. /\ task_queue \in Seq(Tasks) /\ dead_workers \in SUBSET Workers
        /\ main_lock = NoThread /\ shut \in BOOLEAN /\ active_count \in Int
        /\ dtor = NoThread
    <3>1. /\ task_queue = <<>> /\ dead_workers = {} /\ main_lock = NoThread
          /\ shut = FALSE /\ active_count = 0 /\ dtor = NoThread
      BY Zenon DEF Init
    <3>2. shut \in BOOLEAN
      BY <3>1, Zenon
    <3>3. task_queue \in Seq(Tasks) /\ dead_workers \in SUBSET Workers
      BY <2>1, <3>1, Zenon
    <3>4. active_count \in Int
      BY <3>1
    <3> QED
      BY <3>1, <3>2, <3>3, <3>4, Zenon
  <2> QED
    BY <1>2, <1>5, <2>2, <2>3, <2>4, <2>5, <2>6 DEF TypeOK
<1>7. WorkersIndexed
  BY <1>2, <1>4 DEF Init, WorkersIndexed, LivePC, DeadPC, Ready, Busy
<1> QED
  BY <1>6, <1>7 DEF Init, IndexInv, Submitting

\* Steps that move no worker into or out of the vector or the dead list.
LEMMA SameStructure ==
  ASSUME WorkersIndexed, UNCHANGED <<workers, worker_index, dead_workers>>,
         \A w \in Workers : /\ wpc'[w] \in LivePC <=> wpc[w] \in LivePC
                            /\ wpc'[w] \in DeadPC <=> wpc[w] \in DeadPC
  PROVE  WorkersIndexed'
  BY DEF WorkersIndexed

\* A living worker moves on inside run().
LEMMA LiveMove ==
  ASSUME TypeOK, WorkersIndexed, NEW w \in Workers, NEW p \in LivePC,
         wpc[w] \in LivePC, wpc' = [wpc EXCEPT ![w] = p],
         UNCHANGED <<workers, worker_index, dead_workers>>
  PROVE  WorkersIndexed' /\ wpc' \in [Workers -> WorkerPC]
<1>1. \A q \in LivePC : q \notin DeadPC /\ q \in WorkerPC
  BY DEF LivePC, DeadPC, Ready, Busy, WorkerPC
<1>2. \A v \in Workers : /\ wpc'[v] \in LivePC <=> wpc[v] \in LivePC
                         /\ wpc'[v] \in DeadPC <=> wpc[v] \in DeadPC
  BY <1>1 DEF TypeOK
<1> QED
  BY <1>1, <1>2, SameStructure DEF TypeOK

\* notify_one(), notify_all() or nothing happened to the workers.
LEMMA NotifyMove ==
  ASSUME TypeOK, WorkersIndexed, UNCHANGED <<workers, worker_index, dead_workers>>,
         \A w \in Workers : wpc'[w] = wpc[w] \/ (wpc[w] = "wait" /\ wpc'[w] = "woken")
  PROVE  WorkersIndexed'
<1>1. "wait" \in LivePC /\ "woken" \in LivePC /\ "wait" \notin DeadPC /\ "woken" \notin DeadPC
  BY DEF LivePC, DeadPC, Ready
<1> QED
  BY <1>1, SameStructure

LEMMA InsertStep ==
  ASSUME IndexInv, NEW c \in Clients, InsertTask(c)
  PROVE  IndexInv'
<1> USE DEF IndexInv
<1>1. task_queue' \in Seq(Tasks)
  <2>1. ctask[c] \in Tasks
    BY DEF InsertTask, Submitting
  <2> QED
    BY <2>1, AppendProperties DEF InsertTask, TypeOK
<1>2. /\ cpc' \in [Clients -> ClientPC] /\ ctask' \in [Clients -> Tasks \cup {NoTask}]
      /\ UNCHANGED <<dead_workers, main_lock, shut, active_count, wtask, dtor, future>>
  BY DEF InsertTask, TypeOK, ClientPC
<1>3. Submitting'
  BY DEF InsertTask, Submitting, TypeOK
<1>4. CASE MustGrow
  <2>1. PICK w \in Workers : /\ wpc[w] = "free" /\ AddWorker(w, FALSE)
                             /\ wpc' \in NotifyOne([wpc EXCEPT ![w] = "loop"])
    BY <1>4 DEF InsertTask
  <2> DEFINE pc == [wpc EXCEPT ![w] = "loop"]
  <2>2. pc \in [Workers -> WorkerPC]
    <3>1. "loop" \in WorkerPC
      BY DEF WorkerPC, LivePC, Ready
    <3> QED
      BY <3>1 DEF TypeOK
  <2>3. /\ wpc' \in [Workers -> WorkerPC]
        /\ \A v \in Workers : wpc'[v] = pc[v] \/ (pc[v] = "wait" /\ wpc'[v] = "woken")
    BY <2>1, <2>2, NotifyOneMoves
  <2>4. /\ workers' = Append(workers, w) /\ workers \in Seq(Workers)
        /\ Len(workers) \in Nat
        /\ worker_index' = [worker_index EXCEPT ![w] = Len(workers)]
        /\ core' = [core EXCEPT ![w] = FALSE]
    BY <2>1, LenProperties DEF AddWorker, TypeOK
  <2>5. /\ workers' \in Seq(Workers) /\ Len(workers') = Len(workers) + 1
        /\ \A i \in 1..Len(workers) : workers'[i] = workers[i]
        /\ workers'[Len(workers) + 1] = w
    BY <2>4, AppendProperties
  <2>6. /\ worker_index' \in [Workers -> Nat] /\ core' \in [Workers -> BOOLEAN]
    BY <2>4 DEF TypeOK
  <2>7. "free" \notin LivePC /\ "free" \notin DeadPC
    BY DEF LivePC, DeadPC, Ready, Busy
  <2>8. \A i \in 1..Len(workers) : workers[i] \in Workers /\ workers[i] # w
    BY <2>1, <2>4, <2>7, ElementOfSeq DEF WorkersIndexed
  <2>9. \A i \in 1..Len(workers') : worker_index'[workers'[i]] = i - 1
    <3>1. ASSUME NEW i \in 1..Len(workers) PROVE worker_index'[workers'[i]] = i - 1
      BY <2>4, <2>5, <2>8 DEF WorkersIndexed, TypeOK
    <3>2. worker_index'[workers'[Len(workers) + 1]] = Len(workers)
      BY <2>4, <2>5 DEF TypeOK
    <3> QED
      BY <2>4, <2>5, <3>1, <3>2
  <2>10. \A v \in Workers : /\ wpc'[v] \in LivePC <=> wpc[v] \in LivePC \/ v = w
                            /\ wpc'[v] \in DeadPC <=> wpc[v] \in DeadPC
    BY <2>1, <2>3 DEF LivePC, DeadPC, Ready, Busy, TypeOK
  <2>11. \A v \in Workers :
           (\E i \in 1..Len(workers') : workers'[i] = v)
             <=> (\E i \in 1..Len(workers) : workers[i] = v) \/ v = w
    BY <2>4, <2>5
  <2>12. WorkersIndexed'
    BY <1>2, <2>9, <2>10, <2>11 DEF WorkersIndexed
  <2> QED
    BY <1>1, <1>2, <1>3, <2>3, <2>5, <2>6, <2>12 DEF TypeOK
<1>5. CASE ~MustGrow
  <2>1. wpc' \in NotifyOne(wpc) /\ UNCHANGED <<workers, worker_index, core>>
    BY <1>5 DEF InsertTask
  <2>2. /\ wpc' \in [Workers -> WorkerPC]
        /\ \A v \in Workers : wpc'[v] = wpc[v] \/ (wpc[v] = "wait" /\ wpc'[v] = "woken")
    BY <2>1, NotifyOneMoves DEF TypeOK
  <2>3. WorkersIndexed'
    BY <1>2, <2>1, <2>2, NotifyMove
  <2> QED
    BY <1>1, <1>2, <1>3, <2>1, <2>2, <2>3 DEF TypeOK
<1> QED
  BY <1>4, <1>5

\* remove_self_locked() takes exactly the calling worker out of the vector.
LEMMA ExitStep ==
  ASSUME IndexInv, NEW w \in Workers, WorkerExit(w)
  PROVE  IndexInv'
<1> USE DEF IndexInv
<1> DEFINE n == Len(workers)
           here == worker_index[w] + 1
           last == workers[n]
<1>1. /\ here \in 1..n /\ workers[here] = w /\ n \in Nat /\ n > 0
      /\ worker_index[w] \in Nat
      /\ \A i \in 1..n : workers[i] = w => i = here
  <2>1. wpc[w] \in LivePC
    BY DEF WorkerExit, LivePC
  <2> QED
    BY <2>1, IndexOf, LenProperties DEF TypeOK
<1>2. /\ \A i \in 1..n : workers[i] \in Workers /\ worker_index[workers[i]] = i - 1
      /\ last \in Workers
  BY <1>1, ElementOfSeq DEF TypeOK, WorkersIndexed
<1>3. /\ worker_index' = [worker_index EXCEPT ![last] = worker_index[w]]
      /\ dead_workers' = dead_workers \cup {w}
      /\ workers' = [i \in 1..(n - 1) |-> IF i = here THEN last ELSE workers[i]]
      /\ wpc' = [wpc EXCEPT ![w] = "return"]
      /\ UNCHANGED <<task_queue, core, main_lock, shut, active_count, wtask, ctask,
                     dtor, future>>
  BY <1>1 DEF WorkerExit, RemoveSelf
<1> HIDE DEF here, last, n
<1>4. workers' \in Seq(Workers) /\ Len(workers') = n - 1
  <2>1. workers' \in [1..(n - 1) -> Workers] /\ n - 1 \in Nat
    BY <1>1, <1>2, <1>3
  <2>2. workers' \in Seq(Workers)
    BY <2>1, SeqDef
  <2>3. DOMAIN workers' = 1..(n - 1) /\ DOMAIN workers' = 1..Len(workers')
        /\ Len(workers') \in Nat
    BY <2>1, <2>2, LenProperties
  <2> QED
    BY <2>1, <2>2, <2>3
<1>5. worker_index' \in [Workers -> Nat]
  BY <1>1, <1>2, <1>3 DEF TypeOK
<1>6. \A i \in 1..(n - 1) : worker_index'[workers'[i]] = i - 1
  <2> TAKE i \in 1..(n - 1)
  <2>1. CASE i = here
    BY <1>1, <1>2, <1>3, <2>1 DEF here, TypeOK
  <2>2. CASE i # here
    <3>1. workers'[i] = workers[i] /\ i \in 1..n /\ i # n
      BY <1>1, <1>3, <2>2
    <3>2. workers[i] # last
      BY <1>1, <1>2, <3>1 DEF last
    <3> QED
      BY <1>2, <1>3, <3>1, <3>2 DEF TypeOK
  <2> QED
    BY <2>1, <2>2
<1>7. ASSUME NEW v \in Workers
      PROVE  (\E i \in 1..(n - 1) : workers'[i] = v)
               <=> (\E i \in 1..n : workers[i] = v) /\ v # w
  <2>1. ASSUME NEW i \in 1..(n - 1), workers'[i] = v
        PROVE  (\E j \in 1..n : workers[j] = v) /\ v # w
    <3>1. CASE i = here
      BY <1>1, <1>2, <1>3, <2>1, <3>1 DEF last
    <3>2. CASE i # here
      BY <1>1, <1>2, <1>3, <2>1, <3>2
    <3> QED
      BY <3>1, <3>2
  <2>2. ASSUME NEW i \in 1..n, workers[i] = v, v # w
        PROVE  \E j \in 1..(n - 1) : workers'[j] = v
    <3>1. i # here
      BY <1>1, <2>2
    <3>2. CASE i = n
      <4>1. here \in 1..(n - 1) /\ workers'[here] = v
        BY <1>1, <1>3, <2>2, <3>1, <3>2 DEF last
      <4> QED
        BY <4>1
    <3>3. CASE i # n
      <4>1. i \in 1..(n - 1) /\ workers'[i] = v
        BY <1>1, <1>3, <2>2, <3>1, <3>3
      <4> QED
        BY <4>1
    <3> QED
      BY <3>2, <3>3
  <2> QED
    BY <2>1, <2>2
<1>8. \A v \in Workers : /\ wpc'[v] \in LivePC <=> wpc[v] \in LivePC /\ v # w
                         /\ wpc'[v] \in DeadPC <=> wpc[v] \in DeadPC \/ v = w
  BY <1>3 DEF TypeOK, LivePC, DeadPC, Ready, Busy, WorkerExit
<1>9. WorkersIndexed'
  <2>1. \A i \in 1..Len(workers') : worker_index'[workers'[i]] = i - 1
    BY <1>4, <1>6
  <2>2. \A v \in Workers :
          wpc'[v] \in LivePC <=> \E i \in 1..Len(workers') : workers'[i] = v
    BY <1>4, <1>7, <1>8 DEF WorkersIndexed, n
  <2>3. \A v \in Workers : wpc'[v] \in DeadPC <=> v \in dead_workers'
    BY <1>3, <1>8 DEF WorkersIndexed
  <2> QED
    BY <2>1, <2>2, <2>3 DEF WorkersIndexed
<1>10. wpc' \in [Workers -> WorkerPC]
  BY <1>3 DEF TypeOK, WorkerPC, DeadPC
<1>11. /\ cpc' \in [Clients -> ClientPC]
       /\ \A c \in Clients : cpc'[c] = "insert" => cpc[c] = "insert"
  BY NotifyAllAwaitingMoves DEF WorkerExit, TypeOK
<1>12. Submitting'
  BY <1>3, <1>11 DEF Submitting
<1> QED
  BY <1>3, <1>4, <1>5, <1>9, <1>10, <1>11, <1>12 DEF TypeOK

LEMMA ShutdownStep ==
  ASSUME IndexInv, NEW c \in Clients, NEW p \in {"idle", "await"}, DoShutdown(c, p)
  PROVE  IndexInv'
<1> USE DEF IndexInv
<1> DEFINE after == [cpc EXCEPT ![c] = p]
<1>1. /\ after \in [Clients -> ClientPC]
      /\ \A d \in Clients : after[d] = "insert" => cpc[d] = "insert"
  BY DEF TypeOK, ClientPC
<1>2. /\ cpc' = after \/ cpc' = NotifyAllAwaiting(after)
      /\ wpc' = wpc \/ wpc' = NotifyAll(wpc)
      /\ UNCHANGED <<task_queue, workers, worker_index, core, dead_workers, main_lock,
                     active_count, wtask, ctask, dtor, future>>
  BY DEF DoShutdown
<1>3. shut' \in BOOLEAN
  BY Zenon DEF DoShutdown
<1> HIDE DEF after
<1>4. /\ cpc' \in [Clients -> ClientPC]
      /\ \A d \in Clients : cpc'[d] = "insert" => cpc[d] = "insert"
  BY <1>1, <1>2, NotifyAllAwaitingMoves
<1>5. /\ wpc' \in [Workers -> WorkerPC]
      /\ \A w \in Workers : wpc'[w] = wpc[w] \/ (wpc[w] = "wait" /\ wpc'[w] = "woken")
  BY <1>2, NotifyAllMoves DEF TypeOK
<1>6. WorkersIndexed'
  BY <1>2, <1>5, NotifyMove
<1>7. Submitting'
  BY <1>2, <1>4 DEF Submitting
<1> QED
  BY <1>2, <1>3, <1>4, <1>5, <1>6, <1>7 DEF TypeOK

\* The calls and steps of a client that leave the pool itself alone.
LEMMA ClientMoveStep ==
  ASSUME IndexInv, NEW c \in Clients,
         \/ \E t \in Tasks : Submit(c, t)
         \/ Await(c) \/ AwaitCheck(c) \/ AwaitSpurious(c)
         \/ AwaitUntil(c) \/ AwaitUntilCheck(c) \/ Destroy(c)
  PROVE  IndexInv'
<1> USE DEF IndexInv
<1>1. UNCHANGED <<task_queue, workers, worker_index, core, dead_workers, shut,
                  active_count, wpc, wtask>>
  BY DEF Submit, Await, AwaitCheck, AwaitSpurious, AwaitUntil, AwaitUntilCheck,
         Destroy, executor
<1>2. WorkersIndexed'
  BY <1>1 DEF WorkersIndexed
<1>3. CASE \E t \in Tasks : Submit(c, t)
  <2>1. PICK t \in Tasks : Submit(c, t)
    BY <1>3
  <2>2. /\ cpc' = cpc \/ cpc' = [cpc EXCEPT ![c] = "insert"]
        /\ (ctask' = ctask /\ cpc' = cpc) \/ ctask' = [ctask EXCEPT ![c] = t]
        /\ future' \in [Tasks -> {"none", "refused", "pending", "ready"}]
        /\ main_lock' = main_lock /\ dtor' = dtor
    BY <2>1 DEF Submit, TypeOK, executor
  <2>3. cpc' \in [Clients -> ClientPC] /\ ctask' \in [Clients -> Tasks \cup {NoTask}]
    BY <2>2 DEF TypeOK, ClientPC
  <2>4. Submitting'
    BY <2>2 DEF Submitting, TypeOK
  <2> QED
    BY <1>1, <1>2, <2>2, <2>3, <2>4 DEF TypeOK
<1>4. ASSUME NEW p \in ClientPC, p # "insert", cpc' = [cpc EXCEPT ![c] = p],
             main_lock' = main_lock \/ main_lock' = c, dtor' = dtor \/ dtor' = c,
             UNCHANGED <<ctask, future>>
      PROVE  IndexInv'
  BY <1>1, <1>2, <1>4 DEF TypeOK, Submitting
<1>5. CASE Await(c) \/ AwaitSpurious(c)
  BY <1>4, <1>5 DEF Await, AwaitSpurious, ClientPC, executor
<1>6. CASE AwaitCheck(c)
  BY <1>4, <1>6 DEF AwaitCheck, ClientPC, executor
<1>7. CASE AwaitUntil(c)
  BY <1>4, <1>7 DEF AwaitUntil, ClientPC, executor
<1>8. CASE AwaitUntilCheck(c)
  BY <1>4, <1>8 DEF AwaitUntilCheck, ClientPC
<1>9. CASE Destroy(c)
  BY <1>4, <1>9 DEF Destroy, ClientPC, executor
<1> QED
  BY <1>3, <1>5, <1>6, <1>7, <1>8, <1>9

\* Joining and deleting the dead workers frees their addresses and no others.
LEMMA ReapMoves ==
  ASSUME TypeOK, WorkersIndexed, NEW pc \in [Workers -> WorkerPC], Reap(pc),
         \A v \in Workers : /\ pc[v] \in LivePC <=> wpc[v] \in LivePC
                            /\ pc[v] \in DeadPC <=> wpc[v] \in DeadPC,
         UNCHANGED <<workers, worker_index>>
  PROVE  /\ WorkersIndexed' /\ wpc' \in [Workers -> WorkerPC]
         /\ dead_workers' \in SUBSET Workers
<1>1. "free" \in WorkerPC /\ "free" \notin LivePC /\ "free" \notin DeadPC
  BY DEF WorkerPC, LivePC, DeadPC, Ready, Busy
<1>2. wpc' \in [Workers -> WorkerPC] /\ dead_workers' = {}
  BY <1>1 DEF Reap
<1>3. \A q \in DeadPC : q \notin LivePC
  BY DEF LivePC, DeadPC, Ready, Busy
<1>4. \A v \in Workers : /\ wpc'[v] \in LivePC <=> wpc[v] \in LivePC
                         /\ wpc'[v] \notin DeadPC
  BY <1>1, <1>3 DEF Reap, DeadHaveExited, WorkersIndexed
<1> QED
  BY <1>2, <1>4 DEF WorkersIndexed

LEMMA DestroyReapStep ==
  ASSUME IndexInv, NEW c \in Clients, DestroyReap(c)
  PROVE  IndexInv'
<1> USE DEF IndexInv
<1>1. /\ WorkersIndexed' /\ wpc' \in [Workers -> WorkerPC]
      /\ dead_workers' \in SUBSET Workers
  BY ReapMoves DEF DestroyReap, TypeOK
<1>2. /\ cpc' \in [Clients -> ClientPC] /\ Submitting'
      /\ UNCHANGED <<task_queue, workers, worker_index, core, main_lock, shut,
                     active_count, wtask, ctask, dtor, future>>
  BY DEF DestroyReap, TypeOK, ClientPC, Submitting
<1> QED
  BY <1>1, <1>2 DEF TypeOK

\* The steps of a worker inside run(), but for the last one.
LEMMA WorkerMoveStep ==
  ASSUME IndexInv, NEW w \in Workers,
         \/ WorkerTake(w) \/ WorkerWait(w) \/ WorkerQuit(w) \/ WorkerTimeout(w)
         \/ WorkerSpurious(w) \/ RunTask(w) \/ WorkerRelock(w) \/ WorkerReap(w)
         \/ WorkerReturn(w)
  PROVE  IndexInv'
<1> USE DEF IndexInv
<1>1. /\ UNCHANGED <<workers, worker_index, core, shut, cpc, ctask, dtor>>
      /\ Submitting'
  BY DEF WorkerTake, WorkerWait, WorkerQuit, WorkerTimeout, WorkerSpurious, RunTask,
         WorkerRelock, WorkerReap, WorkerReturn, executor, Submitting
<1>2. Ready \subseteq LivePC /\ Busy \subseteq LivePC /\ {"wait", "leave"} \subseteq LivePC
  BY DEF LivePC
<1>3. CASE WorkerTake(w)
  <2>1. WorkersIndexed' /\ wpc' \in [Workers -> WorkerPC]
    BY <1>1, <1>2, <1>3, LiveMove DEF WorkerTake, Busy
  <2>2. task_queue' \in Seq(Tasks) /\ wtask' \in [Workers -> Tasks \cup {NoTask}]
    BY <1>3, HeadTailProperties DEF WorkerTake, TypeOK
  <2>3. active_count' \in Int /\ UNCHANGED <<dead_workers, main_lock, future>>
    BY <1>3 DEF WorkerTake, TypeOK
  <2> QED
    BY <1>1, <2>1, <2>2, <2>3 DEF TypeOK
<1>4. CASE WorkerWait(w) \/ WorkerQuit(w) \/ WorkerTimeout(w) \/ WorkerSpurious(w)
  <2>1. PICK p \in LivePC : wpc[w] \in LivePC /\ wpc' = [wpc EXCEPT ![w] = p]
    BY <1>2, <1>4 DEF WorkerWait, WorkerQuit, WorkerTimeout, WorkerSpurious, Ready
  <2>2. UNCHANGED <<task_queue, dead_workers, main_lock, active_count, wtask, future>>
    BY <1>4 DEF WorkerWait, WorkerQuit, WorkerTimeout, WorkerSpurious, executor
  <2>3. WorkersIndexed' /\ wpc' \in [Workers -> WorkerPC]
    BY <1>1, <2>1, <2>2, LiveMove
  <2> QED
    BY <1>1, <2>2, <2>3 DEF TypeOK
<1>5. CASE RunTask(w)
  <2>1. UNCHANGED <<task_queue, dead_workers, main_lock, active_count, wtask>>
    BY <1>5 DEF RunTask, executor
  <2>2. WorkersIndexed' /\ wpc' \in [Workers -> WorkerPC]
    BY <1>1, <1>2, <1>5, <2>1, LiveMove DEF RunTask, Busy
  <2>3. future' \in [Tasks -> {"none", "refused", "pending", "ready"}]
    BY <1>5 DEF RunTask, TypeOK
  <2> QED
    BY <1>1, <2>1, <2>2, <2>3 DEF TypeOK
<1>6. CASE WorkerRelock(w)
  <2>1. /\ UNCHANGED <<task_queue, dead_workers, future>>
        /\ wpc' = [wpc EXCEPT ![w] = "loop"] \/ wpc' = [wpc EXCEPT ![w] = "reap"]
        /\ wpc[w] = "ran"
    BY <1>6 DEF WorkerRelock, FinishTask
  <2>2. WorkersIndexed' /\ wpc' \in [Workers -> WorkerPC]
    BY <1>1, <1>2, <2>1, LiveMove DEF Ready, Busy
  <2>3. /\ main_lock' \in Workers \cup Clients \cup {NoThread} /\ active_count' \in Int
        /\ wtask' \in [Workers -> Tasks \cup {NoTask}]
    <3>1. \/ /\ active_count' = active_count - 1 /\ main_lock' = main_lock
             /\ wtask' = [wtask EXCEPT ![w] = NoTask]
          \/ active_count' = active_count /\ main_lock' = w /\ wtask' = wtask
      BY <1>6 DEF WorkerRelock, FinishTask
    <3>2. main_lock' \in Workers \cup Clients \cup {NoThread}
      BY <3>1 DEF TypeOK
    <3>3. active_count' \in Int
      BY <3>1 DEF TypeOK
    <3>4. wtask' \in [Workers -> Tasks \cup {NoTask}]
      BY <3>1 DEF TypeOK
    <3> QED
      BY <3>2, <3>3, <3>4
  <2> QED
    BY <1>1, <2>1, <2>2, <2>3 DEF TypeOK
<1>7. CASE WorkerReap(w)
  <2> DEFINE pc == [wpc EXCEPT ![w] = "loop"]
  <2>1. pc \in [Workers -> WorkerPC] /\ Reap(pc) /\ wpc[w] = "reap"
    <3>1. "loop" \in WorkerPC
      BY DEF WorkerPC, LivePC, Ready
    <3> QED
      BY <1>7, <3>1 DEF WorkerReap, FinishTask, TypeOK
  <2>2. \A v \in Workers : /\ pc[v] \in LivePC <=> wpc[v] \in LivePC
                           /\ pc[v] \in DeadPC <=> wpc[v] \in DeadPC
    BY <2>1 DEF LivePC, DeadPC, Ready, Busy, TypeOK
  <2> HIDE DEF pc
  <2>3. /\ WorkersIndexed' /\ wpc' \in [Workers -> WorkerPC]
        /\ dead_workers' \in SUBSET Workers
    BY <1>1, <2>1, <2>2, ReapMoves
  <2>4. /\ main_lock' \in Workers \cup Clients \cup {NoThread} /\ active_count' \in Int
        /\ wtask' \in [Workers -> Tasks \cup {NoTask}]
        /\ UNCHANGED <<task_queue, future>>
    BY <1>7 DEF WorkerReap, FinishTask, TypeOK
  <2> QED
    BY <1>1, <2>3, <2>4 DEF TypeOK
<1>8. CASE WorkerReturn(w)
  <2>1. /\ UNCHANGED <<task_queue, dead_workers, main_lock, active_count, wtask, future>>
        /\ wpc[w] = "return" /\ wpc' = [wpc EXCEPT ![w] = "exited"]
    BY <1>8 DEF WorkerReturn, executor
  <2>2. wpc' \in [Workers -> WorkerPC]
    BY <2>1 DEF TypeOK, WorkerPC, DeadPC
  <2>3. \A v \in Workers : /\ wpc'[v] \in LivePC <=> wpc[v] \in LivePC
                           /\ wpc'[v] \in DeadPC <=> wpc[v] \in DeadPC
    BY <2>1 DEF TypeOK, LivePC, DeadPC, Ready, Busy
  <2>4. WorkersIndexed'
    BY <1>1, <2>1, <2>3, SameStructure
  <2> QED
    BY <1>1, <2>1, <2>2, <2>4 DEF TypeOK
<1> QED
  BY <1>3, <1>4, <1>5, <1>6, <1>7, <1>8

LEMMA IndexStep == IndexInv /\ [Next]_vars => IndexInv'
<1> SUFFICES ASSUME IndexInv, [Next]_vars PROVE IndexInv'
  OBVIOUS
<1>1. CASE UNCHANGED vars
  BY <1>1 DEF vars, executor, IndexInv, TypeOK, WorkersIndexed, Submitting
<1>2. ASSUME NEW w \in Workers, WorkerStep(w) \/ WorkerTimeout(w) \/ WorkerSpurious(w)
      PROVE  IndexInv'
  BY <1>2, WorkerMoveStep, ExitStep DEF WorkerStep
<1>3. ASSUME NEW c \in Clients, ClientCall(c) \/ ClientStep(c) \/ AwaitSpurious(c)
      PROVE  IndexInv'
  <2>1. CASE Shutdown(c)
    BY <2>1, ShutdownStep DEF Shutdown
  <2>2. CASE DestroyClose(c)
    BY <2>2, ShutdownStep DEF DestroyClose
  <2>3. CASE InsertTask(c)
    BY <2>3, InsertStep
  <2>4. CASE DestroyReap(c)
    BY <2>4, DestroyReapStep
  <2> QED
    BY <1>3, <2>1, <2>2, <2>3, <2>4, ClientMoveStep DEF ClientCall, ClientStep
<1>4. CASE Finished
  BY <1>1, <1>4 DEF Finished
<1> QED
  BY <1>1, <1>2, <1>3, <1>4 DEF Next

LEMMA IndexInvariant == Spec => []IndexInv
  BY IndexInit, IndexStep, PTL DEF Spec

\* Whatever the clients call, the variables keep their types.
THEOREM TypeCorrect == Spec => []TypeOK
<1>1. IndexInv => TypeOK
  BY DEF IndexInv
<1> QED
  BY <1>1, IndexInvariant, PTL

\* Workers leaving in any order keep the swap-with-last vector consistent with the
\* indices the workers store, and with the threads that are in run().
THEOREM WorkersAlwaysIndexed == Spec => []WorkersIndexed
<1>1. IndexInv => WorkersIndexed
  BY DEF IndexInv
<1> QED
  BY <1>1, IndexInvariant, PTL

-----------------------------------------------------------------------------
(* Destruction. While the destructor runs no other client is in a call, so *)
(* once the pool has terminated nothing can start a worker again.          *)

DtorInv ==
  /\ \A c \in Clients : cpc[c] \in {"close", "reap", "destroyed"} => dtor = c
  /\ dtor # NoThread =>
       \A c \in Clients : IF c = dtor
                          THEN cpc[c] \in {"close", "await", "blocked", "reap", "destroyed"}
                          ELSE cpc[c] \in {"idle", "joined"}
  /\ \A c \in Clients : cpc[c] \in {"reap", "destroyed"} => IsTerminated
  /\ \A c \in Clients : cpc[c] = "destroyed" => dead_workers = {}

\* An empty vector means that no thread is in run().
LEMMA EmptyVector ==
  ASSUME WorkersIndexed, workers = <<>>, NEW w \in Workers
  PROVE  wpc[w] \notin LivePC
<1>1. Len(workers) = 0
  BY EmptySeq
<1> QED
  BY <1>1 DEF WorkersIndexed

LEMMA DtorWorkerStep ==
  ASSUME IndexInv, DtorInv, NEW w \in Workers,
         WorkerStep(w) \/ WorkerTimeout(w) \/ WorkerSpurious(w)
  PROVE  DtorInv'
<1>1. /\ dtor' = dtor
      /\ \A c \in Clients : cpc'[c] = cpc[c] \/ (cpc[c] = "blocked" /\ cpc'[c] = "await")
  <2>1. CASE WorkerExit(w)
    BY <2>1, NotifyAllAwaitingMoves DEF WorkerExit, IndexInv, TypeOK
  <2> QED
    BY <2>1 DEF WorkerStep, WorkerTake, WorkerWait, WorkerQuit, WorkerTimeout,
       WorkerSpurious, RunTask, WorkerRelock, WorkerReap, WorkerReturn, executor
<1>2. CASE wpc[w] \in LivePC
  <2>1. workers # <<>>
    BY <1>2, EmptyVector DEF IndexInv
  <2>2. \A c \in Clients : cpc[c] \notin {"reap", "destroyed"}
    BY <2>1 DEF DtorInv, IsTerminated
  <2> QED
    BY <1>1, <2>2 DEF DtorInv
<1>3. CASE wpc[w] \notin LivePC
  <2>1. UNCHANGED <<task_queue, workers, dead_workers, shut>>
    BY <1>3 DEF WorkerStep, WorkerTake, WorkerWait, WorkerQuit, WorkerTimeout,
       WorkerSpurious, RunTask, WorkerRelock, WorkerReap, WorkerReturn, WorkerExit,
       executor, LivePC, Ready, Busy
  <2> QED
    BY <1>1, <2>1 DEF DtorInv, IsTerminated
<1> QED
  BY <1>2, <1>3

LEMMA DtorClientStep ==
  ASSUME IndexInv, DtorInv, NEW c \in Clients,
         ClientCall(c) \/ ClientStep(c) \/ AwaitSpurious(c)
  PROVE  DtorInv'
<1> USE DEF DtorInv, IndexInv
<1>n. NoThread \notin Clients
  BY ConstantsAssumption DEF ConstantsAssumption
<1>t. cpc \in [Clients -> ClientPC]
  BY DEF TypeOK
<1>1. CASE \/ \E t \in Tasks : Submit(c, t)
           \/ Await(c) \/ AwaitUntil(c)
  <2>1. /\ dtor = NoThread /\ dtor' = dtor
        /\ \E p \in {"idle", "insert", "await", "until"} : cpc' = [cpc EXCEPT ![c] = p]
    BY <1>1, <1>t DEF Submit, Await, AwaitUntil, MayCall
  <2>2. \A d \in Clients : cpc'[d] \notin {"close", "reap", "destroyed"}
    BY <1>n, <1>t, <2>1
  <2> QED
    BY <2>1, <2>2
<1>2. CASE InsertTask(c)
  <2>1. cpc[c] = "insert" /\ cpc' = [cpc EXCEPT ![c] = "idle"] /\ dtor' = dtor
    BY <1>2 DEF InsertTask
  <2>2. dtor = NoThread
    BY <2>1
  <2>3. \A d \in Clients : cpc'[d] \notin {"close", "reap", "destroyed"}
    BY <1>n, <1>t, <2>1, <2>2
  <2> QED
    BY <2>1, <2>2, <2>3
<1>3. CASE Shutdown(c)
  <2>1. dtor = NoThread /\ dtor' = dtor
    BY <1>3 DEF Shutdown, MayCall, DoShutdown
  <2>2. \A d \in Clients : cpc'[d] \notin {"close", "reap", "destroyed"}
    BY <1>3, <1>n, <1>t, <2>1 DEF Shutdown, DoShutdown, NotifyAllAwaiting
  <2> QED
    BY <2>1, <2>2
<1>4. CASE DestroyClose(c)
  <2>1. /\ cpc[c] = "close" /\ dtor = c /\ dtor' = dtor
        /\ \A d \in Clients : d # c => cpc[d] \in {"idle", "joined"}
    BY <1>4, <1>n DEF DestroyClose, DoShutdown
  <2>2. /\ cpc'[c] = "await"
        /\ \A d \in Clients : d # c => cpc'[d] = cpc[d]
    BY <1>4, <1>t, <2>1 DEF DestroyClose, DoShutdown, NotifyAllAwaiting
  <2> QED
    BY <1>n, <2>1, <2>2
<1>5. CASE AwaitCheck(c) \/ AwaitSpurious(c) \/ AwaitUntilCheck(c)
  <2>1. UNCHANGED <<task_queue, workers, dead_workers, shut, dtor>>
    BY <1>5 DEF AwaitCheck, AwaitSpurious, AwaitUntilCheck, executor
  <2>2. IsTerminated' <=> IsTerminated
    BY <2>1 DEF IsTerminated
  <2>3. CASE AwaitCheck(c)
    <3>1. /\ cpc[c] = "await"
          /\ \A d \in Clients : d # c => cpc'[d] = cpc[d]
          /\ \/ cpc'[c] = "blocked"
             \/ IsTerminated /\ dtor = c /\ cpc'[c] = "reap"
             \/ dtor # c /\ cpc'[c] = "joined"
      BY <1>t, <2>3 DEF AwaitCheck
    <3> QED
      BY <1>n, <2>1, <2>2, <3>1
  <2>4. CASE AwaitSpurious(c)
    <3>1. /\ cpc[c] = "blocked" /\ cpc'[c] = "await"
          /\ \A d \in Clients : d # c => cpc'[d] = cpc[d]
      BY <1>t, <2>4 DEF AwaitSpurious
    <3> QED
      BY <1>n, <2>1, <2>2, <3>1
  <2>5. CASE AwaitUntilCheck(c)
    <3>1. /\ cpc[c] = "until" /\ cpc'[c] \in {"joined", "self_deadlock"}
          /\ \A d \in Clients : d # c => cpc'[d] = cpc[d]
      BY <1>t, <2>5 DEF AwaitUntilCheck
    <3> QED
      BY <1>n, <2>1, <2>2, <3>1
  <2> QED
    BY <1>5, <2>3, <2>4, <2>5
<1>6. CASE Destroy(c)
  <2>1. /\ dtor' = c /\ UNCHANGED <<task_queue, workers, shut, dead_workers>>
        /\ \A d \in Clients : cpc[d] \in {"idle", "joined"}
        /\ \A d \in Clients : d # c => cpc'[d] = cpc[d]
        /\ cpc'[c] = "close" \/ (IsTerminated /\ cpc'[c] = "reap")
    BY <1>6, <1>t DEF Destroy, executor
  <2>2. IsTerminated' <=> IsTerminated
    BY <2>1 DEF IsTerminated
  <2> QED
    BY <1>n, <2>1, <2>2
<1>7. CASE DestroyReap(c)
  <2>1. /\ cpc[c] = "reap" /\ cpc'[c] = "destroyed" /\ dead_workers' = {}
        /\ \A d \in Clients : d # c => cpc'[d] = cpc[d]
        /\ UNCHANGED <<task_queue, workers, shut, dtor>>
    BY <1>7, <1>t DEF DestroyReap, Reap, DeadHaveExited
  <2>2. IsTerminated' <=> IsTerminated
    BY <2>1 DEF IsTerminated
  <2> QED
    BY <1>n, <2>1, <2>2
<1> QED
  BY <1>1, <1>2, <1>3, <1>4, <1>5, <1>6, <1>7 DEF ClientCall, ClientStep

LEMMA DtorInvariant == Spec => []DtorInv
<1>1. Init => DtorInv
  BY DEF Init, DtorInv
<1>2. IndexInv /\ DtorInv /\ [Next]_vars => DtorInv'
  <2>1. ASSUME DtorInv, UNCHANGED vars PROVE DtorInv'
    BY <2>1 DEF vars, executor, DtorInv, IsTerminated
  <2> QED
    BY <2>1, DtorWorkerStep, DtorClientStep DEF Next, Finished
<1> QED
  BY <1>1, <1>2, IndexInvariant, PTL DEF Spec

\* The destructor never returns while a thread of the pool could still touch the
\* object: all of them were joined.
THEOREM DestructionSafe == Spec => []SafeDestruction
<1>1. IndexInv /\ DtorInv => SafeDestruction
  <2> SUFFICES ASSUME IndexInv, DtorInv, NEW c \in Clients, cpc[c] = "destroyed",
                      NEW w \in Workers
               PROVE  wpc[w] = "free"
    BY DEF SafeDestruction
  <2>1. workers = <<>> /\ dead_workers = {}
    BY DEF DtorInv, IsTerminated
  <2>2. wpc[w] \notin LivePC /\ wpc[w] \notin DeadPC
    BY <2>1, EmptyVector DEF IndexInv, WorkersIndexed
  <2> QED
    BY <2>2 DEF IndexInv, TypeOK, WorkerPC
<1> QED
  BY <1>1, IndexInvariant, DtorInvariant, PTL

-----------------------------------------------------------------------------
(* Counting workers.                                                       *)

At(pcs) == {w \in Workers : wpc[w] \in pcs}

LEMMA AtFinite ==
  ASSUME NEW S \in SUBSET Workers
  PROVE  IsFiniteSet(S) /\ Cardinality(S) \in Nat
  BY ConstantsAssumption, FS_Subset, FS_CardinalityType DEF ConstantsAssumption

LEMMA AtGrows ==
  ASSUME NEW S \in SUBSET Workers, NEW T \in SUBSET Workers, S \subseteq T
  PROVE  /\ Cardinality(S) <= Cardinality(T)
         /\ S # T => Cardinality(S) + 1 <= Cardinality(T)
<1>1. /\ IsFiniteSet(S) /\ Cardinality(S) \in Nat
      /\ IsFiniteSet(T) /\ Cardinality(T) \in Nat
  BY AtFinite
<1>2. Cardinality(S) <= Cardinality(T) /\ (Cardinality(S) = Cardinality(T) => S = T)
  BY <1>1, FS_Subset
<1> QED
  BY <1>1, <1>2

LEMMA AtLoses ==
  ASSUME NEW S \in SUBSET Workers, NEW w \in S
  PROVE  Cardinality(S \ {w}) = Cardinality(S) - 1
  BY AtFinite, FS_RemoveElement

\* The steps that take no worker away from those about to fetch, put none to
\* sleep and add no task.
LEMMA WakeupKept ==
  ASSUME NoLostWakeup, Len(task_queue) \in Nat, Len(task_queue') = Len(task_queue),
         \A w \in Workers : /\ wpc[w] \in Ready => wpc'[w] \in Ready
                            /\ wpc'[w] = "wait" => wpc[w] = "wait"
  PROVE  NoLostWakeup'
<1>1. Cardinality(At(Ready)) <= Cardinality(At(Ready)')
  BY AtGrows DEF At
<1>2. Cardinality(At(Ready)) \in Nat /\ Cardinality(At(Ready)') \in Nat
  BY AtFinite DEF At
<1>3. Asleep(wpc') # {} => Asleep(wpc) # {}
  BY DEF Asleep
<1>4. Asleep(wpc) # {} => Len(task_queue) <= Cardinality(At(Ready))
  BY DEF NoLostWakeup, At
<1>5. Asleep(wpc') # {} => Len(task_queue') <= Cardinality(At(Ready)')
  BY <1>1, <1>2, <1>3, <1>4
<1> QED
  BY <1>5 DEF NoLostWakeup, At

LEMMA WakeupInsertStep ==
  ASSUME IndexInv, NoLostWakeup, NEW c \in Clients, InsertTask(c)
  PROVE  NoLostWakeup'
<1>1. /\ Len(task_queue) \in Nat /\ Len(task_queue') = Len(task_queue) + 1
  <2>1. ctask[c] \in Tasks /\ task_queue \in Seq(Tasks)
    BY DEF IndexInv, InsertTask, Submitting, TypeOK
  <2> QED
    BY <2>1, LenProperties, AppendProperties DEF InsertTask
<1>2. wpc \in [Workers -> WorkerPC]
  BY DEF IndexInv, TypeOK
\* Either way wpc' follows from notify_one() at some pc that differs from wpc at
\* most by a new worker.
<1>3. PICK pc \in [Workers -> WorkerPC] :
        /\ wpc' \in NotifyOne(pc)
        /\ \A w \in Workers : pc[w] = wpc[w] \/ (wpc[w] = "free" /\ pc[w] = "loop")
  <2>1. CASE MustGrow
    <3>1. PICK w \in Workers : /\ wpc[w] = "free"
                               /\ wpc' \in NotifyOne([wpc EXCEPT ![w] = "loop"])
      BY <2>1 DEF InsertTask
    <3>2. "loop" \in WorkerPC
      BY DEF WorkerPC, LivePC, Ready
    <3>3. /\ [wpc EXCEPT ![w] = "loop"] \in [Workers -> WorkerPC]
          /\ \A v \in Workers : \/ [wpc EXCEPT ![w] = "loop"][v] = wpc[v]
                                \/ wpc[v] = "free" /\ [wpc EXCEPT ![w] = "loop"][v] = "loop"
      BY <1>2, <3>1, <3>2
    <3> QED
      BY <3>1, <3>3
  <2>2. CASE ~MustGrow
    BY <1>2, <2>2 DEF InsertTask
  <2> QED
    BY <2>1, <2>2
<1>4. CASE Asleep(pc) = {}
  <2>1. wpc' = pc
    BY <1>3, <1>4 DEF NotifyOne
  <2> QED
    BY <1>4, <2>1 DEF NoLostWakeup
<1>5. CASE Asleep(pc) # {}
  <2>1. PICK s \in Asleep(pc) : wpc' = [pc EXCEPT ![s] = "woken"]
    BY <1>3, <1>5 DEF NotifyOne
  <2>2. s \in Workers /\ pc[s] = "wait" /\ wpc[s] = "wait"
    BY <1>3, <2>1 DEF Asleep
  <2>3. Len(task_queue) <= Cardinality(At(Ready))
    BY <2>2 DEF NoLostWakeup, Asleep, At
  <2>4. /\ At(Ready) \subseteq At(Ready)' /\ s \in At(Ready)' /\ s \notin At(Ready)
    BY <1>3, <2>1, <2>2 DEF At, Ready
  <2>5. Cardinality(At(Ready)) + 1 <= Cardinality(At(Ready)')
    BY <2>4, AtGrows DEF At
  <2>6. Cardinality(At(Ready)) \in Nat /\ Cardinality(At(Ready)') \in Nat
    BY AtFinite DEF At
  <2>7. Len(task_queue') <= Cardinality(At(Ready)')
    BY <1>1, <2>3, <2>5, <2>6
  <2> QED
    BY <2>7 DEF NoLostWakeup, At
<1> QED
  BY <1>4, <1>5

LEMMA WakeupStep == IndexInv /\ NoLostWakeup /\ [Next]_vars => NoLostWakeup'
<1> SUFFICES ASSUME IndexInv, NoLostWakeup, [Next]_vars PROVE NoLostWakeup'
  OBVIOUS
<1>t. /\ wpc \in [Workers -> WorkerPC] /\ Len(task_queue) \in Nat
      /\ task_queue \in Seq(Tasks)
  BY LenProperties DEF IndexInv, TypeOK
<1>1. CASE UNCHANGED vars
  BY <1>1, <1>t, WakeupKept DEF vars, executor
<1>2. ASSUME NEW w \in Workers, WorkerTake(w) PROVE NoLostWakeup'
  <2>1. /\ wpc[w] \in Ready /\ wpc' = [wpc EXCEPT ![w] = "run"]
        /\ Len(task_queue') = Len(task_queue) - 1
    BY <1>2, <1>t, HeadTailProperties DEF WorkerTake
  <2>2. At(Ready)' = At(Ready) \ {w} /\ w \in At(Ready)
    BY <1>t, <2>1 DEF At, Ready
  <2>3. Cardinality(At(Ready)') = Cardinality(At(Ready)) - 1
    BY <2>2, AtLoses DEF At
  <2>4. Cardinality(At(Ready)) \in Nat
    BY AtFinite DEF At
  <2>5. Asleep(wpc') = Asleep(wpc)
    BY <1>t, <2>1 DEF Asleep, Ready
  <2>6. Asleep(wpc') # {} => Len(task_queue) <= Cardinality(At(Ready))
    BY <2>5 DEF NoLostWakeup, At
  <2>7. ASSUME Asleep(wpc') # {} PROVE Len(task_queue') <= Cardinality(At(Ready)')
    <3>1. Len(task_queue) <= Cardinality(At(Ready))
      BY <2>6, <2>7
    <3> QED
      BY <1>t, <2>1, <2>3, <2>4, <3>1
  <2> QED
    BY <2>7 DEF NoLostWakeup, At
<1>3. ASSUME NEW w \in Workers, WorkerWait(w) \/ WorkerQuit(w) PROVE NoLostWakeup'
  <2>1. Len(task_queue') = 0
    BY <1>3, EmptySeq DEF WorkerWait, WorkerQuit, executor
  <2>2. Cardinality(At(Ready)') \in Nat
    BY AtFinite DEF At
  <2>3. Len(task_queue') <= Cardinality(At(Ready)')
    BY <2>1, <2>2
  <2> QED
    BY <2>3 DEF NoLostWakeup, At
<1>4. ASSUME NEW w \in Workers,
             \/ WorkerTimeout(w) \/ WorkerSpurious(w) \/ RunTask(w) \/ WorkerRelock(w)
             \/ WorkerExit(w) \/ WorkerReturn(w)
      PROVE  NoLostWakeup'
  <2>1. task_queue' = task_queue
    BY <1>4 DEF WorkerTimeout, WorkerSpurious, RunTask, WorkerRelock, WorkerExit,
       WorkerReturn, executor
  <2>2. \E p \in {"expired", "woken", "ran", "loop", "reap", "return", "exited"} :
          wpc' = [wpc EXCEPT ![w] = p] /\ wpc[w] \notin Ready
    BY <1>4 DEF WorkerTimeout, WorkerSpurious, RunTask, WorkerRelock, WorkerExit,
       WorkerReturn, Ready
  <2> QED
    BY <1>t, <2>1, <2>2, WakeupKept
<1>5. ASSUME NEW pc \in [Workers -> WorkerPC], Reap(pc), task_queue' = task_queue,
             \A w \in Workers : pc[w] = wpc[w] \/ (wpc[w] = "reap" /\ pc[w] = "loop")
      PROVE  NoLostWakeup'
  <2>1. \A w \in dead_workers : w \in Workers => wpc[w] \in DeadPC
    BY DEF IndexInv, WorkersIndexed
  <2>2. \A w \in Workers : /\ wpc[w] \in Ready => wpc'[w] \in Ready
                           /\ wpc'[w] = "wait" => wpc[w] = "wait"
    BY <1>5, <2>1 DEF Reap, DeadHaveExited, DeadPC, Ready
  <2> QED
    BY <1>5, <1>t, <2>2, WakeupKept
<1>6. ASSUME NEW w \in Workers, WorkerReap(w) PROVE NoLostWakeup'
  <2>1. "loop" \in WorkerPC
    BY DEF WorkerPC, LivePC, Ready
  <2> QED
    BY <1>5, <1>6, <1>t, <2>1 DEF WorkerReap
<1>7. ASSUME NEW c \in Clients, DestroyReap(c) PROVE NoLostWakeup'
  BY <1>5, <1>7, <1>t DEF DestroyReap
<1>8. ASSUME NEW c \in Clients, NEW p, DoShutdown(c, p) PROVE NoLostWakeup'
  <2>1. task_queue' = task_queue /\ (wpc' = wpc \/ wpc' = NotifyAll(wpc))
    BY <1>8 DEF DoShutdown
  <2>2. \A w \in Workers : wpc'[w] = wpc[w] \/ (wpc[w] = "wait" /\ wpc'[w] = "woken")
    BY <1>t, <2>1, NotifyAllMoves
  <2> QED
    BY <1>t, <2>1, <2>2, WakeupKept DEF Ready
<1>9. ASSUME NEW c \in Clients,
             \/ \E t \in Tasks : Submit(c, t)
             \/ Await(c) \/ AwaitCheck(c) \/ AwaitSpurious(c)
             \/ AwaitUntil(c) \/ AwaitUntilCheck(c) \/ Destroy(c)
      PROVE  NoLostWakeup'
  <2>1. task_queue' = task_queue /\ wpc' = wpc
    BY <1>9 DEF Submit, Await, AwaitCheck, AwaitSpurious, AwaitUntil, AwaitUntilCheck,
       Destroy, executor
  <2> QED
    BY <1>t, <2>1, WakeupKept
<1>10. ASSUME NEW w \in Workers, WorkerStep(w) \/ WorkerTimeout(w) \/ WorkerSpurious(w)
       PROVE  NoLostWakeup'
  BY <1>2, <1>3, <1>4, <1>6, <1>10 DEF WorkerStep
<1>11. ASSUME NEW c \in Clients, ClientCall(c) \/ ClientStep(c) \/ AwaitSpurious(c)
       PROVE  NoLostWakeup'
  BY <1>7, <1>8, <1>9, <1>11, WakeupInsertStep
     DEF ClientCall, ClientStep, Shutdown, DestroyClose
<1> QED
  BY <1>1, <1>10, <1>11 DEF Next, Finished

\* notify_one() is enough: while a worker sleeps, the workers on their way to the
\* queue are at least as many as the tasks in it.
THEOREM WakeupSafe == Spec => []NoLostWakeup
<1>1. Init => NoLostWakeup
  <2> SUFFICES ASSUME Init PROVE Asleep(wpc) = {}
    BY DEF NoLostWakeup
  <2> QED
    BY DEF Init, Asleep
<1> QED
  BY <1>1, WakeupStep, IndexInvariant, PTL DEF Spec

-----------------------------------------------------------------------------
(* active_count.                                                           *)

Counted == active_count = Cardinality(At(Busy))

\* The steps that move no worker into or out of the counted section.
LEMMA CountKept ==
  ASSUME Counted, active_count' = active_count,
         \A w \in Workers : wpc'[w] \in Busy <=> wpc[w] \in Busy
  PROVE  Counted'
<1>1. At(Busy)' = At(Busy)
  BY DEF At
<1> QED
  BY <1>1 DEF Counted

\* A worker that leaves the counted section is subtracted once.
LEMMA CountDown ==
  ASSUME Counted, NEW w \in Workers, wpc[w] \in Busy, wpc'[w] \notin Busy,
         active_count' = active_count - 1,
         \A v \in Workers : v # w => (wpc'[v] \in Busy <=> wpc[v] \in Busy)
  PROVE  Counted'
<1>1. At(Busy)' = At(Busy) \ {w} /\ w \in At(Busy)
  BY DEF At
<1>2. Cardinality(At(Busy)') = Cardinality(At(Busy)) - 1
  BY <1>1, AtLoses DEF At
<1> QED
  BY <1>2 DEF Counted

LEMMA CountStep == IndexInv /\ Counted /\ [Next]_vars => Counted'
<1> SUFFICES ASSUME IndexInv, Counted, [Next]_vars PROVE Counted'
  OBVIOUS
<1>t. wpc \in [Workers -> WorkerPC]
  BY DEF IndexInv, TypeOK
<1>1. CASE UNCHANGED vars
  BY <1>1, CountKept DEF vars, executor
<1>2. ASSUME NEW w \in Workers, WorkerTake(w) PROVE Counted'
  <2>1. /\ wpc[w] \in Ready /\ wpc' = [wpc EXCEPT ![w] = "run"]
        /\ active_count' = active_count + 1
    BY <1>2 DEF WorkerTake
  <2>2. At(Busy)' = At(Busy) \cup {w} /\ w \notin At(Busy)
    BY <1>t, <2>1 DEF At, Ready, Busy
  <2>3. Cardinality(At(Busy)') = Cardinality(At(Busy)) + 1
    <3>1. IsFiniteSet(At(Busy))
      BY AtFinite DEF At
    <3> QED
      BY <2>2, <3>1, FS_AddElement
  <2> QED
    BY <2>1, <2>3 DEF Counted
<1>3. ASSUME NEW w \in Workers,
             \/ WorkerWait(w) \/ WorkerQuit(w) \/ WorkerTimeout(w) \/ WorkerSpurious(w)
             \/ RunTask(w) \/ WorkerExit(w) \/ WorkerReturn(w)
      PROVE  Counted'
  <2>1. active_count' = active_count
    BY <1>3 DEF WorkerWait, WorkerQuit, WorkerTimeout, WorkerSpurious, RunTask,
       WorkerExit, WorkerReturn, executor
  <2>2. \E p \in WorkerPC : /\ wpc' = [wpc EXCEPT ![w] = p]
                            /\ p \in Busy <=> wpc[w] \in Busy
    BY <1>3 DEF WorkerWait, WorkerQuit, WorkerTimeout, WorkerSpurious, RunTask,
       WorkerExit, WorkerReturn, Busy, Ready, WorkerPC, LivePC, DeadPC
  <2> QED
    BY <1>t, <2>1, <2>2, CountKept
<1>4. ASSUME NEW w \in Workers, WorkerRelock(w) PROVE Counted'
  <2>1. wpc[w] = "ran" /\ wpc[w] \in Busy
    BY <1>4 DEF WorkerRelock, Busy
  <2>2. CASE dead_workers = {}
    <3>1. wpc' = [wpc EXCEPT ![w] = "loop"] /\ active_count' = active_count - 1
      BY <1>4, <2>2 DEF WorkerRelock, FinishTask
    <3> QED
      BY <1>t, <2>1, <3>1, CountDown DEF Busy
  <2>3. CASE dead_workers # {}
    <3>1. wpc' = [wpc EXCEPT ![w] = "reap"] /\ active_count' = active_count
      BY <1>4, <2>3 DEF WorkerRelock
    <3> QED
      BY <1>t, <2>1, <3>1, CountKept DEF Busy
  <2> QED
    BY <2>2, <2>3
\* The workers that are joined were not counted.
<1>5. \A w \in Workers : w \in dead_workers => wpc[w] \notin Busy
  BY DEF IndexInv, WorkersIndexed, DeadPC, Busy
<1>6. ASSUME NEW w \in Workers, WorkerReap(w) PROVE Counted'
  <2>1. /\ wpc[w] = "reap" /\ w \notin dead_workers
        /\ wpc' = [v \in Workers |-> IF v \in dead_workers THEN "free"
                                     ELSE [wpc EXCEPT ![w] = "loop"][v]]
        /\ active_count' = active_count - 1
    BY <1>5, <1>6 DEF WorkerReap, FinishTask, Reap, DeadHaveExited, Busy
  <2>2. \A v \in Workers : v # w => (wpc'[v] \in Busy <=> wpc[v] \in Busy)
    BY <1>5, <1>t, <2>1 DEF Busy
  <2>3. wpc[w] \in Busy /\ wpc'[w] \notin Busy
    BY <1>t, <2>1 DEF Busy
  <2> QED
    BY <2>1, <2>2, <2>3, CountDown
<1>7. ASSUME NEW c \in Clients, DestroyReap(c) PROVE Counted'
  <2>1. /\ wpc' = [v \in Workers |-> IF v \in dead_workers THEN "free" ELSE wpc[v]]
        /\ active_count' = active_count
    BY <1>7 DEF DestroyReap, Reap, DeadHaveExited
  <2>2. \A v \in Workers : wpc'[v] \in Busy <=> wpc[v] \in Busy
    BY <1>5, <2>1 DEF Busy
  <2> QED
    BY <2>1, <2>2, CountKept
<1>8. ASSUME active_count' = active_count,
             \A w \in Workers : \/ wpc'[w] = wpc[w]
                                \/ wpc[w] \in {"wait", "free"} /\ wpc'[w] \in {"woken", "loop"}
      PROVE  Counted'
  BY <1>8, CountKept DEF Busy
<1>9. ASSUME NEW c \in Clients, InsertTask(c) PROVE Counted'
  <2>1. CASE MustGrow
    <3>1. PICK w \in Workers : /\ wpc[w] = "free"
                               /\ wpc' \in NotifyOne([wpc EXCEPT ![w] = "loop"])
      BY <1>9, <2>1 DEF InsertTask
    <3>2. "loop" \in WorkerPC
      BY DEF WorkerPC, LivePC, Ready
    <3> DEFINE pc == [wpc EXCEPT ![w] = "loop"]
    <3>3. /\ pc \in [Workers -> WorkerPC] /\ pc[w] = "loop"
          /\ \A v \in Workers : v # w => pc[v] = wpc[v]
      BY <1>t, <3>1, <3>2
    <3>4. \A v \in Workers : wpc'[v] = pc[v] \/ (pc[v] = "wait" /\ wpc'[v] = "woken")
      BY <3>1, <3>3, NotifyOneMoves
    <3> HIDE DEF pc
    <3>5. active_count' = active_count
      BY <1>9 DEF InsertTask
    <3> QED
      BY <1>8, <3>1, <3>3, <3>4, <3>5
  <2>2. CASE ~MustGrow
    <3>1. wpc' \in NotifyOne(wpc) /\ active_count' = active_count
      BY <1>9, <2>2 DEF InsertTask
    <3>2. \A v \in Workers : wpc'[v] = wpc[v] \/ (wpc[v] = "wait" /\ wpc'[v] = "woken")
      BY <1>t, <3>1, NotifyOneMoves
    <3> QED
      BY <1>8, <3>1, <3>2
  <2> QED
    BY <2>1, <2>2
<1>10. ASSUME NEW c \in Clients, NEW p, DoShutdown(c, p) PROVE Counted'
  <2>1. active_count' = active_count /\ (wpc' = wpc \/ wpc' = NotifyAll(wpc))
    BY <1>10 DEF DoShutdown
  <2> QED
    BY <1>8, <1>t, <2>1, NotifyAllMoves
<1>11. ASSUME NEW c \in Clients,
              \/ \E t \in Tasks : Submit(c, t)
              \/ Await(c) \/ AwaitCheck(c) \/ AwaitSpurious(c)
              \/ AwaitUntil(c) \/ AwaitUntilCheck(c) \/ Destroy(c)
       PROVE  Counted'
  <2>1. active_count' = active_count /\ wpc' = wpc
    BY <1>11 DEF Submit, Await, AwaitCheck, AwaitSpurious, AwaitUntil, AwaitUntilCheck,
       Destroy, executor
  <2> QED
    BY <1>8, <2>1
<1>12. ASSUME NEW w \in Workers, WorkerStep(w) \/ WorkerTimeout(w) \/ WorkerSpurious(w)
       PROVE  Counted'
  BY <1>2, <1>3, <1>4, <1>6, <1>12 DEF WorkerStep
<1>13. ASSUME NEW c \in Clients, ClientCall(c) \/ ClientStep(c) \/ AwaitSpurious(c)
       PROVE  Counted'
  BY <1>7, <1>9, <1>10, <1>11, <1>13 DEF ClientCall, ClientStep, Shutdown, DestroyClose
<1> QED
  BY <1>1, <1>12, <1>13 DEF Next, Finished

\* Living workers are in the vector, each at a place of its own.
LEMMA LiveBounded ==
  ASSUME IndexInv PROVE Cardinality(At(LivePC)) <= Len(workers)
<1> DEFINE f == [w \in At(LivePC) |-> worker_index[w] + 1]
<1>1. Len(workers) \in Nat
  BY LenProperties DEF IndexInv, TypeOK
<1>2. \A w \in At(LivePC) : /\ worker_index[w] + 1 \in 1..Len(workers)
                          /\ workers[worker_index[w] + 1] = w
  BY IndexOf DEF IndexInv, At
<1>3. f \in Injection(At(LivePC), 1..Len(workers))
  <2>1. f \in [At(LivePC) -> 1..Len(workers)]
    BY <1>2
  <2>2. \A v, w \in At(LivePC) : f[v] = f[w] => v = w
    <3> TAKE v, w \in At(LivePC)
    <3> HAVE f[v] = f[w]
    <3>1. workers[f[v]] = v /\ workers[f[w]] = w
      BY <1>2
    <3> QED
      BY <3>1
  <2> QED
    BY <2>1, <2>2 DEF Injection, IsInjective
<1>4. IsFiniteSet(1..Len(workers)) /\ Cardinality(1..Len(workers)) = Len(workers)
  BY <1>1, FS_Interval, SMTT(30)
<1> HIDE DEF f
<1> QED
  BY <1>3, <1>4, FS_Injection

LEMMA CountBounded ==
  ASSUME IndexInv PROVE Cardinality(At(Busy)) <= Len(workers)
<1>1. At(Busy) \subseteq At(LivePC) /\ At(LivePC) \in SUBSET Workers
  BY DEF At, LivePC
<1>2. /\ Cardinality(At(Busy)) <= Cardinality(At(LivePC))
      /\ Cardinality(At(Busy)) \in Nat /\ Cardinality(At(LivePC)) \in Nat
  BY <1>1, AtFinite, AtGrows
<1>3. Len(workers) \in Nat
  BY LenProperties DEF IndexInv, TypeOK
<1> QED
  BY <1>2, <1>3, LiveBounded

\* active_count counts the busy workers and never exceeds workers.size(), so that
\* the unsigned difference insert_task_locked() computes never wraps around.
THEOREM CountExact == Spec => []ActiveCountExact
<1>1. Init => Counted
  <2> SUFFICES ASSUME Init PROVE At(Busy) = {} /\ active_count = 0
    BY FS_EmptySet DEF Counted
  <2> QED
    BY DEF Init, At, Busy
<1>2. IndexInv /\ Counted => ActiveCountExact
  BY CountBounded DEF ActiveCountExact, Counted, At
<1> QED
  BY <1>1, <1>2, CountStep, IndexInvariant, PTL DEF Spec

-----------------------------------------------------------------------------
(* The size of the pool. dead_workers is only emptied by a worker that     *)
(* finishes a task, so what bounds it is the number of workers that can    *)
(* leave before one does. Those at work reap first. Of the others, as many *)
(* as there are tasks in the queue have to fetch one before any can leave, *)
(* and a new worker always comes with a new task.                          *)

Going == {"leave"} \cup DeadPC
Unoccupied == Going \cup Ready \cup {"wait"}

PoolInv ==
  /\ Len(workers) <= MaxThreads
  /\ Cardinality(At(Going)) <= MaxThreads
  /\ Cardinality(At(Unoccupied)) <= MaxThreads + Len(task_queue)

LEMMA MaxThreadsIs ==
  MaxThreads \in Nat /\ CorePoolSize <= MaxThreads /\ MaxPoolSize <= MaxThreads
  BY ConstantsAssumption DEF ConstantsAssumption, MaxThreads

LEMMA AtSubset == \A S : At(S) \in SUBSET Workers /\ At(S)' \in SUBSET Workers
  BY DEF At

\* The steps after which no more workers are going, or not at work, than before.
LEMMA PoolKept ==
  ASSUME PoolInv, Len(task_queue) \in Nat, Len(task_queue') \in Nat,
         Len(task_queue) <= Len(task_queue'),
         Len(workers) \in Nat, Len(workers') \in Nat, Len(workers') <= Len(workers),
         \A w \in Workers : /\ wpc'[w] \in Going => wpc[w] \in Going
                            /\ wpc'[w] \in Unoccupied => wpc[w] \in Unoccupied
  PROVE  PoolInv'
<1>1. At(Going)' \subseteq At(Going) /\ At(Unoccupied)' \subseteq At(Unoccupied)
  BY DEF At
<1>2. /\ Cardinality(At(Going)') <= Cardinality(At(Going))
      /\ Cardinality(At(Unoccupied)') <= Cardinality(At(Unoccupied))
      /\ Cardinality(At(Going)) \in Nat /\ Cardinality(At(Unoccupied)) \in Nat
      /\ Cardinality(At(Going)') \in Nat /\ Cardinality(At(Unoccupied)') \in Nat
  BY <1>1, AtSubset, AtFinite, AtGrows
<1>3. /\ Cardinality(At(Going))' = Cardinality(At(Going)')
      /\ Cardinality(At(Unoccupied))' = Cardinality(At(Unoccupied)')
  OBVIOUS
<1> QED
  BY <1>2, <1>3, MaxThreadsIs DEF PoolInv

\* Once the dead workers are joined, those that are left are in the vector.
LEMMA PoolReaped ==
  ASSUME IndexInv, PoolInv, Len(task_queue') \in Nat, workers' = workers,
         \A w \in Workers : wpc'[w] \in Unoccupied => wpc[w] \in LivePC
  PROVE  PoolInv'
<1>1. At(Going)' \subseteq At(LivePC) /\ At(Unoccupied)' \subseteq At(LivePC)
  BY DEF At, Unoccupied
<1>2. /\ Cardinality(At(Going)') <= Cardinality(At(LivePC))
      /\ Cardinality(At(Unoccupied)') <= Cardinality(At(LivePC))
      /\ Cardinality(At(LivePC)) \in Nat
      /\ Cardinality(At(Going)') \in Nat /\ Cardinality(At(Unoccupied)') \in Nat
  BY <1>1, AtSubset, AtFinite, AtGrows
<1>3. Cardinality(At(LivePC)) <= Len(workers) /\ Len(workers) \in Nat
  BY LiveBounded, LenProperties DEF IndexInv, TypeOK
<1>4. /\ Cardinality(At(Going))' = Cardinality(At(Going)')
      /\ Cardinality(At(Unoccupied))' = Cardinality(At(Unoccupied)')
  OBVIOUS
<1> QED
  BY <1>2, <1>3, <1>4, MaxThreadsIs DEF PoolInv

LEMMA PoolInit == Init => PoolInv
<1> SUFFICES ASSUME Init PROVE PoolInv
  OBVIOUS
<1>1. IndexInv
  BY IndexInit
<1>2. At(Going) \subseteq At(LivePC) /\ At(Unoccupied) \subseteq At(LivePC)
  BY DEF Init, At, Going, Unoccupied, DeadPC, Ready, LivePC
<1>3. /\ Cardinality(At(Going)) <= Cardinality(At(LivePC))
      /\ Cardinality(At(Unoccupied)) <= Cardinality(At(LivePC))
      /\ Cardinality(At(LivePC)) \in Nat
      /\ Cardinality(At(Going)) \in Nat /\ Cardinality(At(Unoccupied)) \in Nat
  BY <1>2, AtSubset, AtFinite, AtGrows
<1>4. Len(task_queue) = 0 /\ Len(workers) = CorePoolSize
  <2>1. workers \in [1..CorePoolSize -> Workers] /\ CorePoolSize \in Nat
    BY ConstantsAssumption DEF Init, ConstantsAssumption
  <2>2. workers \in Seq(Workers)
    BY <1>1 DEF IndexInv, TypeOK
  <2>3. DOMAIN workers = 1..CorePoolSize /\ DOMAIN workers = 1..Len(workers)
        /\ Len(workers) \in Nat
    BY <2>1, <2>2, LenProperties
  <2> QED
    BY <2>1, <2>3, EmptySeq DEF Init
<1> QED
  BY <1>1, <1>3, <1>4, LiveBounded, MaxThreadsIs, ConstantsAssumption
     DEF PoolInv, ConstantsAssumption

\* A new worker is not at work yet, but its task is in the queue.
LEMMA PoolGrows ==
  ASSUME IndexInv, PoolInv, NEW c \in Clients, InsertTask(c), MustGrow
  PROVE  PoolInv'
<1>t. /\ wpc \in [Workers -> WorkerPC] /\ Len(task_queue) \in Nat /\ Len(workers) \in Nat
      /\ workers \in Seq(Workers) /\ task_queue \in Seq(Tasks)
  BY LenProperties DEF IndexInv, TypeOK
<1>1. PICK w \in Workers : /\ wpc[w] = "free" /\ AddWorker(w, FALSE)
                           /\ wpc' \in NotifyOne([wpc EXCEPT ![w] = "loop"])
  BY DEF InsertTask
<1>2. Len(task_queue') = Len(task_queue) + 1
  BY <1>t, AppendProperties DEF InsertTask, IndexInv, Submitting
<1>3. Len(workers') = Len(workers) + 1 /\ Len(workers) < MaxPoolSize
  BY <1>1, <1>t, AppendProperties DEF AddWorker, MustGrow
<1> DEFINE pc == [wpc EXCEPT ![w] = "loop"]
<1>4. /\ pc \in [Workers -> WorkerPC] /\ pc[w] = "loop"
      /\ \A v \in Workers : v # w => pc[v] = wpc[v]
  <2>1. "loop" \in WorkerPC
    BY DEF WorkerPC, LivePC, Ready
  <2> QED
    BY <1>t, <2>1
<1>5. \A v \in Workers : wpc'[v] = pc[v] \/ (pc[v] = "wait" /\ wpc'[v] = "woken")
  BY <1>1, <1>4, NotifyOneMoves
<1> HIDE DEF pc
<1>6. At(Going)' \subseteq At(Going)
  BY <1>4, <1>5 DEF At, Going, DeadPC
<1>7. At(Unoccupied)' \subseteq At(Unoccupied) \cup {w} /\ w \notin At(Unoccupied)
  BY <1>1, <1>4, <1>5 DEF At, Unoccupied, Going, DeadPC, Ready
<1>8. /\ At(Unoccupied) \cup {w} \in SUBSET Workers
      /\ Cardinality(At(Unoccupied) \cup {w}) = Cardinality(At(Unoccupied)) + 1
  <2>1. IsFiniteSet(At(Unoccupied))
    BY AtSubset, AtFinite
  <2> QED
    BY <1>7, <2>1, AtSubset, FS_AddElement
<1>9. /\ Cardinality(At(Going)') <= Cardinality(At(Going))
      /\ Cardinality(At(Unoccupied)') <= Cardinality(At(Unoccupied)) + 1
      /\ Cardinality(At(Going)) \in Nat /\ Cardinality(At(Unoccupied)) \in Nat
      /\ Cardinality(At(Going)') \in Nat /\ Cardinality(At(Unoccupied)') \in Nat
  BY <1>6, <1>7, <1>8, AtSubset, AtFinite, AtGrows
<1>10. /\ Cardinality(At(Going))' = Cardinality(At(Going)')
       /\ Cardinality(At(Unoccupied))' = Cardinality(At(Unoccupied)')
  OBVIOUS
<1> QED
  BY <1>2, <1>3, <1>9, <1>10, <1>t, MaxThreadsIs, ConstantsAssumption
     DEF PoolInv, ConstantsAssumption

LEMMA PoolStep == IndexInv /\ PoolInv /\ IndexInv' /\ [Next]_vars => PoolInv'
<1> SUFFICES ASSUME IndexInv, PoolInv, IndexInv', [Next]_vars PROVE PoolInv'
  OBVIOUS
<1>t. /\ wpc \in [Workers -> WorkerPC] /\ Len(task_queue) \in Nat /\ Len(workers) \in Nat
      /\ Len(task_queue') \in Nat /\ Len(workers') \in Nat
      /\ workers' \in Seq(Workers) /\ task_queue \in Seq(Tasks)
  BY LenProperties DEF IndexInv, TypeOK
\* Nobody but sleepers that are woken has moved.
<1>k. ASSUME task_queue' = task_queue, workers' = workers,
             \A w \in Workers : wpc'[w] = wpc[w] \/ (wpc[w] = "wait" /\ wpc'[w] = "woken")
      PROVE  PoolInv'
  BY <1>k, <1>t, PoolKept DEF Going, Unoccupied, DeadPC, Ready
<1>1. CASE UNCHANGED vars
  BY <1>1, <1>k DEF vars, executor
<1>2. ASSUME NEW w \in Workers, WorkerTake(w) PROVE PoolInv'
  <2>1. /\ wpc[w] \in Ready /\ wpc' = [wpc EXCEPT ![w] = "run"] /\ workers' = workers
        /\ Len(task_queue') = Len(task_queue) - 1
    BY <1>2, <1>t, HeadTailProperties DEF WorkerTake
  <2>2. At(Unoccupied)' = At(Unoccupied) \ {w} /\ w \in At(Unoccupied)
    BY <1>t, <2>1 DEF At, Unoccupied, Going, DeadPC, Ready
  <2>3. At(Going)' = At(Going)
    BY <1>t, <2>1 DEF At, Going, DeadPC, Ready
  <2>4. Cardinality(At(Unoccupied)') = Cardinality(At(Unoccupied)) - 1
    BY <2>2, AtSubset, AtLoses
  <2>5. /\ Cardinality(At(Unoccupied)) \in Nat
        /\ Cardinality(At(Going))' = Cardinality(At(Going))
        /\ Cardinality(At(Unoccupied))' = Cardinality(At(Unoccupied)')
    BY <2>3, AtSubset, AtFinite
  <2> QED
    BY <1>t, <2>1, <2>4, <2>5, MaxThreadsIs DEF PoolInv
<1>3. ASSUME NEW w \in Workers, WorkerQuit(w) PROVE PoolInv'
  <2>1. /\ wpc[w] \in Ready /\ wpc' = [wpc EXCEPT ![w] = "leave"] /\ workers' = workers
        /\ Len(task_queue) = 0 /\ Len(task_queue') = 0
    BY <1>3, EmptySeq DEF WorkerQuit, executor
  <2>2. At(Unoccupied)' = At(Unoccupied) /\ At(Going)' \subseteq At(Unoccupied)
    BY <1>t, <2>1 DEF At, Unoccupied, Going, DeadPC, Ready
  <2>3. /\ Cardinality(At(Going)') <= Cardinality(At(Unoccupied))
        /\ Cardinality(At(Going)') \in Nat /\ Cardinality(At(Unoccupied)) \in Nat
    BY <2>2, AtSubset, AtFinite, AtGrows
  <2>4. /\ Cardinality(At(Going))' = Cardinality(At(Going)')
        /\ Cardinality(At(Unoccupied))' = Cardinality(At(Unoccupied))
    BY <2>2
  <2> QED
    BY <1>t, <2>1, <2>3, <2>4, MaxThreadsIs DEF PoolInv
<1>4. ASSUME NEW w \in Workers,
             \/ WorkerWait(w) \/ WorkerTimeout(w) \/ WorkerSpurious(w) \/ RunTask(w)
             \/ WorkerReturn(w)
      PROVE  PoolInv'
  <2>1. task_queue' = task_queue /\ workers' = workers
    BY <1>4 DEF WorkerWait, WorkerTimeout, WorkerSpurious, RunTask, WorkerReturn, executor
  <2>2. \E q \in WorkerPC : /\ wpc' = [wpc EXCEPT ![w] = q]
                            /\ q \in Going => wpc[w] \in Going
                            /\ q \in Unoccupied => wpc[w] \in Unoccupied
    BY <1>4 DEF WorkerWait, WorkerTimeout, WorkerSpurious, RunTask, WorkerReturn,
       Going, Unoccupied, DeadPC, Ready, Busy, LivePC, WorkerPC
  <2> QED
    BY <1>t, <2>1, <2>2, PoolKept
<1>5. ASSUME NEW w \in Workers, WorkerExit(w) PROVE PoolInv'
  <2>1. task_queue' = task_queue /\ wpc[w] = "leave" /\ wpc' = [wpc EXCEPT ![w] = "return"]
    BY <1>5 DEF WorkerExit
  <2>2. Len(workers') <= Len(workers)
    <3>1. DOMAIN workers' = 1..(Len(workers) - 1)
      BY <1>5 DEF WorkerExit, RemoveSelf
    <3>2. DOMAIN workers' = 1..Len(workers')
      BY <1>t, LenProperties
    <3> QED
      BY <1>t, <3>1, <3>2
  <2> QED
    BY <1>t, <2>1, <2>2, PoolKept DEF Going, Unoccupied, DeadPC, Ready
\* The dead workers are those at DeadPC.
<1>d. \A w \in Workers : wpc[w] \in DeadPC <=> w \in dead_workers
  BY DEF IndexInv, WorkersIndexed
<1>6. ASSUME NEW w \in Workers, WorkerRelock(w) PROVE PoolInv'
  <2>1. task_queue' = task_queue /\ workers' = workers /\ wpc[w] = "ran"
    BY <1>6 DEF WorkerRelock
  <2>2. CASE dead_workers = {}
    <3>1. wpc' = [wpc EXCEPT ![w] = "loop"]
      BY <1>6, <2>2 DEF WorkerRelock
    <3>2. \A v \in Workers : wpc'[v] \in Unoccupied => wpc[v] \in LivePC
      BY <1>d, <1>t, <2>1, <2>2, <3>1 DEF Unoccupied, Going, LivePC, Busy
    <3> QED
      BY <1>t, <2>1, <3>2, PoolReaped
  <2>3. CASE dead_workers # {}
    <3>1. wpc' = [wpc EXCEPT ![w] = "reap"]
      BY <1>6, <2>3 DEF WorkerRelock
    <3> QED
      BY <1>t, <2>1, <3>1, PoolKept DEF Unoccupied, Going, DeadPC, Ready
  <2> QED
    BY <2>2, <2>3
<1>7. ASSUME NEW pc \in [Workers -> WorkerPC], Reap(pc),
             task_queue' = task_queue, workers' = workers,
             \A w \in Workers : pc[w] = wpc[w] \/ (wpc[w] = "reap" /\ pc[w] = "loop")
      PROVE  PoolInv'
  <2>1. \A v \in Workers : wpc'[v] \in Unoccupied => wpc[v] \in LivePC
    BY <1>d, <1>t, <1>7
       DEF Reap, DeadHaveExited, Unoccupied, Going, DeadPC, LivePC, Ready, Busy
  <2> QED
    BY <1>t, <1>7, <2>1, PoolReaped
<1>8. ASSUME NEW w \in Workers, WorkerReap(w) PROVE PoolInv'
  <2>1. "loop" \in WorkerPC
    BY DEF WorkerPC, LivePC, Ready
  <2> QED
    BY <1>7, <1>8, <1>t, <2>1 DEF WorkerReap
<1>9. ASSUME NEW c \in Clients, DestroyReap(c) PROVE PoolInv'
  BY <1>7, <1>9, <1>t DEF DestroyReap
<1>10. ASSUME NEW c \in Clients, InsertTask(c) PROVE PoolInv'
  <2>1. CASE ~MustGrow
    <3>1. wpc' \in NotifyOne(wpc) /\ workers' = workers
      BY <1>10, <2>1 DEF InsertTask
    <3>2. Len(task_queue') = Len(task_queue) + 1
      BY <1>10, <1>t, AppendProperties DEF InsertTask, IndexInv, Submitting
    <3>3. \A v \in Workers : wpc'[v] = wpc[v] \/ (wpc[v] = "wait" /\ wpc'[v] = "woken")
      BY <1>t, <3>1, NotifyOneMoves
    <3> QED
      BY <1>t, <3>1, <3>2, <3>3, PoolKept DEF Unoccupied, Going, DeadPC, Ready
  <2> QED
    BY <1>10, <2>1, PoolGrows
<1>11. ASSUME NEW c \in Clients, NEW p, DoShutdown(c, p) PROVE PoolInv'
  <2>1. /\ task_queue' = task_queue /\ workers' = workers
        /\ wpc' = wpc \/ wpc' = NotifyAll(wpc)
    BY <1>11 DEF DoShutdown
  <2> QED
    BY <1>k, <1>t, <2>1, NotifyAllMoves
<1>12. ASSUME NEW c \in Clients,
              \/ \E t \in Tasks : Submit(c, t)
              \/ Await(c) \/ AwaitCheck(c) \/ AwaitSpurious(c)
              \/ AwaitUntil(c) \/ AwaitUntilCheck(c) \/ Destroy(c)
       PROVE  PoolInv'
  <2>1. task_queue' = task_queue /\ workers' = workers /\ wpc' = wpc
    BY <1>12 DEF Submit, Await, AwaitCheck, AwaitSpurious, AwaitUntil, AwaitUntilCheck,
       Destroy, executor
  <2> QED
    BY <1>k, <2>1
<1>13. ASSUME NEW w \in Workers, WorkerStep(w) \/ WorkerTimeout(w) \/ WorkerSpurious(w)
       PROVE  PoolInv'
  BY <1>2, <1>3, <1>4, <1>5, <1>6, <1>8, <1>13 DEF WorkerStep
<1>14. ASSUME NEW c \in Clients, ClientCall(c) \/ ClientStep(c) \/ AwaitSpurious(c)
       PROVE  PoolInv'
  BY <1>9, <1>10, <1>11, <1>12, <1>14 DEF ClientCall, ClientStep, Shutdown, DestroyClose
<1> QED
  BY <1>1, <1>13, <1>14 DEF Next, Finished

\* However tasks and time-outs interleave, there are never more living workers, nor
\* more dead ones waiting to be joined, than max(core_pool_size, max_pool_size):
\* dead_workers never outgrows what the constructor reserved for it.
THEOREM PoolAlwaysBounded == Spec => []PoolBounded
<1>1. IndexInv /\ PoolInv => PoolBounded
  <2> SUFFICES ASSUME IndexInv, PoolInv PROVE Cardinality(dead_workers) <= MaxThreads
    BY DEF PoolInv, PoolBounded
  <2>1. dead_workers \subseteq At(Going)
    BY DEF IndexInv, TypeOK, WorkersIndexed, At, Going
  <2>2. dead_workers \in SUBSET Workers
    BY DEF IndexInv, TypeOK
  <2>3. /\ Cardinality(dead_workers) <= Cardinality(At(Going))
        /\ Cardinality(dead_workers) \in Nat /\ Cardinality(At(Going)) \in Nat
    BY <2>1, <2>2, AtSubset, AtFinite, AtGrows
  <2> QED
    BY <2>3, MaxThreadsIs DEF PoolInv
<1> QED
  BY <1>1, PoolInit, PoolStep, IndexInvariant, PTL DEF Spec

-----------------------------------------------------------------------------
(* The way of a task. Counting is no help to the provers here: a pending   *)
(* task is in exactly one place says which place that is.                  *)

InQueue(t)  == {i \in 1..Len(task_queue) : task_queue[i] = t}
AtWorker(t) == {w \in Workers : wpc[w] = "run" /\ wtask[w] = t}
AtClient(t) == {c \in Clients : cpc[c] = "insert" /\ ctask[c] = t}

Submitted(t) == InQueue(t) = {} /\ AtWorker(t) = {} /\ \E c \in Clients : AtClient(t) = {c}
Queued(t)    == AtClient(t) = {} /\ AtWorker(t) = {} /\ \E i \in Nat : InQueue(t) = {i}
Running(t)   == AtClient(t) = {} /\ InQueue(t) = {} /\ \E w \in Workers : AtWorker(t) = {w}
Nowhere(t)   == AtClient(t) = {} /\ InQueue(t) = {} /\ AtWorker(t) = {}

TaskInv ==
  \A t \in Tasks : IF future[t] = "pending" THEN Submitted(t) \/ Queued(t) \/ Running(t)
                   ELSE Nowhere(t)

\* A step that moves no task.
LEMMA TaskKept ==
  ASSUME TaskInv, task_queue' = task_queue, future' = future,
         \A w \in Workers : wpc'[w] = "run" <=> wpc[w] = "run",
         \A w \in Workers : wpc[w] = "run" => wtask'[w] = wtask[w],
         \A c \in Clients : cpc'[c] = "insert" <=> cpc[c] = "insert",
         ctask' = ctask
  PROVE  TaskInv'
<1>1. \A t : InQueue(t)' = InQueue(t) /\ AtWorker(t)' = AtWorker(t) /\ AtClient(t)' = AtClient(t)
  BY DEF InQueue, AtWorker, AtClient
<1>2. \A t : /\ Submitted(t)' <=> Submitted(t)
             /\ Queued(t)' <=> Queued(t)
             /\ Running(t)' <=> Running(t)
             /\ Nowhere(t)' <=> Nowhere(t)
  BY <1>1 DEF Submitted, Queued, Running, Nowhere
<1> QED
  BY <1>2 DEF TaskInv

\* The tasks other than t, if only t moves.
LEMMA OthersKept ==
  ASSUME TaskInv, NEW t \in Tasks,
         \A u \in Tasks : u # t => future'[u] = future[u],
         \A u \in Tasks : u # t => AtWorker(u)' = AtWorker(u) /\ AtClient(u)' = AtClient(u)
                                   /\ InQueue(u)' = InQueue(u),
         IF future'[t] = "pending" THEN Submitted(t)' \/ Queued(t)' \/ Running(t)'
         ELSE Nowhere(t)'
  PROVE  TaskInv'
<1>1. \A u \in Tasks : u # t => /\ Submitted(u)' <=> Submitted(u)
                                /\ Queued(u)' <=> Queued(u)
                                /\ Running(u)' <=> Running(u)
                                /\ Nowhere(u)' <=> Nowhere(u)
  BY DEF Submitted, Queued, Running, Nowhere
<1> QED
  BY <1>1 DEF TaskInv

LEMMA TaskSubmit ==
  ASSUME IndexInv, TaskInv, NEW c \in Clients, NEW t \in Tasks, Submit(c, t)
  PROVE  TaskInv'
<1>t. /\ cpc \in [Clients -> ClientPC] /\ ctask \in [Clients -> Tasks \cup {NoTask}]
      /\ future \in [Tasks -> {"none", "refused", "pending", "ready"}]
  BY DEF IndexInv, TypeOK
<1>1. /\ UNCHANGED <<task_queue, wpc, wtask>> /\ cpc[c] = "idle" /\ future[t] = "none"
  BY DEF Submit, MayCall, executor
<1>2. \A u : InQueue(u)' = InQueue(u) /\ AtWorker(u)' = AtWorker(u)
  BY <1>1 DEF InQueue, AtWorker
<1>3. Nowhere(t)
  BY <1>1 DEF TaskInv
<1>4. CASE shut
  <2>1. /\ future' = [future EXCEPT ![t] = "refused"] /\ UNCHANGED <<cpc, ctask>>
    BY <1>4 DEF Submit
  <2>2. \A u : AtClient(u)' = AtClient(u)
    BY <2>1 DEF AtClient
  <2>3. Nowhere(t)' /\ future'[t] # "pending"
    BY <1>2, <1>3, <1>t, <2>1, <2>2 DEF Nowhere
  <2> QED
    BY <1>2, <1>t, <2>1, <2>2, <2>3, OthersKept
<1>5. CASE ~shut
  <2>1. /\ future' = [future EXCEPT ![t] = "pending"] /\ cpc' = [cpc EXCEPT ![c] = "insert"]
        /\ ctask' = [ctask EXCEPT ![c] = t]
    BY <1>5 DEF Submit
  <2>2. \A u \in Tasks : u # t => AtClient(u)' = AtClient(u)
    BY <1>1, <1>t, <2>1 DEF AtClient
  <2>3. AtClient(t)' = {c}
    BY <1>3, <1>t, <2>1 DEF AtClient, Nowhere
  <2>4. Submitted(t)'
    BY <1>2, <1>3, <2>3 DEF Submitted, Nowhere
  <2> QED
    BY <1>2, <1>t, <2>1, <2>2, <2>4, OthersKept
<1> QED
  BY <1>4, <1>5

LEMMA TaskInsert ==
  ASSUME IndexInv, TaskInv, NEW c \in Clients, InsertTask(c)
  PROVE  TaskInv'
<1>0. ctask[c] \in Tasks /\ Len(task_queue) \in Nat
  BY LenProperties DEF IndexInv, TypeOK, InsertTask, Submitting
<1>p. PICK t \in Tasks, n \in Nat : t = ctask[c] /\ n = Len(task_queue)
  BY <1>0
<1>t. /\ cpc \in [Clients -> ClientPC] /\ ctask \in [Clients -> Tasks \cup {NoTask}]
      /\ wpc \in [Workers -> WorkerPC] /\ task_queue \in Seq(Tasks)
  BY DEF IndexInv, TypeOK
<1>1. /\ task_queue' = Append(task_queue, t) /\ cpc[c] = "insert"
      /\ cpc' = [cpc EXCEPT ![c] = "idle"] /\ ctask' = [ctask EXCEPT ![c] = NoTask]
      /\ UNCHANGED <<wtask, future>>
  BY <1>p DEF InsertTask
<1>2. /\ Len(task_queue') = n + 1 /\ task_queue'[n + 1] = t
      /\ \A i \in 1..n : task_queue'[i] = task_queue[i]
  BY <1>1, <1>p, <1>t, AppendProperties
<1>3. \A w \in Workers : wpc'[w] = "run" <=> wpc[w] = "run"
  <2>1. CASE MustGrow
    <3>1. PICK w \in Workers : /\ wpc[w] = "free"
                               /\ wpc' \in NotifyOne([wpc EXCEPT ![w] = "loop"])
      BY <2>1 DEF InsertTask
    <3>2. "loop" \in WorkerPC
      BY DEF WorkerPC, LivePC, Ready
    <3> DEFINE pc == [wpc EXCEPT ![w] = "loop"]
    <3>3. /\ pc \in [Workers -> WorkerPC] /\ pc[w] = "loop"
          /\ \A v \in Workers : v # w => pc[v] = wpc[v]
      BY <1>t, <3>1, <3>2
    <3>4. \A v \in Workers : wpc'[v] = pc[v] \/ (pc[v] = "wait" /\ wpc'[v] = "woken")
      BY <3>1, <3>3, NotifyOneMoves
    <3> HIDE DEF pc
    <3> QED
      BY <3>1, <3>3, <3>4
  <2>2. CASE ~MustGrow
    <3>1. wpc' \in NotifyOne(wpc)
      BY <2>2 DEF InsertTask
    <3>2. \A v \in Workers : wpc'[v] = wpc[v] \/ (wpc[v] = "wait" /\ wpc'[v] = "woken")
      BY <1>t, <3>1, NotifyOneMoves
    <3> QED
      BY <3>2
  <2> QED
    BY <2>1, <2>2
<1>4. \A u : AtWorker(u)' = AtWorker(u)
  BY <1>1, <1>3 DEF AtWorker
<1>5. \A u \in Tasks : u # t => AtClient(u)' = AtClient(u)
  BY <1>1, <1>p, <1>t DEF AtClient
<1>6. \A u \in Tasks : u # t => InQueue(u)' = InQueue(u)
  BY <1>2, <1>p DEF InQueue
<1>7. future[t] = "pending" /\ Submitted(t) /\ AtClient(t) = {c}
  <2>1. c \in AtClient(t)
    BY <1>1, <1>p DEF AtClient
  <2> QED
    BY <1>t, <2>1 DEF TaskInv, Nowhere, Queued, Running, Submitted
<1>8. AtClient(t)' = {}
  <2>1. AtClient(t)' \subseteq AtClient(t) /\ c \notin AtClient(t)'
    BY <1>1, <1>t DEF AtClient
  <2> QED
    BY <1>7, <2>1
<1>9. InQueue(t)' = {n + 1}
  <2>1. \A i \in 1..n : task_queue[i] # t
    BY <1>7, <1>p DEF Submitted, InQueue
  <2> QED
    BY <1>2, <1>t, <2>1 DEF InQueue
<1>10. Queued(t)'
  BY <1>4, <1>7, <1>8, <1>9, <1>t DEF Queued, Submitted
<1> QED
  BY <1>1, <1>4, <1>5, <1>6, <1>7, <1>10, <1>t, OthersKept

LEMMA TaskTake ==
  ASSUME IndexInv, TaskInv, NEW w \in Workers, WorkerTake(w)
  PROVE  TaskInv'
<1>0. /\ task_queue \in Seq(Tasks) /\ task_queue # <<>> /\ Len(task_queue) \in Nat
      /\ wpc \in [Workers -> WorkerPC] /\ wtask \in [Workers -> Tasks \cup {NoTask}]
  BY LenProperties DEF IndexInv, TypeOK, WorkerTake
<1>p. PICK t \in Tasks, n \in Nat : t = Head(task_queue) /\ n = Len(task_queue)
  BY <1>0, HeadTailProperties
<1>1. /\ wtask' = [wtask EXCEPT ![w] = t] /\ wpc' = [wpc EXCEPT ![w] = "run"]
      /\ task_queue' = Tail(task_queue) /\ wpc[w] # "run"
      /\ UNCHANGED <<cpc, ctask, future>>
  BY <1>p DEF WorkerTake, Ready
<1>2. /\ n > 0 /\ t = task_queue[1] /\ Len(task_queue') = n - 1
      /\ \A i \in 1..(n - 1) : task_queue'[i] = task_queue[i + 1]
  <2>1. task_queue # <<>> => Len(task_queue) > 0
    BY <1>0, EmptySeq
  <2> QED
    BY <1>0, <1>1, <1>p, <2>1, HeadTailProperties
<1>3. future[t] = "pending" /\ Queued(t) /\ InQueue(t) = {1}
  <2>1. 1 \in InQueue(t)
    BY <1>2, <1>p DEF InQueue
  <2> QED
    BY <1>p, <2>1 DEF TaskInv, Nowhere, Queued, Running, Submitted
<1>4. \A u : AtClient(u)' = AtClient(u)
  BY <1>1 DEF AtClient
<1>5. InQueue(t)' = {}
  <2>1. \A i \in 1..n : task_queue[i] = t => i = 1
    BY <1>3, <1>p DEF InQueue
  <2> QED
    BY <1>2, <1>p, <2>1 DEF InQueue
<1>6. AtWorker(t)' = {w}
  BY <1>0, <1>1, <1>3 DEF AtWorker, Queued
<1>7. Running(t)'
  BY <1>3, <1>4, <1>5, <1>6 DEF Running, Queued
<1>8. ASSUME NEW u \in Tasks, u # t
      PROVE  /\ AtWorker(u)' = AtWorker(u)
             /\ InQueue(u) = {} => InQueue(u)' = {}
             /\ \A i \in Nat : InQueue(u) = {i} => i - 1 \in Nat /\ InQueue(u)' = {i - 1}
  <2>1. AtWorker(u)' = AtWorker(u)
    BY <1>0, <1>1, <1>8 DEF AtWorker
  <2>2. \A i \in Nat : i \in InQueue(u)' <=> i + 1 \in InQueue(u) /\ i > 0
    BY <1>2, <1>p DEF InQueue
  <2>3. InQueue(u) \subseteq Nat /\ InQueue(u)' \subseteq Nat /\ 1 \notin InQueue(u)
        /\ 0 \notin InQueue(u)
    BY <1>2, <1>8, <1>p DEF InQueue
  <2>4. InQueue(u) = {} => InQueue(u)' = {}
    BY <2>2, <2>3
  <2>5. ASSUME NEW i \in Nat, InQueue(u) = {i}
        PROVE  i - 1 \in Nat /\ InQueue(u)' = {i - 1}
    <3>1. i # 0 /\ i # 1
      BY <2>3, <2>5
    <3>2. i - 1 \in InQueue(u)'
      BY <2>2, <2>5, <3>1
    <3>3. \A j \in InQueue(u)' : j = i - 1
      BY <2>2, <2>3, <2>5
    <3> QED
      BY <3>1, <3>2, <3>3
  <2> QED
    BY <2>1, <2>4, <2>5
<1>9. ASSUME NEW u \in Tasks, u # t
      PROVE  /\ Submitted(u) => Submitted(u)'
             /\ Queued(u) => Queued(u)'
             /\ Running(u) => Running(u)'
             /\ Nowhere(u) => Nowhere(u)'
  <2>1. /\ AtWorker(u)' = AtWorker(u) /\ AtClient(u)' = AtClient(u)
        /\ InQueue(u) = {} => InQueue(u)' = {}
    BY <1>4, <1>8, <1>9
  <2>2. (\E i \in Nat : InQueue(u) = {i}) => \E j \in Nat : InQueue(u)' = {j}
    BY <1>8, <1>9
  <2> QED
    BY <2>1, <2>2 DEF Submitted, Queued, Running, Nowhere
<1> QED
  BY <1>1, <1>3, <1>7, <1>9 DEF TaskInv

LEMMA TaskRun ==
  ASSUME IndexInv, TaskInv, NEW w \in Workers, RunTask(w)
  PROVE  TaskInv'
<1>t. /\ wpc \in [Workers -> WorkerPC] /\ wtask[w] \in Tasks \cup {NoTask}
      /\ future \in [Tasks -> {"none", "refused", "pending", "ready"}]
      /\ NoTask \notin Tasks
  BY ConstantsAssumption DEF IndexInv, TypeOK, ConstantsAssumption
<1>p. PICK t : t = wtask[w]
  OBVIOUS
<1>1. /\ future' = [future EXCEPT ![t] = "ready"] /\ wpc[w] = "run"
      /\ wpc' = [wpc EXCEPT ![w] = "ran"]
      /\ UNCHANGED <<task_queue, wtask, cpc, ctask>>
  BY <1>p DEF RunTask, executor
<1>2. \A u : InQueue(u)' = InQueue(u) /\ AtClient(u)' = AtClient(u)
  BY <1>1 DEF InQueue, AtClient
<1>3. \A u : AtWorker(u)' = AtWorker(u) \ {w}
  BY <1>1, <1>t DEF AtWorker
<1>4. \A u : u # t => w \notin AtWorker(u)
  BY <1>p DEF AtWorker
<1>5. CASE t \in Tasks
  <2>1. w \in AtWorker(t)
    BY <1>1, <1>p DEF AtWorker
  <2>2. Running(t) /\ AtWorker(t) = {w}
    BY <1>5, <2>1 DEF TaskInv, Nowhere, Queued, Running, Submitted
  <2>3. Nowhere(t)' /\ future'[t] # "pending"
    BY <1>1, <1>2, <1>3, <1>5, <1>t, <2>2 DEF Nowhere, Running
  <2>4. \A u \in Tasks : u # t => AtWorker(u)' = AtWorker(u) /\ future'[u] = future[u]
    BY <1>1, <1>3, <1>4, <1>t
  <2> QED
    BY <1>2, <1>5, <2>3, <2>4, OthersKept
<1>6. CASE t \notin Tasks
  <2>1. future' = future
    BY <1>1, <1>6, <1>t
  <2>2. \A u \in Tasks : AtWorker(u)' = AtWorker(u)
    BY <1>3, <1>4, <1>6
  <2>3. \A u \in Tasks : /\ Submitted(u)' <=> Submitted(u)
                         /\ Queued(u)' <=> Queued(u)
                         /\ Running(u)' <=> Running(u)
                         /\ Nowhere(u)' <=> Nowhere(u)
    BY <1>2, <2>2 DEF Submitted, Queued, Running, Nowhere
  <2> QED
    BY <2>1, <2>3 DEF TaskInv
<1> QED
  BY <1>5, <1>6

LEMMA TaskStep == IndexInv /\ TaskInv /\ [Next]_vars => TaskInv'
<1> SUFFICES ASSUME IndexInv, TaskInv, [Next]_vars PROVE TaskInv'
  OBVIOUS
<1>t. /\ wpc \in [Workers -> WorkerPC] /\ wtask \in [Workers -> Tasks \cup {NoTask}]
      /\ cpc \in [Clients -> ClientPC]
  BY DEF IndexInv, TypeOK
<1>1. CASE UNCHANGED vars
  BY <1>1, TaskKept DEF vars, executor
<1>2. ASSUME NEW w \in Workers,
             \/ WorkerWait(w) \/ WorkerQuit(w) \/ WorkerTimeout(w) \/ WorkerSpurious(w)
             \/ WorkerRelock(w) \/ WorkerReturn(w)
      PROVE  TaskInv'
  <2>1. UNCHANGED <<task_queue, future, cpc, ctask>>
    BY <1>2 DEF WorkerWait, WorkerQuit, WorkerTimeout, WorkerSpurious, WorkerRelock,
       WorkerReturn, executor
  <2>2. /\ \E q \in WorkerPC \ {"run"} : wpc' = [wpc EXCEPT ![w] = q]
        /\ wpc[w] # "run"
        /\ wtask' = wtask \/ wtask' = [wtask EXCEPT ![w] = NoTask]
    BY <1>2 DEF WorkerWait, WorkerQuit, WorkerTimeout, WorkerSpurious, WorkerRelock,
       WorkerReturn, FinishTask, Ready, Busy, LivePC, DeadPC, WorkerPC
  <2> QED
    BY <1>t, <2>1, <2>2, TaskKept
<1>3. ASSUME NEW w \in Workers, WorkerExit(w) PROVE TaskInv'
  <2>1. /\ UNCHANGED <<task_queue, future, ctask, wtask>>
        /\ wpc' = [wpc EXCEPT ![w] = "return"] /\ wpc[w] = "leave"
    BY <1>3 DEF WorkerExit
  <2>2. \A c \in Clients : cpc'[c] = cpc[c] \/ (cpc[c] = "blocked" /\ cpc'[c] = "await")
    BY <1>3, <1>t, NotifyAllAwaitingMoves DEF WorkerExit
  <2> QED
    BY <1>t, <2>1, <2>2, TaskKept
\* The workers that are joined do not run a task.
<1>d. \A w \in Workers : w \in dead_workers => wpc[w] \in DeadPC
  BY DEF IndexInv, WorkersIndexed
<1>4. ASSUME NEW w \in Workers, WorkerReap(w) PROVE TaskInv'
  <2>1. /\ UNCHANGED <<task_queue, future, cpc, ctask>> /\ wpc[w] = "reap"
        /\ wtask' = [wtask EXCEPT ![w] = NoTask]
    BY <1>4 DEF WorkerReap, FinishTask
  <2>2. \A v \in Workers : wpc'[v] = "run" <=> wpc[v] = "run"
    BY <1>4, <1>d, <1>t DEF WorkerReap, Reap, DeadPC
  <2> QED
    BY <1>t, <2>1, <2>2, TaskKept
<1>5. ASSUME NEW c \in Clients, DestroyReap(c) PROVE TaskInv'
  <2>1. /\ UNCHANGED <<task_queue, future, ctask, wtask>> /\ cpc[c] = "reap"
        /\ cpc' = [cpc EXCEPT ![c] = "destroyed"]
    BY <1>5 DEF DestroyReap
  <2>2. \A v \in Workers : wpc'[v] = "run" <=> wpc[v] = "run"
    BY <1>5, <1>d, <1>t DEF DestroyReap, Reap, DeadPC
  <2> QED
    BY <1>t, <2>1, <2>2, TaskKept
<1>6. ASSUME NEW c \in Clients, NEW p \in {"idle", "await"}, DoShutdown(c, p),
             cpc[c] # "insert"
      PROVE  TaskInv'
  <2> DEFINE after == [cpc EXCEPT ![c] = p]
  <2>1. /\ UNCHANGED <<task_queue, future, ctask, wtask>>
        /\ cpc' = after \/ cpc' = NotifyAllAwaiting(after)
        /\ wpc' = wpc \/ wpc' = NotifyAll(wpc)
    BY <1>6 DEF DoShutdown
  <2>2. /\ after \in [Clients -> ClientPC]
        /\ \A d \in Clients : after[d] = "insert" <=> cpc[d] = "insert"
    BY <1>6, <1>t DEF ClientPC
  <2> HIDE DEF after
  <2>3. \A d \in Clients : cpc'[d] = "insert" <=> cpc[d] = "insert"
    BY <2>1, <2>2, NotifyAllAwaitingMoves
  <2>4. \A w \in Workers : wpc'[w] = "run" <=> wpc[w] = "run"
    BY <1>t, <2>1, NotifyAllMoves
  <2> QED
    BY <2>1, <2>3, <2>4, TaskKept
<1>7. ASSUME NEW c \in Clients,
             \/ Await(c) \/ AwaitCheck(c) \/ AwaitSpurious(c)
             \/ AwaitUntil(c) \/ AwaitUntilCheck(c) \/ Destroy(c)
      PROVE  TaskInv'
  <2>1. UNCHANGED <<task_queue, future, ctask, wtask, wpc>>
    BY <1>7 DEF Await, AwaitCheck, AwaitSpurious, AwaitUntil, AwaitUntilCheck, Destroy,
       executor
  <2>2. /\ cpc[c] # "insert"
        /\ \E q \in ClientPC \ {"insert"} : cpc' = [cpc EXCEPT ![c] = q]
    BY <1>7 DEF Await, AwaitCheck, AwaitSpurious, AwaitUntil, AwaitUntilCheck, Destroy,
       MayCall, ClientPC
  <2> QED
    BY <1>t, <2>1, <2>2, TaskKept
<1>8. ASSUME NEW w \in Workers, WorkerStep(w) \/ WorkerTimeout(w) \/ WorkerSpurious(w)
      PROVE  TaskInv'
  BY <1>2, <1>3, <1>4, <1>8, TaskTake, TaskRun DEF WorkerStep
<1>9. ASSUME NEW c \in Clients, ClientCall(c) \/ ClientStep(c) \/ AwaitSpurious(c)
      PROVE  TaskInv'
  BY <1>5, <1>6, <1>7, <1>9, TaskSubmit, TaskInsert
     DEF ClientCall, ClientStep, Shutdown, DestroyClose, MayCall
<1> QED
  BY <1>1, <1>8, <1>9 DEF Next, Finished

LEMMA TaskInvariant == Spec => []TaskInv
<1>1. Init => TaskInv
  <2> SUFFICES ASSUME Init, NEW t \in Tasks PROVE Nowhere(t) /\ future[t] # "pending"
    BY DEF TaskInv
  <2>1. Len(task_queue) = 0
    BY EmptySeq DEF Init
  <2> QED
    BY <2>1 DEF Init, Nowhere, InQueue, AtWorker, AtClient
<1> QED
  BY <1>1, TaskStep, IndexInvariant, PTL DEF Spec

\* From the moment submit() accepts a task until it has run, the task is in exactly
\* one place: in the hands of its submitter, in the queue, or with one worker.
THEOREM TaskAlwaysConserved == Spec => []TaskConserved
<1>1. TaskInv => TaskConserved
  <2> SUFFICES ASSUME TaskInv, NEW t \in Tasks
               PROVE  Cardinality(InQueue(t)) + Cardinality(AtWorker(t))
                      + Cardinality(AtClient(t)) = IF future[t] = "pending" THEN 1 ELSE 0
    BY DEF TaskConserved, InQueue, AtWorker, AtClient
  <2>1. /\ Cardinality({}) = 0
        /\ \A x : Cardinality({x}) = 1
    BY FS_EmptySet, FS_Singleton
  <2>2. Submitted(t) \/ Queued(t) \/ Running(t) =>
          \/ /\ Cardinality(InQueue(t)) = 1 /\ Cardinality(AtWorker(t)) = 0
             /\ Cardinality(AtClient(t)) = 0
          \/ /\ Cardinality(InQueue(t)) = 0 /\ Cardinality(AtWorker(t)) = 1
             /\ Cardinality(AtClient(t)) = 0
          \/ /\ Cardinality(InQueue(t)) = 0 /\ Cardinality(AtWorker(t)) = 0
             /\ Cardinality(AtClient(t)) = 1
    BY <2>1 DEF Submitted, Queued, Running
  <2>3. Nowhere(t) => /\ Cardinality(InQueue(t)) = 0 /\ Cardinality(AtWorker(t)) = 0
                      /\ Cardinality(AtClient(t)) = 0
    BY <2>1 DEF Nowhere
  <2> QED
    BY <2>2, <2>3 DEF TaskInv
<1> QED
  BY <1>1, TaskInvariant, PTL

-----------------------------------------------------------------------------
(* Termination. submit() reads shut before it has main_lock, so a task may *)
(* come after shutdown() if the two run at the same time. Where the thread *)
(* that submits is the one that shuts down they do not.                    *)

Orderly ==
  \A c, d \in Clients : "submit" \in Calls[c] /\ "shutdown" \in Calls[d] => c = d

Ended == {"joined", "reap", "destroyed"}   \* clients that saw the pool terminated

FinalInv ==
  /\ \A c \in Clients : cpc[c] = "insert" => "submit" \in Calls[c] /\ ~shut
  /\ \A c \in Clients : cpc[c] \in Ended => IsTerminated

\* A terminated pool stays so when no client is about to insert a task.
LEMMA TerminatedStays ==
  ASSUME IndexInv, IsTerminated, \A c \in Clients : cpc[c] # "insert", [Next]_vars
  PROVE  IsTerminated'
<1>1. \A w \in Workers : wpc[w] \notin LivePC
  BY EmptyVector DEF IsTerminated, IndexInv
<1>2. CASE UNCHANGED vars
  BY <1>2 DEF vars, executor, IsTerminated
<1>3. ASSUME NEW w \in Workers, WorkerStep(w) \/ WorkerTimeout(w) \/ WorkerSpurious(w)
      PROVE  IsTerminated'
  <2>1. UNCHANGED <<task_queue, workers, shut>>
    BY <1>1, <1>3 DEF WorkerStep, WorkerTake, WorkerWait, WorkerQuit, WorkerTimeout,
       WorkerSpurious, RunTask, WorkerRelock, WorkerReap, WorkerReturn, WorkerExit,
       executor, LivePC, Ready, Busy
  <2> QED
    BY <2>1 DEF IsTerminated
<1>4. ASSUME NEW c \in Clients, ClientCall(c) \/ ClientStep(c) \/ AwaitSpurious(c)
      PROVE  IsTerminated'
  <2>1. UNCHANGED <<task_queue, workers>> /\ (shut' = shut \/ shut' = TRUE)
    BY <1>4 DEF ClientCall, ClientStep, Submit, Shutdown, DestroyClose, DoShutdown, Await,
       AwaitCheck, AwaitSpurious, AwaitUntil, AwaitUntilCheck, Destroy, DestroyReap,
       InsertTask, executor
  <2> QED
    BY <2>1 DEF IsTerminated
<1> QED
  BY <1>2, <1>3, <1>4 DEF Next, Finished

LEMMA FinalStep ==
  ASSUME Orderly, IndexInv, DtorInv, FinalInv, [Next]_vars
  PROVE  FinalInv'
<1>n. NoThread \notin Clients
  BY ConstantsAssumption DEF ConstantsAssumption
<1>t. cpc \in [Clients -> ClientPC]
  BY DEF IndexInv, TypeOK
\* Enough for the second half: who newly sees the end sees it rightly.
<1>e. ASSUME \A c \in Clients : cpc'[c] \in Ended => IsTerminated
      PROVE  \A c \in Clients : cpc'[c] \in Ended => IsTerminated'
  <2>1. IsTerminated => \A c \in Clients : cpc[c] # "insert"
    BY DEF FinalInv, IsTerminated
  <2> QED
    BY <1>e, <2>1, TerminatedStays
<1>1. CASE UNCHANGED vars
  BY <1>1 DEF vars, executor, FinalInv, IsTerminated
<1>2. ASSUME NEW w \in Workers, WorkerStep(w) \/ WorkerTimeout(w) \/ WorkerSpurious(w)
      PROVE  FinalInv'
  <2>1. shut' = shut
    BY <1>2 DEF WorkerStep, WorkerTake, WorkerWait, WorkerQuit, WorkerTimeout,
       WorkerSpurious, RunTask, WorkerRelock, WorkerReap, WorkerReturn, WorkerExit, executor
  <2>2. \A c \in Clients : cpc'[c] = cpc[c] \/ (cpc[c] = "blocked" /\ cpc'[c] = "await")
    <3>1. CASE WorkerExit(w)
      BY <1>t, <3>1, NotifyAllAwaitingMoves DEF WorkerExit
    <3> QED
      BY <1>2, <3>1 DEF WorkerStep, WorkerTake, WorkerWait, WorkerQuit, WorkerTimeout,
         WorkerSpurious, RunTask, WorkerRelock, WorkerReap, WorkerReturn, executor
  <2>3. \A c \in Clients : cpc'[c] \in Ended => IsTerminated
    BY <2>2 DEF FinalInv, Ended
  <2> QED
    BY <1>e, <2>1, <2>2, <2>3 DEF FinalInv
<1>3. ASSUME NEW c \in Clients, \E t \in Tasks : Submit(c, t) PROVE FinalInv'
  <2>1. /\ shut' = shut
        /\ \/ cpc' = cpc
           \/ ~shut /\ cpc' = [cpc EXCEPT ![c] = "insert"] /\ "submit" \in Calls[c]
    BY <1>3 DEF Submit, MayCall, executor
  <2>2. \A d \in Clients : cpc'[d] \in Ended => IsTerminated
    BY <1>t, <2>1 DEF FinalInv, Ended
  <2> QED
    BY <1>e, <1>t, <2>1, <2>2 DEF FinalInv
<1>4. ASSUME NEW c \in Clients, NEW p \in {"idle", "await"}, DoShutdown(c, p),
             \A d \in Clients : d # c => cpc[d] # "insert"
      PROVE  FinalInv'
  <2> DEFINE after == [cpc EXCEPT ![c] = p]
  <2>1. /\ after \in [Clients -> ClientPC]
        /\ \A d \in Clients : after[d] # "insert" /\ (after[d] \in Ended => cpc[d] \in Ended)
    BY <1>4, <1>t DEF ClientPC, Ended
  <2>2. cpc' = after \/ cpc' = NotifyAllAwaiting(after)
    BY <1>4 DEF DoShutdown
  <2> HIDE DEF after
  <2>3. \A d \in Clients : cpc'[d] # "insert" /\ (cpc'[d] \in Ended => cpc[d] \in Ended)
    BY <2>1, <2>2, NotifyAllAwaitingMoves DEF Ended
  <2> QED
    BY <1>e, <2>3 DEF FinalInv
<1>5. ASSUME NEW c \in Clients, Shutdown(c) PROVE FinalInv'
  <2>1. \A d \in Clients : cpc[d] # "insert"
    BY <1>5 DEF Shutdown, MayCall, FinalInv, Orderly
  <2> QED
    BY <1>4, <1>5, <2>1 DEF Shutdown
<1>6. ASSUME NEW c \in Clients, DestroyClose(c) PROVE FinalInv'
  <2>1. \A d \in Clients : d # c => cpc[d] # "insert"
    BY <1>6, <1>n DEF DestroyClose, DtorInv
  <2> QED
    BY <1>4, <1>6, <2>1 DEF DestroyClose
<1>7. ASSUME NEW c \in Clients,
             \/ InsertTask(c) \/ Await(c) \/ AwaitCheck(c) \/ AwaitSpurious(c)
             \/ AwaitUntil(c) \/ AwaitUntilCheck(c) \/ Destroy(c) \/ DestroyReap(c)
      PROVE  FinalInv'
  <2>1. shut' = shut
    BY <1>7 DEF InsertTask, Await, AwaitCheck, AwaitSpurious, AwaitUntil, AwaitUntilCheck,
       Destroy, DestroyReap, executor
  <2>2. \E q \in ClientPC \ {"insert"} :
          cpc' = [cpc EXCEPT ![c] = q] /\ (q \in Ended => IsTerminated \/ cpc[c] \in Ended)
    BY <1>7, ZenonT(30) DEF InsertTask, Await, AwaitCheck, AwaitSpurious, AwaitUntil, AwaitUntilCheck,
       Destroy, DestroyReap, ClientPC, Ended
  <2>3. \A d \in Clients : /\ cpc'[d] \in Ended => IsTerminated
                           /\ cpc'[d] = "insert" => cpc[d] = "insert"
    BY <1>t, <2>2 DEF FinalInv
  <2> QED
    BY <1>e, <2>1, <2>3 DEF FinalInv
<1>8. ASSUME NEW c \in Clients, ClientCall(c) \/ ClientStep(c) \/ AwaitSpurious(c)
      PROVE  FinalInv'
  BY <1>3, <1>5, <1>6, <1>7, <1>8 DEF ClientCall, ClientStep
<1> QED
  BY <1>1, <1>2, <1>8 DEF Next, Finished

\* Where submit() does not race with shutdown(), await_termination() and the
\* destructor return only when no worker is left, every accepted task has its result,
\* and no other can arrive. (Where it does, the run ExecutorLateSubmit shows a task
\* that is accepted and never runs.)
THEOREM AwaitedAlwaysFinal ==
  ASSUME Orderly
  PROVE  Spec => []AwaitedIsFinal
<1>1. Init => FinalInv
  BY DEF Init, FinalInv, Ended
<1>2. IndexInv /\ DtorInv /\ FinalInv /\ [Next]_vars => FinalInv'
  BY FinalStep
<1>3. IndexInv /\ TaskInv /\ FinalInv => AwaitedIsFinal
  <2> SUFFICES ASSUME IndexInv, TaskInv, FinalInv,
                      NEW c \in Clients, cpc[c] \in {"joined", "destroyed"}
               PROVE  workers = <<>> /\ \A t \in Tasks : future[t] # "pending"
    BY DEF AwaitedIsFinal
  <2>1. IsTerminated
    BY DEF FinalInv, Ended
  <2>2. workers = <<>> /\ Len(task_queue) = 0 /\ shut
    BY <2>1, EmptySeq DEF IsTerminated
  <2>3. ASSUME NEW t \in Tasks PROVE future[t] # "pending"
    <3>1. InQueue(t) = {}
      BY <2>2 DEF InQueue
    <3>2. AtClient(t) = {}
      BY <2>2 DEF AtClient, FinalInv
    <3>3. AtWorker(t) = {}
      <4>1. \A w \in Workers : wpc[w] \notin LivePC
        BY <2>2, EmptyVector DEF IndexInv
      <4> QED
        BY <4>1 DEF AtWorker, LivePC, Busy
    <3> QED
      BY <3>1, <3>2, <3>3 DEF TaskInv, Submitted, Queued, Running
  <2> QED
    BY <2>2, <2>3
<1> QED
  BY <1>1, <1>2, <1>3, IndexInvariant, DtorInvariant, TaskInvariant, PTL DEF Spec

=============================================================================
