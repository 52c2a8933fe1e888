------------------------- MODULE ThreadPoolExecutor -------------------------
(***************************************************************************)
(* conc11::ThreadPoolExecutor (src/concurrency/executor.h).                *)
(*                                                                         *)
(* Everything the class does between locking and unlocking main_lock is    *)
(* one step, because every field but the two atomics is only touched under *)
(* main_lock and the atomics are written at most once in such a section.   *)
(* main_lock is a variable all the same: joining dead workers and the      *)
(* predicate of await_termination_until block while they hold it.          *)
(*                                                                         *)
(* A Worker object is identified by its address; the address is free again *)
(* once the object was joined and deleted.                                 *)
(***************************************************************************)
EXTENDS Integers, Sequences, FiniteSets

CONSTANTS
  Workers,       \* addresses that Worker objects (and their threads) can have
  Clients,       \* threads that use the executor
  Tasks,         \* callables, each submitted at most once
  CorePoolSize,  \* constructor arguments
  MaxPoolSize,
  Calls,         \* Calls[c]: the member functions that client c calls
  NoTask, NoThread

API == {"submit", "shutdown", "await", "await_until", "destroy"}

ASSUME ConstantsAssumption ==
  /\ CorePoolSize \in Nat /\ MaxPoolSize \in Nat
  /\ IsFiniteSet(Workers)
  /\ Workers \cap Clients = {}
  /\ NoThread \notin Workers \cup Clients
  /\ NoTask \notin Tasks
  /\ Calls \in [Clients -> SUBSET API]

VARIABLES
  task_queue,    \* std::queue of tasks
  workers,       \* std::vector of the living Worker objects
  worker_index,  \* Worker::worker_index, 0-based
  core,          \* Worker::core
  dead_workers,  \* Worker objects that removed themselves, not yet joined
  main_lock,     \* who keeps main_lock across steps
  shut,
  active_count,
  wpc,           \* where the thread of each Worker object is
  wtask,         \* the task it fetched
  cpc,           \* where each client is
  ctask,         \* the task it is submitting
  dtor,          \* the client that runs the destructor
  future         \* what the submitter of each task can observe

executor == <<task_queue, workers, worker_index, core, dead_workers,
              main_lock, shut, active_count>>
vars == <<executor, wpc, wtask, cpc, ctask, dtor, future>>

-----------------------------------------------------------------------------
(* Program counters.                                                       *)

\* A thread whose Worker is in the workers vector.
Ready   == {"loop", "woken", "expired"}   \* about to lock main_lock and fetch
Busy    == {"run", "ran", "reap"}         \* counted by active_count
LivePC  == Ready \cup Busy \cup {"wait", "leave"}
\* A thread whose Worker is in dead_workers: still returning, or joinable.
DeadPC  == {"return", "exited"}
WorkerPC == LivePC \cup DeadPC \cup {"free"}

ClientPC == {"idle", "insert", "await", "blocked", "until", "self_deadlock",
             "close", "reap", "joined", "destroyed"}

MaxThreads == IF CorePoolSize < MaxPoolSize THEN MaxPoolSize ELSE CorePoolSize

LockFree == main_lock = NoThread

\* is_terminated_locked()
IsTerminatedTooSoon == shut /\ task_queue = <<>>   \* mutant: forgets the workers
IsTerminated == shut /\ task_queue = <<>> /\ workers = <<>>

-----------------------------------------------------------------------------
(* Condition variables. A thread in cv is at "wait", one in wait_cv at     *)
(* "blocked"; notifying it sends it back to lock main_lock and look again. *)

Asleep(pc) == {w \in Workers : pc[w] = "wait"}

\* The values wpc may take after cv.notify_one(), given that it was pc.
NotifyNobody(pc) == {pc}   \* mutant: no notification
NotifyOne(pc) ==
  IF Asleep(pc) = {} THEN {pc}
  ELSE {[pc EXCEPT ![w] = "woken"] : w \in Asleep(pc)}

NotifyAll(pc) == [w \in Workers |-> IF pc[w] = "wait" THEN "woken" ELSE pc[w]]

NotifyNoneAwaiting(pc) == pc   \* mutant: the last worker leaves silently
NotifyAllAwaiting(pc) ==
  [c \in Clients |-> IF pc[c] = "blocked" THEN "await" ELSE pc[c]]

-----------------------------------------------------------------------------
(* The constructor.                                                        *)

AllDistinct(s) == \A i, j \in DOMAIN s : s[i] = s[j] => i = j

Init ==
  /\ task_queue = <<>>
  /\ workers \in {s \in [1..CorePoolSize -> Workers] : AllDistinct(s)}
  /\ worker_index = [w \in Workers |->
                       IF \E i \in 1..CorePoolSize : workers[i] = w
                       THEN (CHOOSE i \in 1..CorePoolSize : workers[i] = w) - 1
                       ELSE 0]
  /\ core = [w \in Workers |-> \E i \in 1..CorePoolSize : workers[i] = w]
  /\ dead_workers = {}
  /\ main_lock = NoThread
  /\ shut = FALSE
  /\ active_count = 0
  /\ wpc = [w \in Workers |->
              IF \E i \in 1..CorePoolSize : workers[i] = w THEN "loop" ELSE "free"]
  /\ wtask = [w \in Workers |-> NoTask]
  /\ cpc = [c \in Clients |-> "idle"]
  /\ ctask = [c \in Clients |-> NoTask]
  /\ dtor = NoThread
  /\ future = [t \in Tasks |-> "none"]

-----------------------------------------------------------------------------
(* submit() and execute(). They differ only in how the result of the task  *)
(* is delivered. shut is read before main_lock is taken.                   *)

\* The client may call f: it calls it at all, and the object still lives.
MayCall(c, f) == cpc[c] = "idle" /\ f \in Calls[c] /\ dtor = NoThread

Submit(c, t) ==
  /\ MayCall(c, "submit")
  /\ future[t] = "none"
  /\ \/ /\ shut
        /\ future' = [future EXCEPT ![t] = "refused"]
        /\ UNCHANGED <<cpc, ctask>>
     \/ /\ ~shut
        /\ future' = [future EXCEPT ![t] = "pending"]
        /\ cpc' = [cpc EXCEPT ![c] = "insert"]
        /\ ctask' = [ctask EXCEPT ![c] = t]
  /\ UNCHANGED <<executor, wpc, wtask, dtor>>

IdleWorkers == Len(workers) - active_count

MayOvergrow == IdleWorkers = 0 /\ Len(workers) <= MaxPoolSize   \* mutant
MustGrow == IdleWorkers = 0 /\ Len(workers) < MaxPoolSize

AddWorkerMisplaced(w, isCore) ==   \* mutant: index off by one
  /\ workers' = Append(workers, w)
  /\ worker_index' = [worker_index EXCEPT ![w] = Len(workers) - 1]
  /\ core' = [core EXCEPT ![w] = isCore]

\* add_worker_locked(isCore), for an object allocated at address w
AddWorker(w, isCore) ==
  /\ workers' = Append(workers, w)
  /\ worker_index' = [worker_index EXCEPT ![w] = Len(workers)]
  /\ core' = [core EXCEPT ![w] = isCore]

\* insert_task_locked(), called with main_lock held
InsertTask(c) ==
  /\ cpc[c] = "insert" /\ LockFree
  /\ task_queue' = Append(task_queue, ctask[c])
  /\ \/ /\ MustGrow
        /\ \E w \in Workers :
             /\ wpc[w] = "free"
             /\ AddWorker(w, FALSE)
             /\ wpc' \in NotifyOne([wpc EXCEPT ![w] = "loop"])
     \/ /\ ~MustGrow
        /\ wpc' \in NotifyOne(wpc)
        /\ UNCHANGED <<workers, worker_index, core>>
  /\ cpc' = [cpc EXCEPT ![c] = "idle"]
  /\ ctask' = [ctask EXCEPT ![c] = NoTask]
  /\ UNCHANGED <<dead_workers, main_lock, shut, active_count, wtask, dtor, future>>

-----------------------------------------------------------------------------
(* shutdown(), await_termination(), await_termination_for/until() and the  *)
(* destructor.                                                             *)

\* The body of shutdown(); the caller then is at pc.
DoShutdown(c, pc) ==
  /\ LockFree
  /\ shut' = TRUE
  /\ LET after == [cpc EXCEPT ![c] = pc] IN
     IF task_queue = <<>> /\ workers = <<>>
     THEN cpc' = NotifyAllAwaiting(after) /\ UNCHANGED wpc
     ELSE cpc' = after /\ wpc' = NotifyAll(wpc)
  /\ UNCHANGED <<task_queue, workers, worker_index, core, dead_workers,
                 main_lock, active_count, wtask, ctask, dtor, future>>

Shutdown(c) == MayCall(c, "shutdown") /\ DoShutdown(c, "idle")

Await(c) ==
  /\ MayCall(c, "await")
  /\ cpc' = [cpc EXCEPT ![c] = "await"]
  /\ UNCHANGED <<executor, wpc, wtask, ctask, dtor, future>>

\* With main_lock: return if terminated, otherwise wait on wait_cv. Both the
\* first checks and each evaluation of the wait predicate are this step.
AwaitCheck(c) ==
  /\ cpc[c] = "await" /\ LockFree
  /\ cpc' = [cpc EXCEPT ![c] = IF ~IsTerminated THEN "blocked"
                               ELSE IF dtor = c THEN "reap" ELSE "joined"]
  /\ UNCHANGED <<executor, wpc, wtask, ctask, dtor, future>>

AwaitSpurious(c) ==
  /\ cpc[c] = "blocked"
  /\ cpc' = [cpc EXCEPT ![c] = "await"]
  /\ UNCHANGED <<executor, wpc, wtask, ctask, dtor, future>>

AwaitUntil(c) ==
  /\ MayCall(c, "await_until")
  /\ cpc' = [cpc EXCEPT ![c] = "until"]
  /\ UNCHANGED <<executor, wpc, wtask, ctask, dtor, future>>

\* wait_until() evaluates its predicate before it waits. The predicate is
\* is_terminated(), which locks main_lock although the caller has it: the
\* std::mutex never becomes free again.
AwaitUntilCheck(c) ==
  /\ cpc[c] = "until" /\ LockFree
  /\ \/ /\ IsTerminated
        /\ cpc' = [cpc EXCEPT ![c] = "joined"]
        /\ UNCHANGED main_lock
     \/ /\ ~IsTerminated
        /\ cpc' = [cpc EXCEPT ![c] = "self_deadlock"]
        /\ main_lock' = c
  /\ UNCHANGED <<task_queue, workers, worker_index, core, dead_workers, shut,
                 active_count, wpc, wtask, ctask, dtor, future>>

\* The owner destroys the executor when no other client is in a call.
Destroy(c) ==
  /\ dtor = NoThread /\ "destroy" \in Calls[c]
  /\ \A d \in Clients : cpc[d] \in {"idle", "joined"}
  /\ LockFree
  /\ dtor' = c
  /\ cpc' = [cpc EXCEPT ![c] = IF IsTerminated THEN "reap" ELSE "close"]
  /\ UNCHANGED <<executor, wpc, wtask, ctask, future>>

DestroyClose(c) == cpc[c] = "close" /\ DoShutdown(c, "await")

\* reap_dead_workers_locked(): the joins, then the deletes. pc is wpc
\* afterwards, but for the workers that ended.
DeadNotAwaited == TRUE   \* mutant: the Worker is deleted, its thread not joined
DeadHaveExited == \A d \in dead_workers : wpc[d] = "exited"

Reap(pc) ==
  /\ DeadHaveExited
  /\ dead_workers' = {}
  /\ wpc' = [w \in Workers |->
               IF w \in dead_workers /\ wpc[w] = "exited" THEN "free" ELSE pc[w]]

DestroyReap(c) ==
  /\ cpc[c] = "reap"
  /\ Reap(wpc)
  /\ cpc' = [cpc EXCEPT ![c] = "destroyed"]
  /\ UNCHANGED <<task_queue, workers, worker_index, core, main_lock, shut,
                 active_count, wtask, ctask, dtor, future>>

-----------------------------------------------------------------------------
(* Worker::run().                                                          *)

WorkerPeek(w) ==   \* mutant: front() without pop()
  /\ wpc[w] \in Ready /\ LockFree
  /\ task_queue # <<>>
  /\ wtask' = [wtask EXCEPT ![w] = Head(task_queue)]
  /\ active_count' = active_count + 1
  /\ wpc' = [wpc EXCEPT ![w] = "run"]
  /\ UNCHANGED <<task_queue, workers, worker_index, core, dead_workers, main_lock,
                 shut, cpc, ctask, dtor, future>>

\* fetch_task_locked() finds a task, at once or after the wait.
WorkerTake(w) ==
  /\ wpc[w] \in Ready /\ LockFree
  /\ task_queue # <<>>
  /\ wtask' = [wtask EXCEPT ![w] = Head(task_queue)]
  /\ task_queue' = Tail(task_queue)
  /\ active_count' = active_count + 1
  /\ wpc' = [wpc EXCEPT ![w] = "run"]
  /\ UNCHANGED <<workers, worker_index, core, dead_workers, main_lock, shut,
                 cpc, ctask, dtor, future>>

\* No task: cv.wait() or cv.wait_until(), first or again.
WorkerWait(w) ==
  /\ wpc[w] \in {"loop", "woken"} /\ LockFree
  /\ task_queue = <<>> /\ ~shut
  /\ wpc' = [wpc EXCEPT ![w] = "wait"]
  /\ UNCHANGED <<executor, wtask, cpc, ctask, dtor, future>>

\* No task and shut down or timed out: break, which unlocks main_lock.
WorkerQuit(w) ==
  /\ wpc[w] \in Ready /\ LockFree
  /\ task_queue = <<>> /\ (shut \/ wpc[w] = "expired")
  /\ wpc' = [wpc EXCEPT ![w] = "leave"]
  /\ UNCHANGED <<executor, wtask, cpc, ctask, dtor, future>>

WorkerTimeout(w) ==
  /\ wpc[w] = "wait" /\ ~core[w]
  /\ wpc' = [wpc EXCEPT ![w] = "expired"]
  /\ UNCHANGED <<executor, wtask, cpc, ctask, dtor, future>>

WorkerSpurious(w) ==
  /\ wpc[w] = "wait"
  /\ wpc' = [wpc EXCEPT ![w] = "woken"]
  /\ UNCHANGED <<executor, wtask, cpc, ctask, dtor, future>>

\* (*task)() runs without main_lock. packaged_task stores what the callable
\* throws and UntrackableTask swallows it, so every outcome ends here.
RunTask(w) ==
  /\ wpc[w] = "run"
  /\ future' = [future EXCEPT ![wtask[w]] = "ready"]
  /\ wpc' = [wpc EXCEPT ![w] = "ran"]
  /\ UNCHANGED <<executor, wtask, cpc, ctask, dtor>>

\* --active_count, and the task is destroyed.
FinishUncounted(w) ==   \* mutant: active_count is not decremented
  wtask' = [wtask EXCEPT ![w] = NoTask] /\ UNCHANGED active_count

FinishTask(w) ==
  /\ active_count' = active_count - 1
  /\ wtask' = [wtask EXCEPT ![w] = NoTask]

\* The end of the loop body: lock, reap_dead_workers_locked() (which joins
\* with main_lock held), finish the task, unlock.
WorkerRelock(w) ==
  /\ wpc[w] = "ran" /\ LockFree
  /\ \/ /\ dead_workers = {}
        /\ wpc' = [wpc EXCEPT ![w] = "loop"]
        /\ FinishTask(w)
        /\ UNCHANGED main_lock
     \/ /\ dead_workers # {}
        /\ wpc' = [wpc EXCEPT ![w] = "reap"]
        /\ main_lock' = w
        /\ UNCHANGED <<active_count, wtask>>
  /\ UNCHANGED <<task_queue, workers, worker_index, core, dead_workers, shut,
                 cpc, ctask, dtor, future>>

WorkerReap(w) ==
  /\ wpc[w] = "reap"
  /\ Reap([wpc EXCEPT ![w] = "loop"])
  /\ FinishTask(w)
  /\ main_lock' = NoThread
  /\ UNCHANGED <<task_queue, workers, worker_index, core, shut, cpc, ctask,
                 dtor, future>>

RemoveStale(w) ==   \* mutant: the moved worker keeps its old index
  /\ dead_workers' = dead_workers \cup {w}
  /\ workers' = [i \in 1..(Len(workers) - 1) |->
                   IF workers[i] = w THEN workers[Len(workers)] ELSE workers[i]]
  /\ UNCHANGED worker_index

\* remove_self_locked() swaps this worker with the last one, stores the new
\* index in whatever is now at worker_index, and buries what is now last.
RemoveSelf(w) ==
  LET here == worker_index[w] + 1
      last == workers[Len(workers)]
  IN /\ worker_index' = [worker_index EXCEPT ![last] = worker_index[w]]
     /\ dead_workers' = dead_workers \cup {workers[here]}
     /\ workers' = [i \in 1..(Len(workers) - 1) |->
                      IF i = here THEN last ELSE workers[i]]

WorkerExit(w) ==
  /\ wpc[w] = "leave" /\ LockFree
  /\ RemoveSelf(w)
  /\ wpc' = [wpc EXCEPT ![w] = "return"]
  /\ cpc' = IF shut /\ task_queue = <<>> /\ workers' = <<>>
            THEN NotifyAllAwaiting(cpc) ELSE cpc
  /\ UNCHANGED <<task_queue, core, main_lock, shut, active_count, wtask, ctask,
                 dtor, future>>

WorkerReturn(w) ==
  /\ wpc[w] = "return"
  /\ wpc' = [wpc EXCEPT ![w] = "exited"]
  /\ UNCHANGED <<executor, wtask, cpc, ctask, dtor, future>>

-----------------------------------------------------------------------------
(* Specification.                                                          *)

\* What a thread does next when it is not waiting for anybody.
WorkerStep(w) ==
  \/ WorkerTake(w) \/ WorkerWait(w) \/ WorkerQuit(w)
  \/ RunTask(w) \/ WorkerRelock(w) \/ WorkerReap(w)
  \/ WorkerExit(w) \/ WorkerReturn(w)

ClientStep(c) ==
  \/ InsertTask(c) \/ AwaitCheck(c) \/ AwaitUntilCheck(c)
  \/ DestroyClose(c) \/ DestroyReap(c)

ClientCall(c) ==
  \/ \E t \in Tasks : Submit(c, t)
  \/ Shutdown(c) \/ Await(c) \/ AwaitUntil(c) \/ Destroy(c)

\* After the destructor nothing is left to do.
Finished == (\E c \in Clients : cpc[c] = "destroyed") /\ UNCHANGED vars

Next ==
  \/ \E w \in Workers : WorkerStep(w) \/ WorkerTimeout(w) \/ WorkerSpurious(w)
  \/ \E c \in Clients : ClientCall(c) \/ ClientStep(c) \/ AwaitSpurious(c)
  \/ Finished

Spec == Init /\ [][Next]_vars

\* A thread that can go on eventually does: the system schedules it, main_lock
\* does not starve it, and tasks return. No client has to call anything.
Fairness ==
  /\ \A w \in Workers : WF_vars(WorkerStep(w))
  /\ \A c \in Clients : WF_vars(ClientStep(c))

FairSpec == Spec /\ Fairness

-----------------------------------------------------------------------------
(* Properties.                                                             *)

\* The types of the variables.
TypeOK ==
  /\ task_queue \in Seq(Tasks)
  /\ workers \in Seq(Workers)
  /\ worker_index \in [Workers -> Nat]
  /\ core \in [Workers -> BOOLEAN]
  /\ dead_workers \in SUBSET Workers
  /\ main_lock \in Workers \cup Clients \cup {NoThread}
  /\ shut \in BOOLEAN
  /\ active_count \in Int
  /\ wpc \in [Workers -> WorkerPC]
  /\ wtask \in [Workers -> Tasks \cup {NoTask}]
  /\ cpc \in [Clients -> ClientPC]
  /\ ctask \in [Clients -> Tasks \cup {NoTask}]
  /\ dtor \in Clients \cup {NoThread}
  /\ future \in [Tasks -> {"none", "refused", "pending", "ready"}]

\* "Remove self by swapping state with last element": however workers leave,
\* worker_index locates each living worker in the vector, the vector holds
\* exactly the threads still in run(), and dead_workers exactly the threads
\* that left it and were not joined.
WorkersIndexed ==
  /\ \A i \in 1..Len(workers) : worker_index[workers[i]] = i - 1
  /\ \A w \in Workers :
       wpc[w] \in LivePC <=> \E i \in 1..Len(workers) : workers[i] = w
  /\ \A w \in Workers : wpc[w] \in DeadPC <=> w \in dead_workers

\* active_count is the number of workers between fetching a task and finishing
\* the loop body, so workers.size() - active_count does not wrap around.
ActiveCountExact ==
  /\ active_count = Cardinality({w \in Workers : wpc[w] \in Busy})
  /\ active_count <= Len(workers)

\* The pool never has more living threads than the constructor allows, nor
\* more unjoined ones than dead_workers.reserve() makes room for.
PoolBounded ==
  /\ Len(workers) <= MaxThreads
  /\ Cardinality(dead_workers) <= MaxThreads

\* A task is lost or duplicated nowhere between submit() and its execution:
\* while its future is pending it is in exactly one place.
TaskConserved ==
  \A t \in Tasks :
    Cardinality({i \in 1..Len(task_queue) : task_queue[i] = t})
    + Cardinality({w \in Workers : wpc[w] = "run" /\ wtask[w] = t})
    + Cardinality({c \in Clients : cpc[c] = "insert" /\ ctask[c] = t})
    = IF future[t] = "pending" THEN 1 ELSE 0

\* cv.notify_one() never goes missing: while a worker sleeps on cv, as many
\* workers are on their way to fetch_task_locked() as there are queued tasks.
NoLostWakeup ==
  Asleep(wpc) # {} =>
    Len(task_queue) <= Cardinality({w \in Workers : wpc[w] \in Ready})

\* When the destructor returns no thread of the pool is left that could touch
\* the destroyed object.
SafeDestruction ==
  (\E c \in Clients : cpc[c] = "destroyed") => \A w \in Workers : wpc[w] = "free"

\* await_termination() returns only when all is over: no worker, no accepted
\* task without a result, and none that can still arrive. (Submitters that race
\* with shutdown() break it; see the README.)
AwaitedIsFinal ==
  (\E c \in Clients : cpc[c] \in {"joined", "destroyed"}) =>
    /\ workers = <<>>
    /\ \A t \in Tasks : future[t] # "pending"

\* "Submits a callable and its parameters to be executed at some time in the
\* future": a task that submit() or execute() accepted is executed.
AcceptedTaskRuns ==
  \A t \in Tasks : future[t] = "pending" ~> future[t] = "ready"

\* After shutdown(), await_termination() and the destructor return.
AwaitReturns ==
  \A c \in Clients :
    (shut /\ cpc[c] \in {"await", "blocked"}) ~> cpc[c] \in {"joined", "destroyed"}

=============================================================================
