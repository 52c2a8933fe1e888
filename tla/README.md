# A TLA+ verification of concurrency-cpp11

This project models the concurrent classes of concurrency-cpp11 in TLA+, checks
the models with TLC on small instances and proves their central properties with
TLAPS for every instance. Paths such as `executor.h:326` are relative to
`src/concurrency/`.

## The system

The library is a set of headers. Most classes stand alone; three are built on
others: the wait queue inside `QueuedSemaphore`, `SharedLock` on a shared mutex,
and `BlockingLRUCache` on an `LRUCache` and a lock of the user's choice. Each is
used by any number of threads at the same time.

| Part | State | Operations | What is hard |
|---|---|---|---|
| `ThreadPoolExecutor` (executor.h) | task queue, vector of workers, vector of dead workers, `main_lock`, two condition variables, atomics `shut` and `active_count` | `submit`, `execute`, `shutdown`, `await_termination` (plain and timed), destructor; `Worker::run` in each pool thread | workers leave by themselves after a time-out or at shutdown, swap themselves out of the vector and are joined later by others who hold `main_lock`; submitters race with both |
| `QueuedSemaphore` and its `WaitQueue` (semaphore.h) | `permits`, doubly linked FIFO of wait nodes with a `wakeable` flag, cache of unused nodes, record of waiting sizes | `acquire`, `try_acquire`, `try_acquire_for`, `release` | who is woken, time-outs racing with wake-ups, requests of different sizes, barging `try_acquire` |
| `SimpleSemaphore` (semaphore.h) | `count`, mutex, condition variable | the same, and `try_acquire_until` | notification after the unlock |
| `SemaphoreGuard`, `SemaphoreTimedLockableAdapter` | a semaphore and a fixed request | forward to the semaphore | what is taken must be what is given back |
| `Latch` (latch.h) | atomic `value`, mutex, condition variable | `count_down`, `wait`, `count_down_and_wait` | the counter changes without the mutex |
| `SharedTimedMutex`, `ReaderPreferringSharedTimedMutex` (shared_mutex.h) | reader count and writer bit; two gates, or one condition variable | exclusive and shared locking, timed and not | starvation, the reader limit, time-outs of a writer that already entered |
| `SharedLock` (shared_mutex.h) | pointer to a mutex, `owns` | constructors, locking, `swap`, `release`, move, destructor | each ownership is given back exactly once wherever it has been moved |
| `SpinLock`, `FairSpinLock` (spin_lock.h) | a flag; two ticket counters | `lock`, `unlock`, `try_lock` | order, wrap-around |
| `LRUCache`, `BlockingLRUCache` (util/lru_cache.h) | hash map with an intrusive list | `set`, `get*`, `erase`, `clear` | list and map stay in step |
| `PThreadLocalPtr`, pthread wrappers, `ScopeGuard`, `RValueWrapper`, `invoke`, `make_unique` | little or none | | |

What makes each part correct:

* executor: an accepted task runs exactly once; the index of each worker, the
  count of busy ones and the size of the pool stay right however workers come and
  go; no wake-up is lost; termination is announced to everybody and only when it
  has happened; no thread outlives the object.
* semaphores: permits are conserved and never overdrawn; a waiter that could be
  served is woken; the queued one serves in order.
* latch: nobody sleeps through the opening, and it happens once.
* reader-writer locks, spin locks: exclusion, progress, order.
* shared lock: the mutex counts exactly the ownerships somebody will give back.
* cache: the list is the recency order of the keys in the map, its size is bounded,
  and each call does what a least-recently-used cache does.

## Modules

| Module | Content |
|---|---|
| `ThreadPoolExecutor` | the executor, its clients and its worker threads |
| `Semaphore` | what any counting semaphore promises (abstract) |
| `QueuedSemaphore`, `SimpleSemaphore` | the two semaphores, each shown to implement `Semaphore` |
| `IntConversions` | `int` and `unsigned int`, and what each becomes when code takes it for the other |
| `WaitQueue` | the linked list of wait nodes and the node cache, as operations on a record |
| `LinkedSemaphore` | `QueuedSemaphore` composed with `WaitQueue`: each step with what it reads of the pointers and does to them, shown to implement `QueuedSemaphore` |
| `Latch` | the latch |
| `RWLock` | what any reader-writer lock promises (abstract) |
| `SharedTimedMutex` | the two-gate reader-writer lock, shown to implement `RWLock` |
| `ReaderPreferringSharedTimedMutex` | the reader-preferring lock, as steps of whoever calls it |
| `SharedLock` | `SharedLock` objects and writers using that lock |
| `FairSpinLock` | the ticket lock, as steps of whoever calls it |
| `LRU` | what a least-recently-used cache promises, call by call (abstract) |
| `LRUCache` | the cache, called by threads under a `FairSpinLock`, compared with `LRU` at the end of each call |
| `MC...` | instances for TLC, where the constants are more than sets and numbers |
| `...Proofs` | theorems and their TLAPS proofs |

A definition marked `mutant` in a module is not part of the specification. It is
a plausible mistake in the definition below it; replacing that definition by the
mutant makes the corresponding property fail, which shows that the property
depends on that code.

### Executor

Every section of the code between locking and unlocking `main_lock` is one
action: all fields but `shut` and `active_count` are only touched under it, and
the atomics are written only under it. `shut` is also read without the lock, by
`submit()` and `execute()`; `Submit` and `InsertTask` are therefore two steps.
`main_lock` is a variable because two sections block while they hold it: joining
dead workers (`WorkerRelock`, `WorkerReap`) and the predicate of
`await_termination_until()` (`AwaitUntilCheck`).

A pool thread goes through `loop` (about to lock and fetch) - `wait` (asleep on
`cv`) - `woken` or `expired` (notified, or timed out) - `run` - `ran` (about to
re-lock) - `reap` (joining with the lock held) and back, and leaves through
`leave` (decided to go, lock released) - `return` (removed from `workers`, in
`dead_workers`) - `exited` (joinable) - `free` (joined and deleted). Worker
objects are named by their addresses, which are used again after deletion.
`Worker::remove_self_locked()` is translated index by index (`RemoveSelf`), so a
wrong `worker_index` would bury the wrong worker.

Both checks of `await_termination()` and each evaluation of its wait predicate
look at the same condition under the same lock; they are one action,
`AwaitCheck`, taken as often as the thread is woken. A client that returned from
`await_termination()` makes no further call except destroying the pool. The
destructor is called when no other client is in a call, as C++ requires.

A task is an opaque value, submitted once, and its body ends by itself.
Exceptions end in the future or are swallowed (executor.h:30-60), so every task
that runs ends the same way. Tasks that wait for one another's futures are not
modelled; the decision to grow (executor.h:326) ignores tasks already queued, so
such tasks can share one thread and block it.

### Queued semaphore

Each call runs under the lock up to its end or its wait, which gives one action
for each outcome: `AcquireAtOnce`, `AcquireBlock`, `ResumeGranted`,
`ResumeRequeue`, `Timeout`, `TryAcquire`, `Release`/`Post`. The wait queue is the
sequence of the threads that own its nodes; `request_record` counts the requests
by size and, like the code, is not cleaned up by a time-out. `permits` is an
`int` and a request an `unsigned int`. The comparison of line 66 converts the permits
to unsigned (`AsUnsigned`); all others cast the request to `int`, and adding it to or
subtracting it from the permits comes to the same (`AsInt`), so that a request beyond
`IntMax` is a negative number there. What an action reads of the wait queue, whether
it is empty and the flag of the thread's node, is a parameter, which `Next` fills in
from the sequence.
`arrivals` is a history variable: the order in which threads blocked.
`try_acquire_until` of this class does not compile when it is instantiated
(lines 97-106) and is left out.

### Wait queue

`WaitQueue` has the class's pointers: a record with `head`, `tail`, `cache_head`,
`cur_queue_capacity` and the nodes allocated so far. The semaphore touches it
under `main_lock` only, so `enqueue`, `remove` (and `dequeue`, which is `remove`
of the head), `wake_head` and `alloc_cache` are functions from records to records.
`LinkedSemaphore` takes every action of `QueuedSemaphore` and adds its effect on
the list and on the local `wait_node`. What decides between the actions is read
through the pointers: `is_empty()` looks at `head`, and the wait predicate (`Woken`)
at the flag in the node that `wait_node` points at. The sequence `queue` and the flags
`wakeable` are written along as history and no guard reads them. That the pointers
decide as the sequence would is a property, `ImplementsQueued`; why they do is
`ListIsQueue`.

### Simple semaphore

A section under `mtx` is one step and the notification after it another one.
`Asked` is what a call really asks for: `try_acquire_until` passes `true` where
the request belongs (line 430). The casts of the request to `int` (lines 367, 391
and 442) are those of the queued semaphore.

### Latch

Each access to the atomic counter is a step of its own, and so is each operation
on the mutex and the condition variable. Atomics are modelled as sequentially
consistent. That is enough here: the only read that decides whether a thread
sleeps is made under the mutex, and the thread that takes the counter to zero
locks the same mutex afterwards, so a reader that saw an old value had the mutex
first and is asleep when it is notified.

### Shared timed mutex

A section under `mtx` is one step; both unlock functions and a writer that gives
up notify after unlocking, which is a step of its own. The word `state` is split
into its two fields, `writer_entered` and `num_readers`. `lock()` and
`lock_shared()` are the timed calls without a deadline: `timed` says whether the
deadline of a sleeping thread can pass (`Timeout`), and a program counter ending
in `_late` stands for the last evaluation of the wait predicate, after which the
call gives up. A `try_lock` that fails changes nothing and is left out as a step.

### Reader-preferring mutex and shared lock

`lock()`, `lock_shared()` and their timed forms differ in the condition they wait
for (`CanPass`) and in what they do to `state` (`Acquire`); the waiting is the same
and modelled once. A call is at `call` (about to look at `state`), `asleep`, or
`late` (looking for the last time after its deadline). Unlocking and the
notification after it are two steps.

A `SharedLock` object makes the shared calls; `writing` and the other program
counters of the exclusive calls belong to writer threads. Objects come and go:
`mtx` is `"none"` where there is none, `"null"` for one without a mutex.
`operator=` is one step up to the unlocking done by the destructor of its
temporary, and notifies like any unlock. After `release()` the ownership belongs
to the caller (`released`), who unlocks the mutex or has another object adopt it.
`SharedLock(mutex)` sets `owns` before it has the lock; since nobody else sees the
object then, `OwnershipExact` looks at it only when its call has ended. The class
does not check that `lock()` is called on a lock that has a mutex and does not
own it, or `unlock()` on one that owns; the model keeps to that.

### Cache and ticket lock

`FairSpinLock` is used as `Mutex` of `BlockingLRUCache`. Drawing a ticket, seeing
it called and passing on are steps; a pass of the spinning loop that sees another
number changes nothing. The counters are taken modulo `TicketRange`. Inside the
lock a call is split where it goes from one operation on map or list to the next.
A node of the map is named by its key, so a pointer in the list is a key.
`has_key()` is not offered by `BlockingLRUCache`; it is called under the same lock
here. `before` remembers the contents at the time the lock was taken, and
`CallsAreLRU` compares the outcome with what `LRU` computes from them. As `LRU` has
a value for each call sequence, every result of concurrent use is one of
sequential use in the order of the tickets.

## Runs

| Run | Shows |
|---|---|
| `ExecutorSafety` | two clients, every call in any order, four tasks, one core thread, at most two: workers stay indexed, `active_count` exact, both vectors within what the constructor reserves, tasks neither lost nor duplicated, no lost wake-up, no thread left after the destructor |
| `ExecutorLive` | shutdown by the submitting thread, then awaiting and destroying by another: accepted tasks run, waiting ends, and ends only when all is over |
| `ExecutorLateSubmit` | an accepted task never runs (below) |
| `SemaphoreSafety` | three threads, every call, sizes 1 and 2, on the linked list: pointers, nodes, flags, record and permits consistent; deciding by the pointers implements deciding by the sequence (`ImplementsQueued`), and the whole implements `Semaphore` |
| `SemaphoreFair` | four threads, requests of one size, blocking calls only: a head that can be served has been woken, service is in order, and everybody is served |
| `SemaphoreTimedAhead` | a time-out leaves a thread asleep beside the permits it asked for (below) |
| `SimpleSafety` | three threads, every call: no lost wake-up; implements `Semaphore` |
| `LatchOpens` | three threads in every call: no lost wake-up, one signal, every call returns once the counter is down |
| `SharedMutexGates` | three threads, every call with and without deadline, a reader limit of two: `state` is exact through time-outs, no lost wake-up, implements `RWLock`, and a writer past the first gate is admitted or gives up |
| `SharedMutexStarvation` | a thread at the first gate can be kept there for ever (below) |
| `SharedLocks` | three `SharedLock` objects and two writers, every call in any order: the reader count is exact, a writer is alone, no lost wake-up, and whoever waits is served once no new calls come |
| `CacheCalls` | three threads, three keys, every call: list and map in step, every call as specified by `LRU`, the lock serves in order, every call returns |

### Bounds

* Executor: addresses for twice the pool size are enough. When a worker is
  created all others are busy, so whichever of them dies later has gone through
  a reap first; hence at most `MaxThreads` dead workers exist beside at most
  `MaxThreads` living ones (`PoolBounded`), four for a pool of two. Four tasks
  let the pool grow, shrink by a time-out, and grow again over a dead worker.
  Each task is submitted once. Deadlock is not checked in `ExecutorSafety`
  because `await_termination_until()` does block the pool (below).
* Queued semaphore: `PermitBound` stops releases that no acquire precedes;
  `RecordBound` stops timed calls once their size is recorded that often,
  because timed-out requests stay recorded for ever. `IntMax` is 7 for 2^31 - 1;
  permits and requests stay below it, because a request beyond it breaks the
  semaphore (below). Three threads and two sizes give a head, a
  second and a barging thread. `InitialCapacity`, 256 in the code, is 1, so
  that the second and the third waiter find the node cache empty and it is doubled
  twice; nodes are recycled without bound. Both passing runs use `LinkedSemaphore`.
* Simple semaphore: `CountBound` as `PermitBound`.
* Latch: `Floor` stops new counts below it; the counter starts at 3, so that
  amounts of two can overshoot and several calls can race across zero. Deadlock is not
  checked: all threads may wait for a count nobody is left to make.
* Shared timed mutex: the reader limit is 2 for 2^31 - 1 in the code, so that three
  threads reach it. At the limit one reader is notified when a place is free
  (shared_mutex.h:91). With one waiting reader, all that three threads allow,
  that is enough. With two, two readers can leave before either is awake; the
  second exit notifies nobody and the second sleeper stays behind an open gate.
  It takes more than 2^31 threads, and the theorem excludes it by an assumption
  (`FewThreads`).
* Shared lock: `CallBound` bounds the calls that lock the mutex (four); moves,
  swaps, releases and unlocks are not bounded. Three objects reach the limit of two
  readers with one more waiting, and allow a swap beside a third owner. The bound
  is also part of the question: `ServedInTheEnd` is about what happens when new
  calls come to an end.
* Cache: three keys with room for two evict, with room for three never do, and a
  cache for none evicts what it has just inserted. Two values tell an updated
  entry from an old one. `TicketRange` is 4 for three threads: the counters wrap
  around while tickets are held. The assumption `TicketAssumption` that there are
  no more threads than tickets is what the lock needs: one thread more and two
  hold the same ticket. In the code that takes 2^32 threads.
* Symmetry is used only in runs without liveness properties, over thread, worker
  and task names that no definition tells apart.

### Fairness

* Executor: weak fairness of what a worker or a client inside a call does next.
  A thread that can run is scheduled, the mutex does not starve it, and tasks end.
  Nothing makes a client call, a time-out expire or
  a spurious wake-up happen.
* Queued semaphore: a woken thread runs; and whoever has permits gives them back,
  as `SemaphoreGuard` does.
* Latch: a thread inside a call makes its next step.
* Shared timed mutex: the same, and owners unlock. `NoStarvation` is stated under
  a further premise, in favour of the code: a thread that finds its gate open again
  and again goes through it.
* Shared lock: the same; a writer unlocks, and as long as shared ownerships exist
  one of them is given back some time. An object need not be the one to give back
  what it took, as it may be moved from.
* Cache: a thread inside a call, spinning or working, is scheduled. Nobody has to
  make a call.

## Findings

* **Late submit** (executor.h:107, `ExecutorLateSubmit`). `submit()` checks
  `shut` before it locks. If `shutdown()` intervenes and the workers have looked at
  the queue for the last time (line 287) but not removed themselves (line 305),
  the task is queued behind idle-looking workers and never runs. The destructor
  then waits for ever, as the queue is not empty. The same window exists without
  a shutdown when `core_pool_size` is 0: a worker whose wait timed out counts as
  idle (line 326) until it has removed itself, and a task submitted meanwhile
  waits for the next `submit()`.
* **Timed head** (semaphore.h:287, `SemaphoreTimedAhead`). A time-out at the head
  wakes nobody, so smaller requests behind it sleep beside available permits.
* **Starvation** (shared_mutex.h:39, `SharedMutexStarvation`). `SharedTimedMutex`
  is said to "not starve readers or writers" (line 13). `unlock()` opens the first gate and notifies
  after it has released `mtx`. A newcomer, also a `try_lock()`, that takes the lock
  in between closes the gate before the sleepers look; when it unlocks, the first
  thread can do the same. The sleeper wakes up each time and finds the gate closed
  each time. What the two gates do guarantee is `WriterAdmitted`: a writer past
  the first one is not overtaken any more.

Met while modelling, visible in the modules, without a run of their own:

* executor.h:180: the wait predicate of `await_termination_until()` is
  `is_terminated()`, which locks `main_lock` a second time; the pool stops
  (`AwaitUntilCheck`).
* semaphore.h:274: a woken thread that finds too few permits re-queues at the tail
  (`ResumeRequeue`), so with requests of different sizes the semaphore is not
  first come first served; `GrantedInOrder` is checked and proved for one size.
* semaphore.h:277: a request above `INT_MAX` is negative after the cast to `int`
  (`AsInt`). A woken thread's comparison with the permits then succeeds, and
  subtracting the request raises the permits (`ResumeGranted`), although "permits are
  enough" is what the comment on line 298 says of this point. A request that finds
  the queue empty passes the same way on line 266, and the loops of `SimpleSemaphore`
  have the same cast (lines 367, 391, 442). The runs make no such request.
* semaphore.h:430: `try_acquire_until(n)` of `SimpleSemaphore` takes one permit
  (`Asked`) and `unlock()` of an adapter gives back `n`; `SimpleSafety` calls it for
  one permit only.
* lru_cache.h:52: the comment on `get()` lists the calls that invalidate its
  pointer; `get_move()`, which also erases, is missing.
* shared_mutex.h:210: `unlock_shared()` of the reader-preferring mutex wakes
  readers stopped by the maximum only when the last reader leaves; they are served
  in the end (`ServedInTheEnd`), later than they could be.

## Proofs

Each theorem holds for every value of the constants allowed by the named
assumptions of its module: types, disjoint names, finiteness of the sets of worker
addresses and of `SharedLock` objects (`MutexAssumption`), at least as many tickets
as threads (`TicketAssumption`), a cache of at least one node (`CapacityAssumption`)
and `NoneAssumption`, that the null pointer is no key. Further premises of a single
theorem are part of its statement and named below.

**ThreadPoolExecutorProofs.** `TypeCorrect`, `WorkersAlwaysIndexed`, `CountExact`,
`WakeupSafe`, `DestructionSafe`. The core is `IndexInv`: `TypeOK`,
`WorkersIndexed` and the fact that a client about to insert has a task. It is
inductive because `RemoveSelf` on a vector whose indices are right moves exactly
the last worker and buries exactly the leaving one. `DtorInv` adds where the
client in the destructor can be, and that from its `reap` on no worker lives,
none is created and nobody submits; with it, `DestroyReap` leaves only free
addresses. `Counted` relates `active_count` to the set of busy workers; that the
difference on line 326 does not wrap then follows by cardinality, since the busy
ones are in the vector. `NoLostWakeup` is preserved by itself: each insertion
adds one ready worker or finds nobody asleep, and a worker falls asleep only when
the queue is empty.

`PoolAlwaysBounded` needs `PoolInv`. That `dead_workers` is within its reservation is
not inductive: nothing joins the dead until somebody finishes a task, so one has to
bound the workers that can still leave before that. A worker that is at work reaps
first, and of the others as many as there are tasks in the queue must fetch one; so
the unoccupied ones (asleep, ready, leaving or dead) are at most `MaxThreads` plus
the length of the queue, and a new worker keeps this because it comes with a new
task. `TaskAlwaysConserved` rests on `TaskInv`: a task whose future is pending is in
one of three places and nowhere else. `AwaitedAlwaysFinal` assumes `Orderly`: the
client that submits is the one that shuts down. Without it the property is false: a
task accepted before `shutdown()` can arrive after `await_termination()` has
returned. `FinalInv` then says that nobody is about to insert
once `shut` is set, and a terminated pool stays terminated.

**QueuedSemaphoreProofs.** `TypeCorrect`, `QueueCorrect`, `WokenIsHead`,
`NeverOverdrawn`, `Refinement`, `NobodyStranded`, `FirstComeFirstServed`,
`RecordAlwaysCovers`. Those about permits (`NeverOverdrawn`, `Refinement`,
`NobodyStranded`, `FirstComeFirstServed`) assume that every request fits an `int`
(`IntRequests`, or the range of the one size); without it they are false, as a
granted request beyond `IntMax` raises the permits. The others hold for every
`unsigned int`.
`QueueInv` says that the queue lists the blocked threads once each and that a
woken one is its head; the two need each other, because `Dequeue` removes
whatever is at the head. `Refinement` maps `permits` to itself and the permits of
each holder to `held`. `NobodyStranded` assumes requests of a single size: then
the minimum of the record is at most the head's request. `FirstComeFirstServed`
assumes besides that nobody calls `try_acquire()`: `FifoInv` says that a woken
head is covered by the permits, so it is never re-queued, and that the queue is
the history of arrivals. `RecordAlwaysCovers` counts the waiting threads of each
size; they are finitely many because each has a place of its own in the queue.

**LinkedSemaphoreProofs.** `LinkedIsQueued`, `ListAlwaysQueue`,
`NodesAlwaysAccounted`. The first is the refinement `ImplementsQueued`, with which all
theorems above hold of the list in memory. Since the pointers decide what happens, a
step of `LinkedSemaphore` is one of `QueuedSemaphore` only while the list stands for
the queue (`Reads`, `LinkedStep`), and the invariants of the queue are known only
while steps are those of `QueuedSemaphore`; `ListInvariant` is therefore one induction
for `TypeOK`, `QueueInv` and `ListInv` together. `Shape(l, q, c)` says that the nodes of list `l` are those of a doubly linked
queue `q` and of a cache `c` linked forwards, each node in one of them and once. It
is one formula because the parts need each other: `enqueue()` takes `prev` of a
cached node to be clear, and unlinking from the middle is right only if no pointer
of the cache leads into the queue. What `alloc_cache`, `enqueue`, `remove` and
`wake_head` make of a shape is a lemma about each (`AllocShape`, `EnqueueShape`,
`RemoveShape`, `WakeKeepsShape`), free of the state of the semaphore. `ListInv` says
that the list has the shape of `queue` and carries its flags; in the step of a woken
thread `WakeableIsHead` is what makes `dequeue()` remove its own node.

**SimpleSemaphoreProofs.** `TypeCorrect`, `WakeupSafe`, `Refinement`. The
last two assume that requests fit an `int` (taking a huge one raises `count` and
notifies nobody), the refinement besides that `try_acquire_until` is called for one
permit only;
`TakenExact` says that a holder took what it will release.

**LatchProofs.** `TypeCorrect`, `WakeupSafe`, `OneSignal`. `LatchInv` joins the
three with the fact that the counter only falls. A thread that committed itself to
sleeping has `mtx`, so the signalling thread cannot pass `Sync` before it sleeps.

**SharedTimedMutexProofs.** `TypeCorrect`, `StateAlwaysExact`, `Refinement`,
`WakeupSafe`. `MutexInv` joins `TypeOK`, `StateExact` and `WriterAlone` (a writing
thread has no readers beside it): the count of readers bounds `num_readers`, and
the exact count is what lets a writer that saw zero be alone. `GateInv` adds, for
the wake-ups, what the sleepers at each gate imply about the notifications still
to come.

**SharedLockProofs.** `OwnershipAlwaysExact`, `WriterAlwaysAlone`, `WakeupsNotLost`,
for any number of calls. `Inv` joins the first two with `FlagInv`, what the flag of
an object means while its call is not over: the constructor that locks sets `owns`
first, which is harmless because that call has no deadline and cannot return without
the lock. Moves and swaps leave the set of ownerships as large as it was; the lemmas
on `Owners` count it. Every step is then one of few kinds as seen by the mutex
(`MutexStep`), and exclusion and wake-ups are shown for the kinds. For the latter the
invariant speaks of the word `state`: nobody sleeps un-notified while it is zero
(`UnownedNotified`). What it is not zero for is a writer or an ownership that exists,
by the first two, and that is whom a sleeper can count on (`NoLostWakeup`); it does
not say that a sleeper is woken as soon as it could pass, which for a reader stopped
by the maximum is not so.

**LRUCacheProofs.** `AlwaysServedInOrder`, `ListAlwaysExact`, `CallsAlwaysLRU`.
`LineInv` says that the tickets held are consecutive from `active` on, modulo
`TicketRange`, in the order in which they were drawn. As threads stand in the line
once, it is no longer than there are tickets, so no two hold the same one and only
the head sees its number called. Exclusion follows, and lets the rest of the proof
look at one caller at a time. `CacheInv` says that the list is exact when nobody is
inside. Inside, the list is broken between two operations, and the invariant has to
say how: `Planned` gives, for each point of a call, what the list is now (`s`) and
what it will be at the end (`f`), and `AsPromised` that `f` is what `LRU` computes
from `before`. `Contents` follows the pointers to a `CHOOSE`n order; `ListUnique`
shows that they leave no choice, by the least position at which two orders differ.

### What is only model-checked

All liveness (`AcceptedTaskRuns`, `AwaitReturns`, `WaiterServed`, `OpenedReturns`,
`WriterAdmitted`, `ServedInTheEnd`, `CallReturns`): fairness and `ENABLED` are out of
the prover's reach. Every other property of the passing runs is a theorem. The three
properties that fail (`ExecutorLateSubmit`, `SemaphoreTimedAhead`,
`SharedMutexStarvation`) are liveness as well. Induction theorems of the library that
take a predicate as a parameter cannot be used with the installed provers; where an
induction is needed (`ListUnique`) it is done with a least counterexample, from the
well-foundedness of the natural numbers.

## Not modelled

The pthread wrappers forward each call to the pthread library and have no state
of their own. `PThreadLocalPtr` keeps one object per thread in the pthread
library's storage; its instances share nothing but the key, written once by the
constructor. `SpinLock` is one atomic flag: exclusion is what the flag guarantees,
and no order is promised.
`invoke`, `make_unique` and `RValueWrapper` are compile-time templates.
`ScopeGuard` is a sequential flag. A `QueuedSemaphore` constructed with a
negative number of permits is outside the runs and the theorems; on it the
unsigned comparison of semaphore.h:66 lets `try_acquire()` succeed. `count_down()` of the latch takes a signed number; the
models count down by natural ones, and a negative one, which would raise the counter
again, is left out. Not modelled inside the modelled classes: the
destructors of callables (they run with `main_lock` held, executor.h:297), the
overflow of `permits` after 2^31 releases, a failing allocation of wait nodes or
map nodes (`std::bad_alloc`), exceptions of a value's assignment, and the narrowing
of the cache's capacity to 32 bits (lru_cache.h:215).

## Plan

The safety properties of the runs are proved. What is left:

1. The reader-preferring mutex implements `RWLock`, as `SharedTimedMutex` does; the
   parties of `SharedLock` are its threads, with an owner for each ownership that
   was moved.
2. Calls of the cache as atomic steps of a least-recently-used cache taken at
   `unlock`, so that `CallsAreLRU` becomes a refinement.
