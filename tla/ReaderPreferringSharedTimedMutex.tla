----------------- MODULE ReaderPreferringSharedTimedMutex -------------------
(***************************************************************************)
(* conc11::ReaderPreferringSharedTimedMutex (shared_mutex.h).              *)
(*                                                                         *)
(* The mutex as the parties that call it see it; module SharedLock says    *)
(* who calls what. A section under mtx is one step, and the notification   *)
(* after it another one. A call waits for what CanPass says, so the steps  *)
(* of lock(), lock_shared() and their timed forms differ only in what they *)
(* do to state, which is split into its two fields.                        *)
(***************************************************************************)
EXTENDS Integers, FiniteSets

CONSTANTS
  Writers,     \* parties that lock exclusively
  Locks,       \* parties that lock shared
  MaxReaders   \* NUM_READER_MASK

Parties == Writers \cup Locks

ASSUME MutexAssumption ==
  /\ IsFiniteSet(Locks) /\ Writers \cap Locks = {}
  /\ MaxReaders \in Nat \ {0}

VARIABLES
  writer_active,  \* state & WRITER_ACTIVE_MASK
  num_readers,    \* state & NUM_READER_MASK
  pc,             \* "call": about to look at state; "late": for the last time
  timed           \* whether the call each party is in has a deadline

mutexVars == <<writer_active, num_readers, pc, timed>>

MutexInit ==
  /\ writer_active = FALSE /\ num_readers = 0
  /\ pc = [p \in Parties |-> "idle"]
  /\ timed = [p \in Parties |-> FALSE]

Goto(p, l) == pc' = [pc EXCEPT ![p] = l]

Unowned == ~writer_active /\ num_readers = 0

PassWithoutReaders(p) ==   \* mutant: a writer looks at the readers only
  IF p \in Writers THEN num_readers = 0 ELSE ~writer_active /\ num_readers # MaxReaders

CanPass(p) ==
  IF p \in Writers THEN Unowned ELSE ~writer_active /\ num_readers # MaxReaders

\* What a call does to state when it gets through.
Acquire(p) ==
  /\ writer_active' = (p \in Writers)
  /\ num_readers' = IF p \in Writers THEN 0 ELSE num_readers + 1
  /\ Goto(p, IF p \in Writers THEN "writing" ELSE "idle")
  /\ timed' = [timed EXCEPT ![p] = FALSE]

Call(p, deadline) ==
  /\ pc[p] = "idle"
  /\ Goto(p, "call")
  /\ timed' = [timed EXCEPT ![p] = deadline]
  /\ UNCHANGED <<writer_active, num_readers>>

Pass(p) == pc[p] \in {"call", "late"} /\ CanPass(p) /\ Acquire(p)

Blocked(p) ==
  /\ pc[p] \in {"call", "late"} /\ ~CanPass(p)
  /\ IF pc[p] = "call" THEN Goto(p, "asleep") /\ UNCHANGED timed
     ELSE Goto(p, "idle") /\ timed' = [timed EXCEPT ![p] = FALSE]
  /\ UNCHANGED <<writer_active, num_readers>>

\* try_lock() and try_lock_shared(); a failing one, also because mtx is taken,
\* changes nothing.
TryPass(p) == pc[p] = "idle" /\ CanPass(p) /\ Acquire(p)

\* unlock()
Unlock(p) ==
  /\ pc[p] = "writing"
  /\ writer_active' = FALSE /\ num_readers' = 0
  /\ Goto(p, "notify")
  /\ UNCHANGED timed

UnlockQuietly(p) ==   \* mutant: the last reader tells nobody
  /\ num_readers' = num_readers - 1
  /\ Goto(p, "idle")
  /\ UNCHANGED <<writer_active, timed>>

UnlockShared(p) ==
  /\ num_readers' = num_readers - 1
  /\ Goto(p, IF ~writer_active /\ num_readers' = 0 THEN "notify" ELSE "idle")
  /\ UNCHANGED <<writer_active, timed>>

\* cv.notify_all()
Notify(p) ==
  /\ pc[p] = "notify"
  /\ pc' = [q \in Parties |-> IF q = p THEN "idle"
                              ELSE IF pc[q] = "asleep" THEN "call" ELSE pc[q]]
  /\ UNCHANGED <<writer_active, num_readers, timed>>

\* A spurious wake-up, or a deadline that passes.
Awake(p) ==
  /\ pc[p] = "asleep"
  /\ Goto(p, "call") \/ (timed[p] /\ Goto(p, "late"))
  /\ UNCHANGED <<writer_active, num_readers, timed>>

=============================================================================
