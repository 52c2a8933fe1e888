-------------------------- MODULE SharedTimedMutex --------------------------
(***************************************************************************)
(* conc11::SharedTimedMutex (src/concurrency/shared_mutex.h).              *)
(*                                                                         *)
(* A section under mtx is one step. Both unlock functions, and a writer    *)
(* that gives up, notify after they unlocked mtx: a step of its own. The   *)
(* word state is split into its two fields.                                *)
(***************************************************************************)
EXTENDS Integers, FiniteSets

CONSTANTS
  Threads,
  MaxReaders   \* NUM_READER_MASK

ASSUME ConstantsAssumption ==
  /\ IsFiniteSet(Threads)
  /\ MaxReaders \in Nat \ {0}

VARIABLES
  writer_entered,  \* state & WRITER_ENTERED_MASK
  num_readers,     \* state & NUM_READER_MASK
  pc,
  timed            \* whether the call of each thread has a deadline

vars == <<writer_entered, num_readers, pc, timed>>

\* "..._late": the deadline passed while the thread was asleep; it is about to
\* evaluate its wait predicate for the last time.
AtRgate  == {"rgate_writer", "rgate_reader"}              \* asleep
Notifies == {"notify_rgate_all", "notify_rgate_one", "notify_wgate"}
Entered  == {"wgate", "drain", "drain_late", "writing"}   \* passed rgate
PC == {"idle", "lock", "lock_late", "lock_shared", "lock_shared_late", "reading"}
        \cup AtRgate \cup Notifies \cup Entered

Init ==
  /\ writer_entered = FALSE
  /\ num_readers = 0
  /\ pc = [t \in Threads |-> "idle"]
  /\ timed = [t \in Threads |-> FALSE]

Goto(t, l) == pc' = [pc EXCEPT ![t] = l]

-----------------------------------------------------------------------------
(* lock(), try_lock(), try_lock_for() and try_lock_until().                *)

CallLock(t, deadline) ==
  /\ pc[t] = "idle"
  /\ Goto(t, "lock")
  /\ timed' = [timed EXCEPT ![t] = deadline]
  /\ UNCHANGED <<writer_entered, num_readers>>

\* The first gate is closed: wait, or give up when it is too late.
WriterBlocked(t) ==
  /\ pc[t] \in {"lock", "lock_late"} /\ writer_entered
  /\ Goto(t, IF pc[t] = "lock" THEN "rgate_writer" ELSE "idle")
  /\ UNCHANGED <<writer_entered, num_readers, timed>>

EnterBarging(t) ==   \* mutant: does not wait for the readers to leave
  /\ pc[t] \in {"lock", "lock_late"} /\ ~writer_entered
  /\ writer_entered' = TRUE
  /\ Goto(t, "writing")
  /\ UNCHANGED <<num_readers, timed>>

\* Through the first gate; at the second one without giving mtx up.
WriterEnter(t) ==
  /\ pc[t] \in {"lock", "lock_late"} /\ ~writer_entered
  /\ writer_entered' = TRUE
  /\ Goto(t, IF num_readers = 0 THEN "writing" ELSE "wgate")
  /\ UNCHANGED <<num_readers, timed>>

\* Woken at the second gate: go through, or wait again.
WriterDrain(t) ==
  /\ pc[t] = "drain" \/ (pc[t] = "drain_late" /\ num_readers = 0)
  /\ Goto(t, IF num_readers = 0 THEN "writing" ELSE "wgate")
  /\ UNCHANGED <<writer_entered, num_readers, timed>>

GiveUpEntered(t) ==   \* mutant: the high bit stays set
  /\ pc[t] = "drain_late" /\ num_readers # 0
  /\ Goto(t, "notify_rgate_all")
  /\ UNCHANGED <<writer_entered, num_readers, timed>>

GiveUpSilently(t) ==   \* mutant: the gate opens and nobody is told
  /\ pc[t] = "drain_late" /\ num_readers # 0
  /\ writer_entered' = FALSE
  /\ Goto(t, "idle")
  /\ UNCHANGED <<num_readers, timed>>

\* The writer's time is up and readers are left: open the first gate again.
WriterGiveUp(t) ==
  /\ pc[t] = "drain_late" /\ num_readers # 0
  /\ writer_entered' = FALSE
  /\ Goto(t, "notify_rgate_all")
  /\ UNCHANGED <<num_readers, timed>>

\* A try_lock() that fails, also because mtx is taken, changes nothing.
TryLock(t) ==
  /\ pc[t] = "idle" /\ ~writer_entered /\ num_readers = 0
  /\ writer_entered' = TRUE
  /\ Goto(t, "writing")
  /\ UNCHANGED <<num_readers, timed>>

Unlock(t) ==
  /\ pc[t] = "writing"
  /\ writer_entered' = FALSE
  /\ Goto(t, "notify_rgate_all")
  /\ UNCHANGED <<num_readers, timed>>

-----------------------------------------------------------------------------
(* The same for shared ownership.                                          *)

ReadersFull == num_readers = MaxReaders

CallLockShared(t, deadline) ==
  /\ pc[t] = "idle"
  /\ Goto(t, "lock_shared")
  /\ timed' = [timed EXCEPT ![t] = deadline]
  /\ UNCHANGED <<writer_entered, num_readers>>

ReaderBlocked(t) ==
  /\ pc[t] \in {"lock_shared", "lock_shared_late"}
  /\ writer_entered \/ ReadersFull
  /\ Goto(t, IF pc[t] = "lock_shared" THEN "rgate_reader" ELSE "idle")
  /\ UNCHANGED <<writer_entered, num_readers, timed>>

EnterPastWriter(t) ==   \* mutant: only an active writer stops readers
  /\ pc[t] \in {"lock_shared", "lock_shared_late"}
  /\ ~ReadersFull /\ \A u \in Threads : pc[u] # "writing"
  /\ num_readers' = num_readers + 1
  /\ Goto(t, "reading")
  /\ UNCHANGED <<writer_entered, timed>>

ReaderEnter(t) ==
  /\ pc[t] \in {"lock_shared", "lock_shared_late"}
  /\ ~writer_entered /\ ~ReadersFull
  /\ num_readers' = num_readers + 1
  /\ Goto(t, "reading")
  /\ UNCHANGED <<writer_entered, timed>>

TryLockShared(t) ==
  /\ pc[t] = "idle" /\ ~writer_entered /\ ~ReadersFull
  /\ num_readers' = num_readers + 1
  /\ Goto(t, "reading")
  /\ UNCHANGED <<writer_entered, timed>>

UnlockShared(t) ==
  /\ pc[t] = "reading"
  /\ num_readers' = num_readers - 1
  /\ Goto(t, IF writer_entered /\ num_readers' = 0 THEN "notify_wgate"
             ELSE IF num_readers' = MaxReaders - 1 THEN "notify_rgate_one" ELSE "idle")
  /\ UNCHANGED <<writer_entered, timed>>

-----------------------------------------------------------------------------
(* The condition variables.                                                *)

\* Where a thread asleep at l goes when it wakes up.
Awake(l) ==
  CASE l = "rgate_writer" -> "lock"
    [] l = "rgate_reader" -> "lock_shared"
    [] l = "wgate"        -> "drain"
    [] OTHER              -> l

NotifyRgateAll(t) ==
  /\ pc[t] = "notify_rgate_all"
  /\ pc' = [u \in Threads |-> IF u = t THEN "idle"
                              ELSE IF pc[u] \in AtRgate THEN Awake(pc[u]) ELSE pc[u]]
  /\ UNCHANGED <<writer_entered, num_readers, timed>>

\* notify_one() on the condition variable whose sleepers are at gate.
NotifyOne(t, gate) ==
  LET asleep == {u \in Threads : pc[u] \in gate} IN
  /\ \/ asleep = {} /\ Goto(t, "idle")
     \/ \E u \in asleep : pc' = [pc EXCEPT ![t] = "idle", ![u] = Awake(pc[u])]
  /\ UNCHANGED <<writer_entered, num_readers, timed>>

NotifyRgateOne(t) == pc[t] = "notify_rgate_one" /\ NotifyOne(t, AtRgate)

NotifyWgate(t) == pc[t] = "notify_wgate" /\ NotifyOne(t, {"wgate"})

Spurious(t) ==
  /\ pc[t] \in AtRgate \cup {"wgate"}
  /\ Goto(t, Awake(pc[t]))
  /\ UNCHANGED <<writer_entered, num_readers, timed>>

Timeout(t) ==
  /\ pc[t] \in AtRgate \cup {"wgate"} /\ timed[t]
  /\ Goto(t, CASE pc[t] = "rgate_writer" -> "lock_late"
               [] pc[t] = "rgate_reader" -> "lock_shared_late"
               [] OTHER                  -> "drain_late")
  /\ UNCHANGED <<writer_entered, num_readers, timed>>

-----------------------------------------------------------------------------
(* Specification.                                                          *)

Call(t) ==
  \/ \E d \in BOOLEAN : CallLock(t, d) \/ CallLockShared(t, d)
  \/ TryLock(t) \/ TryLockShared(t)

\* What a thread inside a call does next.
Step(t) ==
  \/ WriterBlocked(t) \/ WriterEnter(t) \/ WriterDrain(t) \/ WriterGiveUp(t)
  \/ ReaderBlocked(t) \/ ReaderEnter(t)
  \/ NotifyRgateAll(t) \/ NotifyRgateOne(t) \/ NotifyWgate(t)

Next ==
  \E t \in Threads :
    \/ Call(t) \/ Step(t) \/ Unlock(t) \/ UnlockShared(t)
    \/ Spurious(t) \/ Timeout(t)

Spec == Init /\ [][Next]_vars

\* A thread inside a call is scheduled and mtx does not starve it, and owners
\* give the lock back. No thread has to call anything.
FairSpec ==
  /\ Spec
  /\ \A t \in Threads : WF_vars(Step(t)) /\ WF_vars(Unlock(t) \/ UnlockShared(t))

-----------------------------------------------------------------------------
(* Properties.                                                             *)

\* The types of the variables.
TypeOK ==
  /\ writer_entered \in BOOLEAN
  /\ num_readers \in 0..MaxReaders
  /\ pc \in [Threads -> PC]
  /\ timed \in [Threads -> BOOLEAN]

Writing == {t \in Threads : pc[t] = "writing"}
Reading == {t \in Threads : pc[t] = "reading"}

\* The word state is exact, through time-outs too: the high bit is set if and only
\* if one writer, and only one, is past the first gate ("Only the one writer
\* passed rgate waits at this gate"), and the low bits count the readers.
StateExact ==
  /\ writer_entered <=> \E t \in Threads : pc[t] \in Entered
  /\ \A t, u \in Threads : pc[t] \in Entered /\ pc[u] \in Entered => t = u
  /\ num_readers = Cardinality(Reading)

\* The two gates implement the reader-writer lock: a writer is alone.
Abstract == INSTANCE RWLock WITH writing <- Writing, reading <- Reading
ImplementsRWLock == Abstract!Spec

\* No wake-up is lost although notifications come after the unlock: whoever
\* sleeps at a gate that is open has a notification still ahead. (At the reader
\* limit this holds for one waiting thread only; see the README on the bounds.)
NoLostWakeup ==
  /\ ~writer_entered /\ ~ReadersFull /\ (\E t \in Threads : pc[t] \in AtRgate) =>
       \E u \in Threads : pc[u] \in {"notify_rgate_all", "notify_rgate_one"}
  /\ num_readers = 0 /\ (\E t \in Threads : pc[t] = "wgate") =>
       \E u \in Threads : pc[u] = "notify_wgate"

\* "waits at this gate for all remaining readers to leave": no stream of readers
\* keeps a writer that passed the first gate from the lock.
WriterAdmitted ==
  \A t \in Threads : pc[t] \in Entered ~> pc[t] \in {"writing", "idle"}

\* "does not starve readers or writers": whoever waits at the first gate gets the
\* lock or gives up, however many others come and go. The premise rules out that
\* the thread just loses the race for mtx again and again: who finds its gate open
\* infinitely often goes through it. The code does not have this property; see the
\* README on the run SharedMutexStarvation.
NoStarvation ==
  (\A t \in Threads : SF_vars(WriterEnter(t) \/ ReaderEnter(t))) =>
    \A t \in Threads : pc[t] \in AtRgate ~> pc[t] \in {"writing", "reading", "idle"}

=============================================================================
