----------------------------- MODULE SharedLock -----------------------------
(***************************************************************************)
(* conc11::SharedLock (shared_mutex.h) on a                                *)
(* ReaderPreferringSharedTimedMutex, next to threads that lock the mutex   *)
(* exclusively.                                                            *)
(*                                                                         *)
(* A member of Locks is a SharedLock object, or the memory for one. Each   *)
(* is used by one thread at a time, which runs the calls the object makes. *)
(* As the class does not check it, its users see to it that only a lock    *)
(* that has a mutex and does not own it is locked, and only one that owns  *)
(* it unlocked.                                                            *)
(***************************************************************************)
EXTENDS ReaderPreferringSharedTimedMutex

CONSTANT CallBound   \* bound: how many calls lock the mutex

ASSUME CallAssumption == CallBound \in Nat

VARIABLES
  mtx,    \* "mutex", "null", or "none" where there is no object
  owns,
  calls   \* locking calls made so far

vars == <<mutexVars, mtx, owns, calls>>

Init ==
  /\ MutexInit
  /\ mtx = [o \in Locks |-> "none"]
  /\ owns = [o \in Locks |-> FALSE]
  /\ calls = 0

\* An object, or its memory, that no call is in.
Usable(o) == pc[o] = "idle" /\ mtx[o] # "none"
Unused(o) == pc[o] = "idle" /\ mtx[o] = "none"

\* One more call that locks.
Counted == calls < CallBound /\ calls' = calls + 1

-----------------------------------------------------------------------------
(* Constructors.                                                           *)

\* SharedLock(), and with defer_lock or a try_to_lock that fails.
Construct(o) ==
  /\ Unused(o)
  /\ \E m \in {"null", "mutex"} : mtx' = [mtx EXCEPT ![o] = m]
  /\ UNCHANGED <<mutexVars, owns, calls>>

\* SharedLock(mutex) sets owns before it has the lock; the timed ones after.
ConstructLocking(o) ==
  /\ Unused(o)
  /\ mtx' = [mtx EXCEPT ![o] = "mutex"]
  /\ \E d \in BOOLEAN : Call(o, d) /\ owns' = [owns EXCEPT ![o] = ~d]
  /\ Counted

\* With adopt_lock, for the ownership that rhs released.
ConstructAdopting(o, rhs) ==
  /\ Unused(o) /\ pc[rhs] = "released"
  /\ mtx' = [mtx EXCEPT ![o] = "mutex"]
  /\ owns' = [owns EXCEPT ![o] = TRUE]
  /\ Goto(rhs, "idle")
  /\ UNCHANGED <<writer_active, num_readers, timed, calls>>

MoveConstruct(o, rhs) ==
  /\ Unused(o) /\ Usable(rhs)
  /\ mtx' = [mtx EXCEPT ![o] = mtx[rhs], ![rhs] = "null"]
  /\ owns' = [owns EXCEPT ![o] = owns[rhs], ![rhs] = FALSE]
  /\ UNCHANGED <<mutexVars, calls>>

-----------------------------------------------------------------------------
(* Locking and unlocking.                                                  *)

LockOrTimed(o) ==
  /\ Usable(o) /\ mtx[o] = "mutex" /\ ~owns[o]
  /\ \E d \in BOOLEAN : Call(o, d)
  /\ Counted
  /\ UNCHANGED <<mtx, owns>>

\* The blocking call returns, with the lock or after the deadline.
LockReturns(o) ==
  /\ \/ Pass(o) /\ owns' = [owns EXCEPT ![o] = TRUE]
     \/ Blocked(o) /\ UNCHANGED owns
  /\ UNCHANGED <<mtx, calls>>

\* try_lock() that succeeds, also of the constructor with try_to_lock
TryLock(o) ==
  /\ Unused(o) \/ (Usable(o) /\ mtx[o] = "mutex" /\ ~owns[o])
  /\ TryPass(o) /\ Counted
  /\ mtx' = [mtx EXCEPT ![o] = "mutex"]
  /\ owns' = [owns EXCEPT ![o] = TRUE]

UnlockOwned(o) ==
  /\ Usable(o) /\ owns[o]
  /\ UnlockShared(o)
  /\ owns' = [owns EXCEPT ![o] = FALSE]
  /\ UNCHANGED <<mtx, calls>>

-----------------------------------------------------------------------------
(* Destruction, and moving ownership around.                               *)

\* unlock_shared() if the ownership flag says so
UnlockIf(o, owned) == IF owned THEN UnlockShared(o) ELSE UNCHANGED mutexVars

Destroy(o) ==
  /\ Usable(o)
  /\ UnlockIf(o, owns[o])
  /\ mtx' = [mtx EXCEPT ![o] = "none"]
  /\ owns' = [owns EXCEPT ![o] = FALSE]
  /\ UNCHANGED calls

AssignForgetting(o, rhs) ==   \* mutant: what o owned is not unlocked
  /\ Usable(o) /\ Usable(rhs)
  /\ mtx' = [mtx EXCEPT ![rhs] = "null", ![o] = mtx[rhs]]
  /\ owns' = [owns EXCEPT ![rhs] = FALSE, ![o] = owns[rhs]]
  /\ UNCHANGED <<mutexVars, calls>>

\* operator=(SharedLock&&): a temporary takes over from rhs and changes places with
\* o; its destructor unlocks what o owned. Assigning a lock to itself is harmless.
MoveAssign(o, rhs) ==
  /\ Usable(o) /\ Usable(rhs)
  /\ mtx' = [mtx EXCEPT ![rhs] = "null", ![o] = mtx[rhs]]
  /\ owns' = [owns EXCEPT ![rhs] = FALSE, ![o] = owns[rhs]]
  /\ UnlockIf(o, owns[o] /\ o # rhs)
  /\ UNCHANGED calls

Swap(o, rhs) ==
  /\ Usable(o) /\ Usable(rhs)
  /\ mtx' = [mtx EXCEPT ![o] = mtx[rhs], ![rhs] = mtx[o]]
  /\ owns' = [owns EXCEPT ![o] = owns[rhs], ![rhs] = owns[o]]
  /\ UNCHANGED <<mutexVars, calls>>

\* release(): the ownership, if any, is now the caller's to adopt or unlock.
Release(o) ==
  /\ Usable(o)
  /\ Goto(o, IF owns[o] THEN "released" ELSE "idle")
  /\ mtx' = [mtx EXCEPT ![o] = "null"]
  /\ owns' = [owns EXCEPT ![o] = FALSE]
  /\ UNCHANGED <<writer_active, num_readers, timed, calls>>

\* The caller of release() unlocks the mutex itself.
UnlockReleased(o) ==
  /\ pc[o] = "released"
  /\ UnlockShared(o)
  /\ UNCHANGED <<mtx, owns, calls>>

-----------------------------------------------------------------------------
(* Specification.                                                          *)

WriterStep(w) ==
  /\ Pass(w) \/ Blocked(w) \/ Unlock(w)
  /\ UNCHANGED <<mtx, owns, calls>>

WriterCall(w) ==
  /\ TryPass(w) \/ \E d \in BOOLEAN : Call(w, d)
  /\ Counted
  /\ UNCHANGED <<mtx, owns>>

Wakeup(p) == Notify(p) /\ UNCHANGED <<mtx, owns, calls>>

\* A shared ownership is given back.
GiveBack(o) == UnlockOwned(o) \/ (owns[o] /\ Destroy(o)) \/ UnlockReleased(o)

Next ==
  \/ \E w \in Writers : WriterCall(w) \/ WriterStep(w)
  \/ \E o \in Locks :
       \/ Construct(o) \/ ConstructLocking(o)
       \/ LockOrTimed(o) \/ LockReturns(o) \/ TryLock(o) \/ UnlockOwned(o)
       \/ Destroy(o) \/ Release(o) \/ UnlockReleased(o)
       \/ \E rhs \in Locks :
            \/ ConstructAdopting(o, rhs) \/ MoveConstruct(o, rhs)
            \/ MoveAssign(o, rhs) \/ Swap(o, rhs)
  \/ \E p \in Parties :
       Wakeup(p) \/ (Awake(p) /\ UNCHANGED <<mtx, owns, calls>>)

Spec == Init /\ [][Next]_vars

\* A call in progress makes its next step, writers unlock, and as long as there are
\* shared ownerships one of them is given back some time.
FairSpec ==
  /\ Spec
  /\ \A w \in Writers : WF_vars(WriterStep(w))
  /\ \A o \in Locks : WF_vars(LockReturns(o))
  /\ \A p \in Parties : WF_vars(Wakeup(p))
  /\ WF_vars(\E o \in Locks : GiveBack(o))

-----------------------------------------------------------------------------
(* Properties.                                                             *)

\* Who has a shared ownership: objects whose flag says so (a constructor sets it
\* before it has the lock), and whoever called release().
Owning == {o \in Locks : owns[o] /\ pc[o] \in {"idle", "notify"}}
Released == {o \in Locks : pc[o] = "released"}

\* The mutex counts exactly the ownerships that somebody will give back, wherever
\* constructors, moves, assignments, swaps, releases and failed or timed-out tries
\* have left them.
OwnershipExact ==
  /\ num_readers = Cardinality(Owning \cup Released)
  /\ \A o \in Owning : mtx[o] = "mutex"

\* A writer with the lock is alone; only such a writer has the high bit set.
WriterAlone ==
  /\ writer_active <=> \E w \in Writers : pc[w] = "writing"
  /\ \A v, w \in Writers : pc[v] = "writing" /\ pc[w] = "writing" => v = w
  /\ writer_active => num_readers = 0

\* Nobody sleeps without somebody to wake it: a notification is on its way (it is
\* sent after mtx was unlocked), or a writer has the lock, whose unlock() will notify,
\* or there are shared ownerships, the last of which will. A place that becomes free
\* among MaxReaders is not announced (unlock_shared() notifies at state == 0 only), so
\* a reader stopped by the maximum counts on the last owner, like a writer.
NoLostWakeup ==
  (\E p \in Parties : pc[p] = "asleep") =>
    \/ \E p \in Parties : pc[p] = "notify"
    \/ \E w \in Writers : pc[w] = "writing"
    \/ Owning \cup Released # {}

\* "may starves writers", but only as long as there are new calls: when these come to
\* an end, everybody who waits is served, also the readers stopped by the maximum
\* number of readers, whom unlock_shared() does not wake before the last one leaves.
ServedInTheEnd == \A p \in Parties : pc[p] = "asleep" ~> pc[p] \in {"idle", "writing"}

=============================================================================
