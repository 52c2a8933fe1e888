-------------------------- MODULE SharedLockProofs --------------------------
(***************************************************************************)
(* Proofs about SharedLock objects on a ReaderPreferringSharedTimedMutex,  *)
(* for any numbers of writers, objects and readers and of calls.           *)
(***************************************************************************)
EXTENDS SharedLock, FiniteSetTheorems, TLAPS

CallPC == {"call", "late", "asleep"}
AllPC == CallPC \cup {"idle", "notify", "writing", "released"}

Typing ==
  /\ writer_active \in BOOLEAN /\ num_readers \in Nat
  /\ pc \in [Parties -> AllPC]
  /\ timed \in [Parties -> BOOLEAN]
  /\ mtx \in [Locks -> {"mutex", "null", "none"}]
  /\ owns \in [Locks -> BOOLEAN]

(***************************************************************************)
(* What the flag of an object says besides OwnershipExact: it needs a      *)
(* mutex, and while it is set ahead of its call (by the constructor that   *)
(* locks) that call has no deadline, so it cannot return without the lock. *)
(***************************************************************************)
FlagInv ==
  /\ \A o \in Locks : owns[o] \/ pc[o] \in CallPC => mtx[o] = "mutex"
  /\ \A o \in Locks : owns[o] /\ pc[o] \in CallPC => ~timed[o] /\ pc[o] # "late"
  /\ \A o \in Locks : pc[o] = "released" => ~owns[o]
  /\ \A o \in Locks : pc[o] # "writing"
  /\ \A w \in Writers : pc[w] # "released"

Owners == Owning \cup Released

\* What NoLostWakeup comes to in terms of state, the word the mutex decides by.
UnownedNotified ==
  Unowned /\ (\E p \in Parties : pc[p] = "asleep") => \E p \in Parties : pc[p] = "notify"

Inv == Typing /\ FlagInv /\ OwnershipExact /\ WriterAlone

-----------------------------------------------------------------------------
(* Counting owners.                                                        *)

LEMMA OwnersFinite ==
  /\ IsFiniteSet(Owners) /\ Cardinality(Owners) \in Nat
  /\ Owners \subseteq Locks
<1>1. Owners \subseteq Locks
  BY DEF Owners, Owning, Released
<1> QED
  BY <1>1, MutexAssumption, FS_Subset, FS_CardinalityType DEF MutexAssumption

LEMMA OwnersAdd ==
  ASSUME NEW o \in Locks, o \notin Owners, Owners' = Owners \cup {o}
  PROVE  Cardinality(Owners') = Cardinality(Owners) + 1
  BY OwnersFinite, FS_AddElement

LEMMA OwnersRemove ==
  ASSUME NEW o \in Owners, Owners' = Owners \ {o}
  PROVE  /\ Cardinality(Owners') = Cardinality(Owners) - 1
         /\ Cardinality(Owners) > 0
<1>1. Cardinality(Owners') = Cardinality(Owners) - 1
  BY OwnersFinite, FS_RemoveElement
<1>2. Cardinality(Owners') \in Nat
  BY OwnersFinite, FS_RemoveElement, FS_CardinalityType
<1> QED
  BY <1>1, <1>2, OwnersFinite

\* An ownership that moves from one object to another is still counted once.
LEMMA OwnersMove ==
  ASSUME NEW o \in Locks, NEW rhs \in Owners, o \notin Owners,
         Owners' = (Owners \ {rhs}) \cup {o}
  PROVE  Cardinality(Owners') = Cardinality(Owners)
<1>1. /\ IsFiniteSet(Owners \ {rhs})
      /\ Cardinality(Owners \ {rhs}) = Cardinality(Owners) - 1
  BY OwnersFinite, FS_RemoveElement
<1>2. Cardinality(Owners') = Cardinality(Owners \ {rhs}) + 1
  BY <1>1, FS_AddElement
<1> QED
  BY <1>1, <1>2, OwnersFinite

LEMMA OwnersAre ==
  \A o \in Locks :
    o \in Owners <=> (owns[o] /\ pc[o] \in {"idle", "notify"}) \/ pc[o] = "released"
  BY DEF Owners, Owning, Released

LEMMA OwnersAreNext ==
  \A o \in Locks :
    o \in Owners' <=> (owns'[o] /\ pc'[o] \in {"idle", "notify"}) \/ pc'[o] = "released"
  BY DEF Owners, Owning, Released

LEMMA OwnersSubset == Owners \subseteq Locks /\ Owners' \subseteq Locks
  BY DEF Owners, Owning, Released

\* OwnershipExact in these terms.
LEMMA ExactAlt == OwnershipExact <=> /\ num_readers = Cardinality(Owners)
                                     /\ \A o \in Owning : mtx[o] = "mutex"
  BY DEF OwnershipExact, Owners

LEMMA ExactNext ==
  ASSUME num_readers' = Cardinality(Owners'),
         \A o \in Locks : owns'[o] => mtx'[o] = "mutex"
  PROVE  OwnershipExact'
  BY DEF OwnershipExact, Owners, Owning

-----------------------------------------------------------------------------
(* What any step does to the mutex.                                        *)

\* A party gives its shared ownership back.
GivesBack(o) == o \in Owners /\ pc[o] \in {"idle", "released"} /\ UnlockShared(o)

\* Ownership is taken out of an object, or put into one.
HandsOver(o) ==
  /\ \/ pc[o] = "idle" /\ Goto(o, "released")
     \/ pc[o] = "released" /\ Goto(o, "idle")
  /\ UNCHANGED <<writer_active, num_readers, timed>>

MutexStep ==
  \/ \E p \in Parties :
       \/ \E d \in BOOLEAN : Call(p, d)
       \/ Pass(p) \/ Blocked(p) \/ TryPass(p) \/ Notify(p) \/ Awake(p)
  \/ \E w \in Writers : Unlock(w)
  \/ \E o \in Locks : GivesBack(o) \/ HandsOver(o)
  \/ UNCHANGED mutexVars

LEMMA PartiesAre == Locks \subseteq Parties /\ Writers \subseteq Parties
  BY DEF Parties

LEMMA EveryMutexStep == Typing /\ [Next]_vars => MutexStep
<1> SUFFICES ASSUME Typing, [Next]_vars PROVE MutexStep
  OBVIOUS
<1>0. \A p \in Parties : pc[p] = "idle" => pc = [pc EXCEPT ![p] = "idle"]
  BY DEF Typing
<1>1. CASE UNCHANGED vars
  BY <1>1 DEF vars, MutexStep
<1>2. ASSUME NEW w \in Writers, WriterCall(w) \/ WriterStep(w) PROVE MutexStep
  BY <1>2, PartiesAre DEF WriterCall, WriterStep, MutexStep
<1>3. ASSUME NEW o \in Locks,
             \/ Construct(o) \/ ConstructLocking(o) \/ LockOrTimed(o) \/ LockReturns(o)
             \/ TryLock(o)
      PROVE  MutexStep
  BY <1>3, PartiesAre
     DEF Construct, ConstructLocking, LockOrTimed, LockReturns, TryLock, MutexStep
<1>4. ASSUME NEW o \in Locks, UnlockOwned(o) \/ Destroy(o) \/ UnlockReleased(o)
      PROVE  MutexStep
  BY <1>4, OwnersAre DEF UnlockOwned, Destroy, UnlockReleased, UnlockIf, Usable, MutexStep,
     GivesBack
<1>5. ASSUME NEW o \in Locks, Release(o) PROVE MutexStep
  <2>1. UNCHANGED mutexVars \/ HandsOver(o)
    BY <1>0, <1>5, PartiesAre DEF Release, Usable, HandsOver, Goto, mutexVars
  <2> QED
    BY <2>1 DEF MutexStep
<1>6. ASSUME NEW o \in Locks, NEW rhs \in Locks,
             \/ ConstructAdopting(o, rhs) \/ MoveConstruct(o, rhs) \/ Swap(o, rhs)
             \/ MoveAssign(o, rhs)
      PROVE  MutexStep
  BY <1>6, OwnersAre DEF ConstructAdopting, MoveConstruct, Swap, MoveAssign, UnlockIf, Usable,
     MutexStep, GivesBack, HandsOver
<1>7. ASSUME NEW p \in Parties, Wakeup(p) \/ Awake(p) PROVE MutexStep
  BY <1>7 DEF Wakeup, MutexStep
<1> QED
  BY <1>1, <1>2, <1>3, <1>4, <1>5, <1>6, <1>7 DEF Next

-----------------------------------------------------------------------------
(* The writer.                                                             *)

LEMMA WriterAloneStep ==
  ASSUME Typing, FlagInv, OwnershipExact, WriterAlone, MutexStep
  PROVE  WriterAlone'
<1> USE PartiesAre
<1>d. \A w \in Writers : w \notin Locks
  BY MutexAssumption DEF MutexAssumption
<1>t. pc \in [Parties -> AllPC] /\ num_readers \in Nat
  BY DEF Typing
\* Steps after which nobody else writes and state has not changed.
<1>k. ASSUME UNCHANGED <<writer_active, num_readers>>,
             \A w \in Writers : pc'[w] = "writing" <=> pc[w] = "writing"
      PROVE  WriterAlone'
  BY <1>k DEF WriterAlone
<1>1. ASSUME NEW p \in Parties, (\E d \in BOOLEAN : Call(p, d)) \/ Blocked(p) \/ Awake(p)
      PROVE  WriterAlone'
  <2>1. /\ UNCHANGED <<writer_active, num_readers>>
        /\ \E q \in {"call", "asleep", "idle", "late"} : pc' = [pc EXCEPT ![p] = q]
        /\ pc[p] # "writing"
    BY <1>1 DEF Call, Blocked, Awake, Goto
  <2> QED
    BY <1>k, <1>t, <2>1
<1>2. ASSUME NEW p \in Parties, Notify(p) PROVE WriterAlone'
  BY <1>k, <1>t, <1>2 DEF Notify
<1>3. ASSUME NEW p \in Parties, pc[p] # "writing", CanPass(p), Acquire(p) PROVE WriterAlone'
  <2>1. CASE p \in Writers
    <3>1. /\ writer_active' /\ num_readers' = 0 /\ pc' = [pc EXCEPT ![p] = "writing"]
          /\ ~writer_active
      BY <1>3, <2>1 DEF Acquire, CanPass, Unowned, Goto
    <3>2. \A w \in Writers : pc[w] # "writing"
      BY <3>1 DEF WriterAlone
    <3>3. \A w \in Writers : pc'[w] = "writing" <=> w = p
      BY <1>t, <3>1, <3>2
    <3> QED
      BY <2>1, <3>1, <3>3 DEF WriterAlone
  <2>2. CASE p \notin Writers
    <3>1. /\ ~writer_active' /\ ~writer_active /\ pc' = [pc EXCEPT ![p] = "idle"]
      BY <1>3, <2>2 DEF Acquire, CanPass, Goto
    <3>2. \A w \in Writers : pc'[w] = pc[w]
      BY <1>t, <2>2, <3>1
    <3> QED
      BY <3>1, <3>2 DEF WriterAlone
  <2> QED
    BY <2>1, <2>2
<1>4. ASSUME NEW w \in Writers, Unlock(w) PROVE WriterAlone'
  <2>1. /\ ~writer_active' /\ pc' = [pc EXCEPT ![w] = "notify"] /\ pc[w] = "writing"
    BY <1>4 DEF Unlock, Goto
  <2>2. \A v \in Writers : pc'[v] # "writing"
    BY <1>t, <2>1 DEF WriterAlone
  <2> QED
    BY <2>1, <2>2 DEF WriterAlone
<1>5. ASSUME NEW o \in Locks, GivesBack(o) PROVE WriterAlone'
  <2>1. num_readers > 0
    BY <1>5, ExactAlt, OwnersFinite, FS_EmptySet DEF GivesBack
  <2>2. ~writer_active /\ writer_active' = writer_active
    BY <1>5, <2>1, <1>t DEF WriterAlone, GivesBack, UnlockShared
  <2>3. \A w \in Writers : pc'[w] = pc[w]
    BY <1>5, <1>d, <1>t DEF GivesBack, UnlockShared, Goto
  <2> QED
    BY <2>2, <2>3 DEF WriterAlone
<1>6. ASSUME NEW o \in Locks, HandsOver(o) PROVE WriterAlone'
  BY <1>6, <1>d, <1>k, <1>t DEF HandsOver, Goto
<1>7. CASE UNCHANGED mutexVars
  BY <1>7, <1>k DEF mutexVars
<1> QED
  BY <1>1, <1>2, <1>3, <1>4, <1>5, <1>6, <1>7 DEF MutexStep, Pass, TryPass

-----------------------------------------------------------------------------
(* Types.                                                                  *)

LEMMA InitInv == Init => Inv /\ UnownedNotified
<1> SUFFICES ASSUME Init PROVE Inv /\ UnownedNotified
  OBVIOUS
<1> USE PartiesAre DEF Init, MutexInit
<1>1. Typing /\ FlagInv
  BY DEF Typing, FlagInv, AllPC, CallPC
<1>2. Owners = {} /\ Owning = {}
  BY DEF Owners, Owning, Released
<1>3. OwnershipExact
  BY <1>2, ExactAlt, FS_EmptySet
<1>4. WriterAlone /\ UnownedNotified
  BY DEF WriterAlone, UnownedNotified
<1> QED
  BY <1>1, <1>3, <1>4 DEF Inv

LEMMA MutexTyping ==
  ASSUME Typing, OwnershipExact, MutexStep
  PROVE  /\ writer_active' \in BOOLEAN /\ num_readers' \in Nat
         /\ pc' \in [Parties -> AllPC] /\ timed' \in [Parties -> BOOLEAN]
<1> DEFINE MutexTyped == /\ writer_active' \in BOOLEAN /\ num_readers' \in Nat
                         /\ pc' \in [Parties -> AllPC] /\ timed' \in [Parties -> BOOLEAN]
<1> USE PartiesAre DEF Typing, AllPC, CallPC
<1>1. ASSUME NEW p \in Parties, (\E d \in BOOLEAN : Call(p, d)) \/ Blocked(p) \/ Awake(p)
      PROVE  MutexTyped
  BY <1>1 DEF Call, Blocked, Awake, Goto
<1>2. ASSUME NEW p \in Parties, Pass(p) \/ TryPass(p) PROVE MutexTyped
  <2>1. Acquire(p)
    BY <1>2 DEF Pass, TryPass
  <2>2. writer_active' \in BOOLEAN
    <3>1. writer_active' = (p \in Writers)
      BY <2>1 DEF Acquire
    <3>2. (p \in Writers) \in BOOLEAN
      OBVIOUS
    <3> QED
      BY <3>1, <3>2, Zenon
  <2>3. num_readers' \in Nat /\ pc' \in [Parties -> AllPC]
    BY <2>1 DEF Acquire, Goto
  <2>4. timed' \in [Parties -> BOOLEAN]
    BY <2>1 DEF Acquire
  <2> QED
    BY <2>2, <2>3, <2>4
<1>3. ASSUME NEW p \in Parties, Notify(p) PROVE MutexTyped
  BY <1>3 DEF Notify
<1>4. ASSUME NEW w \in Writers, Unlock(w) PROVE MutexTyped
  BY <1>4 DEF Unlock, Goto
<1>5. ASSUME NEW o \in Locks, GivesBack(o) PROVE MutexTyped
  <2>1. num_readers > 0
    BY <1>5, ExactAlt, OwnersFinite, FS_EmptySet DEF GivesBack
  <2> QED
    BY <1>5, <2>1 DEF GivesBack, UnlockShared, Goto
<1>6. ASSUME NEW o \in Locks, HandsOver(o) PROVE MutexTyped
  BY <1>6 DEF HandsOver, Goto
<1>7. CASE UNCHANGED mutexVars
  BY <1>7 DEF mutexVars
<1> QED
  BY <1>1, <1>2, <1>3, <1>4, <1>5, <1>6, <1>7 DEF MutexStep

LEMMA TypingStep == Typing /\ OwnershipExact /\ [Next]_vars => Typing'
<1> SUFFICES ASSUME Typing, OwnershipExact, [Next]_vars PROVE Typing'
  OBVIOUS
<1>1. /\ mtx' \in [Locks -> {"mutex", "null", "none"}]
      /\ owns' \in [Locks -> BOOLEAN]
  <2> DEFINE Fine == /\ mtx' \in [Locks -> {"mutex", "null", "none"}]
                     /\ owns' \in [Locks -> BOOLEAN]
  <2> USE DEF Typing
  <2>1. CASE UNCHANGED <<mtx, owns>>
    BY <2>1
  <2>2. ASSUME NEW o \in Locks,
               \/ Construct(o) \/ ConstructLocking(o) \/ LockReturns(o) \/ TryLock(o)
               \/ UnlockOwned(o) \/ Destroy(o) \/ Release(o)
        PROVE  Fine
    BY <2>2 DEF Construct, ConstructLocking, LockReturns, TryLock, UnlockOwned, Destroy,
       Release
  <2>3. ASSUME NEW o \in Locks, NEW rhs \in Locks,
               \/ ConstructAdopting(o, rhs) \/ MoveConstruct(o, rhs)
               \/ MoveAssign(o, rhs) \/ Swap(o, rhs)
        PROVE  Fine
    BY <2>3 DEF ConstructAdopting, MoveConstruct, MoveAssign, Swap
  <2> QED
    BY <2>1, <2>2, <2>3
       DEF Next, vars, WriterCall, WriterStep, LockOrTimed, UnlockReleased, Wakeup
<1> QED
  BY <1>1, MutexTyping, EveryMutexStep DEF Typing

-----------------------------------------------------------------------------
(* Sleepers.                                                               *)

\* As long as a notification is to come, or nobody sleeps, or somebody has the mutex.
LEMMA WakeupStep ==
  ASSUME Typing, Typing', UnownedNotified, MutexStep
  PROVE  UnownedNotified'
<1> USE PartiesAre
<1>t. pc \in [Parties -> AllPC] /\ num_readers \in Nat /\ num_readers' \in Nat
  BY DEF Typing
<1>1. ASSUME NEW p \in Parties, (\E d \in BOOLEAN : Call(p, d)) \/ Awake(p)
      PROVE  UnownedNotified'
  <2>1. /\ UNCHANGED <<writer_active, num_readers>> /\ pc[p] # "notify"
        /\ \E q \in {"call", "late"} : pc' = [pc EXCEPT ![p] = q]
    BY <1>1 DEF Call, Awake, Goto
  <2>2. \A q \in Parties : /\ pc'[q] = "asleep" => pc[q] = "asleep"
                           /\ pc[q] = "notify" => pc'[q] = "notify"
    BY <1>t, <2>1
  <2> QED
    BY <2>1, <2>2 DEF UnownedNotified, Unowned
<1>2. ASSUME NEW p \in Parties, Blocked(p) PROVE UnownedNotified'
  <2>1. ~Unowned'
    BY <1>2, <1>t, MutexAssumption DEF Blocked, CanPass, Unowned, MutexAssumption
  <2> QED
    BY <2>1 DEF UnownedNotified
<1>3. ASSUME NEW p \in Parties, Acquire(p) PROVE UnownedNotified'
  <2>1. CASE p \in Writers
    BY <1>3, <2>1 DEF Acquire, Unowned, UnownedNotified
  <2>2. CASE p \notin Writers
    BY <1>3, <1>t, <2>2 DEF Acquire, Unowned, UnownedNotified
  <2> QED
    BY <2>1, <2>2
<1>4. ASSUME NEW p \in Parties, Notify(p) PROVE UnownedNotified'
  <2>1. \A q \in Parties : pc'[q] # "asleep"
    BY <1>4 DEF Notify
  <2> QED
    BY <2>1 DEF UnownedNotified
<1>5. ASSUME NEW w \in Writers, Unlock(w) PROVE UnownedNotified'
  <2>1. pc'[w] = "notify"
    BY <1>5, <1>t DEF Unlock, Goto
  <2> QED
    BY <2>1 DEF UnownedNotified
<1>6. ASSUME NEW o \in Locks, GivesBack(o) PROVE UnownedNotified'
  <2>1. Unowned' => pc'[o] = "notify"
    BY <1>6, <1>t DEF GivesBack, UnlockShared, Goto, Unowned
  <2> QED
    BY <2>1 DEF UnownedNotified
<1>7. ASSUME NEW o \in Locks, HandsOver(o) PROVE UnownedNotified'
  <2>1. \A q \in Parties : /\ pc'[q] = "asleep" <=> pc[q] = "asleep"
                           /\ pc[q] = "notify" <=> pc'[q] = "notify"
    BY <1>7, <1>t DEF HandsOver, Goto
  <2> QED
    BY <1>7, <2>1 DEF UnownedNotified, Unowned, HandsOver
<1>8. CASE UNCHANGED mutexVars
  BY <1>8 DEF mutexVars, UnownedNotified, Unowned
<1> QED
  BY <1>1, <1>2, <1>3, <1>4, <1>5, <1>6, <1>7, <1>8 DEF MutexStep, Pass, TryPass

-----------------------------------------------------------------------------
(* The flags.                                                              *)

\* The steps of the mutex alone, with the objects as they are.
LEMMA FlagKept ==
  ASSUME Typing, FlagInv, UNCHANGED <<mtx, owns>>,
         \/ \E w \in Writers : WriterCall(w) \/ WriterStep(w)
         \/ \E p \in Parties : Notify(p) \/ Awake(p)
  PROVE  FlagInv'
<1> USE PartiesAre
<1>d. \A w \in Writers : w \notin Locks
  BY MutexAssumption DEF MutexAssumption
<1>t. pc \in [Parties -> AllPC] /\ timed \in [Parties -> BOOLEAN]
  BY DEF Typing
<1>1. ASSUME NEW w \in Writers, WriterCall(w) \/ WriterStep(w) PROVE FlagInv'
  <2>1. /\ \E q \in AllPC \ {"released"} : pc' = [pc EXCEPT ![w] = q]
        /\ timed' = timed \/ \E d \in BOOLEAN : timed' = [timed EXCEPT ![w] = d]
    BY <1>1 DEF WriterCall, WriterStep, TryPass, Call, Pass, Blocked, Unlock, Acquire, Goto,
       AllPC, CallPC
  <2>2. \A o \in Locks : pc'[o] = pc[o] /\ timed'[o] = timed[o]
    BY <2>1, <1>d, <1>t
  <2>3. \A v \in Writers : pc'[v] # "released"
    BY <2>1, <1>t DEF FlagInv
  <2> QED
    BY <2>2, <2>3 DEF FlagInv
<1>2. ASSUME NEW p \in Parties, Notify(p) PROVE FlagInv'
  <2>1. \A q \in Parties : /\ timed'[q] = timed[q]
                           /\ pc'[q] \in CallPC => pc[q] \in CallPC
                           /\ pc'[q] \in {"late", "released", "writing"} => pc[q] = pc'[q]
    BY <1>2 DEF Notify, CallPC
  <2> QED
    BY <2>1 DEF FlagInv
<1>3. ASSUME NEW p \in Parties, Awake(p) PROVE FlagInv'
  <2>1. \A q \in Parties : /\ timed'[q] = timed[q]
                           /\ pc'[q] \in CallPC => pc[q] \in CallPC
                           /\ pc'[q] \in {"released", "writing"} => pc[q] = pc'[q]
                           /\ pc'[q] = "late" => pc[q] = "late" \/ timed[q]
    BY <1>3, <1>t DEF Awake, CallPC, Goto
  <2> QED
    BY <2>1 DEF FlagInv, CallPC
<1> QED
  BY <1>1, <1>2, <1>3

LEMMA FlagStep == Typing /\ FlagInv /\ OwnershipExact /\ [Next]_vars => FlagInv'
<1> SUFFICES ASSUME Typing, FlagInv, OwnershipExact, [Next]_vars PROVE FlagInv'
  OBVIOUS
<1> USE PartiesAre
<1>d. \A w \in Writers : w \notin Locks
  BY MutexAssumption DEF MutexAssumption
<1>t. /\ pc \in [Parties -> AllPC] /\ timed \in [Parties -> BOOLEAN]
      /\ mtx \in [Locks -> {"mutex", "null", "none"}] /\ owns \in [Locks -> BOOLEAN]
  BY DEF Typing
\* A step of one object that leaves it fine, and the others alone.
<1>k. ASSUME NEW o \in Locks,
             \A q \in Parties : q # o => pc'[q] = pc[q] /\ timed'[q] = timed[q],
             \A q \in Locks : q # o => mtx'[q] = mtx[q] /\ owns'[q] = owns[q],
             owns'[o] \/ pc'[o] \in CallPC => mtx'[o] = "mutex",
             owns'[o] /\ pc'[o] \in CallPC => ~timed'[o] /\ pc'[o] # "late",
             pc'[o] = "released" => ~owns'[o],
             pc'[o] # "writing"
      PROVE  FlagInv'
  BY <1>k, <1>d DEF FlagInv
<1>1. CASE UNCHANGED vars
  BY <1>1 DEF vars, mutexVars, FlagInv
<1>2. ASSUME NEW w \in Writers, WriterCall(w) \/ WriterStep(w) PROVE FlagInv'
  BY <1>2, FlagKept DEF WriterCall, WriterStep
<1>3. ASSUME NEW p \in Parties, Wakeup(p) \/ (Awake(p) /\ UNCHANGED <<mtx, owns, calls>>)
      PROVE  FlagInv'
  BY <1>3, FlagKept DEF Wakeup
<1>4. ASSUME NEW o \in Locks, Construct(o) \/ ConstructLocking(o) \/ LockOrTimed(o)
      PROVE  FlagInv'
  <2>1. ~owns[o]
    BY <1>4, <1>t DEF Construct, ConstructLocking, LockOrTimed, Unused, FlagInv
  <2>2. CASE Construct(o)
    BY <1>k, <1>t, <2>1, <2>2 DEF Construct, Unused, mutexVars, CallPC
  <2>3. CASE ConstructLocking(o)
    BY <1>k, <1>t, <2>3 DEF ConstructLocking, Unused, Call, Goto, CallPC
  <2>4. CASE LockOrTimed(o)
    BY <1>k, <1>t, <2>1, <2>4 DEF LockOrTimed, Usable, Call, Goto, CallPC
  <2> QED
    BY <1>4, <2>2, <2>3, <2>4
<1>5. ASSUME NEW o \in Locks, LockReturns(o) PROVE FlagInv'
  <2>1. pc[o] \in CallPC /\ mtx[o] = "mutex" /\ mtx' = mtx
    BY <1>5, <1>t DEF LockReturns, Pass, Blocked, CallPC, FlagInv
  <2>2. CASE Pass(o) /\ owns' = [owns EXCEPT ![o] = TRUE]
    BY <1>d, <1>k, <1>t, <2>1, <2>2 DEF Pass, Acquire, Goto, CallPC
  <2>3. CASE Blocked(o) /\ UNCHANGED owns
    <3>1. owns[o] => pc[o] = "call" /\ ~timed[o]
      BY <2>1, <2>3 DEF Blocked, FlagInv
    <3> QED
      BY <1>k, <1>t, <2>1, <2>3, <3>1 DEF Blocked, Goto, CallPC
  <2> QED
    BY <1>5, <2>2, <2>3 DEF LockReturns
<1>6. ASSUME NEW o \in Locks, TryLock(o) PROVE FlagInv'
  BY <1>d, <1>k, <1>t, <1>6 DEF TryLock, TryPass, Acquire, Goto, CallPC
<1>7. ASSUME NEW o \in Locks, UnlockOwned(o) \/ Destroy(o) \/ UnlockReleased(o)
      PROVE  FlagInv'
  <2>1. /\ UnlockShared(o) \/ (UNCHANGED mutexVars /\ pc[o] = "idle")
        /\ ~owns'[o]
        /\ \A q \in Locks : q # o => mtx'[q] = mtx[q] /\ owns'[q] = owns[q]
    BY <1>7, <1>t DEF UnlockOwned, Destroy, UnlockReleased, UnlockIf, Usable, FlagInv
  <2> QED
    BY <1>k, <1>t, <2>1 DEF UnlockShared, Goto, CallPC, mutexVars
<1>8. ASSUME NEW o \in Locks, Release(o) PROVE FlagInv'
  BY <1>k, <1>t, <1>8 DEF Release, Usable, Goto, CallPC
<1>9. ASSUME NEW o \in Locks, NEW rhs \in Locks, ConstructAdopting(o, rhs) PROVE FlagInv'
  BY <1>d, <1>t, <1>9 DEF ConstructAdopting, Unused, Goto, CallPC, FlagInv
<1>10. ASSUME NEW o \in Locks, NEW rhs \in Locks, MoveConstruct(o, rhs) \/ Swap(o, rhs)
       PROVE  FlagInv'
  BY <1>d, <1>t, <1>10 DEF MoveConstruct, Swap, Unused, Usable, CallPC, FlagInv, mutexVars
<1>11. ASSUME NEW o \in Locks, NEW rhs \in Locks, MoveAssign(o, rhs) PROVE FlagInv'
  <2>1. pc[o] = "idle" /\ pc[rhs] = "idle" /\ timed' = timed
    BY <1>11 DEF MoveAssign, UnlockIf, UnlockShared, Usable, mutexVars
  <2>2. /\ \A q \in Parties : q # o => pc'[q] = pc[q]
        /\ pc'[o] \in {"idle", "notify"}
    BY <1>11, <1>t, <2>1 DEF MoveAssign, UnlockIf, UnlockShared, Goto, mutexVars
  <2> QED
    BY <1>d, <1>t, <1>11, <2>1, <2>2 DEF MoveAssign, CallPC, FlagInv
<1> QED
  BY <1>1, <1>2, <1>3, <1>4, <1>5, <1>6, <1>7, <1>8, <1>9, <1>10, <1>11 DEF Next

-----------------------------------------------------------------------------
(* The number of readers.                                                  *)

LEMMA ExactStep ==
  Inv /\ [Next]_vars /\ FlagInv' => OwnershipExact'
<1> SUFFICES ASSUME Typing, FlagInv, OwnershipExact, WriterAlone, [Next]_vars, FlagInv'
             PROVE  num_readers' = Cardinality(Owners')
  BY ExactNext DEF FlagInv, Inv
<1> USE PartiesAre
<1>d. \A w \in Writers : w \notin Locks
  BY MutexAssumption DEF MutexAssumption
<1>t. /\ pc \in [Parties -> AllPC] /\ timed \in [Parties -> BOOLEAN]
      /\ mtx \in [Locks -> {"mutex", "null", "none"}] /\ owns \in [Locks -> BOOLEAN]
  BY DEF Typing
<1>n. num_readers = Cardinality(Owners) /\ num_readers \in Nat
  BY ExactAlt DEF Typing
<1> DEFINE Goal == num_readers' = Cardinality(Owners')
\* Four things that a step can do to the owners.
<1>k. ASSUME num_readers' = num_readers, \A o \in Locks : o \in Owners' <=> o \in Owners
      PROVE  Goal
  BY <1>k, <1>n, OwnersSubset
<1>a. ASSUME NEW o \in Locks, num_readers' = num_readers + 1, o \notin Owners,
             \A q \in Locks : q \in Owners' <=> q \in Owners \/ q = o
      PROVE  Goal
  <2>1. Owners' = Owners \cup {o}
    BY <1>a, OwnersSubset
  <2> QED
    BY <1>a, <1>n, <2>1, OwnersAdd
<1>r. ASSUME NEW o \in Locks, num_readers' = num_readers - 1, o \in Owners,
             \A q \in Locks : q \in Owners' <=> q \in Owners /\ q # o
      PROVE  Goal
  <2>1. Owners' = Owners \ {o}
    BY <1>r, OwnersSubset
  <2> QED
    BY <1>r, <1>n, <2>1, OwnersRemove
<1>m. ASSUME NEW o \in Locks, NEW rhs \in Locks, num_readers' = num_readers,
             rhs \in Owners, o \notin Owners,
             \A q \in Locks : q \in Owners' <=> (q \in Owners /\ q # rhs) \/ q = o
      PROVE  Goal
  <2>1. Owners' = (Owners \ {rhs}) \cup {o}
    BY <1>m, OwnersSubset
  <2> QED
    BY <1>m, <1>n, <2>1, OwnersMove
<1> USE OwnersAre, OwnersAreNext
<1>1. CASE UNCHANGED vars
  BY <1>1, <1>k DEF vars, mutexVars
<1>2. ASSUME NEW w \in Writers, WriterCall(w) \/ WriterStep(w) PROVE Goal
  <2>1. /\ num_readers' = num_readers /\ owns' = owns
        /\ \E q \in AllPC : pc' = [pc EXCEPT ![w] = q]
    BY <1>2 DEF WriterCall, WriterStep, TryPass, Call, Pass, Blocked, Unlock, Acquire, Goto,
       CanPass, Unowned, WriterAlone, AllPC, CallPC
  <2>2. \A o \in Locks : pc'[o] = pc[o]
    BY <1>d, <1>t, <2>1
  <2> QED
    BY <1>k, <2>1, <2>2
<1>3. ASSUME NEW p \in Parties, Wakeup(p) \/ (Awake(p) /\ UNCHANGED <<mtx, owns, calls>>)
      PROVE  Goal
  <2>1. \A q \in Parties : \/ pc'[q] = pc[q]
                           \/ pc[q] = "asleep" /\ pc'[q] \in CallPC
                           \/ pc[q] = "notify" /\ pc'[q] = "idle"
    BY <1>3, <1>t DEF Wakeup, Notify, Awake, Goto, CallPC
  <2>2. num_readers' = num_readers /\ owns' = owns
    BY <1>3 DEF Wakeup, Notify, Awake
  <2> QED
    BY <1>k, <2>1, <2>2 DEF CallPC
<1>4. ASSUME NEW o \in Locks, Construct(o) \/ ConstructLocking(o) \/ LockOrTimed(o)
      PROVE  Goal
  <2>1. num_readers' = num_readers /\ o \notin Owners
    BY <1>4, <1>t DEF Construct, ConstructLocking, LockOrTimed, Unused, Usable, Call, FlagInv,
       mutexVars
  <2>2. \A q \in Locks : q # o => owns'[q] = owns[q] /\ pc'[q] = pc[q]
    BY <1>4, <1>t DEF Construct, ConstructLocking, LockOrTimed, Call, Goto, mutexVars
  <2>3. o \notin Owners'
    BY <1>4, <1>t DEF Construct, ConstructLocking, LockOrTimed, Unused, Usable, Call, FlagInv,
       mutexVars, Goto
  <2> QED
    BY <1>k, <2>1, <2>2, <2>3
<1>5. ASSUME NEW o \in Locks, LockReturns(o) PROVE Goal
  <2>1. pc[o] \in {"call", "late"} /\ o \notin Owners
    BY <1>5 DEF LockReturns, Pass, Blocked
  <2>2. CASE Pass(o) /\ owns' = [owns EXCEPT ![o] = TRUE]
    <3>1. num_readers' = num_readers + 1 /\ pc' = [pc EXCEPT ![o] = "idle"]
      BY <1>d, <2>2 DEF Pass, Acquire, Goto
    <3> QED
      BY <1>a, <1>t, <2>1, <2>2, <3>1
  <2>3. CASE Blocked(o) /\ UNCHANGED owns
    <3>1. owns[o] => pc[o] = "call"
      BY <2>1, <2>3 DEF Blocked, FlagInv, CallPC
    <3> QED
      BY <1>k, <1>t, <2>1, <2>3, <3>1 DEF Blocked, Goto
  <2> QED
    BY <1>5, <2>2, <2>3 DEF LockReturns
<1>6. ASSUME NEW o \in Locks, TryLock(o) PROVE Goal
  <2>1. /\ num_readers' = num_readers + 1 /\ pc' = [pc EXCEPT ![o] = "idle"]
        /\ owns' = [owns EXCEPT ![o] = TRUE]
    BY <1>6, <1>d DEF TryLock, TryPass, Acquire, Goto
  <2>2. o \notin Owners
    BY <1>6 DEF TryLock, Unused, Usable, FlagInv
  <2> QED
    BY <1>a, <1>t, <2>1, <2>2
<1>7. ASSUME NEW o \in Locks, UnlockOwned(o) \/ UnlockReleased(o) \/ (Destroy(o) /\ owns[o])
      PROVE  Goal
  <2>1. /\ UnlockShared(o) /\ o \in Owners /\ ~owns'[o]
        /\ \A q \in Locks : q # o => owns'[q] = owns[q]
    BY <1>7, <1>t DEF UnlockOwned, Destroy, UnlockReleased, UnlockIf, Usable, FlagInv
  <2>2. /\ num_readers' = num_readers - 1 /\ pc'[o] # "released"
        /\ \A q \in Locks : q # o => pc'[q] = pc[q]
    BY <1>t, <2>1 DEF UnlockShared, Goto
  <2> QED
    BY <1>r, <2>1, <2>2
<1>8. ASSUME NEW o \in Locks, Destroy(o), ~owns[o] PROVE Goal
  BY <1>k, <1>t, <1>8 DEF Destroy, UnlockIf, mutexVars
<1>9. ASSUME NEW o \in Locks, Release(o) PROVE Goal
  BY <1>k, <1>t, <1>9 DEF Release, Usable, Goto
<1>10. ASSUME NEW o \in Locks, NEW rhs \in Locks, ConstructAdopting(o, rhs) PROVE Goal
  <2>1. rhs \in Owners /\ o \notin Owners /\ num_readers' = num_readers
    BY <1>10 DEF ConstructAdopting, Unused, FlagInv
  <2>2. \A q \in Locks : q \in Owners' <=> (q \in Owners /\ q # rhs) \/ q = o
    BY <1>10, <1>t DEF ConstructAdopting, Unused, Goto, FlagInv
  <2> QED
    BY <1>m, <2>1, <2>2
<1>11. ASSUME NEW o \in Locks, NEW rhs \in Locks,
              \/ MoveConstruct(o, rhs) \/ Swap(o, rhs)
              \/ MoveAssign(o, rhs) /\ ~(owns[o] /\ o # rhs)
       PROVE  Goal
  <2>1. /\ UNCHANGED mutexVars /\ pc[o] = "idle" /\ pc[rhs] = "idle"
        /\ \A q \in Locks : q # o /\ q # rhs => owns'[q] = owns[q]
        /\ \/ owns'[o] = owns[rhs] /\ owns'[rhs] = owns[o]
           \/ o = rhs /\ owns' = owns
    <3>1. CASE o = rhs
      BY <1>11, <1>t, <3>1 DEF MoveConstruct, Swap, MoveAssign, UnlockIf, Unused, Usable
    <3>2. CASE o # rhs /\ MoveConstruct(o, rhs)
      BY <1>t, <3>2 DEF MoveConstruct, Unused, Usable, FlagInv
    <3>3. CASE o # rhs /\ Swap(o, rhs)
      BY <1>t, <3>3 DEF Swap, Usable
    <3>4. CASE o # rhs /\ MoveAssign(o, rhs) /\ ~owns[o]
      BY <1>t, <3>4 DEF MoveAssign, UnlockIf, Usable
    <3> QED
      BY <1>11, <3>1, <3>2, <3>3, <3>4
  <2>2. num_readers' = num_readers /\ pc' = pc
    BY <2>1 DEF mutexVars
  <2>3. CASE owns[o] = owns[rhs] \/ o = rhs
    BY <1>k, <1>t, <2>1, <2>2, <2>3
  <2>4. CASE owns[rhs] /\ ~owns[o]
    <3>1. \A q \in Locks : q \in Owners' <=> (q \in Owners /\ q # rhs) \/ q = o
      BY <2>1, <2>2, <2>4
    <3> QED
      BY <1>m, <2>1, <2>2, <2>4, <3>1
  <2>5. CASE owns[o] /\ ~owns[rhs]
    <3>1. \A q \in Locks : q \in Owners' <=> (q \in Owners /\ q # o) \/ q = rhs
      BY <2>1, <2>2, <2>5
    <3> QED
      BY <1>m, <2>1, <2>2, <2>5, <3>1
  <2> QED
    BY <1>t, <2>3, <2>4, <2>5
<1>12. ASSUME NEW o \in Locks, NEW rhs \in Locks, MoveAssign(o, rhs), owns[o], o # rhs
       PROVE  Goal
  <2>1. /\ UnlockShared(o) /\ pc[o] = "idle" /\ pc[rhs] = "idle"
        /\ \A q \in Locks : q # o /\ q # rhs => owns'[q] = owns[q]
        /\ owns'[o] = owns[rhs] /\ ~owns'[rhs]
    BY <1>12, <1>t DEF MoveAssign, UnlockIf, Usable
  <2>2. /\ num_readers' = num_readers - 1 /\ pc'[o] \in {"idle", "notify"}
        /\ \A q \in Locks : q # o => pc'[q] = pc[q]
    BY <1>t, <2>1 DEF UnlockShared, Goto
  <2>3. CASE owns[rhs]
    <3>1. \A q \in Locks : q \in Owners' <=> q \in Owners /\ q # rhs
      BY <1>12, <2>1, <2>2, <2>3
    <3> QED
      BY <1>r, <2>1, <2>2, <2>3, <3>1
  <2>4. CASE ~owns[rhs]
    <3>1. \A q \in Locks : q \in Owners' <=> q \in Owners /\ q # o
      BY <1>12, <2>1, <2>2, <2>4
    <3> QED
      BY <1>r, <1>12, <2>1, <2>2, <3>1
  <2> QED
    BY <2>3, <2>4
<1> QED
  BY <1>1, <1>2, <1>3, <1>4, <1>5, <1>6, <1>7, <1>8, <1>9, <1>10, <1>11, <1>12 DEF Next

-----------------------------------------------------------------------------
(* Theorems.                                                               *)

LEMMA InvStep == Inv /\ UnownedNotified /\ [Next]_vars => Inv' /\ UnownedNotified'
<1> SUFFICES ASSUME Inv, UnownedNotified, [Next]_vars PROVE Inv' /\ UnownedNotified'
  OBVIOUS
<1>1. Typing /\ FlagInv /\ OwnershipExact /\ WriterAlone /\ MutexStep
  BY EveryMutexStep DEF Inv
<1>2. Typing' /\ FlagInv'
  BY <1>1, TypingStep, FlagStep
<1>3. OwnershipExact'
  BY <1>2, ExactStep
<1>4. WriterAlone' /\ UnownedNotified'
  BY <1>1, <1>2, WriterAloneStep, WakeupStep
<1> QED
  BY <1>2, <1>3, <1>4 DEF Inv

\* The invariant that the theorems below are read off.
LEMMA LocksInvariant == Spec => [](Inv /\ UnownedNotified)
<1>1. Inv /\ UnownedNotified /\ [Next]_vars => (Inv /\ UnownedNotified)'
  BY InvStep
<1> QED
  BY InitInv, <1>1, PTL DEF Spec

\* Constructors (the one that locks sets owns before it has the lock), moves,
\* self-assignments, swaps, releases and time-outs neither lose a shared ownership
\* nor invent one: the mutex counts exactly those that will be given back.
THEOREM OwnershipAlwaysExact == Spec => []OwnershipExact
<1>1. Inv => OwnershipExact
  BY DEF Inv
<1> QED
  BY LocksInvariant, <1>1, PTL

\* A writer with the lock is alone, whatever the SharedLock objects are used for.
THEOREM WriterAlwaysAlone == Spec => []WriterAlone
<1>1. Inv => WriterAlone
  BY DEF Inv
<1> QED
  BY LocksInvariant, <1>1, PTL

\* unlock() and unlock_shared() notify after they unlocked mtx, and unlock_shared()
\* only when it was the last: still whoever sleeps, a reader stopped by the maximum
\* too, has a notification on its way or an owner of the lock to wait for.
THEOREM WakeupsNotLost == Spec => []NoLostWakeup
<1>1. ASSUME Inv, UnownedNotified PROVE NoLostWakeup
  <2>1. Unowned /\ (\E p \in Parties : pc[p] = "asleep") => \E p \in Parties : pc[p] = "notify"
    BY <1>1 DEF UnownedNotified
  <2>2. writer_active => \E w \in Writers : pc[w] = "writing"
    BY <1>1 DEF Inv, WriterAlone
  <2>3. num_readers # 0 => Owning \cup Released # {}
    BY <1>1, FS_EmptySet DEF Inv, OwnershipExact
  <2> QED
    BY <2>1, <2>2, <2>3 DEF NoLostWakeup, Unowned
<1> QED
  BY LocksInvariant, <1>1, PTL

=============================================================================
