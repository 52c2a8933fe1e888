----------------------- MODULE SharedTimedMutexProofs -----------------------
(***************************************************************************)
(* SharedTimedMutex implements a reader-writer lock and, as long as there  *)
(* are no more threads than it can count readers, loses no wake-up.        *)
(***************************************************************************)
EXTENDS SharedTimedMutex, FiniteSetTheorems, TLAPS

\* A writer that has the lock is alone with it.
WriterAlone == \A t \in Threads : pc[t] = "writing" => num_readers = 0

\* The inductive invariant.
MutexInv == TypeOK /\ StateExact /\ WriterAlone

-----------------------------------------------------------------------------
(* Counting the readers.                                                   *)

\* The set of readers is finite, and empty when the count is zero.
LEMMA ReadingFinite ==
  ASSUME TypeOK, StateExact
  PROVE  /\ IsFiniteSet(Reading)
         /\ num_readers = 0 <=> Reading = {}
         /\ num_readers \in Nat
<1>1. IsFiniteSet(Reading)
  BY ConstantsAssumption, FS_Subset DEF ConstantsAssumption, Reading
<1>2. num_readers \in Nat
  BY ConstantsAssumption DEF ConstantsAssumption, TypeOK
<1> QED
  BY <1>1, <1>2, FS_EmptySet DEF StateExact

\* One thread more reads.
LEMMA ReadingAdd ==
  ASSUME TypeOK, StateExact, NEW t \in Threads, pc[t] # "reading", Goto(t, "reading")
  PROVE  Reading' = Reading \cup {t} /\ Cardinality(Reading') = Cardinality(Reading) + 1
<1>1. Reading' = Reading \cup {t}
  BY DEF TypeOK, Goto, Reading
<1>2. t \notin Reading
  BY DEF Reading
<1> QED
  BY <1>1, <1>2, ReadingFinite, FS_AddElement

\* One thread less reads.
LEMMA ReadingRemove ==
  ASSUME TypeOK, StateExact, NEW t \in Threads, pc[t] = "reading",
         NEW l \in PC \ {"reading"}, Goto(t, l)
  PROVE  Reading' = Reading \ {t} /\ Cardinality(Reading') = Cardinality(Reading) - 1
<1>1. Reading' = Reading \ {t}
  BY DEF TypeOK, Goto, Reading
<1>2. t \in Reading
  BY DEF Reading
<1> QED
  BY <1>1, <1>2, ReadingFinite, FS_RemoveElement

-----------------------------------------------------------------------------
(* The invariant.                                                          *)

\* The constructor establishes the invariant.
LEMMA InitInv == Init => MutexInv
<1> SUFFICES ASSUME Init PROVE MutexInv
  OBVIOUS
<1>1. TypeOK
  <2>1. num_readers \in 0..MaxReaders
    BY ConstantsAssumption DEF ConstantsAssumption, Init
  <2>2. pc \in [Threads -> PC]
    BY DEF Init, PC
  <2>3. writer_entered \in BOOLEAN /\ timed \in [Threads -> BOOLEAN]
    BY DEF Init
  <2> QED
    BY <2>1, <2>2, <2>3 DEF TypeOK
<1>2. Reading = {} /\ Cardinality({}) = 0
  BY FS_EmptySet DEF Init, Reading
<1>3. StateExact /\ WriterAlone
  BY <1>2 DEF Init, StateExact, WriterAlone, Entered
<1> QED
  BY <1>1, <1>3 DEF MutexInv

\* Steps that move threads between places outside the lock, without touching
\* state. Nobody starts or stops reading or writing or passes a gate.
LEMMA OutsideStep ==
  ASSUME MutexInv, UNCHANGED <<writer_entered, num_readers>>,
         timed' \in [Threads -> BOOLEAN], pc' \in [Threads -> PC],
         \A t \in Threads : /\ pc'[t] = "reading" <=> pc[t] = "reading"
                            /\ pc'[t] \in Entered <=> pc[t] \in Entered
                            /\ pc'[t] = "writing" <=> pc[t] = "writing"
  PROVE  MutexInv'
<1>1. Reading' = Reading
  BY DEF Reading
<1>2. TypeOK' /\ WriterAlone'
  BY DEF MutexInv, TypeOK, WriterAlone
<1>3. StateExact'
  BY <1>1 DEF MutexInv, StateExact
<1> QED
  BY <1>2, <1>3 DEF MutexInv

\* The calls that only begin.
LEMMA CallInv ==
  ASSUME MutexInv, NEW t \in Threads, NEW d \in BOOLEAN,
         CallLock(t, d) \/ CallLockShared(t, d)
  PROVE  MutexInv'
<1>1. timed' \in [Threads -> BOOLEAN]
  BY DEF MutexInv, TypeOK, CallLock, CallLockShared
<1>2. UNCHANGED <<writer_entered, num_readers>> /\ pc' \in [Threads -> PC]
  BY DEF MutexInv, TypeOK, CallLock, CallLockShared, Goto, PC
<1>3. \A u \in Threads : /\ pc'[u] = "reading" <=> pc[u] = "reading"
                         /\ pc'[u] \in Entered <=> pc[u] \in Entered
                         /\ pc'[u] = "writing" <=> pc[u] = "writing"
  BY DEF MutexInv, TypeOK, CallLock, CallLockShared, Goto, Entered
<1> QED
  BY <1>1, <1>2, <1>3, OutsideStep

\* Blocking, notifications, spurious wake-ups and time-outs.
LEMMA WaitInv ==
  ASSUME MutexInv, NEW t \in Threads,
         \/ WriterBlocked(t) \/ ReaderBlocked(t) \/ NotifyRgateAll(t)
         \/ NotifyRgateOne(t) \/ NotifyWgate(t) \/ Spurious(t) \/ Timeout(t)
  PROVE  MutexInv'
<1>1. UNCHANGED <<writer_entered, num_readers, timed>>
  BY DEF WriterBlocked, ReaderBlocked, NotifyRgateAll, NotifyRgateOne, NotifyWgate,
         NotifyOne, Spurious, Timeout
<1>2. /\ pc' \in [Threads -> PC]
      /\ \A u \in Threads : /\ pc'[u] = "reading" <=> pc[u] = "reading"
                            /\ pc'[u] \in Entered <=> pc[u] \in Entered
                            /\ pc'[u] = "writing" <=> pc[u] = "writing"
  <2>1. CASE WriterBlocked(t) \/ ReaderBlocked(t)
    BY <2>1 DEF MutexInv, TypeOK, WriterBlocked, ReaderBlocked, Goto, PC, AtRgate, Entered
  <2>2. CASE NotifyRgateAll(t)
    BY <2>2 DEF MutexInv, TypeOK, NotifyRgateAll, Awake, PC, AtRgate, Entered
  <2>3. CASE NotifyRgateOne(t) \/ NotifyWgate(t)
    <3>1. pc[t] \in {"notify_rgate_one", "notify_wgate"}
      BY <2>3 DEF NotifyRgateOne, NotifyWgate
    <3>2. PICK gate \in {AtRgate, {"wgate"}} : NotifyOne(t, gate)
      BY <2>3 DEF NotifyRgateOne, NotifyWgate
    <3>3. CASE Goto(t, "idle")
      BY <3>1, <3>3 DEF MutexInv, TypeOK, Goto, PC, Entered
    <3>4. CASE \E u \in Threads : /\ pc[u] \in gate
                                  /\ pc' = [pc EXCEPT ![t] = "idle", ![u] = Awake(pc[u])]
      <4>1. PICK u \in Threads : /\ pc[u] \in gate
                                 /\ pc' = [pc EXCEPT ![t] = "idle", ![u] = Awake(pc[u])]
        BY <3>4
      <4>2. pc[u] \in AtRgate \cup {"wgate"} /\ u # t
        BY <3>1, <4>1 DEF AtRgate
      <4> QED
        BY <3>1, <4>1, <4>2 DEF MutexInv, TypeOK, Awake, PC, AtRgate, Entered
    <3> QED
      BY <3>2, <3>3, <3>4 DEF NotifyOne
  <2>4. CASE Spurious(t)
    BY <2>4 DEF MutexInv, TypeOK, Spurious, Goto, Awake, PC, AtRgate, Entered
  <2>5. CASE Timeout(t)
    BY <2>5 DEF MutexInv, TypeOK, Timeout, Goto, PC, AtRgate, Entered
  <2> QED
    BY <2>1, <2>2, <2>3, <2>4, <2>5
<1>3. timed' \in [Threads -> BOOLEAN]
  BY <1>1 DEF MutexInv, TypeOK
<1> QED
  BY <1>1, <1>2, <1>3, OutsideStep

\* A writer passes the first gate, with or without a stop at the second.
LEMMA EnterInv ==
  ASSUME MutexInv, NEW t \in Threads, WriterEnter(t) \/ TryLock(t)
  PROVE  MutexInv'
<1>1. /\ writer_entered' = TRUE /\ ~writer_entered /\ UNCHANGED <<num_readers, timed>>
      /\ pc[t] # "reading"
  BY DEF WriterEnter, TryLock
<1>2. PICK l \in {"writing", "wgate"} : Goto(t, l) /\ (l = "writing" => num_readers = 0)
  BY DEF WriterEnter, TryLock
<1>3. TypeOK'
  BY <1>1, <1>2 DEF MutexInv, TypeOK, Goto, PC, Entered
<1>4. Reading' = Reading
  BY <1>1, <1>2 DEF MutexInv, TypeOK, Goto, Reading
<1>5. \A u \in Threads : pc[u] \notin Entered
  BY <1>1 DEF MutexInv, StateExact
<1>6. \A u \in Threads : pc'[u] \in Entered <=> u = t
  BY <1>2, <1>5 DEF MutexInv, TypeOK, Goto, Entered
<1>7. StateExact'
  BY <1>1, <1>4, <1>6 DEF MutexInv, StateExact
<1>8. WriterAlone'
  BY <1>1, <1>2, <1>5 DEF MutexInv, TypeOK, WriterAlone, Goto, Entered
<1> QED
  BY <1>3, <1>7, <1>8 DEF MutexInv

\* A writer passes the second gate.
LEMMA DrainInv ==
  ASSUME MutexInv, NEW t \in Threads, WriterDrain(t)
  PROVE  MutexInv'
<1>1. UNCHANGED <<writer_entered, num_readers, timed>> /\ pc[t] \in {"drain", "drain_late"}
  BY DEF WriterDrain
<1>2. PICK l \in {"writing", "wgate"} : Goto(t, l) /\ (l = "writing" => num_readers = 0)
  BY DEF WriterDrain
<1>3. TypeOK'
  BY <1>1, <1>2 DEF MutexInv, TypeOK, Goto, PC, Entered
<1>4. Reading' = Reading
  BY <1>1, <1>2 DEF MutexInv, TypeOK, Goto, Reading
<1>5. \A u \in Threads : pc'[u] \in Entered <=> pc[u] \in Entered
  BY <1>1, <1>2 DEF MutexInv, TypeOK, Goto, Entered
<1>6. StateExact'
  BY <1>1, <1>4, <1>5 DEF MutexInv, StateExact
<1>7. WriterAlone'
  BY <1>1, <1>2 DEF MutexInv, TypeOK, WriterAlone, Goto
<1> QED
  BY <1>3, <1>6, <1>7 DEF MutexInv

\* A writer leaves, or gives up at the second gate.
LEMMA LeaveInv ==
  ASSUME MutexInv, NEW t \in Threads, WriterGiveUp(t) \/ Unlock(t)
  PROVE  MutexInv'
<1>1. /\ writer_entered' = FALSE /\ UNCHANGED <<num_readers, timed>>
      /\ pc[t] \in {"drain_late", "writing"} /\ Goto(t, "notify_rgate_all")
  BY DEF WriterGiveUp, Unlock
<1>2. TypeOK'
  BY <1>1 DEF MutexInv, TypeOK, Goto, PC, Notifies
<1>3. Reading' = Reading
  BY <1>1 DEF MutexInv, TypeOK, Goto, Reading
<1>4. \A u \in Threads : pc[u] \in Entered => u = t
  BY <1>1 DEF MutexInv, StateExact, Entered
<1>5. \A u \in Threads : pc'[u] \notin Entered
  BY <1>1, <1>4 DEF MutexInv, TypeOK, Goto, Entered
<1>6. StateExact'
  BY <1>1, <1>3, <1>5 DEF MutexInv, StateExact
<1>7. WriterAlone'
  BY <1>5 DEF WriterAlone, Entered
<1> QED
  BY <1>2, <1>6, <1>7 DEF MutexInv

\* A reader enters.
LEMMA ReaderEnterInv ==
  ASSUME MutexInv, NEW t \in Threads, ReaderEnter(t) \/ TryLockShared(t)
  PROVE  MutexInv'
<1>1. /\ ~writer_entered /\ num_readers # MaxReaders
      /\ num_readers' = num_readers + 1 /\ UNCHANGED <<writer_entered, timed>>
      /\ pc[t] \in {"lock_shared", "lock_shared_late", "idle"} /\ Goto(t, "reading")
  BY DEF ReaderEnter, TryLockShared, ReadersFull
<1>2. TypeOK'
  BY <1>1, ConstantsAssumption DEF ConstantsAssumption, MutexInv, TypeOK, Goto, PC
<1>3. Cardinality(Reading') = Cardinality(Reading) + 1
  BY <1>1, ReadingAdd DEF MutexInv
<1>4. \A u \in Threads : pc'[u] \in Entered <=> pc[u] \in Entered
  BY <1>1 DEF MutexInv, TypeOK, Goto, Entered
<1>5. StateExact'
  BY <1>1, <1>3, <1>4 DEF MutexInv, StateExact
<1>6. \A u \in Threads : pc'[u] \notin Entered
  BY <1>1, <1>4 DEF MutexInv, StateExact
<1>7. WriterAlone'
  BY <1>6 DEF WriterAlone, Entered
<1> QED
  BY <1>2, <1>5, <1>7 DEF MutexInv

\* A reader leaves.
LEMMA ReaderLeaveInv ==
  ASSUME MutexInv, NEW t \in Threads, UnlockShared(t)
  PROVE  MutexInv'
<1>1. /\ pc[t] = "reading" /\ num_readers' = num_readers - 1
      /\ UNCHANGED <<writer_entered, timed>>
  BY DEF UnlockShared
<1>2. PICK l \in {"notify_wgate", "notify_rgate_one", "idle"} : Goto(t, l)
  BY DEF UnlockShared
<1>3. l \in PC \ {"reading"}
  BY DEF PC, Notifies
<1>4. Cardinality(Reading') = Cardinality(Reading) - 1
  BY <1>1, <1>2, <1>3, ReadingRemove DEF MutexInv
<1>5. t \in Reading /\ num_readers # 0
  BY <1>1, ReadingFinite DEF MutexInv, Reading
<1>6. TypeOK'
  BY <1>1, <1>2, <1>3, <1>5, ConstantsAssumption
  DEF ConstantsAssumption, MutexInv, TypeOK, Goto
<1>7. \A u \in Threads : /\ pc'[u] \in Entered <=> pc[u] \in Entered
                         /\ pc'[u] = "writing" <=> pc[u] = "writing"
  BY <1>1, <1>2 DEF MutexInv, TypeOK, Goto, Entered
<1>8. StateExact'
  BY <1>1, <1>4, <1>7 DEF MutexInv, StateExact
<1>9. WriterAlone'
  BY <1>5, <1>7 DEF MutexInv, WriterAlone
<1> QED
  BY <1>6, <1>8, <1>9 DEF MutexInv

\* Every step preserves the invariant.
LEMMA StepInv == MutexInv /\ [Next]_vars => MutexInv'
<1> SUFFICES ASSUME MutexInv, [Next]_vars PROVE MutexInv'
  OBVIOUS
<1>1. CASE UNCHANGED vars
  <2>1. Reading' = Reading
    BY <1>1 DEF vars, Reading
  <2> QED
    BY <1>1, <2>1 DEF vars, MutexInv, TypeOK, StateExact, WriterAlone
<1>2. ASSUME NEW t \in Threads,
             \/ Call(t) \/ Step(t) \/ Unlock(t) \/ UnlockShared(t)
             \/ Spurious(t) \/ Timeout(t)
      PROVE  MutexInv'
  BY <1>2, CallInv, WaitInv, EnterInv, DrainInv, LeaveInv, ReaderEnterInv,
     ReaderLeaveInv
  DEF Call, Step
<1> QED
  BY <1>1, <1>2 DEF Next

\* The inductive invariant holds in every reachable state.
LEMMA Invariance == Spec => []MutexInv
  BY InitInv, StepInv, PTL DEF Spec

\* The variables keep their types; in particular the reader count never spills
\* into the writer's bit.
THEOREM TypeCorrect == Spec => []TypeOK
<1>1. MutexInv => TypeOK
  BY DEF MutexInv
<1> QED
  BY <1>1, Invariance, PTL

\* The high bit says whether one writer is past the first gate, the low bits
\* count the readers, for any number of threads and any reader limit.
THEOREM StateAlwaysExact == Spec => []StateExact
<1>1. MutexInv => StateExact
  BY DEF MutexInv
<1> QED
  BY <1>1, Invariance, PTL

-----------------------------------------------------------------------------
(* Refinement of the reader-writer lock.                                   *)

\* The initial states map to initial states.
LEMMA InitRefined == Init => Abstract!Init
  BY DEF Init, Abstract!Init, Writing, Reading

\* A step by which nobody starts or stops reading or writing is a stutter.
LEMMA Stutter ==
  ASSUME \A t \in Threads : /\ pc'[t] = "reading" <=> pc[t] = "reading"
                            /\ pc'[t] = "writing" <=> pc[t] = "writing"
  PROVE  UNCHANGED <<Writing, Reading>>
  BY DEF Writing, Reading

\* Every step maps to a step of the reader-writer lock or to a stutter.
LEMMA StepRefined ==
  MutexInv /\ MutexInv' /\ [Next]_vars => [Abstract!Next]_<<Writing, Reading>>
<1> SUFFICES ASSUME MutexInv, MutexInv', [Next]_vars
             PROVE  [Abstract!Next]_<<Writing, Reading>>
  OBVIOUS
<1>1. CASE UNCHANGED vars
  BY <1>1 DEF vars, Writing, Reading
<1>2. ASSUME NEW t \in Threads,
             \/ Call(t) \/ Step(t) \/ Unlock(t) \/ UnlockShared(t)
             \/ Spurious(t) \/ Timeout(t)
      PROVE  [Abstract!Next]_<<Writing, Reading>>
  <2>1. CASE \E d \in BOOLEAN : CallLock(t, d) \/ CallLockShared(t, d)
    BY <2>1, Stutter DEF CallLock, CallLockShared, MutexInv, TypeOK, Goto
  <2>2. CASE WriterBlocked(t) \/ ReaderBlocked(t) \/ Spurious(t) \/ Timeout(t)
    BY <2>2, Stutter
    DEF WriterBlocked, ReaderBlocked, Spurious, Timeout, Awake, AtRgate, MutexInv, TypeOK,
        Goto
  <2>3. CASE NotifyRgateAll(t)
    BY <2>3, Stutter DEF NotifyRgateAll, Awake, AtRgate, MutexInv, TypeOK
  <2>4. CASE NotifyRgateOne(t) \/ NotifyWgate(t)
    <3>1. pc[t] \in {"notify_rgate_one", "notify_wgate"}
      BY <2>4 DEF NotifyRgateOne, NotifyWgate
    <3>2. PICK u \in Threads :
            \/ Goto(t, "idle")
            \/ /\ pc[u] \in AtRgate \cup {"wgate"}
               /\ pc' = [pc EXCEPT ![t] = "idle", ![u] = Awake(pc[u])]
      BY <2>4 DEF NotifyRgateOne, NotifyWgate, NotifyOne
    <3> QED
      BY <3>1, <3>2, Stutter DEF Awake, AtRgate, MutexInv, TypeOK, Goto
  <2>5. CASE WriterEnter(t) \/ TryLock(t) \/ WriterDrain(t)
    <3>1. PICK l \in {"writing", "wgate"} : Goto(t, l) /\ (l = "writing" => num_readers = 0)
      BY <2>5 DEF WriterEnter, TryLock, WriterDrain
    <3>2. pc[t] \notin {"reading", "writing"} /\ UNCHANGED num_readers
      BY <2>5 DEF WriterEnter, TryLock, WriterDrain
    <3>3. CASE l = "wgate"
      BY <3>1, <3>2, <3>3, Stutter DEF MutexInv, TypeOK, Goto
    <3>4. CASE l = "writing"
      <4>1. Reading = {} /\ Reading' = Reading
        BY <3>1, <3>2, <3>4, ReadingFinite DEF MutexInv, TypeOK, Goto, Reading
      <4>2. \A u \in Threads : pc'[u] = "writing" => u = t
        <5>1. pc'[t] \in Entered
          BY <3>1, <3>4 DEF MutexInv, TypeOK, Goto, Entered
        <5> QED
          BY <5>1 DEF MutexInv, StateExact, Entered
      <4>3. Writing = {} /\ Writing' = {t}
        BY <3>1, <3>2, <3>4, <4>2 DEF MutexInv, TypeOK, Goto, Writing
      <4> QED
        BY <4>1, <4>3 DEF Abstract!Next, Abstract!Lock
    <3> QED
      BY <3>1, <3>3, <3>4
  <2>6. CASE WriterGiveUp(t)
    BY <2>6, Stutter DEF WriterGiveUp, MutexInv, TypeOK, Goto
  <2>7. CASE Unlock(t)
    <3>1. t \in Writing /\ Reading' = Reading
      BY <2>7 DEF Unlock, MutexInv, TypeOK, Goto, Writing, Reading
    <3>2. \A u \in Threads : pc[u] = "writing" => u = t
      BY <2>7 DEF Unlock, MutexInv, StateExact, Entered
    <3>3. Writing' = {}
      BY <2>7, <3>2 DEF Unlock, MutexInv, TypeOK, Goto, Writing
    <3> QED
      BY <3>1, <3>3 DEF Abstract!Next, Abstract!Unlock
  <2>8. CASE ReaderEnter(t) \/ TryLockShared(t)
    <3>1. /\ ~writer_entered /\ num_readers # MaxReaders
          /\ pc[t] \in {"lock_shared", "lock_shared_late", "idle"} /\ Goto(t, "reading")
      BY <2>8 DEF ReaderEnter, TryLockShared, ReadersFull
    <3>2. Reading' = Reading \cup {t} /\ t \notin Reading
      BY <3>1, ReadingAdd DEF MutexInv, Reading
    <3>3. Cardinality(Reading) < MaxReaders
      <4>1. num_readers = Cardinality(Reading) /\ num_readers \in 0..MaxReaders
        BY DEF MutexInv, TypeOK, StateExact
      <4> QED
        BY <3>1, <4>1, ConstantsAssumption DEF ConstantsAssumption
    <3>4. Writing = {} /\ Writing' = Writing
      BY <3>1 DEF MutexInv, TypeOK, StateExact, Goto, Writing, Entered
    <3>5. Abstract!Cardinality(Reading) = Cardinality(Reading)
      BY DEF Abstract!Cardinality, Cardinality
    <3> QED
      BY <3>2, <3>3, <3>4, <3>5 DEF Abstract!Next, Abstract!LockShared
  <2>9. CASE UnlockShared(t)
    <3>1. PICK l \in {"notify_wgate", "notify_rgate_one", "idle"} : Goto(t, l)
      BY <2>9 DEF UnlockShared
    <3>2. pc[t] = "reading" /\ l \in PC \ {"reading"}
      BY <2>9 DEF UnlockShared, PC, Notifies
    <3>3. t \in Reading /\ Reading' = Reading \ {t}
      BY <3>1, <3>2, ReadingRemove DEF MutexInv, Reading
    <3>4. Writing' = Writing
      BY <3>1, <3>2 DEF MutexInv, TypeOK, Goto, Writing
    <3> QED
      BY <3>3, <3>4 DEF Abstract!Next, Abstract!UnlockShared
  <2> QED
    BY <1>2, <2>1, <2>2, <2>3, <2>4, <2>5, <2>6, <2>7, <2>8, <2>9 DEF Call, Step
<1> QED
  BY <1>1, <1>2 DEF Next

\* The two gates implement the reader-writer lock: with exclusive ownership a
\* thread is alone, for any number of threads and any reader limit.
THEOREM Refinement == Spec => ImplementsRWLock
  BY Invariance, InitRefined, StepRefined, PTL DEF Spec, ImplementsRWLock, Abstract!Spec

-----------------------------------------------------------------------------
(* Wake-ups, when there are no more threads than countable readers.        *)

FewThreads == Cardinality(Threads) <= MaxReaders

\* Who sleeps at an open gate will be notified.
GateInv ==
  /\ ~writer_entered /\ (\E t \in Threads : pc[t] \in AtRgate) =>
       \E u \in Threads : pc[u] = "notify_rgate_all"
  /\ num_readers = 0 /\ (\E t \in Threads : pc[t] = "wgate") =>
       \E u \in Threads : pc[u] = "notify_wgate"

\* Then a thread that does not read leaves room for one more reader.
LEMMA RoomForReader ==
  ASSUME FewThreads, TypeOK, StateExact, NEW t \in Threads, pc[t] # "reading"
  PROVE  ~ReadersFull
<1>1. Reading \subseteq Threads \ {t}
  BY DEF Reading
<1>2. IsFiniteSet(Threads) /\ MaxReaders \in Nat
  BY ConstantsAssumption DEF ConstantsAssumption
<1>3. /\ IsFiniteSet(Threads \ {t})
      /\ Cardinality(Threads \ {t}) = Cardinality(Threads) - 1
  BY <1>2, FS_RemoveElement
<1>4. Cardinality(Reading) <= Cardinality(Threads \ {t})
  BY <1>1, <1>3, FS_Subset
<1>5. Cardinality(Threads) \in Nat /\ num_readers \in Nat
  BY <1>2, FS_CardinalityType, ReadingFinite
<1> QED
  BY <1>2, <1>3, <1>4, <1>5 DEF FewThreads, ReadersFull, StateExact

\* Moving one thread to a place where it does not sleep keeps the promise, unless
\* it was about to notify or state changes.
LEMMA GateQuiet ==
  ASSUME MutexInv, GateInv, UNCHANGED <<writer_entered, num_readers>>,
         NEW t \in Threads, NEW l \in PC \ (AtRgate \cup {"wgate"}), Goto(t, l),
         pc[t] \notin {"notify_rgate_all", "notify_wgate"}
  PROVE  GateInv'
  BY DEF MutexInv, TypeOK, GateInv, Goto

\* Every step keeps the promise.
LEMMA GateStep == FewThreads /\ MutexInv /\ GateInv /\ [Next]_vars => GateInv'
<1> SUFFICES ASSUME FewThreads, MutexInv, GateInv, [Next]_vars PROVE GateInv'
  OBVIOUS
<1> USE DEF MutexInv, TypeOK, Goto
<1>1. CASE UNCHANGED vars
  BY <1>1 DEF vars, GateInv
<1>2. ASSUME NEW t \in Threads,
             \/ Call(t) \/ Step(t) \/ Unlock(t) \/ UnlockShared(t)
             \/ Spurious(t) \/ Timeout(t)
      PROVE  GateInv'
  <2>1. CASE \E d \in BOOLEAN : CallLock(t, d) \/ CallLockShared(t, d)
    BY <2>1 DEF CallLock, CallLockShared, GateInv, AtRgate
  <2>2. CASE WriterBlocked(t)
    BY <2>2 DEF WriterBlocked, GateInv, AtRgate
  <2>3. CASE ReaderBlocked(t)
    <3>1. writer_entered
      BY <2>3, RoomForReader DEF ReaderBlocked
    <3> QED
      BY <2>3, <3>1 DEF ReaderBlocked, GateInv, AtRgate
  <2>4. CASE WriterEnter(t) \/ TryLock(t)
    <3>1. \A u \in Threads : pc[u] # "wgate"
      BY <2>4 DEF WriterEnter, TryLock, StateExact, Entered
    <3> QED
      BY <2>4, <3>1 DEF WriterEnter, TryLock, GateInv, AtRgate
  <2>5. CASE WriterDrain(t)
    BY <2>5 DEF WriterDrain, GateInv, AtRgate
  <2>6. CASE WriterGiveUp(t) \/ Unlock(t)
    BY <2>6 DEF WriterGiveUp, Unlock, GateInv, AtRgate
  <2>7. CASE ReaderEnter(t) \/ TryLockShared(t)
    <3>1. num_readers' # 0
      BY <2>7, ReadingFinite DEF ReaderEnter, TryLockShared
    <3> QED
      BY <2>7, <3>1 DEF ReaderEnter, TryLockShared, GateInv, AtRgate
  <2>8. CASE UnlockShared(t)
    <3>1. CASE \E u \in Threads : pc'[u] = "wgate"
      <4>1. writer_entered
        BY <2>8, <3>1 DEF UnlockShared, StateExact, Entered
      <4> QED
        BY <2>8, <4>1 DEF UnlockShared, GateInv, AtRgate
    <3>2. CASE ~\E u \in Threads : pc'[u] = "wgate"
      BY <2>8, <3>2 DEF UnlockShared, GateInv, AtRgate
    <3> QED
      BY <3>1, <3>2
  <2>9. CASE NotifyRgateAll(t)
    BY <2>9 DEF NotifyRgateAll, Awake, GateInv, AtRgate
  <2>10. CASE NotifyRgateOne(t)
    <3>1. PICK u \in Threads :
            \/ pc' = [pc EXCEPT ![t] = "idle"]
            \/ /\ pc[u] \in AtRgate
               /\ pc' = [pc EXCEPT ![t] = "idle", ![u] = Awake(pc[u])]
      BY <2>10 DEF NotifyRgateOne, NotifyOne
    <3> QED
      BY <2>10, <3>1 DEF NotifyRgateOne, NotifyOne, Awake, GateInv, AtRgate
  <2>11. CASE NotifyWgate(t)
    <3>1. PICK u \in Threads :
            \/ pc' = [pc EXCEPT ![t] = "idle"] /\ \A v \in Threads : pc[v] # "wgate"
            \/ /\ pc[u] = "wgate"
               /\ pc' = [pc EXCEPT ![t] = "idle", ![u] = "drain"]
      BY <2>11 DEF NotifyWgate, NotifyOne, Awake
    <3>2. \A v \in Threads : pc'[v] # "wgate"
      BY <2>11, <3>1 DEF NotifyWgate, StateExact, Entered
    <3> QED
      BY <2>11, <3>1, <3>2 DEF NotifyWgate, NotifyOne, GateInv, AtRgate
  <2>12. CASE Spurious(t) \/ Timeout(t)
    <3>1. PICK l \in {"lock", "lock_shared", "drain", "lock_late", "lock_shared_late",
                      "drain_late"} : Goto(t, l)
      BY <2>12 DEF Spurious, Timeout, Awake, AtRgate
    <3>2. l \in PC \ (AtRgate \cup {"wgate"})
      BY DEF PC, AtRgate, Entered
    <3>3. /\ UNCHANGED <<writer_entered, num_readers>>
          /\ pc[t] \notin {"notify_rgate_all", "notify_wgate"}
      BY <2>12 DEF Spurious, Timeout, AtRgate
    <3> QED
      BY <3>1, <3>2, <3>3, GateQuiet
  <2> QED
    BY <1>2, <2>1, <2>2, <2>3, <2>4, <2>5, <2>6, <2>7, <2>8, <2>9, <2>10, <2>11, <2>12
    DEF Call, Step
<1> QED
  BY <1>1, <1>2 DEF Next

\* Although notifications come after the unlock no wake-up is lost, as long as
\* there are no more threads than the mutex can count readers.
THEOREM WakeupSafe ==
  ASSUME FewThreads
  PROVE  Spec => []NoLostWakeup
<1>1. Init => GateInv
  BY DEF Init, GateInv, AtRgate
<1>2. MutexInv /\ GateInv /\ [Next]_vars => GateInv'
  BY GateStep
<1>3. GateInv => NoLostWakeup
  BY DEF GateInv, NoLostWakeup
<1> QED
  BY <1>1, <1>2, <1>3, Invariance, PTL DEF Spec

=============================================================================
