------------------------------- MODULE RWLock -------------------------------
(***************************************************************************)
(* What a reader-writer lock promises, whatever its gates and its queues:  *)
(* a writer is alone, and there are never more readers than the lock can   *)
(* count.                                                                  *)
(***************************************************************************)
EXTENDS Integers, FiniteSets

CONSTANTS Threads, MaxReaders

VARIABLES writing, reading   \* the threads with exclusive and shared ownership

Init == writing = {} /\ reading = {}

Lock(t) ==
  /\ writing = {} /\ reading = {}
  /\ writing' = {t} /\ UNCHANGED reading

Unlock(t) ==
  /\ t \in writing
  /\ writing' = {} /\ UNCHANGED reading

LockShared(t) ==
  /\ writing = {} /\ t \notin reading /\ Cardinality(reading) < MaxReaders
  /\ reading' = reading \cup {t} /\ UNCHANGED writing

UnlockShared(t) ==
  /\ t \in reading
  /\ reading' = reading \ {t} /\ UNCHANGED writing

Next ==
  \E t \in Threads : Lock(t) \/ Unlock(t) \/ LockShared(t) \/ UnlockShared(t)

Spec == Init /\ [][Next]_<<writing, reading>>

=============================================================================
