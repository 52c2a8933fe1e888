----------------------------- MODULE Semaphore ------------------------------
(***************************************************************************)
(* What a counting semaphore promises, whatever its queueing discipline:   *)
(* permits are handed to a thread only when that many are available, come  *)
(* back only from a thread that has them or by an explicit issue, and no   *)
(* other step touches them.                                                *)
(***************************************************************************)
EXTENDS Integers

CONSTANTS
  Threads,
  Sizes,           \* how many permits one operation can ask for
  InitialPermits

VARIABLES permits, held

Init == permits = InitialPermits /\ held = [t \in Threads |-> 0]

Take(t, n) ==
  /\ permits >= n
  /\ permits' = permits - n
  /\ held' = [held EXCEPT ![t] = @ + n]

Give(t, n) ==
  /\ held[t] >= n
  /\ permits' = permits + n
  /\ held' = [held EXCEPT ![t] = @ - n]

Issue(n) == permits' = permits + n /\ UNCHANGED held

Next ==
  \E n \in Sizes :
    \/ \E t \in Threads : Take(t, n) \/ Give(t, n)
    \/ Issue(n)

Spec == Init /\ [][Next]_<<permits, held>>

=============================================================================
