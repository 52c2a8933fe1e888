------------------------- MODULE MCSimpleSemaphore --------------------------
(***************************************************************************)
(* Instances of SimpleSemaphore for TLC.                                   *)
(***************************************************************************)
EXTENDS SimpleSemaphore, TLC

\* Every call with every size, but try_acquire_until() only for one permit.
MenuSound ==
  [t \in Threads |-> ((Ops \ {"until"}) \X Requests) \cup {<<"until", 1>>}]

Symmetric == Permutations(Threads)

=============================================================================
