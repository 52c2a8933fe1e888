------------------------- MODULE MCQueuedSemaphore --------------------------
(***************************************************************************)
(* Instances of QueuedSemaphore for TLC.                                   *)
(***************************************************************************)
EXTENDS QueuedSemaphore, TLC

CONSTANTS a, b

\* Any thread makes any call with any request size.
MenuAny == [t \in Threads |-> Ops \X Requests]

\* Only the blocking calls, which queue: no barging try_acquire().
MenuQueueing == [t \in Threads |-> {"acquire", "timed"} \X Requests]

\* A patient thread behind an impatient one that asks for more.
MenuTimedAhead == a :> {<<"timed", 2>>} @@ b :> {<<"acquire", 1>>}

Symmetric == Permutations(Threads)

=============================================================================
