------------------------- MODULE MCLinkedSemaphore --------------------------
(***************************************************************************)
(* LinkedSemaphore with the constants of MCQueuedSemaphore.                *)
(***************************************************************************)
EXTENDS LinkedSemaphore, MCQueuedSemaphore

=============================================================================
