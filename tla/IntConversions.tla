--------------------------- MODULE IntConversions ---------------------------
(***************************************************************************)
(* int and unsigned int, as the semaphores mix them (semaphore.h): a count *)
(* of permits is an int, the size of a request an unsigned int.            *)
(***************************************************************************)
EXTENDS Integers

CONSTANT IntMax   \* the largest int, 2^31 - 1 in the code

ASSUME IntMaxAssumption == IntMax \in Nat \ {0}

\* The number of values of unsigned int, and the values.
UIntRange == 2 * (IntMax + 1)
UnsignedInt == 0..(UIntRange - 1)

\* An unsigned int cast to int, or added to or subtracted from one.
AsInt(n) == IF n <= IntMax THEN n ELSE n - UIntRange

\* An int compared with an unsigned int is converted to unsigned first.
AsUnsigned(n) == IF n < 0 THEN n + UIntRange ELSE n

=============================================================================
