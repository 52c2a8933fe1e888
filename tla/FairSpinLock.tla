---------------------------- MODULE FairSpinLock ----------------------------
(***************************************************************************)
(* conc11::FairSpinLock (src/concurrency/spin_lock.h), a ticket lock.      *)
(*                                                                         *)
(* Its counters are unsigned and wrap around. A pass of the loop in lock() *)
(* that does not find its ticket changes nothing but a local counter, so   *)
(* only the pass that does is a step.                                      *)
(***************************************************************************)
EXTENDS Integers, Sequences, FiniteSets

CONSTANTS
  Threads,
  TicketRange   \* 2^(width of unsigned int)

\* A ticket is not given out again before its first holder is done.
ASSUME TicketAssumption ==
  /\ IsFiniteSet(Threads)
  /\ TicketRange \in Nat \ {0} /\ Cardinality(Threads) <= TicketRange

VARIABLES
  next,
  active,
  ticket,   \* the local variable of lock()
  line      \* history: the threads with a ticket, in the order they drew it

LockInit ==
  /\ next = 0 /\ active = 0
  /\ ticket = [t \in Threads |-> 0]
  /\ line = <<>>

StaleTicket(t) ==   \* mutant: the counter is read and advanced in two steps
  /\ \E n \in {next, (next + TicketRange - 1) % TicketRange} : ticket' = [ticket EXCEPT ![t] = n]
  /\ next' = (next + 1) % TicketRange
  /\ line' = Append(line, t)
  /\ UNCHANGED active

\* next.fetch_add(1)
TakeTicket(t) ==
  /\ ticket' = [ticket EXCEPT ![t] = next]
  /\ next' = (next + 1) % TicketRange
  /\ line' = Append(line, t)
  /\ UNCHANGED active

\* active.load() is the thread's ticket: lock() returns.
Admitted(t) == active = ticket[t]

\* unlock(); the local variable of lock() is gone.
PassOn(t) ==
  /\ active' = (active + 1) % TicketRange
  /\ ticket' = [ticket EXCEPT ![t] = 0]
  /\ line' = Tail(line)
  /\ UNCHANGED next

=============================================================================
