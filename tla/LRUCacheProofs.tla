--------------------------- MODULE LRUCacheProofs ---------------------------
(***************************************************************************)
(* Proofs about LRUCache under its FairSpinLock, for any number of threads *)
(* up to the number of tickets, any keys, values and capacities.           *)
(***************************************************************************)
EXTENDS LRUCache, SequenceTheorems, FiniteSetTheorems, WellFoundedInduction, TLAPS

-----------------------------------------------------------------------------
(* The ticket lock.                                                        *)

Outside == {"idle", "spin"}
Within == {"find", "move_release", "move_insert", "insert_new", "gc",
           "drop_release", "drop_erase", "unlock"}

Occurs(x, s) == \E i \in 1..Len(s) : s[i] = x

Distinct(s) == \A i, j \in 1..Len(s) : s[i] = s[j] => i = j

(***************************************************************************)
(* The line is who has a ticket, and the tickets in it are consecutive     *)
(* from active on, modulo the range of the counters. ServedInOrder is not  *)
(* inductive without this: that the ticket which equals active is the one  *)
(* of the head is what lock() relies on, and it is only true because the   *)
(* line is never longer than the range.                                    *)
(***************************************************************************)
LineInv ==
  /\ pc \in [Threads -> Outside \cup Within]
  /\ line \in Seq(Threads) /\ Distinct(line)
  /\ \A t \in Threads : pc[t] # "idle" <=> Occurs(t, line)
  /\ active \in Nat /\ active < TicketRange
  /\ ticket \in [Threads -> Nat]
  /\ \A i \in 1..Len(line) : ticket[line[i]] = (active + i - 1) % TicketRange
  /\ next = (active + Len(line)) % TicketRange

\* One wrap-around of a counter.
LEMMA WrapAround ==
  ASSUME NEW n \in Nat, n < 2 * TicketRange
  PROVE  n % TicketRange = IF n < TicketRange THEN n ELSE n - TicketRange
<1> USE TicketAssumption DEF TicketAssumption
<1>1. CASE n < TicketRange
  BY <1>1
<1>2. CASE ~(n < TicketRange)
  <2>1. PICK m \in Nat : n = m + TicketRange
    BY <1>2
  <2>2. m < TicketRange
    BY <2>1
  <2>3. (m + TicketRange) % TicketRange = m
    BY <2>2
  <2> QED
    BY <1>2, <2>1, <2>3
<1> QED
  BY <1>1, <1>2

\* Counting on from a ticket a, fewer than TicketRange further.
LEMMA Counting ==
  ASSUME NEW a \in Nat, a < TicketRange, NEW n \in Nat, n < TicketRange
  PROVE  /\ (a + n) % TicketRange \in Nat /\ (a + n) % TicketRange < TicketRange
         /\ (a + n) % TicketRange = a => n = 0
         /\ (((a + n) % TicketRange) + 1) % TicketRange = (a + n + 1) % TicketRange
         /\ (((a + 1) % TicketRange) + n) % TicketRange = (a + n + 1) % TicketRange
<1> DEFINE W(x) == IF x < TicketRange THEN x ELSE x - TicketRange
<1>0. TicketRange \in Nat /\ TicketRange > 0
  BY TicketAssumption DEF TicketAssumption
<1>1. (a + n) % TicketRange = W(a + n)
  BY <1>0, WrapAround
<1>2. (a + n + 1) % TicketRange = W(a + n + 1)
  BY <1>0, WrapAround
<1>3. (a + 1) % TicketRange = W(a + 1)
  BY <1>0, WrapAround
<1>4. (W(a + n) + 1) % TicketRange = W(W(a + n) + 1)
  <2> DEFINE x == W(a + n) + 1
  <2>1. x \in Nat /\ x < 2 * TicketRange
    BY <1>0
  <2> HIDE DEF x
  <2>2. x % TicketRange = W(x)
    BY <2>1, WrapAround
  <2> QED
    BY <2>2 DEF x
<1>5. (W(a + 1) + n) % TicketRange = W(W(a + 1) + n)
  <2> DEFINE x == W(a + 1) + n
  <2>1. x \in Nat /\ x < 2 * TicketRange
    BY <1>0
  <2> HIDE DEF x
  <2>2. x % TicketRange = W(x)
    BY <2>1, WrapAround
  <2> QED
    BY <2>2 DEF x
<1>6. W(W(a + n) + 1) = W(a + n + 1) /\ W(W(a + 1) + n) = W(a + n + 1)
  BY <1>0
<1>7. W(a + n) \in Nat /\ W(a + n) < TicketRange /\ (W(a + n) = a => n = 0)
  BY <1>0
<1> HIDE DEF W
<1> QED
  BY <1>1, <1>2, <1>3, <1>4, <1>5, <1>6, <1>7

\* A line of threads, each in it once, is no longer than there are tickets.
LEMMA LineFits ==
  ASSUME NEW s \in Seq(Threads), Distinct(s)
  PROVE  Len(s) \in Nat /\ Len(s) <= TicketRange
<1>1. Len(s) \in Nat /\ s \in [1..Len(s) -> Threads]
  BY LenProperties
<1>2. s \in Injection(1..Len(s), Threads)
  BY <1>1 DEF Injection, IsInjective, Distinct
<1>3. Cardinality(1..Len(s)) <= Cardinality(Threads)
  BY <1>2, FS_Injection, TicketAssumption DEF TicketAssumption
<1>4. Cardinality(1..Len(s)) = Len(s)
  BY <1>1, FS_Interval
<1>5. Cardinality(Threads) \in Nat
  BY FS_CardinalityType, TicketAssumption DEF TicketAssumption
<1> QED
  BY <1>1, <1>3, <1>4, <1>5, TicketAssumption DEF TicketAssumption

LEMMA JoinLine ==
  ASSUME NEW s \in Seq(Threads), NEW t \in Threads, Distinct(s), ~Occurs(t, s)
  PROVE  /\ Append(s, t) \in Seq(Threads) /\ Distinct(Append(s, t))
         /\ \A x : Occurs(x, Append(s, t)) <=> Occurs(x, s) \/ x = t
         /\ Len(Append(s, t)) = Len(s) + 1
         /\ \A i \in 1..Len(s) : Append(s, t)[i] = s[i]
         /\ Append(s, t)[Len(s) + 1] = t
         /\ s # <<>> => Head(Append(s, t)) = Head(s)
         /\ Append(s, t) # <<>>
<1>1. /\ Append(s, t) \in Seq(Threads) /\ Len(s) \in Nat /\ Append(s, t) # <<>>
      /\ Len(Append(s, t)) = Len(s) + 1
      /\ \A i \in 1..Len(s) : Append(s, t)[i] = s[i]
      /\ Append(s, t)[Len(s) + 1] = t
  BY AppendProperties, LenProperties
<1>2. Distinct(Append(s, t))
  BY <1>1 DEF Distinct, Occurs
<1>3. \A x : Occurs(x, Append(s, t)) <=> Occurs(x, s) \/ x = t
  BY <1>1 DEF Occurs
<1>4. s # <<>> => Head(Append(s, t)) = Head(s)
  BY <1>1, EmptySeq
<1> QED
  BY <1>1, <1>2, <1>3, <1>4

LEMMA LeaveLine ==
  ASSUME NEW s \in Seq(Threads), Distinct(s), s # <<>>
  PROVE  /\ Tail(s) \in Seq(Threads) /\ Distinct(Tail(s))
         /\ \A x : Occurs(x, Tail(s)) <=> Occurs(x, s) /\ x # Head(s)
         /\ Len(s) > 0 /\ Len(Tail(s)) = Len(s) - 1
         /\ \A i \in 1..Len(Tail(s)) : Tail(s)[i] = s[i + 1]
<1>1. /\ Len(s) \in Nat /\ Len(s) > 0 /\ Tail(s) \in Seq(Threads)
      /\ Len(Tail(s)) = Len(s) - 1 /\ Head(s) = s[1]
      /\ \A i \in 1..Len(Tail(s)) : Tail(s)[i] = s[i + 1]
  BY HeadTailProperties, LenProperties, EmptySeq
<1>2. Distinct(Tail(s))
  BY <1>1 DEF Distinct
<1>3. ASSUME NEW x, Occurs(x, Tail(s)) PROVE Occurs(x, s) /\ x # Head(s)
  BY <1>1, <1>3 DEF Distinct, Occurs
<1>4. ASSUME NEW x, Occurs(x, s), x # Head(s) PROVE Occurs(x, Tail(s))
  <2>1. PICK i \in 1..Len(s) : s[i] = x
    BY <1>4 DEF Occurs
  <2>2. i - 1 \in 1..Len(Tail(s)) /\ Tail(s)[i - 1] = s[i]
    BY <1>1, <1>4, <2>1
  <2> QED
    BY <2>1, <2>2 DEF Occurs
<1> QED
  BY <1>1, <1>2, <1>3, <1>4

\* The thread whose ticket is active is the head of the line.
LEMMA AdmittedIsHead ==
  ASSUME LineInv, NEW t \in Threads, pc[t] # "idle", Admitted(t)
  PROVE  line # <<>> /\ Head(line) = t
<1>1. PICK i \in 1..Len(line) : line[i] = t
  BY DEF LineInv, Occurs
<1>2. Len(line) \in Nat /\ Len(line) <= TicketRange
  BY LineFits DEF LineInv
<1>3. active = (active + i - 1) % TicketRange /\ active \in Nat /\ active < TicketRange
  BY <1>1 DEF LineInv, Admitted
<1> DEFINE n == i - 1
<1>4. n \in Nat /\ n < TicketRange /\ active + i - 1 = active + n
  BY <1>2, <1>3, TicketAssumption DEF TicketAssumption
<1> HIDE DEF n
<1>5. n = 0
  <2>1. active = (active + n) % TicketRange
    BY <1>3, <1>4
  <2>2. (active + n) % TicketRange = active => n = 0
    BY <1>3, <1>4, Counting
  <2> QED
    BY <2>1, <2>2
<1>6. i = 1
  BY <1>5 DEF n
<1> QED
  BY <1>1, <1>2, <1>6, HeadTailProperties, EmptySeq DEF LineInv

\* What a step within a call does to the lock, whatever it does to the cache.
Inner(t) ==
  /\ pc[t] \in Within \ {"unlock"}
  /\ \E l \in Within : Goto(t, l)
  /\ UNCHANGED lockVars

LEMMA StepKinds ==
  ASSUME [Next]_vars
  PROVE  \/ UNCHANGED vars
         \/ \E t \in Threads : Lock(t) \/ Enter(t) \/ Unlock(t) \/ Inner(t)
<1> SUFFICES ASSUME NEW t \in Threads,
                    \/ NotFound(t) \/ HasKey(t) \/ SetNew(t) \/ SetKnown(t) \/ Get(t)
                    \/ Take(t) \/ Clear(t) \/ Release(t) \/ Insert(t) \/ Gc(t) \/ Erase(t)
             PROVE  Inner(t)
  BY DEF Next, Step
<1> USE DEF Inner, Goto, Within, Hit, Miss
<1>1. CASE NotFound(t)
  BY <1>1 DEF NotFound
<1>2. CASE HasKey(t)
  BY <1>2 DEF HasKey
<1>3. CASE SetNew(t)
  BY <1>3 DEF SetNew
<1>4. CASE SetKnown(t)
  BY <1>4 DEF SetKnown
<1>5. CASE Get(t)
  BY <1>5 DEF Get
<1>6. CASE Take(t)
  BY <1>6 DEF Take
<1>7. CASE Clear(t)
  BY <1>7 DEF Clear
<1>8. CASE Release(t)
  BY <1>8 DEF Release
<1>9. CASE Insert(t)
  BY <1>9 DEF Insert
<1>10. CASE Gc(t)
  BY <1>10 DEF Gc
<1>11. CASE Erase(t)
  BY <1>11 DEF Erase
<1> QED
  BY <1>1, <1>2, <1>3, <1>4, <1>5, <1>6, <1>7, <1>8, <1>9, <1>10, <1>11

LEMMA LineInit == Init => LineInv /\ ServedInOrder
<1> SUFFICES ASSUME Init PROVE LineInv /\ ServedInOrder
  OBVIOUS
<1>1. /\ line = <<>> /\ line \in Seq(Threads) /\ Len(line) = 0
      /\ pc = [t \in Threads |-> "idle"] /\ ticket = [t \in Threads |-> 0]
      /\ active = 0 /\ next = 0
  BY EmptySeq DEF Init, LockInit
<1>2. 0 % TicketRange = 0 /\ 0 < TicketRange
  BY WrapAround, TicketAssumption DEF TicketAssumption
<1> QED
  BY <1>1, <1>2 DEF LineInv, ServedInOrder, Outside, Distinct, Occurs

LEMMA LineStep ==
  ASSUME LineInv, ServedInOrder, [Next]_vars
  PROVE  LineInv' /\ ServedInOrder'
<1> USE DEF Outside, Within
<1>a. /\ pc \in [Threads -> Outside \cup Within] /\ line \in Seq(Threads)
      /\ Distinct(line) /\ \A t \in Threads : pc[t] # "idle" <=> Occurs(t, line)
      /\ active \in Nat /\ active < TicketRange /\ ticket \in [Threads -> Nat]
      /\ \A i \in 1..Len(line) : ticket[line[i]] = (active + i - 1) % TicketRange
      /\ next = (active + Len(line)) % TicketRange
      /\ Len(line) \in Nat /\ Len(line) <= TicketRange
      /\ TicketRange \in Nat /\ TicketRange > 0
  BY LineFits, TicketAssumption DEF LineInv, TicketAssumption
<1>1. CASE UNCHANGED vars
  BY <1>1 DEF vars, lockVars, LineInv, ServedInOrder, Occurs, Distinct
\* Threads that have a ticket already do not change the line.
<1>2. ASSUME NEW t \in Threads, NEW l \in Within, pc[t] # "idle", Goto(t, l),
             UNCHANGED lockVars
      PROVE  LineInv'
  <2>1. UNCHANGED <<next, active, ticket, line>> /\ pc' \in [Threads -> Outside \cup Within]
    BY <1>2, <1>a DEF lockVars, Goto
  <2>2. \A u \in Threads : pc'[u] # "idle" <=> pc[u] # "idle"
    BY <1>2, <1>a DEF Goto
  <2> QED
    BY <1>a, <2>1, <2>2 DEF LineInv, Occurs, Distinct
<1>3. ASSUME NEW t \in Threads, Lock(t) PROVE LineInv' /\ ServedInOrder'
  <2>1. /\ pc[t] = "idle" /\ pc' = [pc EXCEPT ![t] = "spin"]
        /\ ticket' = [ticket EXCEPT ![t] = next] /\ active' = active
        /\ next' = (next + 1) % TicketRange /\ line' = Append(line, t)
    BY <1>3 DEF Lock, TakeTicket, Goto
  <2>2. ~Occurs(t, line)
    BY <1>a, <2>1
  <2>3. /\ line' \in Seq(Threads) /\ Distinct(line')
        /\ \A x : Occurs(x, line') <=> Occurs(x, line) \/ x = t
        /\ Len(line') = Len(line) + 1
        /\ \A i \in 1..Len(line) : line'[i] = line[i]
        /\ line'[Len(line) + 1] = t
        /\ line # <<>> => Head(line') = Head(line)
        /\ line' # <<>>
    BY <1>a, <2>1, <2>2, JoinLine
  <2>4. Len(line) + 1 <= TicketRange
    BY <2>3, LineFits
  <2>5. next \in Nat /\ next < TicketRange
    BY <1>a, <2>4, Counting
  <2>6. ticket' \in [Threads -> Nat]
    BY <1>a, <2>1, <2>5
  <2>7. \A i \in 1..Len(line') : ticket'[line'[i]] = (active' + i - 1) % TicketRange
    <3>1. ASSUME NEW i \in 1..Len(line')
          PROVE  ticket'[line'[i]] = (active' + i - 1) % TicketRange
      <4>1. CASE i <= Len(line)
        <5>1. line'[i] = line[i] /\ line[i] # t /\ line[i] \in Threads
          BY <1>a, <2>2, <2>3, <4>1, ElementOfSeq DEF Occurs
        <5> QED
          BY <1>a, <2>1, <4>1, <5>1
      <4>2. CASE i = Len(line) + 1
        <5>1. active' + i - 1 = active + Len(line)
          BY <1>a, <2>1, <4>2
        <5> QED
          BY <1>a, <2>1, <2>3, <4>2, <5>1
      <4> QED
        BY <1>a, <2>3, <4>1, <4>2
    <3> QED
      BY <3>1
  <2>8. next' = (active' + Len(line')) % TicketRange
    <3>1. Len(line) < TicketRange
      BY <1>a, <2>4
    <3>2. (next + 1) % TicketRange = (active + Len(line) + 1) % TicketRange
      BY <1>a, <3>1, Counting
    <3>3. active' + Len(line') = active + Len(line) + 1
      BY <1>a, <2>1, <2>3
    <3> QED
      BY <2>1, <3>2, <3>3
  <2>9. \A u \in Threads : pc'[u] # "idle" <=> Occurs(u, line')
    BY <1>a, <2>1, <2>3
  <2>10. LineInv'
    BY <1>a, <2>1, <2>3, <2>6, <2>7, <2>8, <2>9 DEF LineInv
  <2>11. ServedInOrder'
    BY <1>a, <2>1, <2>3 DEF ServedInOrder
  <2> QED
    BY <2>10, <2>11
<1>4. ASSUME NEW t \in Threads, Enter(t) PROVE LineInv' /\ ServedInOrder'
  <2>1. /\ pc[t] = "spin" /\ Admitted(t) /\ Goto(t, "find") /\ UNCHANGED lockVars
        /\ pc' = [pc EXCEPT ![t] = "find"] /\ line' = line
    BY <1>4 DEF Enter, Goto, lockVars
  <2>2. line # <<>> /\ Head(line) = t
    BY <2>1, AdmittedIsHead
  <2>3. ServedInOrder'
    BY <1>a, <2>1, <2>2 DEF ServedInOrder
  <2> QED
    BY <1>2, <2>1, <2>3
<1>5. ASSUME NEW t \in Threads, Unlock(t) PROVE LineInv' /\ ServedInOrder'
  <2>1. /\ pc[t] = "unlock" /\ pc' = [pc EXCEPT ![t] = "idle"]
        /\ ticket' = [ticket EXCEPT ![t] = 0] /\ next' = next
        /\ active' = (active + 1) % TicketRange /\ line' = Tail(line)
    BY <1>5 DEF Unlock, PassOn, Goto
  <2>2. line # <<>> /\ Head(line) = t
    BY <2>1 DEF ServedInOrder
  <2>3. /\ line' \in Seq(Threads) /\ Distinct(line')
        /\ \A x : Occurs(x, line') <=> Occurs(x, line) /\ x # t
        /\ Len(line') = Len(line) - 1 /\ Len(line) > 0
        /\ \A i \in 1..Len(line') : line'[i] = line[i + 1]
    BY <1>a, <2>1, <2>2, LeaveLine
  <2>4. active' \in Nat /\ active' < TicketRange
    <3>1. (active + 1) % TicketRange \in Nat /\ (active + 1) % TicketRange < TicketRange
      BY <1>a
    <3> QED
      BY <2>1, <3>1
  \* Counting from the new active ticket one fewer comes to the same.
  <2>6. ASSUME NEW n \in 0..(Len(line) - 1)
        PROVE  (active' + n) % TicketRange = (active + n + 1) % TicketRange
    <3>1. n \in Nat /\ n < TicketRange
      BY <1>a
    <3> QED
      BY <1>a, <2>1, <3>1, Counting
  <2>7. ASSUME NEW i \in 1..Len(line')
        PROVE  ticket'[line'[i]] = (active' + i - 1) % TicketRange
    <3>1. line'[i] = line[i + 1] /\ i + 1 \in 1..Len(line) /\ line[i + 1] \in Threads
      BY <1>a, <2>3, ElementOfSeq
    <3>2. line[i + 1] # t
      BY <1>a, <2>1, <2>3, <3>1 DEF Occurs
    <3>3. ticket'[line'[i]] = (active + (i + 1) - 1) % TicketRange
      BY <1>a, <2>1, <3>1, <3>2
    <3>4. i - 1 \in 0..(Len(line) - 1)
      BY <1>a, <2>3
    <3>5. (active' + (i - 1)) % TicketRange = (active + (i - 1) + 1) % TicketRange
      BY <2>6, <3>4
    <3>6. active' + (i - 1) = active' + i - 1 /\ active + (i - 1) + 1 = active + (i + 1) - 1
      BY <1>a, <2>4
    <3> QED
      BY <3>3, <3>5, <3>6
  <2>8. next' = (active' + Len(line')) % TicketRange
    <3>1. Len(line') \in 0..(Len(line) - 1) /\ active + Len(line') + 1 = active + Len(line)
      BY <1>a, <2>3
    <3> QED
      BY <1>a, <2>1, <2>6, <3>1
  <2>9. ticket' \in [Threads -> Nat] /\ pc' \in [Threads -> Outside \cup Within]
    BY <1>a, <2>1
  <2>10. \A u \in Threads : pc'[u] # "idle" <=> Occurs(u, line')
    BY <1>a, <2>1, <2>3
  <2>11. LineInv'
    BY <2>3, <2>4, <2>7, <2>8, <2>9, <2>10 DEF LineInv
  <2>12. ServedInOrder'
    <3>1. \A u \in Threads : pc'[u] \in {"idle", "spin"}
      BY <1>a, <2>1, <2>2 DEF ServedInOrder
    <3> QED
      BY <3>1 DEF ServedInOrder
  <2> QED
    BY <2>11, <2>12
<1>6. ASSUME NEW t \in Threads, Inner(t) PROVE LineInv' /\ ServedInOrder'
  <2>1. PICK l \in Within : Goto(t, l)
    BY <1>6 DEF Inner
  <2>2. pc[t] \in Within \ {"unlock"} /\ UNCHANGED lockVars /\ line' = line
    BY <1>6 DEF Inner, lockVars
  <2>3. ServedInOrder'
    BY <1>a, <2>1, <2>2 DEF ServedInOrder, Goto
  <2> QED
    BY <1>2, <2>1, <2>2, <2>3
<1> QED
  BY <1>1, <1>3, <1>4, <1>5, <1>6, StepKinds

\* "A fair spin lock": threads get the lock in the order in which they drew their
\* tickets and one at a time, for counters of any width, however often they wrap
\* around, as long as there are no more threads than tickets.
THEOREM AlwaysServedInOrder == Spec => []ServedInOrder
<1>1. LineInv /\ ServedInOrder /\ [Next]_vars => LineInv' /\ ServedInOrder'
  BY LineStep
<1> QED
  BY <1>1, LineInit, PTL DEF Spec

-----------------------------------------------------------------------------
(* The list of elements.                                                   *)

\* Every non-empty set of numbers has a least one.
LEMMA LeastNumber ==
  ASSUME NEW T, T \subseteq Nat, T # {}
  PROVE  \E n \in T : \A m \in T : n <= m
<1>1. PICK n \in T : \A m \in T : <<m, n>> \notin OpToRel(<, Nat)
  BY NatLessThanWellFounded, WFMin, Zenon
<1>2. \A m \in T : ~(m < n)
  BY <1>1 DEF OpToRel
<1> QED
  BY <1>2

\* The elements D of the map are those of the list, in the order s.
IsList(s, D) ==
  /\ s \in Seq(D) /\ \A k \in D : Occurs(k, s)
  /\ Linked(s)

LEMMA ListCount ==
  ASSUME NEW D, NEW s, IsList(s, D)
  PROVE  /\ IsFiniteSet(D) /\ Cardinality(D) = Len(s) /\ Len(s) \in Nat
         /\ s \in [1..Len(s) -> D] /\ Distinct(s)
<1>1. Len(s) \in Nat /\ s \in [1..Len(s) -> D]
  BY LenProperties DEF IsList
<1>2. Distinct(s) /\ \A k \in D : \E i \in 1..Len(s) : s[i] = k
  BY DEF IsList, Linked, Distinct, Occurs
<1>3. s \in Bijection(1..Len(s), D)
  BY <1>1, <1>2 DEF Bijection, Injection, Surjection, IsInjective, Distinct
<1>4. IsFiniteSet(1..Len(s)) /\ Cardinality(1..Len(s)) = Len(s)
  BY <1>1, FS_Interval
<1>5. ExistsBijection(1..Len(s), D)
  BY <1>3 DEF ExistsBijection
<1> QED
  BY <1>1, <1>2, <1>4, <1>5, FS_Bijection

\* The pointers leave no choice of the order.
LEMMA ListUnique ==
  ASSUME NEW s \in Orders, NEW w \in Orders, Linked(s), Linked(w),
         Cardinality(DOMAIN mem) \in Nat
  PROVE  s = w
<1> DEFINE n == Cardinality(DOMAIN mem)
           T == {i \in 1..n : s[i] # w[i]}
<1>1. n \in Nat /\ s \in [1..n -> DOMAIN mem] /\ w \in [1..n -> DOMAIN mem]
  BY DEF Orders
<1>2. Len(s) = n /\ Len(w) = n
  BY <1>1
<1>3. ASSUME T # {} PROVE FALSE
  <2>1. PICK i \in T : \A j \in T : i <= j
    <3>1. T \subseteq Nat
      BY <1>1
    <3> QED
      BY <1>3, <3>1, LeastNumber
  <2>2. i \in 1..n /\ s[i] # w[i]
    BY <2>1
  <2>3. CASE i = 1
    <3>1. s # <<>> /\ w # <<>>
      BY <1>1, <1>2, <2>2, EmptySeq
    <3> QED
      BY <2>2, <2>3, <3>1 DEF Linked
  <2>4. CASE i # 1
    <3>1. i - 1 \in 1..n /\ ~(i <= i - 1)
      BY <1>1, <2>2, <2>4
    <3>2. s[i - 1] = w[i - 1]
      BY <2>1, <3>1
    <3>3. mem[s[i - 1]].child = s[i] /\ mem[w[i - 1]].child = w[i]
      <4>1. i - 1 # n /\ (i - 1) + 1 = i
        BY <1>1, <2>2
      <4> QED
        BY <1>2, <3>1, <4>1 DEF Linked
    <3> QED
      BY <2>2, <3>2, <3>3
  <2> QED
    BY <2>3, <2>4
<1>4. \A i \in 1..n : s[i] = w[i]
  BY <1>3
<1> QED
  BY <1>1, <1>4

\* The entries of the elements s in the map m.
EntryOf(m, k) == [key |-> k, value |-> m[k].value]
Entries(m, s) == [i \in 1..Len(s) |-> EntryOf(m, s[i])]

\* Following the pointers gives the elements of the list.
LEMMA ContentsOfList ==
  ASSUME NEW s, IsList(s, DOMAIN mem)
  PROVE  s \in Orders /\ Contents = Entries(mem, s)
<1>1. /\ Cardinality(DOMAIN mem) = Len(s) /\ Len(s) \in Nat
      /\ s \in [1..Len(s) -> DOMAIN mem] /\ Linked(s)
  BY ListCount DEF IsList
<1>2. s \in Orders
  BY <1>1 DEF Orders
<1> DEFINE c == CHOOSE w \in Orders : Linked(w)
<1>3. c \in Orders /\ Linked(c)
  BY <1>1, <1>2
<1>4. c = s
  <2> HIDE DEF c
  <2> QED
    BY <1>1, <1>2, <1>3, ListUnique
<1> QED
  BY <1>2, <1>4 DEF Contents, Entries, EntryOf

\* A step that leaves the pointers of the listed elements alone.
LEMMA ListFrame ==
  ASSUME NEW s, NEW D, IsList(s, D),
         UNCHANGED <<lru_list_head, lru_list_tail>>,
         \A k \in D : mem'[k].parent = mem[k].parent /\ mem'[k].child = mem[k].child
  PROVE  IsList(s, D)'
<1>1. \A i \in 1..Len(s) : s[i] \in D
  BY ElementOfSeq DEF IsList
<1> QED
  BY <1>1 DEF IsList, Linked, Occurs

Element == [value : Values, parent : Keys \cup {None}, child : Keys \cup {None}]

MemType ==
  /\ DOMAIN mem \subseteq Keys
  /\ mem \in [DOMAIN mem -> Element]
  /\ lru_list_head \in Keys \cup {None}
  /\ lru_list_tail \in Keys \cup {None}

\* What the list operations leave alone.
SameValues ==
  DOMAIN mem' = DOMAIN mem /\ \A k \in DOMAIN mem : mem'[k].value = mem[k].value

InFront(e, s) == [i \in 1..(Len(s) + 1) |-> IF i = 1 THEN e ELSE s[i - 1]]

LEMMA InFrontSeq ==
  ASSUME NEW D, NEW s \in Seq(D), NEW e
  PROVE  /\ InFront(e, s) \in Seq(D \cup {e}) /\ Len(InFront(e, s)) = Len(s) + 1
         /\ InFront(e, s)[1] = e
         /\ \A i \in 1..Len(s) : InFront(e, s)[i + 1] = s[i]
<1>1. Len(s) \in Nat /\ \A i \in 1..Len(s) : s[i] \in D
  BY LenProperties, ElementOfSeq
<1>2. \A i \in 1..(Len(s) + 1) : (IF i = 1 THEN e ELSE s[i - 1]) \in D \cup {e}
  BY <1>1
<1>3. InFront(e, s) \in Seq(D \cup {e})
  BY <1>1, <1>2, IsASeq DEF InFront
<1>4. InFront(e, s) \in [1..(Len(s) + 1) -> D \cup {e}]
  BY <1>1, <1>2 DEF InFront
<1>5. Len(InFront(e, s)) = Len(s) + 1
  BY <1>1, <1>4
<1> QED
  BY <1>1, <1>3, <1>5 DEF InFront

\* list_insert_head() puts an element that is in the map and not in the list at
\* the front of it.
LEMMA InsertKeepsList ==
  ASSUME MemType, NEW D \in SUBSET (DOMAIN mem), NEW s, IsList(s, D),
         NEW e \in DOMAIN mem \ D, list_insert_head(e)
  PROVE  MemType' /\ SameValues /\ IsList(InFront(e, s), D \cup {e})'
<1> DEFINE w == InFront(e, s)
<1>1. /\ Len(s) \in Nat /\ Distinct(s) /\ \A i \in 1..Len(s) : s[i] \in D
      /\ s \in Seq(D) /\ \A k \in D : Occurs(k, s)
  BY ListCount DEF IsList
<1>2. /\ w \in Seq(D \cup {e}) /\ Len(w) = Len(s) + 1 /\ w[1] = e
      /\ \A i \in 1..Len(s) : w[i + 1] = s[i]
  <2>1. s \in Seq(D)
    BY <1>1
  <2>2. InFront(e, s) \in Seq(D \cup {e})
    BY <2>1, InFrontSeq, Zenon
  <2>3. Len(InFront(e, s)) = Len(s) + 1
    BY <2>1, InFrontSeq, Zenon
  <2>4. InFront(e, s)[1] = e
    BY <1>1 DEF InFront
  <2>5. \A i \in 1..Len(s) : InFront(e, s)[i + 1] = s[i]
    BY <1>1 DEF InFront
  <2> QED
    BY <2>2, <2>3, <2>4, <2>5
<1>3. /\ DOMAIN mem' = DOMAIN mem /\ lru_list_head # e
      /\ lru_list_head' = e
      /\ lru_list_tail' = IF lru_list_head = None THEN e ELSE lru_list_tail
      /\ mem'[e] = [mem[e] EXCEPT !.parent = None, !.child = lru_list_head]
      /\ \A k \in DOMAIN mem \ {e} :
           mem'[k] = IF k = lru_list_head THEN [mem[k] EXCEPT !.parent = e] ELSE mem[k]
  <2>1. lru_list_head # e
    <3>1. lru_list_head = None \/ lru_list_head \in D
      BY <1>1, EmptySeq DEF IsList, Linked
    <3> QED
      BY <3>1, NoneAssumption DEF MemType
  <2> QED
    BY <2>1 DEF list_insert_head
<1>4. ASSUME NEW k \in DOMAIN mem
      PROVE  mem'[k].value = mem[k].value /\ mem'[k] \in Element
  <2>1. mem[k] \in Element /\ e \in Keys
    BY DEF MemType
  <2>2. CASE k = e
    BY <1>3, <2>1, <2>2 DEF Element, MemType
  <2>3. CASE k # e /\ k = lru_list_head
    BY <1>3, <2>1, <2>3 DEF Element
  <2>4. CASE k # e /\ k # lru_list_head
    BY <1>3, <2>1, <2>4
  <2> QED
    BY <2>2, <2>3, <2>4
<1>5. MemType' /\ SameValues
  <2> DEFINE upd(k) ==
        CASE k = e             -> [mem[k] EXCEPT !.parent = None, !.child = lru_list_head]
          [] k = lru_list_head -> [mem[k] EXCEPT !.parent = e]
          [] OTHER             -> mem[k]
  <2>1. mem' = [k \in DOMAIN mem |-> upd(k)]
    BY DEF list_insert_head
  <2> HIDE DEF upd
  <2>2. mem' \in [DOMAIN mem -> Element]
    BY <1>4, <2>1
  <2> QED
    BY <1>3, <1>4, <2>2 DEF MemType, SameValues
<1> HIDE DEF w
<1>6. \A k \in D \cup {e} : Occurs(k, w)
  <2>1. Occurs(e, w)
    BY <1>1, <1>2 DEF Occurs
  <2>2. ASSUME NEW k \in D PROVE Occurs(k, w)
    <3>1. PICK i \in 1..Len(s) : s[i] = k
      BY <1>1 DEF Occurs
    <3>2. i + 1 \in 1..Len(w) /\ w[i + 1] = k
      BY <1>1, <1>2, <3>1
    <3> QED
      BY <3>2 DEF Occurs
  <2> QED
    BY <2>1, <2>2
\* Each element of the new list is the new one or one of the old list.
<1>7. ASSUME NEW i \in 1..Len(w)
      PROVE  (i = 1 /\ w[i] = e) \/ (i - 1 \in 1..Len(s) /\ w[i] = s[i - 1])
  BY <1>1, <1>2
<1>8. ASSUME NEW i \in 1..Len(w), NEW j \in 1..Len(w), w[i] = w[j] PROVE i = j
  <2>1. CASE i = 1 \/ j = 1
    BY <1>1, <1>2, <1>7, <1>8, <2>1
  <2>2. CASE i # 1 /\ j # 1
    <3>1. s[i - 1] = s[j - 1] /\ i - 1 \in 1..Len(s) /\ j - 1 \in 1..Len(s)
      BY <1>7, <1>8, <2>2
    <3>2. i - 1 = j - 1
      BY <1>1, <3>1 DEF Distinct
    <3> QED
      BY <1>2, <3>2
  <2> QED
    BY <2>1, <2>2
<1>9. lru_list_head' = w[1] /\ lru_list_tail' = w[Len(w)] /\ w # <<>>
  <2>1. CASE s = <<>>
    <3>1. Len(s) = 0 /\ lru_list_head = None
      BY <2>1, EmptySeq DEF IsList, Linked
    <3> QED
      BY <1>2, <1>3, <3>1, EmptySeq
  <2>2. CASE s # <<>>
    <3>1. Len(s) > 0 /\ lru_list_head = s[1] /\ lru_list_tail = s[Len(s)]
      BY <1>1, <2>2, EmptySeq DEF IsList, Linked
    <3>2. lru_list_head # None
      BY <1>1, <3>1, NoneAssumption DEF MemType
    <3> QED
      BY <1>1, <1>2, <1>3, <3>1, <3>2, EmptySeq
  <2> QED
    BY <2>1, <2>2
<1>10. ASSUME NEW i \in 1..Len(w)
       PROVE  /\ mem'[w[i]].parent = IF i = 1 THEN None ELSE w[i - 1]
              /\ mem'[w[i]].child = IF i = Len(w) THEN None ELSE w[i + 1]
  <2>1. CASE i = 1
    <3>1. mem'[e].parent = None /\ mem'[e].child = lru_list_head
      BY <1>3 DEF MemType, Element
    <3>2. lru_list_head = IF Len(s) = 0 THEN None ELSE s[1]
      BY <1>1, EmptySeq DEF IsList, Linked
    <3> QED
      BY <1>1, <1>2, <2>1, <3>1, <3>2
  <2>2. CASE i # 1
    <3> DEFINE j == i - 1
    <3>1. /\ j \in 1..Len(s) /\ w[i] = s[j] /\ s[j] \in DOMAIN mem \ {e} /\ i = j + 1
      BY <1>1, <1>7, <2>2
    <3> HIDE DEF j
    <3>2. lru_list_head = s[1] /\ Len(s) > 0
      BY <1>1, <3>1, EmptySeq DEF IsList, Linked
    <3>3. s[j] = s[1] <=> j = 1
      BY <1>1, <3>1, <3>2 DEF Distinct
    <3>4. /\ mem[s[j]].parent = IF j = 1 THEN None ELSE s[j - 1]
          /\ mem[s[j]].child = IF j = Len(s) THEN None ELSE s[j + 1]
      BY <3>1 DEF IsList, Linked
    <3>5. /\ mem'[s[j]].parent = IF j = 1 THEN e ELSE s[j - 1]
          /\ mem'[s[j]].child = IF j = Len(s) THEN None ELSE s[j + 1]
      BY <1>3, <3>1, <3>2, <3>3, <3>4 DEF MemType, Element
    <3>6. w[i - 1] = IF j = 1 THEN e ELSE s[j - 1]
      BY <1>1, <1>2, <3>1
    <3>7. j # Len(s) => w[i + 1] = s[j + 1]
      BY <1>1, <1>2, <3>1
    <3> QED
      BY <1>1, <1>2, <2>2, <3>1, <3>5, <3>6, <3>7
  <2> QED
    BY <2>1, <2>2
<1>11. Linked(w)'
  BY <1>8, <1>9, <1>10 DEF Linked
<1>12. IsList(w, D \cup {e})'
  BY <1>2, <1>6, <1>11 DEF IsList, Occurs
<1> QED
  BY <1>5, <1>12 DEF w

\* The sequence s without its p-th element.
Cut(s, p) == [i \in 1..(Len(s) - 1) |-> IF i < p THEN s[i] ELSE s[i + 1]]

LEMMA CutSeq ==
  ASSUME NEW S, NEW s \in Seq(S), NEW p \in 1..Len(s)
  PROVE  /\ Cut(s, p) \in Seq(S) /\ Len(Cut(s, p)) = Len(s) - 1
         /\ \A i \in 1..(Len(s) - 1) : Cut(s, p)[i] = IF i < p THEN s[i] ELSE s[i + 1]
<1>1. Len(s) \in Nat /\ Len(s) - 1 \in Nat /\ \A i \in 1..Len(s) : s[i] \in S
  BY LenProperties, ElementOfSeq
<1>2. \A i \in 1..(Len(s) - 1) : (IF i < p THEN s[i] ELSE s[i + 1]) \in S
  BY <1>1
<1>3. Cut(s, p) \in Seq(S)
  BY <1>1, <1>2, IsASeq DEF Cut
<1>4. Cut(s, p) \in [1..(Len(s) - 1) -> S]
  BY <1>2 DEF Cut
<1>5. Len(Cut(s, p)) = Len(s) - 1
  BY <1>1, <1>4
<1> QED
  BY <1>3, <1>5 DEF Cut

\* list_release() takes any element out of the list, at an end or in the middle;
\* its own pointers stay as they are.
LEMMA ReleaseKeepsList ==
  ASSUME MemType, NEW D \in SUBSET (DOMAIN mem), NEW s, IsList(s, D),
         NEW p \in 1..Len(s), list_release(s[p])
  PROVE  MemType' /\ SameValues /\ IsList(Cut(s, p), D \ {s[p]})'
<1> DEFINE n == Len(s)
           w == Cut(s, p)
           P == IF p = 1 THEN None ELSE s[p - 1]
           C == IF p = n THEN None ELSE s[p + 1]
<1>1. /\ n \in Nat /\ Distinct(s) /\ \A i \in 1..n : s[i] \in D /\ s[i] \in Keys /\ s[i] # None
      /\ s \in Seq(D) /\ \A k \in D : Occurs(k, s)
  BY ListCount, NoneAssumption DEF IsList, MemType
<1>2. /\ w \in Seq(D) /\ Len(w) = n - 1
      /\ \A i \in 1..(n - 1) : w[i] = IF i < p THEN s[i] ELSE s[i + 1]
  BY <1>1, CutSeq
<1>3. /\ mem[s[p]].parent = P /\ mem[s[p]].child = C
      /\ P \in Keys \cup {None} /\ C \in Keys \cup {None}
  BY <1>1 DEF IsList, Linked
<1>4. /\ lru_list_head' = IF P = None THEN C ELSE lru_list_head
      /\ lru_list_tail' = IF C = None THEN P ELSE lru_list_tail
      /\ mem' = [k \in DOMAIN mem |-> [mem[k] EXCEPT !.child  = IF k = P THEN C ELSE @,
                                                     !.parent = IF k = C THEN P ELSE @]]
  BY <1>3 DEF list_release
<1>5. /\ P = None <=> p = 1
      /\ C = None <=> p = n
  BY <1>1
<1>6. ASSUME NEW j \in 1..n
      PROVE  (s[j] = P <=> j = p - 1) /\ (s[j] = C <=> j = p + 1)
  BY <1>1 DEF Distinct
<1>7. /\ lru_list_head = s[1] /\ lru_list_tail = s[n]
      /\ \A i \in 1..n : /\ mem[s[i]].parent = IF i = 1 THEN None ELSE s[i - 1]
                         /\ mem[s[i]].child = IF i = n THEN None ELSE s[i + 1]
  BY <1>1, EmptySeq DEF IsList, Linked
<1>n. n \in Nat /\ p \in Int /\ 1 <= p /\ p <= n
  BY <1>1
<1> HIDE DEF n, w, P, C
<1>8. ASSUME NEW k \in DOMAIN mem
      PROVE  /\ mem'[k].value = mem[k].value /\ mem'[k] \in Element
             /\ mem'[k].child = IF k = P THEN C ELSE mem[k].child
             /\ mem'[k].parent = IF k = C THEN P ELSE mem[k].parent
  <2>1. mem[k] \in Element
    BY DEF MemType
  <2>2. mem'[k] = [mem[k] EXCEPT !.child  = IF k = P THEN C ELSE @,
                                 !.parent = IF k = C THEN P ELSE @]
    BY <1>4
  <2>3. mem'[k].value = mem[k].value
    BY <2>1, <2>2 DEF Element
  <2>4. mem'[k].child = IF k = P THEN C ELSE mem[k].child
    BY <2>1, <2>2 DEF Element
  <2>5. mem'[k].parent = IF k = C THEN P ELSE mem[k].parent
    BY <2>1, <2>2 DEF Element
  <2>6. mem'[k] \in Element
    BY <1>3, <2>1, <2>2 DEF Element
  <2> QED
    BY <2>3, <2>4, <2>5, <2>6
<1>9. MemType' /\ SameValues
  <2> DEFINE upd(k) == [mem[k] EXCEPT !.child  = IF k = P THEN C ELSE @,
                                      !.parent = IF k = C THEN P ELSE @]
  <2>1. mem' = [k \in DOMAIN mem |-> upd(k)]
    BY <1>4
  <2> HIDE DEF upd
  <2>2. mem' \in [DOMAIN mem -> Element] /\ DOMAIN mem' = DOMAIN mem
    BY <1>8, <2>1
  <2> QED
    BY <1>3, <1>4, <1>8, <2>2 DEF MemType, SameValues
\* Where the elements of the new list come from.
<1>10. ASSUME NEW i \in 1..Len(w)
       PROVE  \E j \in 1..n : /\ j # p /\ w[i] = s[j]
                              /\ i = IF j < p THEN j ELSE j - 1
  <2>1. CASE i < p
    BY <1>1, <1>2, <2>1
  <2>2. CASE ~(i < p)
    <3>1. i + 1 \in 1..n /\ i + 1 # p /\ ~(i + 1 < p) /\ i = (i + 1) - 1
      BY <1>1, <1>2, <2>2
    <3> QED
      BY <1>2, <2>2, <3>1
  <2> QED
    BY <2>1, <2>2
<1>11. ASSUME NEW j \in 1..n, j # p
       PROVE  LET i == IF j < p THEN j ELSE j - 1 IN i \in 1..Len(w) /\ w[i] = s[j]
  BY <1>1, <1>2, <1>11 DEF n
<1>12. w \in Seq(D \ {s[p]}) /\ \A k \in D \ {s[p]} : Occurs(k, w)
  <2>1. \A i \in 1..Len(w) : w[i] \in D \ {s[p]}
    BY <1>1, <1>10 DEF Distinct, n
  <2>2. w \in Seq(D \ {s[p]})
    <3>1. w = [i \in 1..Len(w) |-> w[i]] /\ Len(w) \in Nat
      BY <1>2, LenProperties
    <3> DEFINE e(i) == w[i]
    <3>2. [i \in 1..Len(w) |-> e(i)] \in Seq(D \ {s[p]})
      BY <2>1, <3>1, IsASeq
    <3> QED
      BY <3>1, <3>2
  <2>3. ASSUME NEW k \in D \ {s[p]} PROVE Occurs(k, w)
    <3>1. PICK j \in 1..n : s[j] = k
      BY <1>1 DEF Occurs, n
    <3> QED
      BY <1>11, <3>1 DEF Occurs
  <2> QED
    BY <2>2, <2>3
<1>13. ASSUME NEW i \in 1..Len(w), NEW j \in 1..Len(w), w[i] = w[j] PROVE i = j
  BY <1>1, <1>10, <1>13 DEF Distinct, n
<1>e. /\ w = <<>> <=> n = 1
      /\ n # 1 => /\ w[1] = IF p = 1 THEN s[2] ELSE s[1]
                  /\ w[Len(w)] = IF p = n THEN s[n - 1] ELSE s[n]
  <2>1. w = <<>> <=> n = 1
    BY <1>1, <1>2, EmptySeq DEF n
  <2>2. ASSUME n # 1 PROVE w[1] = IF p = 1 THEN s[2] ELSE s[1]
    <3>1. 1 \in 1..(n - 1)
      BY <1>n, <2>2
    <3> QED
      BY <1>2, <1>n, <3>1
  <2>3. ASSUME n # 1 PROVE w[Len(w)] = IF p = n THEN s[n - 1] ELSE s[n]
    <3>1. n - 1 \in 1..(n - 1) /\ (n - 1 < p <=> p = n) /\ (n - 1) + 1 = n
      BY <1>n, <2>3
    <3> QED
      BY <1>2, <3>1
  <2> QED
    BY <2>1, <2>2, <2>3
<1>h. /\ lru_list_head' = IF p = 1 THEN C ELSE lru_list_head
      /\ lru_list_tail' = IF p = n THEN P ELSE lru_list_tail
  BY <1>4, <1>5
<1>14. lru_list_head' = IF w = <<>> THEN None ELSE w[1]
  <2>1. CASE p = 1
    <3>1. lru_list_head' = IF n = 1 THEN None ELSE s[2]
      BY <1>h, <1>n, <2>1 DEF C
    <3> QED
      BY <1>e, <2>1, <3>1
  <2>2. CASE p # 1
    <3>1. lru_list_head' = s[1] /\ n # 1
      BY <1>h, <1>7, <1>n, <2>2
    <3> QED
      BY <1>e, <2>2, <3>1
  <2> QED
    BY <2>1, <2>2
<1>15. lru_list_tail' = IF w = <<>> THEN None ELSE w[Len(w)]
  <2>1. CASE p = n
    <3>1. lru_list_tail' = IF n = 1 THEN None ELSE s[n - 1]
      BY <1>h, <1>n, <2>1 DEF P
    <3> QED
      BY <1>e, <2>1, <3>1
  <2>2. CASE p # n
    <3>1. lru_list_tail' = s[n] /\ n # 1
      BY <1>h, <1>7, <1>n, <2>2
    <3> QED
      BY <1>e, <2>2, <3>1
  <2> QED
    BY <2>1, <2>2
<1>16. ASSUME NEW i \in 1..Len(w)
       PROVE  /\ mem'[w[i]].parent = IF i = 1 THEN None ELSE w[i - 1]
              /\ mem'[w[i]].child = IF i = Len(w) THEN None ELSE w[i + 1]
  <2>1. PICK j \in 1..n : j # p /\ w[i] = s[j] /\ i = IF j < p THEN j ELSE j - 1
    BY <1>10
  <2>2. /\ mem'[s[j]].child = IF j = p - 1 THEN C ELSE mem[s[j]].child
        /\ mem'[s[j]].parent = IF j = p + 1 THEN P ELSE mem[s[j]].parent
    <3>1. s[j] \in DOMAIN mem
      BY <1>1 DEF n
    <3> QED
      BY <1>6, <1>8, <3>1
  <2>3. /\ mem[s[j]].parent = IF j = 1 THEN None ELSE s[j - 1]
        /\ mem[s[j]].child = IF j = n THEN None ELSE s[j + 1]
    BY <1>7
  <2>4. mem'[w[i]].parent = IF i = 1 THEN None ELSE w[i - 1]
    <3>1. CASE j = p + 1
      BY <1>1, <1>2, <2>1, <2>2, <3>1 DEF P, n
    <3>2. CASE j < p
      BY <1>1, <1>2, <2>1, <2>2, <2>3, <3>2 DEF n
    <3>3. CASE j > p + 1
      BY <1>1, <1>2, <2>1, <2>2, <2>3, <3>3 DEF n
    <3> QED
      BY <1>1, <2>1, <3>1, <3>2, <3>3
  <2>5. mem'[w[i]].child = IF i = Len(w) THEN None ELSE w[i + 1]
    <3>1. CASE j = p - 1
      <4>1. i = p - 1 /\ mem'[w[i]].child = C /\ p \in 1..n
        BY <1>1, <2>1, <2>2, <3>1 DEF n
      <4>2. p = n <=> i = Len(w)
        BY <1>1, <1>2, <4>1
      <4>3. p # n => w[i + 1] = s[p + 1]
        BY <1>1, <1>2, <4>1
      <4> QED
        BY <4>1, <4>2, <4>3 DEF C
    <3>2. CASE j < p - 1
      <4>1. i = j /\ j # p - 1 /\ j # n /\ i # Len(w) /\ i + 1 \in 1..(n - 1) /\ i + 1 < p
        BY <1>2, <1>n, <2>1, <3>2
      <4> QED
        BY <1>2, <2>1, <2>2, <2>3, <4>1
    <3>3. CASE j > p
      <4>1. i = j - 1 /\ j # p - 1 /\ (j = n <=> i = Len(w))
        BY <1>2, <1>n, <2>1, <3>3
      <4>2. j # n => i + 1 \in 1..(n - 1) /\ ~(i + 1 < p) /\ (i + 1) + 1 = j + 1
        BY <1>2, <1>n, <2>1, <3>3, <4>1
      <4> QED
        BY <1>2, <2>1, <2>2, <2>3, <4>1, <4>2
    <3> QED
      BY <1>1, <2>1, <3>1, <3>2, <3>3
  <2> QED
    BY <2>4, <2>5
<1>17. IsList(w, D \ {s[p]})'
  <2>1. Linked(w)'
    BY <1>13, <1>14, <1>15, <1>16 DEF Linked
  <2> QED
    BY <1>12, <2>1 DEF IsList, Occurs
<1> QED
  BY <1>9, <1>17 DEF w

-----------------------------------------------------------------------------
(* The list and the sequence of entries it stands for.                     *)

Entry == [key : Keys, value : Values]

LEMMA EntryFields ==
  \A m, k : EntryOf(m, k).key = k /\ EntryOf(m, k).value = m[k].value
  BY DEF EntryOf

LEMMA EntriesSeq ==
  ASSUME NEW K \in SUBSET Keys, NEW m \in [K -> Element], NEW s \in Seq(K)
  PROVE  /\ Entries(m, s) \in Seq(Entry) /\ Len(Entries(m, s)) = Len(s)
         /\ \A i \in 1..Len(s) : Entries(m, s)[i] = EntryOf(m, s[i])
<1>1. Len(s) \in Nat /\ \A i \in 1..Len(s) : s[i] \in K
  BY LenProperties, ElementOfSeq
<1>2. \A i \in 1..Len(s) : EntryOf(m, s[i]) \in Entry
  BY <1>1 DEF Element, Entry, EntryOf
<1>3. Entries(m, s) \in Seq(Entry)
  BY <1>1, <1>2, IsASeq DEF Entries
<1>4. Entries(m, s) \in [1..Len(s) -> Entry]
  BY <1>2 DEF Entries
<1>5. Len(Entries(m, s)) = Len(s)
  BY <1>1, <1>4
<1> QED
  BY <1>3, <1>5 DEF Entries

\* Only the values of the listed elements matter.
LEMMA EntriesAgree ==
  ASSUME NEW s, NEW K, s \in Seq(K), NEW m, NEW n,
         \A k \in K : m[k].value = n[k].value
  PROVE  Entries(m, s) = Entries(n, s)
<1>1. \A i \in 1..Len(s) : s[i] \in K
  BY ElementOfSeq
<1> QED
  BY <1>1 DEF Entries, EntryOf

LEMMA EntriesFront ==
  ASSUME NEW K \in SUBSET Keys, NEW m \in [K -> Element], NEW s \in Seq(K),
         NEW e \in K
  PROVE  Entries(m, InFront(e, s))
           = <<EntryOf(m, e)>> \o Entries(m, s)
<1> DEFINE w == InFront(e, s)
           x == EntryOf(m, e)
           r == <<x>> \o Entries(m, s)
<1>1. /\ w \in Seq(K) /\ Len(w) = Len(s) + 1 /\ w[1] = e
      /\ \A i \in 1..Len(s) : w[i + 1] = s[i]
  <2>1. K \cup {e} = K
    OBVIOUS
  <2> QED
    BY <2>1, InFrontSeq
<1>2. /\ Entries(m, s) \in Seq(Entry) /\ Len(Entries(m, s)) = Len(s) /\ Len(s) \in Nat
      /\ \A i \in 1..Len(s) : Entries(m, s)[i] = EntryOf(m, s[i])
  BY EntriesSeq, LenProperties
<1>3. /\ Entries(m, w) \in Seq(Entry) /\ Len(Entries(m, w)) = Len(w)
      /\ \A i \in 1..Len(w) : Entries(m, w)[i] = EntryOf(m, w[i])
  <2> HIDE DEF w
  <2> QED
    BY <1>1, EntriesSeq
<1>4. <<x>> \in Seq(Entry) /\ Len(<<x>>) = 1 /\ <<x>>[1] = x
  <2>1. x \in Entry
    BY DEF Entry, Element, EntryOf
  <2> QED
    BY <2>1
<1>5. /\ r \in Seq(Entry) /\ Len(r) = Len(s) + 1
      /\ \A i \in 1..(Len(s) + 1) : r[i] = IF i <= 1 THEN <<x>>[i] ELSE Entries(m, s)[i - 1]
  <2> HIDE DEF x
  <2> QED
    BY <1>2, <1>4, ConcatProperties
<1>6. ASSUME NEW i \in 1..(Len(s) + 1) PROVE r[i] = Entries(m, w)[i]
  <2>1. CASE i = 1
    BY <1>1, <1>2, <1>3, <1>4, <1>5, <2>1
  <2>2. CASE i # 1
    <3>1. i - 1 \in 1..Len(s) /\ ~(i <= 1) /\ (i - 1) + 1 = i
      BY <1>2, <2>2
    <3>2. w[i] = s[i - 1]
      BY <1>1, <3>1
    <3> HIDE DEF r, w
    <3> QED
      BY <1>1, <1>2, <1>3, <1>5, <3>1, <3>2
  <2> QED
    BY <2>1, <2>2
<1>7. r = Entries(m, w)
  <2> HIDE DEF r, w
  <2> QED
    BY <1>1, <1>3, <1>5, <1>6, SeqEqual
<1> QED
  BY <1>7

\* Taking an element out of the list and its entry out of the contents.
LEMMA EntriesCut ==
  ASSUME NEW K \in SUBSET Keys, NEW m \in [K -> Element], NEW s \in Seq(K),
         Distinct(s), NEW p \in 1..Len(s)
  PROVE  /\ Holds(Entries(m, s), s[p])
         /\ Remove(Entries(m, s), s[p]) = Entries(m, Cut(s, p))
         /\ Lookup(Entries(m, s), s[p]) = m[s[p]].value
<1> DEFINE b == Entries(m, s)
           w == Cut(s, p)
           q == CHOOSE i \in 1..Len(b) : b[i].key = s[p]
<1>1. /\ b \in Seq(Entry) /\ Len(b) = Len(s) /\ Len(s) \in Nat
      /\ \A i \in 1..Len(s) : b[i] = EntryOf(m, s[i])
  BY EntriesSeq, LenProperties
<1>2. /\ w \in Seq(K) /\ Len(w) = Len(s) - 1
      /\ \A i \in 1..(Len(s) - 1) : w[i] = IF i < p THEN s[i] ELSE s[i + 1]
  BY CutSeq
<1>3. /\ Entries(m, w) \in Seq(Entry) /\ Len(Entries(m, w)) = Len(w)
      /\ \A i \in 1..Len(w) : Entries(m, w)[i] = EntryOf(m, w[i])
  <2> HIDE DEF w
  <2> QED
    BY <1>2, EntriesSeq
<1> HIDE DEF b, w
<1>k. ASSUME NEW i \in 1..Len(b) PROVE b[i].key = s[i] /\ b[i].value = m[s[i]].value
  <2>1. b[i] = EntryOf(m, s[i])
    BY <1>1
  <2> QED
    BY <2>1, EntryFields
<1>4. p \in 1..Len(b) /\ b[p].key = s[p] /\ b[p].value = m[s[p]].value
  BY <1>1, <1>k
<1>5. q \in 1..Len(b) /\ b[q].key = s[p]
  BY <1>4
<1>6. q = p
  <2> HIDE DEF q
  <2>1. s[q] = s[p]
    BY <1>5, <1>k
  <2> QED
    BY <1>1, <1>5, <2>1 DEF Distinct
<1>7. Holds(b, s[p])
  BY <1>4 DEF Holds
<1>8. Lookup(b, s[p]) = m[s[p]].value
  BY <1>4, <1>6 DEF Lookup
<1>9. Remove(b, s[p]) = Cut(b, p)
  BY <1>6, <1>7 DEF Remove, Cut
<1>10. Cut(b, p) = Entries(m, w)
  <2>1. /\ Cut(b, p) \in Seq(Entry) /\ Len(Cut(b, p)) = Len(s) - 1
        /\ \A i \in 1..(Len(s) - 1) : Cut(b, p)[i] = IF i < p THEN b[i] ELSE b[i + 1]
    BY <1>1, CutSeq
  <2>2. ASSUME NEW i \in 1..(Len(s) - 1) PROVE Cut(b, p)[i] = Entries(m, w)[i]
    <3>1. i \in 1..Len(s) /\ i + 1 \in 1..Len(s) /\ i \in 1..Len(w)
      BY <1>1, <1>2
    <3>2. CASE i < p
      BY <1>1, <1>2, <1>3, <2>1, <3>1, <3>2
    <3>3. CASE ~(i < p)
      BY <1>1, <1>2, <1>3, <2>1, <3>1, <3>3
    <3> QED
      BY <3>2, <3>3
  <2> QED
    BY <1>2, <1>3, <2>1, <2>2, SeqEqual
<1> QED
  BY <1>7, <1>8, <1>9, <1>10 DEF b, w

LEMMA EntriesWithout ==
  ASSUME NEW K \in SUBSET Keys, NEW m \in [K -> Element], NEW s \in Seq(K),
         NEW k, ~Occurs(k, s)
  PROVE  ~Holds(Entries(m, s), k) /\ Remove(Entries(m, s), k) = Entries(m, s)
<1>1. /\ Len(Entries(m, s)) = Len(s)
      /\ \A i \in 1..Len(s) : Entries(m, s)[i] = EntryOf(m, s[i])
  BY EntriesSeq
<1>2. ~Holds(Entries(m, s), k)
  BY <1>1, EntryFields DEF Holds, Occurs
<1> QED
  BY <1>2 DEF Remove

\* Evicting one entry too many evicts the last.
LEMMA EntriesTruncated ==
  ASSUME NEW K \in SUBSET Keys, NEW m \in [K -> Element], NEW s \in Seq(K),
         NEW n \in Nat
  PROVE  /\ Len(s) <= n => Truncate(Entries(m, s), n) = Entries(m, s)
         /\ Len(s) = n + 1 => Truncate(Entries(m, s), n) = Entries(m, Cut(s, Len(s)))
<1> DEFINE b == Entries(m, s)
           w == Cut(s, Len(s))
<1>1. /\ b \in Seq(Entry) /\ Len(b) = Len(s) /\ Len(s) \in Nat
      /\ \A i \in 1..Len(s) : b[i] = EntryOf(m, s[i])
  BY EntriesSeq, LenProperties
<1>2. Len(s) <= n => Truncate(b, n) = b
  BY <1>1 DEF Truncate
<1>3. ASSUME Len(s) = n + 1 PROVE Truncate(b, n) = Entries(m, w)
  <2>1. /\ w \in Seq(K) /\ Len(w) = n
        /\ \A i \in 1..n : w[i] = s[i]
    <3>1. Len(s) \in 1..Len(s) /\ Len(s) - 1 = n /\ \A i \in 1..n : i < Len(s)
      BY <1>1, <1>3
    <3>2. /\ w \in Seq(K) /\ Len(w) = Len(s) - 1
          /\ \A i \in 1..(Len(s) - 1) : w[i] = IF i < Len(s) THEN s[i] ELSE s[i + 1]
      BY <3>1, CutSeq
    <3> HIDE DEF w
    <3> QED
      BY <3>1, <3>2
  <2> HIDE DEF w
  <2>2. /\ Entries(m, w) \in Seq(Entry) /\ Len(Entries(m, w)) = n
        /\ \A i \in 1..n : Entries(m, w)[i] = EntryOf(m, w[i])
    BY <2>1, EntriesSeq
  <2> HIDE DEF b
  <2>3. Truncate(b, n) = SubSeq(b, 1, n)
    BY <1>1, <1>3 DEF Truncate
  <2>4. /\ SubSeq(b, 1, n) \in Seq(Entry) /\ Len(SubSeq(b, 1, n)) = n
        /\ \A i \in 1..n : SubSeq(b, 1, n)[i] = b[i]
    <3>1. \A i \in 1..n : b[i] \in Entry
      BY <1>1, <1>3, ElementOfSeq
    <3>2. n - 1 + 1 = n /\ 1 \in Int /\ n \in Int /\ (~(1 <= n) => n = 0)
      OBVIOUS
    <3>3. \A i \in 1..n : 1 + i - 1 = i
      OBVIOUS
    <3>4. /\ SubSeq(b, 1, n) \in Seq(Entry)
          /\ Len(SubSeq(b, 1, n)) = IF 1 <= n THEN n - 1 + 1 ELSE 0
          /\ \A i \in 1..(n - 1 + 1) : SubSeq(b, 1, n)[i] = b[1 + i - 1]
      BY <3>1, <3>2, SubSeqProperties
    <3> QED
      BY <3>2, <3>3, <3>4
  <2>5. \A i \in 1..n : SubSeq(b, 1, n)[i] = Entries(m, w)[i]
    BY <1>1, <1>3, <2>1, <2>2, <2>4
  <2> QED
    BY <2>2, <2>3, <2>4, <2>5, SeqEqual
<1> QED
  BY <1>2, <1>3

-----------------------------------------------------------------------------
(* What is true of the cache at each point of a call.                      *)

CallType ==
  /\ capacity \in Nat
  /\ call \in [Threads -> Calls]
  /\ cur \in [Threads -> Keys \cup {None}]
  /\ out \in [Threads -> [found : BOOLEAN, value : Values \cup {None}]]

(***************************************************************************)
(* Past the lookup, the list is s and will be f when the call is done.     *)
(* While an element is being moved or dropped it is in the map but not in  *)
(* the list, and its own pointers are stale.                               *)
(***************************************************************************)
Planned(t, s, f) ==
  LET e == cur[t] IN
  \/ /\ pc[t] = "move_release"
     /\ IsList(s, DOMAIN mem) /\ Len(s) <= capacity
     /\ \E p \in 1..Len(s) : s[p] = e /\ f = InFront(e, Cut(s, p))
  \/ /\ pc[t] = "move_insert"
     /\ e \in DOMAIN mem /\ IsList(s, DOMAIN mem \ {e}) /\ Len(s) < capacity
     /\ f = InFront(e, s)
  \/ /\ pc[t] = "insert_new"
     /\ e \in DOMAIN mem /\ IsList(s, DOMAIN mem \ {e}) /\ Len(s) <= capacity
     /\ f = IF Len(s) + 1 > capacity THEN Cut(InFront(e, s), Len(s) + 1)
            ELSE InFront(e, s)
  \/ /\ pc[t] = "gc"
     /\ IsList(s, DOMAIN mem) /\ Len(s) = capacity + 1
     /\ f = Cut(s, Len(s))
  \/ /\ pc[t] = "drop_release"
     /\ IsList(s, DOMAIN mem) /\ Len(s) <= capacity + 1
     /\ \E p \in 1..Len(s) : s[p] = e /\ f = Cut(s, p)
  \/ /\ pc[t] = "drop_erase"
     /\ IsList(s, DOMAIN mem \ {e}) /\ Len(s) <= capacity
     /\ f = s
  \/ /\ pc[t] = "unlock"
     /\ IsList(s, DOMAIN mem) /\ Len(s) <= capacity
     /\ f = s

\* What it will be is what the least-recently-used cache would hold.
AsPromised(t, f) ==
  /\ f \in Seq(DOMAIN mem)
  /\ Entries(mem, f) = After(before, call[t], capacity)
  /\ out[t] = Answer(before, call[t])

HolderInv(t) ==
  \/ /\ pc[t] = "find"
     /\ \E s : /\ IsList(s, DOMAIN mem) /\ Len(s) <= capacity
               /\ before = Entries(mem, s)
  \/ \E s, f : Planned(t, s, f) /\ AsPromised(t, f)

\* list_release() inside a call.
LEMMA ReleaseStep ==
  ASSUME MemType, CallType, NEW t \in Threads, pc \in [Threads -> Outside \cup Within],
         HolderInv(t), Release(t)
  PROVE  MemType' /\ CallType' /\ HolderInv(t)'
<1>1. /\ pc[t] \in {"move_release", "drop_release"} /\ list_release(cur[t])
      /\ pc'[t] = IF pc[t] = "move_release" THEN "move_insert" ELSE "drop_erase"
      /\ UNCHANGED <<capacity, call, cur, out, before>>
  BY DEF Release, Goto
<1>2. PICK s, f : Planned(t, s, f) /\ AsPromised(t, f)
  BY <1>1 DEF HolderInv
<1>3. PICK K : K = DOMAIN mem
  OBVIOUS
<1>4. PICK p \in 1..Len(s) :
        /\ s[p] = cur[t] /\ IsList(s, K)
        /\ \/ pc[t] = "move_release" /\ Len(s) <= capacity /\ f = InFront(s[p], Cut(s, p))
           \/ pc[t] = "drop_release" /\ Len(s) <= capacity + 1 /\ f = Cut(s, p)
  BY <1>1, <1>2, <1>3 DEF Planned
<1>5. MemType' /\ SameValues /\ IsList(Cut(s, p), K \ {s[p]})'
  BY <1>1, <1>3, <1>4, ReleaseKeepsList
<1>6. DOMAIN mem' = K /\ \A k \in K : mem'[k].value = mem[k].value
  BY <1>3, <1>5 DEF SameValues
<1>7. s \in Seq(K) /\ s[p] \in K /\ Len(s) \in Nat
  BY <1>4, ListCount DEF IsList
<1>8. Len(Cut(s, p)) = Len(s) - 1
  BY <1>7, CutSeq
<1>9. CallType'
  BY <1>1 DEF CallType
<1>10. AsPromised(t, f)'
  <2>1. Entries(mem', f) = Entries(mem, f)
    BY <1>2, <1>3, <1>6, EntriesAgree DEF AsPromised
  <2> QED
    BY <1>1, <1>2, <1>3, <1>6, <2>1 DEF AsPromised
<1>11. IsList(Cut(s, p), DOMAIN mem \ {cur[t]})'
  BY <1>1, <1>4, <1>5, <1>6 DEF IsList
<1>12. Planned(t, Cut(s, p), f)'
  <2>1. CASE pc[t] = "move_release"
    <3>1. /\ pc'[t] = "move_insert" /\ cur'[t] \in DOMAIN mem' /\ Len(Cut(s, p)) < capacity'
          /\ f = InFront(cur'[t], Cut(s, p))
      BY <1>1, <1>4, <1>6, <1>7, <1>8, <2>1 DEF CallType
    <3> QED
      BY <1>11, <3>1 DEF Planned
  <2>2. CASE pc[t] = "drop_release"
    <3>1. pc'[t] = "drop_erase" /\ Len(Cut(s, p)) <= capacity' /\ f = Cut(s, p)
      BY <1>1, <1>4, <1>7, <1>8, <2>2 DEF CallType
    <3> QED
      BY <1>11, <3>1 DEF Planned
  <2> QED
    BY <1>1, <2>1, <2>2
<1>13. HolderInv(t)'
  BY <1>10, <1>12 DEF HolderInv
<1> QED
  BY <1>5, <1>9, <1>13

\* list_insert_head() inside a call.
LEMMA InsertStep ==
  ASSUME MemType, CallType, NEW t \in Threads, pc \in [Threads -> Outside \cup Within],
         HolderInv(t), Insert(t)
  PROVE  MemType' /\ CallType' /\ HolderInv(t)'
<1>1. /\ pc[t] \in {"move_insert", "insert_new"} /\ list_insert_head(cur[t])
      /\ pc'[t] = IF pc[t] = "insert_new" /\ Cardinality(DOMAIN mem) > capacity
                  THEN "gc" ELSE "unlock"
      /\ UNCHANGED <<capacity, call, cur, out, before>>
  BY DEF Insert, Goto
<1>2. PICK s, f : Planned(t, s, f) /\ AsPromised(t, f)
  BY <1>1 DEF HolderInv
<1>3. PICK K, e : K = DOMAIN mem /\ e = cur[t]
  OBVIOUS
<1> DEFINE w == InFront(e, s)
<1>4. /\ e \in K /\ IsList(s, K \ {e})
      /\ \/ pc[t] = "move_insert" /\ Len(s) < capacity /\ f = w
         \/ /\ pc[t] = "insert_new" /\ Len(s) <= capacity
            /\ f = IF Len(s) + 1 > capacity THEN Cut(w, Len(s) + 1) ELSE w
  BY <1>1, <1>2, <1>3 DEF Planned
<1>5. s \in Seq(K \ {e}) /\ Len(s) \in Nat /\ Cardinality(K) = Len(s) + 1
  <2>1. IsFiniteSet(K \ {e}) /\ Cardinality(K \ {e}) = Len(s) /\ Len(s) \in Nat
    BY <1>4, ListCount
  <2>2. (K \ {e}) \cup {e} = K
    BY <1>4
  <2> QED
    BY <1>4, <2>1, <2>2, FS_AddElement DEF IsList
<1>6. MemType' /\ SameValues /\ IsList(w, K)'
  <2>1. MemType' /\ SameValues /\ IsList(w, (K \ {e}) \cup {e})'
    BY <1>1, <1>3, <1>4, InsertKeepsList
  <2>2. (K \ {e}) \cup {e} = K
    BY <1>4
  <2> QED
    BY <2>1, <2>2
<1>7. DOMAIN mem' = K /\ \A k \in K : mem'[k].value = mem[k].value
  BY <1>3, <1>6 DEF SameValues
<1>8. Len(w) = Len(s) + 1
  BY <1>5, InFrontSeq
<1> HIDE DEF w
<1>9. CallType'
  BY <1>1 DEF CallType
<1>10. AsPromised(t, f)'
  <2>1. Entries(mem', f) = Entries(mem, f)
    BY <1>2, <1>3, <1>7, EntriesAgree DEF AsPromised
  <2> QED
    BY <1>1, <1>2, <1>3, <1>7, <2>1 DEF AsPromised
<1>11. IsList(w, DOMAIN mem)'
  BY <1>6, <1>7 DEF IsList
<1>12. Planned(t, w, f)'
  <2>1. CASE pc[t] = "insert_new" /\ Len(s) + 1 > capacity
    <3>1. pc'[t] = "gc" /\ Len(w) = capacity' + 1 /\ f = Cut(w, Len(w))
      BY <1>1, <1>3, <1>4, <1>5, <1>8, <2>1 DEF CallType
    <3> QED
      BY <1>11, <3>1 DEF Planned
  <2>2. CASE ~(pc[t] = "insert_new" /\ Len(s) + 1 > capacity)
    <3>1. pc'[t] = "unlock" /\ Len(w) <= capacity' /\ f = w
      BY <1>1, <1>3, <1>4, <1>5, <1>8, <2>2 DEF CallType
    <3> QED
      BY <1>11, <3>1 DEF Planned
  <2> QED
    BY <2>1, <2>2
<1>13. HolderInv(t)'
  BY <1>10, <1>12 DEF HolderInv
<1> QED
  BY <1>6, <1>9, <1>13

\* gc1() finds its victim at the tail.
LEMMA GcStep ==
  ASSUME MemType, CallType, NEW t \in Threads, pc \in [Threads -> Outside \cup Within],
         HolderInv(t), Gc(t)
  PROVE  MemType' /\ CallType' /\ HolderInv(t)'
<1>1. /\ pc[t] = "gc" /\ cur' = [cur EXCEPT ![t] = lru_list_tail]
      /\ pc'[t] = "drop_release"
      /\ UNCHANGED <<mem, lru_list_head, lru_list_tail, capacity, call, out, before>>
  BY DEF Gc, Goto, listVars
<1>2. PICK s, f : Planned(t, s, f) /\ AsPromised(t, f)
  BY <1>1 DEF HolderInv
<1>3. IsList(s, DOMAIN mem) /\ Len(s) = capacity + 1 /\ f = Cut(s, Len(s))
  BY <1>1, <1>2 DEF Planned
<1>4. Len(s) \in 1..Len(s) /\ lru_list_tail = s[Len(s)]
  <2>1. Len(s) > 0 /\ Len(s) \in Nat
    BY <1>3 DEF CallType
  <2>2. s # <<>>
    BY <2>1, EmptySeq
  <2> QED
    BY <1>3, <2>1, <2>2 DEF IsList, Linked
<1>5. MemType' /\ CallType'
  BY <1>1 DEF MemType, CallType
<1>6. IsList(s, DOMAIN mem)'
  BY <1>1, <1>3 DEF IsList, Linked
<1>7. Planned(t, s, f)'
  <2>1. /\ pc'[t] = "drop_release" /\ Len(s) <= capacity' + 1
        /\ s[Len(s)] = cur'[t] /\ f = Cut(s, Len(s))
    BY <1>1, <1>3, <1>4 DEF CallType
  <2> QED
    BY <1>4, <1>6, <2>1 DEF Planned
<1>8. AsPromised(t, f)'
  BY <1>1, <1>2 DEF AsPromised
<1> QED
  BY <1>5, <1>7, <1>8 DEF HolderInv

\* mem.erase() of an element that has left the list.
LEMMA EraseStep ==
  ASSUME MemType, CallType, NEW t \in Threads, pc \in [Threads -> Outside \cup Within],
         HolderInv(t), Erase(t)
  PROVE  MemType' /\ CallType' /\ HolderInv(t)'
<1>1. /\ pc[t] = "drop_erase" /\ pc'[t] = "unlock"
      /\ mem' = [k \in DOMAIN mem \ {cur[t]} |-> mem[k]]
      /\ UNCHANGED <<lru_list_head, lru_list_tail, capacity, call, cur, out, before>>
  BY DEF Erase, Goto
<1>2. PICK s, f : Planned(t, s, f) /\ AsPromised(t, f)
  BY <1>1 DEF HolderInv
<1>3. PICK K : K = DOMAIN mem \ {cur[t]}
  OBVIOUS
<1>4. IsList(s, K) /\ Len(s) <= capacity /\ f = s
  BY <1>1, <1>2, <1>3 DEF Planned
<1>5. DOMAIN mem' = K /\ \A k \in K : mem'[k] = mem[k]
  BY <1>1, <1>3
<1>6. MemType' /\ CallType'
  <2>1. mem' \in [K -> Element]
    BY <1>1, <1>3 DEF MemType
  <2> QED
    BY <1>1, <1>3, <1>5, <2>1 DEF MemType, CallType
<1>7. IsList(s, DOMAIN mem)'
  <2>1. IsList(s, K)'
    BY <1>1, <1>4, <1>5, ListFrame
  <2> QED
    BY <1>5, <2>1 DEF IsList
<1>8. Planned(t, s, f)'
  BY <1>1, <1>4, <1>7 DEF Planned
<1>9. AsPromised(t, f)'
  <2>1. f \in Seq(K)
    BY <1>4 DEF IsList
  <2>2. Entries(mem', f) = Entries(mem, f)
    BY <1>5, <2>1, EntriesAgree
  <2> QED
    BY <1>1, <1>2, <1>5, <2>1, <2>2 DEF AsPromised
<1> QED
  BY <1>6, <1>8, <1>9 DEF HolderInv

-----------------------------------------------------------------------------
(* The lookups, where it is decided what the call will do.                 *)

LEMMA CallCases ==
  ASSUME NEW c \in Calls
  PROVE  \/ c.kind = "set" /\ c.key \in Keys /\ c.value \in Values
         \/ c.kind \in {"get", "take", "erase", "has_key"} /\ c.key \in Keys
         \/ c.kind = "clear" /\ c.key = None
  BY DEF Calls

LEMMA SilentAnswer ==
  ASSUME NEW b, NEW c, c.kind \in {"set", "clear"}
  PROVE  Answer(b, c) = Missed
<1>1. (Holds(b, c.key) /\ c.kind \notin {"set", "clear"}) = FALSE
  OBVIOUS
<1>2. c.kind \notin {"get", "take"}
  OBVIOUS
<1> QED
  BY <1>1, <1>2, Zenon DEF Answer, Missed

LEMMA MissedAnswer ==
  ASSUME NEW b, NEW c, ~Holds(b, c.key)
  PROVE  Answer(b, c) = Missed
<1>1. (Holds(b, c.key) /\ c.kind \notin {"set", "clear"}) = FALSE
  OBVIOUS
<1> QED
  BY <1>1, Zenon DEF Answer, Missed

LEMMA FoundAnswer ==
  ASSUME NEW b, NEW c, Holds(b, c.key), c.kind \notin {"set", "clear"}
  PROVE  Answer(b, c) = [found |-> TRUE,
                         value |-> IF c.kind \in {"get", "take"} THEN Lookup(b, c.key) ELSE None]
<1>1. (Holds(b, c.key) /\ c.kind \notin {"set", "clear"}) = TRUE
  OBVIOUS
<1> QED
  BY <1>1, Zenon DEF Answer

\* A step of the lookup keeps the types.
LEMMA FindTypes ==
  ASSUME CallType, UNCHANGED <<capacity, call>>,
         NEW t \in Threads, NEW e \in Keys \cup {None},
         cur' = cur \/ cur' = [cur EXCEPT ![t] = e],
         NEW o \in [found : BOOLEAN, value : Values \cup {None}],
         out' = out \/ out' = [out EXCEPT ![t] = o]
  PROVE  CallType'
  BY DEF CallType

\* What thread t knows at the lookup.
AtFind(t, s, K) ==
  /\ K = DOMAIN mem /\ K \subseteq Keys /\ mem \in [K -> Element]
  /\ IsList(s, K) /\ s \in Seq(K) /\ Distinct(s)
  /\ Len(s) \in Nat /\ Len(s) <= capacity
  /\ before = Entries(mem, s)
  /\ call[t] \in Calls

LEMMA FindFacts ==
  ASSUME MemType, CallType, NEW t \in Threads, HolderInv(t), pc[t] = "find"
  PROVE  \E s, K : AtFind(t, s, K)
<1>1. PICK s : IsList(s, DOMAIN mem) /\ Len(s) <= capacity /\ before = Entries(mem, s)
  BY DEF HolderInv, Planned
<1>2. PICK K : K = DOMAIN mem
  OBVIOUS
<1>3. AtFind(t, s, K)
  BY <1>1, <1>2, ListCount DEF AtFind, IsList, MemType, CallType
<1> QED
  BY <1>3

\* A lookup that changes nothing leaves the list as it was and is.
LEMMA FindUnchanged ==
  ASSUME NEW t, NEW s, NEW K, AtFind(t, s, K),
         UNCHANGED <<listVars, capacity, call, before>>
  PROVE  /\ IsList(s, DOMAIN mem)' /\ Len(s) <= capacity'
         /\ s \in Seq(DOMAIN mem') /\ Entries(mem', s) = before'
  BY DEF AtFind, listVars, IsList, Linked

LEMMA NotFoundStep ==
  ASSUME MemType, CallType, NEW t \in Threads, pc \in [Threads -> Outside \cup Within],
         HolderInv(t), out[t] = Missed, NotFound(t)
  PROVE  MemType' /\ CallType' /\ HolderInv(t)'
<1>1. /\ pc[t] = "find" /\ call[t].key \notin DOMAIN mem
      /\ call[t].kind \notin {"set", "clear"} /\ pc'[t] = "unlock"
      /\ UNCHANGED <<listVars, mem, lru_list_head, lru_list_tail, capacity, call, cur, out, before>>
  BY DEF NotFound, Miss, Goto, listVars
<1>2. PICK s, K : AtFind(t, s, K)
  BY <1>1, FindFacts
<1>3. ~Occurs(call[t].key, s)
  BY <1>1, <1>2, ElementOfSeq DEF AtFind, Occurs
<1>4. ~Holds(before, call[t].key) /\ Remove(before, call[t].key) = before
  BY <1>2, <1>3, EntriesWithout DEF AtFind
<1>5. call[t].kind \in {"get", "take", "erase", "has_key"}
  BY <1>1, <1>2, CallCases DEF AtFind
<1>6. After(before, call[t], capacity) = before
  BY <1>4, <1>5 DEF After
<1>7. Planned(t, s, s)'
  BY <1>1, <1>2, FindUnchanged DEF Planned
<1>8. out[t] = Answer(before, call[t])
  BY <1>4, MissedAnswer
<1>9. AsPromised(t, s)'
  BY <1>1, <1>2, <1>6, <1>8, FindUnchanged DEF AsPromised
<1>10. MemType' /\ CallType'
  BY <1>1 DEF MemType, CallType
<1> QED
  BY <1>7, <1>9, <1>10 DEF HolderInv

\* Where a key that was found is, and what is there.
LEMMA FoundFacts ==
  ASSUME NEW t, NEW s, NEW K, AtFind(t, s, K), call[t].key \in DOMAIN mem
  PROVE  \E p \in 1..Len(s) :
           /\ s[p] = call[t].key /\ Holds(before, s[p])
           /\ Remove(before, s[p]) = Entries(mem, Cut(s, p))
           /\ Lookup(before, s[p]) = mem[s[p]].value
           /\ s[p] \in K /\ Cut(s, p) \in Seq(K) /\ Len(Cut(s, p)) = Len(s) - 1
           /\ \A i \in 1..Len(Cut(s, p)) : Cut(s, p)[i] # s[p]
           /\ InFront(s[p], Cut(s, p)) \in Seq(K)
           /\ Len(InFront(s[p], Cut(s, p))) = Len(s)
<1>1. PICK p \in 1..Len(s) : s[p] = call[t].key
  BY DEF AtFind, IsList, Occurs
<1>2. /\ Holds(before, s[p]) /\ Remove(before, s[p]) = Entries(mem, Cut(s, p))
      /\ Lookup(before, s[p]) = mem[s[p]].value
  BY EntriesCut DEF AtFind
<1>3. /\ Cut(s, p) \in Seq(K) /\ Len(Cut(s, p)) = Len(s) - 1 /\ s[p] \in K
      /\ \A i \in 1..(Len(s) - 1) : Cut(s, p)[i] = IF i < p THEN s[i] ELSE s[i + 1]
  BY CutSeq, ElementOfSeq DEF AtFind
<1>4. \A i \in 1..Len(Cut(s, p)) : Cut(s, p)[i] # s[p]
  BY <1>3 DEF AtFind, Distinct
<1>5. InFront(s[p], Cut(s, p)) \in Seq(K) /\ Len(InFront(s[p], Cut(s, p))) = Len(s)
  <2>1. K \cup {s[p]} = K
    BY <1>3
  <2> QED
    BY <1>3, <2>1, InFrontSeq DEF AtFind
<1> QED
  BY <1>1, <1>2, <1>3, <1>4, <1>5

LEMMA HasKeyStep ==
  ASSUME MemType, CallType, NEW t \in Threads, pc \in [Threads -> Outside \cup Within],
         HolderInv(t), out[t] = Missed, HasKey(t)
  PROVE  MemType' /\ CallType' /\ HolderInv(t)'
<1>1. /\ pc[t] = "find" /\ call[t].key \in DOMAIN mem
      /\ call[t].kind = "has_key" /\ pc'[t] = "unlock"
      /\ out' = [out EXCEPT ![t] = [found |-> TRUE, value |-> None]]
      /\ UNCHANGED <<listVars, mem, lru_list_head, lru_list_tail, capacity, call, cur, before>>
  BY DEF HasKey, Hit, Goto, listVars
<1>2. PICK s, K : AtFind(t, s, K)
  BY <1>1, FindFacts
<1>3. Holds(before, call[t].key)
  BY <1>1, <1>2, FoundFacts
<1>4. After(before, call[t], capacity) = before
  BY <1>1 DEF After
<1>5. Planned(t, s, s)'
  BY <1>1, <1>2, FindUnchanged DEF Planned
<1>6. out'[t] = Answer(before, call[t])
  <2>1. Answer(before, call[t]) = [found |-> TRUE, value |-> None]
    BY <1>1, <1>3, FoundAnswer
  <2> QED
    BY <1>1, <2>1 DEF CallType
<1>7. AsPromised(t, s)'
  BY <1>1, <1>2, <1>4, <1>6, FindUnchanged DEF AsPromised
<1>8. MemType'
  BY <1>1 DEF MemType
<1>9. [found |-> TRUE, value |-> None] \in [found : BOOLEAN, value : Values \cup {None}]
  OBVIOUS
<1>10. CallType'
  BY <1>1, <1>9, FindTypes
<1> QED
  BY <1>5, <1>7, <1>8, <1>10 DEF HolderInv

LEMMA GetStep ==
  ASSUME MemType, CallType, NEW t \in Threads, pc \in [Threads -> Outside \cup Within],
         HolderInv(t), out[t] = Missed, Get(t)
  PROVE  MemType' /\ CallType' /\ HolderInv(t)'
<1>0. PICK k : k = call[t].key
  OBVIOUS
<1>1. /\ pc[t] = "find" /\ k \in DOMAIN mem
      /\ call[t].kind = "get" /\ pc'[t] = "move_release"
      /\ out' = [out EXCEPT ![t] = [found |-> TRUE, value |-> mem[k].value]]
      /\ cur' = [cur EXCEPT ![t] = k]
      /\ UNCHANGED <<listVars, mem, lru_list_head, lru_list_tail, capacity, call, before>>
  BY <1>0 DEF Get, Hit, Goto, listVars
<1>2. PICK s, K : AtFind(t, s, K)
  BY <1>1, FindFacts
<1>3. PICK p \in 1..Len(s) :
        /\ s[p] = k /\ Holds(before, k)
        /\ Remove(before, k) = Entries(mem, Cut(s, p))
        /\ Lookup(before, k) = mem[k].value
        /\ k \in K /\ Cut(s, p) \in Seq(K)
        /\ InFront(k, Cut(s, p)) \in Seq(K)
  BY <1>0, <1>1, <1>2, FoundFacts
<1> DEFINE f == InFront(k, Cut(s, p))
<1>4. After(before, call[t], capacity) = Entries(mem, f)
  <2>1. After(before, call[t], capacity) = ToFront(before, k, mem[k].value)
    BY <1>0, <1>1, <1>3 DEF After
  <2>2. Entries(mem, f) = <<EntryOf(mem, k)>> \o Entries(mem, Cut(s, p))
    BY <1>2, <1>3, EntriesFront DEF AtFind
  <2> QED
    BY <1>3, <2>1, <2>2 DEF ToFront, EntryOf
<1>5. out'[t] = Answer(before, call[t])
  <2>1. Answer(before, call[t]) = [found |-> TRUE, value |-> mem[k].value]
    BY <1>0, <1>1, <1>3, FoundAnswer
  <2> QED
    BY <1>1, <2>1 DEF CallType
<1> HIDE DEF f
<1>6. AsPromised(t, f)'
  <2>1. f \in Seq(DOMAIN mem)
    BY <1>2, <1>3 DEF AtFind, f
  <2> QED
    BY <1>1, <1>4, <1>5, <2>1 DEF AsPromised
<1>7. Planned(t, s, f)'
  <2>1. cur'[t] = s[p] /\ f = InFront(cur'[t], Cut(s, p))
    BY <1>1, <1>3 DEF CallType, f
  <2> QED
    BY <1>1, <1>2, <2>1, FindUnchanged DEF Planned
<1>8. MemType'
  BY <1>1 DEF MemType
<1>9. /\ k \in Keys
      /\ [found |-> TRUE, value |-> mem[k].value] \in [found : BOOLEAN, value : Values \cup {None}]
  BY <1>1 DEF MemType, Element
<1>10. CallType'
  BY <1>1, <1>9, FindTypes
<1> QED
  BY <1>6, <1>7, <1>8, <1>10 DEF HolderInv

LEMMA TakeStep ==
  ASSUME MemType, CallType, NEW t \in Threads, pc \in [Threads -> Outside \cup Within],
         HolderInv(t), out[t] = Missed, Take(t)
  PROVE  MemType' /\ CallType' /\ HolderInv(t)'
<1> DEFINE k == call[t].key
           v == IF call[t].kind = "take" THEN mem[k].value ELSE None
<1>1. /\ pc[t] = "find" /\ k \in DOMAIN mem
      /\ call[t].kind \in {"take", "erase"} /\ pc'[t] = "drop_release"
      /\ out' = [out EXCEPT ![t] = [found |-> TRUE, value |-> v]]
      /\ cur' = [cur EXCEPT ![t] = k]
      /\ UNCHANGED <<listVars, mem, lru_list_head, lru_list_tail, capacity, call, before>>
  BY DEF Take, Hit, Goto, listVars
<1>2. PICK s, K : AtFind(t, s, K)
  BY <1>1, FindFacts
<1>3. PICK p \in 1..Len(s) :
        /\ s[p] = k /\ Holds(before, k)
        /\ Remove(before, k) = Entries(mem, Cut(s, p))
        /\ Lookup(before, k) = mem[k].value
        /\ k \in K /\ Cut(s, p) \in Seq(K)
  BY <1>1, <1>2, FoundFacts
<1> DEFINE f == Cut(s, p)
<1>4. After(before, call[t], capacity) = Entries(mem, f)
  BY <1>1, <1>3 DEF After
<1>5. out'[t] = Answer(before, call[t])
  <2>1. Answer(before, call[t]) = [found |-> TRUE, value |-> v]
    BY <1>1, <1>3, FoundAnswer
  <2> QED
    BY <1>1, <2>1 DEF CallType
<1> HIDE DEF f, k, v
<1>6. AsPromised(t, f)'
  <2>1. f \in Seq(DOMAIN mem)
    BY <1>2, <1>3 DEF AtFind, f
  <2> QED
    BY <1>1, <1>4, <1>5, <2>1 DEF AsPromised
<1>7. Planned(t, s, f)'
  <2>1. cur'[t] = s[p] /\ Len(s) <= capacity' + 1 /\ f = Cut(s, p)
    BY <1>1, <1>2, <1>3 DEF CallType, AtFind, f
  <2> QED
    BY <1>1, <1>2, <2>1, FindUnchanged DEF Planned
<1>8. MemType'
  BY <1>1 DEF MemType
<1>9. /\ k \in Keys
      /\ [found |-> TRUE, value |-> v] \in [found : BOOLEAN, value : Values \cup {None}]
  BY <1>1 DEF MemType, Element, v
<1>10. CallType'
  BY <1>1, <1>9, FindTypes
<1> QED
  BY <1>6, <1>7, <1>8, <1>10 DEF HolderInv

\* A new element is in the map before it is in the list.
LEMMA SetNewStep ==
  ASSUME MemType, CallType, NEW t \in Threads, pc \in [Threads -> Outside \cup Within],
         HolderInv(t), out[t] = Missed, SetNew(t)
  PROVE  MemType' /\ CallType' /\ HolderInv(t)'
<1>0. PICK k, v : k = call[t].key /\ v = call[t].value
  OBVIOUS
<1>1. /\ pc[t] = "find" /\ k \notin DOMAIN mem
      /\ call[t].kind = "set" /\ pc'[t] = "insert_new"
      /\ mem' = [x \in DOMAIN mem \cup {k} |->
                   IF x = k THEN [value |-> v, parent |-> None, child |-> None] ELSE mem[x]]
      /\ cur' = [cur EXCEPT ![t] = k]
      /\ UNCHANGED <<lru_list_head, lru_list_tail, capacity, call, out, before>>
  BY <1>0 DEF SetNew, Miss, Goto
<1>2. PICK s, K : AtFind(t, s, K)
  BY <1>1, FindFacts
<1>3. k \in Keys /\ v \in Values
  BY <1>0, <1>1, <1>2, CallCases DEF AtFind
<1>4. PICK L : L = K \cup {k}
  OBVIOUS
<1>5. /\ DOMAIN mem' = L /\ L \subseteq Keys /\ mem' \in [L -> Element]
      /\ mem'[k].value = v /\ \A x \in K : mem'[x] = mem[x]
      /\ k \in L /\ L \ {k} = K /\ s \in Seq(L)
  <2>1. K = DOMAIN mem /\ K \subseteq Keys /\ mem \in [K -> Element] /\ s \in Seq(K)
    BY <1>2 DEF AtFind
  <2>2. [value |-> v, parent |-> None, child |-> None] \in Element
    BY <1>3 DEF Element
  <2>3. mem' \in [L -> Element]
    BY <1>1, <1>4, <2>1, <2>2
  <2>4. mem'[k] = [value |-> v, parent |-> None, child |-> None]
    BY <1>1
  <2>5. s \in Seq(L)
    BY <1>4, <2>1, SeqMonotonic
  <2> QED
    BY <1>1, <1>3, <1>4, <2>1, <2>3, <2>4, <2>5
<1>6. MemType'
  BY <1>1, <1>5 DEF MemType
<1> DEFINE g == InFront(k, s)
           f == IF Len(s) + 1 > capacity THEN Cut(g, Len(s) + 1) ELSE g
<1>7. g \in Seq(L) /\ Len(g) = Len(s) + 1 /\ Len(s) \in Nat /\ capacity \in Nat
  <2>1. L \cup {k} = L
    BY <1>4
  <2> QED
    BY <1>2, <1>5, <2>1, InFrontSeq DEF AtFind, CallType
<1>8. Entries(mem', g) = ToFront(before, k, v)
  <2>1. ~Occurs(k, s)
    BY <1>1, <1>2, ElementOfSeq DEF AtFind, Occurs
  <2>2. Remove(before, k) = Entries(mem, s)
    BY <1>2, <2>1, EntriesWithout DEF AtFind
  <2>3. Entries(mem', s) = Entries(mem, s)
    <3>1. s \in Seq(K) /\ \A x \in K : mem'[x].value = mem[x].value
      BY <1>2, <1>5 DEF AtFind
    <3> QED
      BY <3>1, EntriesAgree
  <2>4. Entries(mem', g) = <<EntryOf(mem', k)>> \o Entries(mem', s)
    BY <1>5, EntriesFront
  <2>5. EntryOf(mem', k) = [key |-> k, value |-> v]
    BY <1>5 DEF EntryOf
  <2> QED
    BY <2>2, <2>3, <2>4, <2>5 DEF ToFront
<1>9. After(before, call[t], capacity) = Truncate(ToFront(before, k, v), capacity)
  BY <1>0, <1>1 DEF After
<1> HIDE DEF g
<1>10. Entries(mem', f) = After(before, call[t], capacity) /\ f \in Seq(L)
  <2>1. CASE Len(s) + 1 > capacity
    <3>1. Len(g) = capacity + 1 /\ f = Cut(g, Len(g)) /\ Len(g) \in 1..Len(g)
      BY <1>2, <1>7, <2>1 DEF AtFind
    <3>2. Truncate(Entries(mem', g), capacity) = Entries(mem', Cut(g, Len(g)))
      BY <1>5, <1>7, <3>1, EntriesTruncated
    <3>3. Cut(g, Len(g)) \in Seq(L)
      BY <1>7, <3>1, CutSeq
    <3> QED
      BY <1>8, <1>9, <3>1, <3>2, <3>3
  <2>2. CASE ~(Len(s) + 1 > capacity)
    <3>1. Len(g) <= capacity /\ f = g
      BY <1>7, <2>2
    <3>2. Truncate(Entries(mem', g), capacity) = Entries(mem', g)
      BY <1>5, <1>7, <3>1, EntriesTruncated
    <3> QED
      BY <1>7, <1>8, <1>9, <3>1, <3>2
  <2> QED
    BY <2>1, <2>2
<1>11. f = IF Len(s) + 1 > capacity' THEN Cut(InFront(k, s), Len(s) + 1) ELSE InFront(k, s)
  BY <1>1 DEF g
<1>12. PICK ff : ff = f
  OBVIOUS
<1> HIDE DEF f
<1>13. AsPromised(t, ff)'
  <2>1. out[t] = Answer(before, call[t])
    BY <1>1, SilentAnswer
  <2> QED
    BY <1>1, <1>5, <1>10, <1>12, <2>1 DEF AsPromised
<1>14. IsList(s, DOMAIN mem \ {cur[t]})'
  <2>1. IsList(s, K)'
    BY <1>1, <1>2, <1>5, ListFrame DEF AtFind
  <2>2. DOMAIN mem' \ {cur'[t]} = K
    BY <1>1, <1>5 DEF CallType
  <2> QED
    BY <2>1, <2>2 DEF IsList
<1>15. Planned(t, s, ff)'
  <2>1. /\ pc'[t] = "insert_new" /\ cur'[t] = k /\ cur'[t] \in DOMAIN mem'
        /\ Len(s) <= capacity'
    BY <1>1, <1>2, <1>5 DEF CallType, AtFind
  <2>2. ff = IF Len(s) + 1 > capacity' THEN Cut(InFront(cur'[t], s), Len(s) + 1)
             ELSE InFront(cur'[t], s)
    BY <1>11, <1>12, <2>1
  <2> QED
    BY <1>14, <2>1, <2>2 DEF Planned
<1>16. CallType'
  BY <1>1, <1>3 DEF CallType
<1> QED
  BY <1>6, <1>13, <1>15, <1>16 DEF HolderInv

\* Setting a known key changes its value; the list does not see it.
LEMMA SetKnownStep ==
  ASSUME MemType, CallType, NEW t \in Threads, pc \in [Threads -> Outside \cup Within],
         HolderInv(t), out[t] = Missed, SetKnown(t)
  PROVE  MemType' /\ CallType' /\ HolderInv(t)'
<1>0. PICK k, v : k = call[t].key /\ v = call[t].value
  OBVIOUS
<1>1. /\ pc[t] = "find" /\ k \in DOMAIN mem
      /\ call[t].kind = "set" /\ pc'[t] = "move_release"
      /\ mem' = [mem EXCEPT ![k].value = v]
      /\ cur' = [cur EXCEPT ![t] = k]
      /\ UNCHANGED <<lru_list_head, lru_list_tail, capacity, call, out, before>>
  BY <1>0 DEF SetKnown, Hit, Goto
<1>2. PICK s, K : AtFind(t, s, K)
  BY <1>1, FindFacts
<1>3. k \in Keys /\ v \in Values
  BY <1>0, <1>1, <1>2, CallCases DEF AtFind
<1>4. /\ DOMAIN mem' = K /\ K \subseteq Keys /\ mem' \in [K -> Element] /\ k \in K
      /\ mem'[k].value = v /\ \A x \in K \ {k} : mem'[x] = mem[x]
      /\ \A x \in K : mem'[x].parent = mem[x].parent /\ mem'[x].child = mem[x].child
  <2>1. K = DOMAIN mem /\ K \subseteq Keys /\ mem \in [K -> Element] /\ mem[k] \in Element
    BY <1>1, <1>2 DEF AtFind
  <2>2. /\ mem'[k] = [mem[k] EXCEPT !.value = v] /\ DOMAIN mem' = K
        /\ mem'[k] \in Element /\ mem' \in [K -> Element]
        /\ \A x \in K \ {k} : mem'[x] = mem[x]
    BY <1>1, <1>3, <2>1 DEF Element
  <2>3. /\ mem'[k].value = v /\ mem'[k].parent = mem[k].parent
        /\ mem'[k].child = mem[k].child
    BY <2>1, <2>2 DEF Element
  <2> QED
    BY <1>1, <2>1, <2>2, <2>3
<1>5. MemType'
  BY <1>1, <1>4 DEF MemType
<1>6. PICK p \in 1..Len(s) :
        /\ s[p] = k /\ Remove(before, k) = Entries(mem, Cut(s, p))
        /\ Cut(s, p) \in Seq(K) /\ \A i \in 1..Len(Cut(s, p)) : Cut(s, p)[i] # k
        /\ InFront(k, Cut(s, p)) \in Seq(K) /\ Len(InFront(k, Cut(s, p))) = Len(s)
  BY <1>0, <1>1, <1>2, FoundFacts
<1>7. PICK w, f : w = Cut(s, p) /\ f = InFront(k, w)
  OBVIOUS
<1>8. Entries(mem', f) = ToFront(before, k, v)
  <2>1. w \in Seq(K) /\ \A i \in 1..Len(w) : w[i] \in K \ {k}
    BY <1>6, <1>7, ElementOfSeq
  <2>2. Entries(mem', w) = Entries(mem, w)
    BY <1>4, <2>1 DEF Entries, EntryOf
  <2>3. Entries(mem', f) = <<EntryOf(mem', k)>> \o Entries(mem', w)
    BY <1>4, <1>7, <2>1, EntriesFront
  <2>4. EntryOf(mem', k) = [key |-> k, value |-> v]
    BY <1>4 DEF EntryOf
  <2> QED
    BY <1>6, <1>7, <2>2, <2>3, <2>4 DEF ToFront
<1>9. Entries(mem', f) = After(before, call[t], capacity)
  <2>1. f \in Seq(K) /\ Len(f) <= capacity /\ capacity \in Nat
    BY <1>2, <1>6, <1>7 DEF AtFind, CallType
  <2>2. Truncate(Entries(mem', f), capacity) = Entries(mem', f)
    BY <1>4, <2>1, EntriesTruncated
  <2> QED
    BY <1>0, <1>1, <1>8, <2>2 DEF After
<1>10. AsPromised(t, f)'
  <2>1. out[t] = Answer(before, call[t])
    BY <1>1, SilentAnswer
  <2> QED
    BY <1>1, <1>4, <1>6, <1>7, <1>9, <2>1 DEF AsPromised
<1>11. IsList(s, DOMAIN mem)'
  <2>1. IsList(s, K)'
    BY <1>1, <1>2, <1>4, ListFrame DEF AtFind
  <2> QED
    BY <1>4, <2>1 DEF IsList
<1>12. Planned(t, s, f)'
  <2>1. /\ pc'[t] = "move_release" /\ Len(s) <= capacity'
        /\ s[p] = cur'[t] /\ f = InFront(cur'[t], Cut(s, p))
    BY <1>1, <1>2, <1>6, <1>7 DEF CallType, AtFind
  <2> QED
    BY <1>11, <2>1 DEF Planned
<1>13. CallType'
  BY <1>1, <1>3 DEF CallType
<1> QED
  BY <1>5, <1>10, <1>12, <1>13 DEF HolderInv

LEMMA ClearStep ==
  ASSUME MemType, CallType, NEW t \in Threads, pc \in [Threads -> Outside \cup Within],
         HolderInv(t), out[t] = Missed, Clear(t)
  PROVE  MemType' /\ CallType' /\ HolderInv(t)'
<1>1. /\ call[t].kind = "clear" /\ pc'[t] = "unlock"
      /\ mem' = <<>> /\ lru_list_head' = None /\ lru_list_tail' = None
      /\ UNCHANGED <<capacity, call, cur, out, before>>
  BY DEF Clear, Goto
<1>2. mem' \in [{} -> Element] /\ DOMAIN mem' = {}
  BY <1>1
<1>3. MemType' /\ CallType'
  BY <1>1, <1>2 DEF MemType, CallType
<1>4. Len(<<>>) = 0 /\ \A D : <<>> \in Seq(D)
  BY EmptySeq
<1>5. IsList(<<>>, DOMAIN mem)'
  BY <1>1, <1>2, <1>4 DEF IsList, Linked
<1>6. Planned(t, <<>>, <<>>)'
  BY <1>1, <1>3, <1>4, <1>5 DEF Planned, CallType
<1>7. Entries(mem', <<>>) = <<>>
  <2>1. Entries(mem', <<>>) \in Seq(Entry) /\ Len(Entries(mem', <<>>)) = 0
    BY <1>2, <1>4, EntriesSeq
  <2> QED
    BY <2>1, EmptySeq
<1>8. AsPromised(t, <<>>)'
  <2>1. out[t] = Answer(before, call[t])
    BY <1>1, SilentAnswer
  <2>2. After(before, call[t], capacity) = <<>>
    BY <1>1 DEF After
  <2> QED
    BY <1>1, <1>4, <1>7, <2>1, <2>2 DEF AsPromised
<1> QED
  BY <1>3, <1>6, <1>8 DEF HolderInv

-----------------------------------------------------------------------------
(* The invariant of the cache. It needs the lock: a list that one thread   *)
(* has half changed is looked at by no other.                              *)

CacheInv ==
  /\ MemType /\ CallType
  /\ (\A t \in Threads : pc[t] \in Outside)
       => \E s : IsList(s, DOMAIN mem) /\ Len(s) <= capacity
  /\ \A t \in Threads : pc[t] \in Within => HolderInv(t)
  /\ \A t \in Threads : pc[t] \in Outside \cup {"find"} => out[t] = Missed

LEMMA Alone ==
  ASSUME ServedInOrder, NEW t \in Threads, NEW u \in Threads,
         pc[t] \notin Outside, pc[u] \notin Outside
  PROVE  t = u
  BY DEF ServedInOrder, Outside

LEMMA CacheInit == Init => CacheInv
<1> SUFFICES ASSUME Init PROVE CacheInv
  OBVIOUS
<1>1. /\ mem = <<>> /\ lru_list_head = None /\ lru_list_tail = None
      /\ capacity \in Nat /\ pc = [t \in Threads |-> "idle"]
      /\ call = [t \in Threads |-> NoCall] /\ cur = [t \in Threads |-> None]
      /\ out = [t \in Threads |-> Missed]
  BY CapacitiesAssumption DEF Init, CapacitiesAssumption
<1>2. mem \in [{} -> Element] /\ DOMAIN mem = {}
  BY <1>1
<1>3. MemType
  BY <1>1, <1>2 DEF MemType
<1>4. CallType
  <2>1. NoCall \in Calls
    BY DEF NoCall, Calls
  <2>2. Missed \in [found : BOOLEAN, value : Values \cup {None}]
    BY DEF Missed
  <2> QED
    BY <1>1, <2>1, <2>2 DEF CallType
<1>5. Len(<<>>) = 0 /\ \A D : <<>> \in Seq(D)
  BY EmptySeq
<1>6. IsList(<<>>, DOMAIN mem) /\ Len(<<>>) <= capacity
  BY <1>1, <1>2, <1>5 DEF IsList, Linked
<1> QED
  BY <1>1, <1>3, <1>4, <1>6 DEF CacheInv, Within

LEMMA CacheStep ==
  ASSUME LineInv, ServedInOrder, CacheInv, [Next]_vars
  PROVE  CacheInv'
<1>a. /\ MemType /\ CallType /\ pc \in [Threads -> Outside \cup Within]
      /\ \A t \in Threads : pc[t] \in Within => HolderInv(t)
      /\ \A t \in Threads : pc[t] \in Outside \cup {"find"} => out[t] = Missed
  BY DEF CacheInv, LineInv
<1>b. \A x \in Outside : x \notin Within
  BY DEF Outside, Within
\* A step after which t is inside the lock, past the lookup.
<1>c. ASSUME NEW t \in Threads, NEW l \in Within \ {"find"}, pc[t] \in Within, Goto(t, l),
             \A u \in Threads : u # t => out'[u] = out[u],
             MemType', CallType', HolderInv(t)'
      PROVE  CacheInv'
  <2>1. pc'[t] = l /\ \A u \in Threads : u # t => pc'[u] = pc[u] /\ pc[u] \in Outside
    BY <1>a, <1>b, <1>c, Alone DEF Goto
  <2>2. \A u \in Threads : pc'[u] \in Within => HolderInv(u)'
    BY <1>b, <1>c, <2>1
  <2>3. \A u \in Threads : pc'[u] \in Outside \cup {"find"} => out'[u] = Missed
    BY <1>a, <1>b, <1>c, <2>1
  <2>4. ~(\A u \in Threads : pc'[u] \in Outside)
    BY <1>b, <1>c, <2>1
  <2> QED
    BY <1>c, <2>2, <2>3, <2>4 DEF CacheInv
\* A step that touches neither the cache nor the calls.
<1>d. ASSUME UNCHANGED <<mem, lru_list_head, lru_list_tail, capacity, call, cur, out, before>>,
             \A u \in Threads : pc'[u] = pc[u] \/ (pc[u] \in Outside /\ pc'[u] \in Outside)
      PROVE  CacheInv'
  <2>1. MemType' /\ CallType'
    BY <1>a, <1>d DEF MemType, CallType
  <2>2. ASSUME NEW u \in Threads, pc'[u] \in Within PROVE HolderInv(u)'
    <3>1. pc'[u] = pc[u] /\ HolderInv(u)
      BY <1>a, <1>b, <1>d, <2>2
    <3>2. ASSUME NEW s
          PROVE  /\ IsList(s, DOMAIN mem) => IsList(s, DOMAIN mem)'
                 /\ IsList(s, DOMAIN mem \ {cur[u]}) => IsList(s, DOMAIN mem \ {cur[u]})'
      BY <1>d DEF IsList, Linked, Occurs
    <3>3. CASE pc[u] = "find" /\ ~\E s, f : Planned(u, s, f) /\ AsPromised(u, f)
      <4>1. PICK s : /\ IsList(s, DOMAIN mem) /\ Len(s) <= capacity
                     /\ before = Entries(mem, s)
        BY <3>1, <3>3 DEF HolderInv
      <4> QED
        BY <1>d, <3>1, <3>2, <3>3, <4>1 DEF HolderInv
    <3>4. ASSUME NEW s, NEW f, Planned(u, s, f), AsPromised(u, f) PROVE HolderInv(u)'
      <4>1. AsPromised(u, f)'
        BY <1>d, <3>4 DEF AsPromised
      <4>2. Planned(u, s, f)'
        BY <1>d, <3>1, <3>2, <3>4 DEF Planned
      <4> QED
        BY <4>1, <4>2 DEF HolderInv
    <3> QED
      BY <3>1, <3>3, <3>4 DEF HolderInv
  <2>3. ASSUME \A u \in Threads : pc'[u] \in Outside
        PROVE  \E s : IsList(s, DOMAIN mem)' /\ Len(s) <= capacity'
    <3>1. \A u \in Threads : pc[u] \in Outside
      BY <1>d, <2>3
    <3>2. PICK s : IsList(s, DOMAIN mem) /\ Len(s) <= capacity
      BY <3>1 DEF CacheInv
    <3>3. IsList(s, DOMAIN mem)' /\ Len(s) <= capacity'
      BY <1>d, <3>2 DEF IsList, Linked, Occurs
    <3> QED
      BY <3>3
  <2>4. \A u \in Threads : pc'[u] \in Outside \cup {"find"} => out'[u] = Missed
    BY <1>a, <1>d
  <2> QED
    BY <2>1, <2>2, <2>3, <2>4 DEF CacheInv
<1>1. CASE UNCHANGED vars
  BY <1>1, <1>d DEF vars, listVars
<1>2. ASSUME NEW t \in Threads, Lock(t) PROVE CacheInv'
  <2>1. /\ UNCHANGED <<mem, lru_list_head, lru_list_tail, capacity, call, cur, out, before>>
        /\ pc[t] = "idle" /\ pc' = [pc EXCEPT ![t] = "spin"]
    BY <1>2 DEF Lock, Goto, listVars
  <2>2. \A u \in Threads : pc'[u] = pc[u] \/ (pc[u] \in Outside /\ pc'[u] \in Outside)
    BY <1>a, <2>1 DEF Outside
  <2> QED
    BY <1>d, <2>1, <2>2
<1>3. ASSUME NEW t \in Threads, Enter(t) PROVE CacheInv'
  <2>1. /\ pc[t] = "spin" /\ Admitted(t) /\ pc' = [pc EXCEPT ![t] = "find"]
        /\ before' = Contents
        /\ UNCHANGED <<mem, lru_list_head, lru_list_tail, capacity, cur, out>>
    BY <1>3 DEF Enter, Goto, listVars
  <2>2. PICK c \in Calls : call' = [call EXCEPT ![t] = c]
    BY <1>3 DEF Enter
  <2>3. \A u \in Threads : pc[u] \in Outside
    <3>1. Head(line) = t
      BY <2>1, AdmittedIsHead
    <3> QED
      BY <1>a, <2>1, <3>1 DEF ServedInOrder, Outside
  <2>4. PICK s : IsList(s, DOMAIN mem) /\ Len(s) <= capacity
    BY <2>3 DEF CacheInv
  <2>5. Contents = Entries(mem, s)
    BY <2>4, ContentsOfList
  <2>6. MemType' /\ CallType'
    BY <1>a, <2>1, <2>2 DEF MemType, CallType
  <2>7. HolderInv(t)'
    <3>1. IsList(s, DOMAIN mem)' /\ Len(s) <= capacity' /\ before' = Entries(mem', s)
      BY <2>1, <2>4, <2>5 DEF IsList, Linked, Occurs
    <3>2. pc'[t] = "find"
      BY <1>a, <2>1
    <3> QED
      BY <3>1, <3>2 DEF HolderInv
  <2>8. \A u \in Threads : pc'[u] \in Within => HolderInv(u)'
    BY <1>a, <1>b, <2>1, <2>3, <2>7
  <2>9. ~(\A u \in Threads : pc'[u] \in Outside)
    BY <1>a, <2>1 DEF Outside
  <2>10. \A u \in Threads : out'[u] = Missed
    BY <1>a, <2>1, <2>3
  <2> QED
    BY <2>6, <2>8, <2>9, <2>10 DEF CacheInv
<1>4. ASSUME NEW t \in Threads, Unlock(t) PROVE CacheInv'
  <2>1. /\ pc[t] = "unlock" /\ pc' = [pc EXCEPT ![t] = "idle"]
        /\ call' = [call EXCEPT ![t] = NoCall] /\ cur' = [cur EXCEPT ![t] = None]
        /\ out' = [out EXCEPT ![t] = Missed]
        /\ UNCHANGED <<mem, lru_list_head, lru_list_tail, capacity>>
    BY <1>4 DEF Unlock, Goto, listVars
  <2>2. PICK s : IsList(s, DOMAIN mem) /\ Len(s) <= capacity
    <3>1. HolderInv(t)
      BY <1>a, <2>1 DEF Within
    <3> QED
      BY <2>1, <3>1 DEF HolderInv, Planned
  <2>3. MemType' /\ CallType'
    <3>1. NoCall \in Calls
      BY DEF NoCall, Calls
    <3>2. Missed \in [found : BOOLEAN, value : Values \cup {None}]
      BY DEF Missed
    <3> QED
      BY <1>a, <2>1, <3>1, <3>2 DEF MemType, CallType
  <2>4. \A u \in Threads : pc'[u] \in Outside
    <3>1. \A u \in Threads : u # t => pc[u] \in Outside
      BY <2>1, Alone DEF Outside
    <3> QED
      BY <1>a, <2>1, <3>1 DEF Outside
  <2>5. IsList(s, DOMAIN mem)' /\ Len(s) <= capacity'
    BY <2>1, <2>2 DEF IsList, Linked, Occurs
  <2>6. \A u \in Threads : out'[u] = Missed
    <3>1. \A u \in Threads : u # t => pc[u] \in Outside
      BY <2>1, Alone DEF Outside
    <3> QED
      BY <1>a, <2>1, <3>1 DEF CallType
  <2>7. \E x : IsList(x, DOMAIN mem)' /\ Len(x) <= capacity'
    BY <2>5
  <2> QED
    BY <1>b, <2>3, <2>4, <2>6, <2>7 DEF CacheInv
<1>5. ASSUME NEW t \in Threads, Release(t) \/ Insert(t) \/ Gc(t) \/ Erase(t)
      PROVE  CacheInv'
  <2>1. pc[t] \in Within \ {"find"} /\ out' = out
    BY <1>5 DEF Release, Insert, Gc, Erase, Within
  <2>2. \E l \in Within \ {"find"} : Goto(t, l)
    BY <1>5 DEF Release, Insert, Gc, Erase, Within, Goto
  <2>3. MemType' /\ CallType' /\ HolderInv(t)'
    BY <1>5, <1>a, <2>1, ReleaseStep, InsertStep, GcStep, EraseStep
  <2> QED
    BY <1>c, <2>1, <2>2, <2>3
<1>6. ASSUME NEW t \in Threads,
             \/ NotFound(t) \/ HasKey(t) \/ SetNew(t) \/ SetKnown(t) \/ Get(t)
             \/ Take(t) \/ Clear(t)
      PROVE  CacheInv'
  <2>1. pc[t] = "find" /\ pc[t] \in Within /\ out[t] = Missed
    BY <1>6, <1>a DEF NotFound, HasKey, SetNew, SetKnown, Get, Take, Clear, Hit, Miss, Within
  <2>2. \E l \in Within \ {"find"} : Goto(t, l)
    BY <1>6 DEF NotFound, HasKey, SetNew, SetKnown, Get, Take, Clear, Within
  <2>3. MemType' /\ CallType' /\ HolderInv(t)'
    BY <1>6, <1>a, <2>1, NotFoundStep, HasKeyStep, SetNewStep, SetKnownStep, GetStep,
       TakeStep, ClearStep
  <2>4. \A u \in Threads : u # t => out'[u] = out[u]
    BY <1>6, <1>a DEF CallType, NotFound, HasKey, SetNew, SetKnown, Get, Take, Clear
  <2> QED
    BY <1>c, <2>1, <2>2, <2>3, <2>4
<1> QED
  BY <1>1, <1>2, <1>3, <1>4, <1>5, <1>6 DEF Next, Step

LEMMA CacheInvariant == Spec => [](LineInv /\ ServedInOrder /\ CacheInv)
<1>1. LineInv /\ ServedInOrder /\ CacheInv /\ [Next]_vars
        => LineInv' /\ ServedInOrder' /\ CacheInv'
  BY LineStep, CacheStep
<1> QED
  BY <1>1, LineInit, CacheInit, PTL DEF Spec

\* Between the calls the list holds the elements of the map, can be followed from
\* either end and is within the capacity, for any number of threads, keys and
\* values, and for a capacity of 0 too.
THEOREM ListAlwaysExact == Spec => []ListExact
<1>1. LineInv /\ ServedInOrder /\ CacheInv => ListExact
  <2> SUFFICES ASSUME LineInv, ServedInOrder, CacheInv,
                      \A t \in Threads : pc[t] \in {"idle", "spin", "find", "unlock"}
               PROVE  /\ \E s \in Orders : Linked(s)
                      /\ Cardinality(DOMAIN mem) <= capacity
    BY DEF ListExact
  <2>1. \E s : IsList(s, DOMAIN mem) /\ Len(s) <= capacity
    <3>1. CASE \A t \in Threads : pc[t] \in Outside
      BY <3>1 DEF CacheInv
    <3>2. ASSUME NEW t \in Threads, pc[t] \notin Outside
          PROVE  \E s : IsList(s, DOMAIN mem) /\ Len(s) <= capacity
      <4>1. pc[t] \in {"find", "unlock"} /\ pc[t] \in Within
        BY <3>2 DEF Outside, Within
      <4>2. HolderInv(t)
        BY <4>1 DEF CacheInv
      <4> QED
        BY <4>1, <4>2 DEF HolderInv, Planned
    <3> QED
      BY <3>1, <3>2
  <2>2. PICK s : IsList(s, DOMAIN mem) /\ Len(s) <= capacity
    BY <2>1
  <2> QED
    BY <2>2, ContentsOfList, ListCount DEF IsList
<1> QED
  BY <1>1, CacheInvariant, PTL

\* Each call of the cache has done, when it unlocks, what the least-recently-used
\* cache does: the contents, their order, the evicted element and the answer.
THEOREM CallsAlwaysLRU == Spec => []CallsAreLRU
<1>1. LineInv /\ ServedInOrder /\ CacheInv => CallsAreLRU
  <2> SUFFICES ASSUME CacheInv, NEW t \in Threads, pc[t] = "unlock"
               PROVE  /\ Contents = After(before, call[t], capacity)
                      /\ out[t] = Answer(before, call[t])
    BY DEF CallsAreLRU
  <2>1. HolderInv(t)
    BY DEF CacheInv, Within
  <2>2. PICK s, f : Planned(t, s, f) /\ AsPromised(t, f)
    BY <2>1 DEF HolderInv
  <2>3. IsList(f, DOMAIN mem)
    BY <2>2 DEF Planned
  <2> QED
    BY <2>2, <2>3, ContentsOfList DEF AsPromised
<1> QED
  BY <1>1, CacheInvariant, PTL

=============================================================================
