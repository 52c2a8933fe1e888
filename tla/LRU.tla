-------------------------------- MODULE LRU ---------------------------------
(***************************************************************************)
(* What a least-recently-used cache promises, call by call. Its contents   *)
(* are a sequence of entries, the most recently used one first.            *)
(***************************************************************************)
EXTENDS Integers, Sequences

CONSTANTS Keys, Values, None

\* None is also the null pointer: no element has that address.
ASSUME NoneAssumption == None \notin Keys

\* "get" is any call that looks a value up and keeps it, "take" one that moves
\* it out of the cache.
Calls ==
  [kind : {"set"}, key : Keys, value : Values]
    \cup [kind : {"get", "take", "erase", "has_key"}, key : Keys, value : {None}]
    \cup {[kind |-> "clear", key |-> None, value |-> None]}

Holds(s, k) == \E i \in 1..Len(s) : s[i].key = k
Lookup(s, k) == s[CHOOSE i \in 1..Len(s) : s[i].key = k].value

\* The sequence s without the entry for k.
Remove(s, k) ==
  IF ~Holds(s, k) THEN s
  ELSE LET p == CHOOSE i \in 1..Len(s) : s[i].key = k IN
       [i \in 1..(Len(s) - 1) |-> IF i < p THEN s[i] ELSE s[i + 1]]

ToFront(s, k, v) == <<[key |-> k, value |-> v]>> \o Remove(s, k)

Truncate(s, n) == IF Len(s) > n THEN SubSeq(s, 1, n) ELSE s

\* The contents after call c on contents s, in a cache for n entries.
After(s, c, n) ==
  CASE c.kind = "set"                        -> Truncate(ToFront(s, c.key, c.value), n)
    [] c.kind = "get" /\ Holds(s, c.key)     -> ToFront(s, c.key, Lookup(s, c.key))
    [] c.kind \in {"take", "erase"}          -> Remove(s, c.key)
    [] c.kind = "clear"                      -> <<>>
    [] OTHER                                 -> s

\* The value the call hands out, and whether it found its key.
Answer(s, c) ==
  [found |-> Holds(s, c.key) /\ c.kind \notin {"set", "clear"},
   value |-> IF c.kind \in {"get", "take"} /\ Holds(s, c.key)
             THEN Lookup(s, c.key) ELSE None]

=============================================================================
