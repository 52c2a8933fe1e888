------------------------ MODULE MCThreadPoolExecutor ------------------------
(***************************************************************************)
(* Instances of ThreadPoolExecutor for TLC.                                *)
(***************************************************************************)
EXTENDS ThreadPoolExecutor, TLC

CONSTANTS c1, c2

\* Every member function from two threads at once, in any order.
CallsAny == c1 :> {"submit", "shutdown"}
         @@ c2 :> {"submit", "await", "await_until", "destroy"}

\* One thread submits and then shuts down, another waits and then destroys.
CallsOrderly == c1 :> {"submit", "shutdown"} @@ c2 :> {"await", "destroy"}

\* shutdown() from another thread than submit().
CallsRacing == c1 :> {"submit"} @@ c2 :> {"shutdown"}

\* Worker addresses and tasks are interchangeable.
Symmetric == Permutations(Workers) \cup Permutations(Tasks)

=============================================================================
