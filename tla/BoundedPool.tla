----------------------------- MODULE BoundedPool -----------------------------
(***************************************************************************)
(* What a pool of promises raced with Promise.race() promises: tasks start *)
(* one at a time, never more than a limit of them run, and each ends once. *)
(* The durable object queue and the population of the cache implement it.  *)
(***************************************************************************)
EXTENDS Naturals, FiniteSets

CONSTANT Tasks

VARIABLES
    running,
    limit       \* fixed

Init ==
    /\ running = {}
    /\ limit \in Nat

Start(t) ==
    /\ t \notin running
    /\ Cardinality(running) < limit
    /\ running' = running \cup {t}
    /\ UNCHANGED limit

\* A crash ends several at once.
Finish(ended) ==
    /\ ended # {}
    /\ running' = running \ ended
    /\ UNCHANGED limit

Next ==
    \/ \E t \in Tasks : Start(t)
    \/ \E ended \in SUBSET running : Finish(ended)

Spec == Init /\ [][Next]_<<running, limit>>
=============================================================================
