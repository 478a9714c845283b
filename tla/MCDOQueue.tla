------------------------------ MODULE MCDOQueue ------------------------------
(***************************************************************************)
(* Small instances of DOQueue.                                             *)
(***************************************************************************)
EXTENDS DOQueue, TLC

CONSTANTS c1, c2, c3, c4, x, y, z, home, about

CallSymmetry == Permutations(Calls)

\* One route, whose entry keeps its version.
OneRoute == [id \in Ids |-> home]
FreshEntries == [id \in Ids |-> 0]

\* x and y are two versions of the entry of one route, z of another.
TwoRoutes == [id \in Ids |-> IF id = z THEN about ELSE home]
TwoVersions == [id \in Ids |-> IF id = y THEN 1400 ELSE 0]
=============================================================================
