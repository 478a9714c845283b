--------------------------- MODULE MCDeployments ---------------------------
(* Constants of Deployments for TLC. *)
EXTENDS Deployments, TLC

Symmetry == Permutations(Commands) \cup Permutations(Deployments)
=============================================================================
