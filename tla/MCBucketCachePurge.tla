------------------------- MODULE MCBucketCachePurge -------------------------
(* Small instances of BucketCachePurge.                                     *)
EXTENDS BucketCachePurge, TLC

CONSTANTS r1, r2, r3, a, b, c

Symmetry == Permutations(Tags) \cup Permutations(Calls)
=============================================================================
