-------------------------- MODULE MCShardedTagCache --------------------------
(* Small instances of ShardedTagCache.                                      *)
EXTENDS ShardedTagCache, TLC

CONSTANTS t1, t2, s1, s2, rep1, rep2, here, w1, w2, k1, k2, k3, q1, q2

OneShard == [t \in Tags |-> s1]
WritersHere == [w \in Writers |-> here]
SameRequest == [k \in Checks |-> q1]
TwoOfOneRequest == [k \in Checks |-> IF k = k3 THEN q2 ELSE q1]
RequestsHere == [q \in Requests |-> here]
\* Without regional cache the second option says nothing.
EveryOption == {o \in Opts : o.regionalCacheDangerouslyPersistMissingTags => o.regionalCache}
Direct == {[regionalCache |-> FALSE, regionalCacheDangerouslyPersistMissingTags |-> FALSE]}
ReplicaSymmetry == Permutations(Replicas)
ReadSymmetry == Permutations(Replicas) \cup Permutations({k1, k2})
=============================================================================
