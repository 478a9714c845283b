---------------------------- MODULE MCQueueCache ----------------------------
(* Small instances of QueueCache.                                           *)
EXTENDS QueueCache, TLC

CONSTANTS i1, i2, k1, k2, m1, m2, m3

\* Two calls share an isolate, all three a colo and a key.
TwoIsolates == [s \in Sends |-> IF s = m3 THEN i2 ELSE i1]
OneKey == [s \in Sends |-> k1]
=============================================================================
