\* Two writes of a replicated tag, whose calls may fail as often as they are retried.
SPECIFICATION FairSpec
CONSTANTS
    t1 = t1  t2 = t2  s1 = s1  s2 = s2  rep1 = rep1  rep2 = rep2
    here = here  w1 = w1  w2 = w2  k1 = k1  k2 = k2  k3 = k3  q1 = q1  q2 = q2
    None = None
    Tags = {t1}  Shards = {s1}  ShardOf <- OneShard  Replicas = {rep1, rep2}
    Colos = {here}  Writers = {w1, w2}  WriterColo <- WritersHere
    Checks = {}  Requests = {q1}  RequestOf <- SameRequest  RequestColo <- RequestsHere
    Options <- Direct
    Ttl = 1  MaxWriteRetries = 1  PutDelay = 1
    MaxTime = 2  MaxErrors = 0
CHECK_DEADLOCK FALSE
INVARIANT EveryReplicaHasIt
PROPERTY WriteEnds
