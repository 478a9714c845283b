\* A write of a replicated tag, three checks of two requests in its colo, a failure, every option.
SPECIFICATION Spec
CONSTANTS
    t1 = t1  t2 = t2  s1 = s1  s2 = s2  rep1 = rep1  rep2 = rep2
    here = here  w1 = w1  w2 = w2  k1 = k1  k2 = k2  k3 = k3  q1 = q1  q2 = q2
    None = None
    Tags = {t1}  Shards = {s1}  ShardOf <- OneShard  Replicas = {rep1, rep2}
    Colos = {here}  Writers = {w1}  WriterColo <- WritersHere
    Checks = {k1, k2, k3}  Requests = {q1, q2}  RequestOf <- TwoOfOneRequest  RequestColo <- RequestsHere
    Options <- EveryOption
    Ttl = 1  MaxWriteRetries = 0  PutDelay = 1
    MaxTime = 3  MaxErrors = 1
CHECK_DEADLOCK FALSE
SYMMETRY ReadSymmetry
INVARIANTS TypeOK WriterColoClean SeenAfterLag
