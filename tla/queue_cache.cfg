\* Three messages of one key from two isolates, over either queue, waited for or not.
SPECIFICATION FairSpec
CONSTANTS
    i1 = i1  i2 = i2  k1 = k1  k2 = k2  m1 = m1  m2 = m2  m3 = m3
    None = None
    Isolates = {i1, i2}  Keys = {k1}
    Sends = {m1, m2, m3}  IsolateOf <- TwoIsolates  KeyOf <- OneKey
    WaitForQueueAck = {TRUE, FALSE}  Memory = {TRUE, FALSE}
    Ttl = 2  Timeout = 2  PutLimit = 1
    MaxTime = 4
CHECK_DEADLOCK FALSE
INVARIANTS TypeOK OneRevalidation
PROPERTIES LeftOutIsRecent SendEnds
