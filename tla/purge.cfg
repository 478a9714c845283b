\* Requests for three tags, batches of two, every answer, one 429 more than is retried, a crash.
SPECIFICATION FairPurgeSpec
CONSTANTS
    r1 = r1  r2 = r2  r3 = r3
    a = a  b = b  c = c
    Tags = {a, b, c}
    Calls = {r1, r2}
    BatchSize = 2
    PlatformRetries = 1
    MaxRateLimits = 2
    MaxCrashes = 1
CHECK_DEADLOCK FALSE
INVARIANTS PurgeTypeOK NoPurgeForgotten RowsHaveAlarm
PROPERTY TableEmptied
