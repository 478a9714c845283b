\* Calls of two ids compete for a slot, with failures, their retries by an alarm and a crash.
SPECIFICATION FairSpec
CONSTANTS
    c1 = c1  c2 = c2  c3 = c3  c4 = c4
    x = x  y = y  z = z
    home = home  about = about
    Calls = {c1, c2, c3}
    Ids = {x, y}
    Routes = {home}
    RouteOf <- OneRoute
    LastModified <- FreshEntries
    AlarmHandler = AlarmHandler
    None = None
    MaxRevalidations = 1
    MaxRetries = 1
    RetryInterval = 500
    DisableSQLite = TRUE
    TickMs = 1000
    MaxTime = 2000
    MaxCrashes = 1
    MaxBuilds = 1
INVARIANTS
    TypeOK
    NoLeakedSlot
    NoLostWakeup
PROPERTIES EveryRunEnds PoolIsBounded
CHECK_DEADLOCK FALSE
