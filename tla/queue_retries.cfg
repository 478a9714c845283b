\* Failing revalidations are retried by alarms across a crash and a deployment.
SPECIFICATION Spec
CONSTANTS
    c1 = c1  c2 = c2  c3 = c3  c4 = c4
    x = x  y = y  z = z
    home = home  about = about
    Calls = {c1, c2}
    Ids = {x, y}
    Routes = {home}
    RouteOf <- OneRoute
    LastModified <- TwoVersions
    AlarmHandler = AlarmHandler
    None = None
    MaxRevalidations = 1
    MaxRetries = 2
    RetryInterval = 500
    DisableSQLite = FALSE
    TickMs = 1000
    MaxTime = 5000
    MaxCrashes = 1
    MaxBuilds = 2
SYMMETRY CallSymmetry
INVARIANTS
    RetryBudget
    SyncDropsOnlyOlder
PROPERTIES RestoredState
CHECK_DEADLOCK FALSE
