\* Of three failed routes, alarm() retries two and leaves the third without an alarm.
SPECIFICATION Spec
CONSTANTS
    c1 = c1  c2 = c2  c3 = c3  c4 = c4
    x = x  y = y  z = z
    home = home  about = about
    Calls = {c1, c2, c3}
    Ids = {x, y, z}
    Routes = {home}
    RouteOf <- OneRoute
    LastModified <- FreshEntries
    AlarmHandler = AlarmHandler
    None = None
    MaxRevalidations = 3
    MaxRetries = 1
    RetryInterval = 500
    DisableSQLite = TRUE
    TickMs = 1000
    MaxTime = 2000
    MaxCrashes = 0
    MaxBuilds = 1
SYMMETRY CallSymmetry
INVARIANTS
    FailedRouteHasAlarm
CHECK_DEADLOCK FALSE
