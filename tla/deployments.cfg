\* Three commands that deploy or upload, and a change of a secret.
CONSTANTS
    Commands = {c1, c2, c3}
    Deployments = {d1, d2, d3}
    NoDeployment = NoDeployment
    MaxVersions = 2
    MaxAge = 1
    MaxTime = 2
    MaxSecrets = 1
SPECIFICATION Spec
INVARIANTS TypeOK RoutedRight Retained
SYMMETRY Symmetry
CHECK_DEADLOCK FALSE
