\* Three assets, two attempts, every cache and chunk size, and a second run after a failure.
SPECIFICATION FairSpec
CONSTANTS
    Count = 3
    Plans <- EveryPlan
    NaN = NaN
    MaxRequestRetries = 2
    MaxRuns = 2
CHECK_DEADLOCK FALSE
INVARIANTS TypeOK Outcome
PROPERTIES CommandEnds PoolIsBounded
