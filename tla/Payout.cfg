CONSTANTS
    Requests = {r1, r2}
    Workers = {w1}
    MaxAttempts = 2
    GatewayMode = TRUE
    Confirms = 1
    MaxReleases = 1
    MaxCrashes = 1
    MaxLost = 1
    Overruns = TRUE
SPECIFICATION FairSpec
INVARIANTS LedgerIsBacked OneOwner PaidOnceInOrder
PROPERTY AttemptIsSettled
CHECK_DEADLOCK FALSE
