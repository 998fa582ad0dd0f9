CONSTANTS
    Requests = {r1, r2}
    Workers = {w1}
    MaxAttempts = 3
    GatewayMode = TRUE
    Confirms = 0
    MaxReleases = 0
    MaxCrashes = 0
    MaxLost = 0
    Overruns = TRUE
SPECIFICATION Spec
INVARIANT PaidAtMostOnce
CHECK_DEADLOCK FALSE
