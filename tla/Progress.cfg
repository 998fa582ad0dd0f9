SPECIFICATION LiveSpec
CONSTANTS
    r1 = r1
    r2 = r2
    Slots = {r1, r2}
    p1 = p1
    Pros = {p1}
    pay1 = pay1
    PayIds = {pay1}
    Totals = {30}
    CommissionBps = 500
    ManualMode = TRUE
    Nobody = Nobody
    PRO = PRO
    Plans = {PRO}
    MaxPreapprovals = 1
    MaxPayments = 1
    MaxFaults = 1
    j1 = j1
    j2 = j2
    TwoJobs = {j1, j2}
    Movable = {j1}
    Amounts = {1, 2}
    TwoPayments = 2
    MaxLinks = 2
    MaxLoad = 3
    SubscriptionRef = SubscriptionRef
INVARIANTS MoneyMatches
PROPERTIES HeldWorkIsSettled ChargeIsHonoured UnpaidPlanRunsOut
CHECK_DEADLOCK FALSE
