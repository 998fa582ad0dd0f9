CONSTANTS
    Deliveries = {d1, d2}
    MaxFaults = 2
    Overruns = TRUE
SPECIFICATION FairSpec
INVARIANTS AckedApprovalIsFunded FundedWasApproved OneWorkerBeforeStale
PROPERTY ApprovedIsFunded
CHECK_DEADLOCK FALSE
