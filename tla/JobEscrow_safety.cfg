CONSTANTS
    Pros = {p1, p2}
    Payments = {pay1}
    ChangeOrders = {c1}
    Requests = {r1, r2}
    Totals = {2}
    Deltas = {1}
    Rates <- RatesUsd
    CommissionBps = 500
    ManualMode = TRUE
    Nobody = Nobody
SYMMETRY Interchangeable
SPECIFICATION Spec
INVARIANTS TypeOK ReleaseIsBacked AssignedJobHasEscrow SplitIsExact
PROPERTIES ImplementsLedger ProfessionalIsFinal SettlementFrozen
CHECK_DEADLOCK FALSE
