SPECIFICATION Spec
CONSTANTS
    r1 = r1
    r2 = r2
    Slots = {r1, r2}
    MaxDay = 3
    MaxEdition = 2
INVARIANT TodaysRateIsFresh
CHECK_DEADLOCK FALSE
