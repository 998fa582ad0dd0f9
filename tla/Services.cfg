SPECIFICATION StartSpec
CONSTANTS
    None = None
    r1 = r1
    r2 = r2
    Slots = {r1, r2}
    MaxFaults = 1
    x1 = x1
    x2 = x2
    x3 = x3
    RowIds = {x1, x2, x3}
    TwoIds = {x1, x2}
    PlanLimits = {1, 2}
    u1 = u1
    u2 = u2
    Users = {u1, u2}
    rut = rut
    Ruts = {rut}
    NoRut = NoRut
    PRO = PRO
    Catalog = {PRO}
    Customs = {x1, x2}
    MaxVersion = 2
    p1 = p1
    p2 = p2
    Policies = {p1, p2}
    MaxChanges = 3
    Capital = Capital
    Centro = Centro
    Pocitos = Pocitos
    Cordon = Cordon
    Professionals = {x1, x2}
    Companies = {x3}
    MaxPage = 2
    MaxDay = 3
    MaxEdition = 2
    MaxRows = 3
    PageSize = 1
    MaxMoves = 1
    Rocha = Rocha
    NumericCode = NumericCode
    t1 = t1
    t2 = t2
    Trades = {t1, t2}
    j1 = j1
    LinkedJobs = {j1}
    Absent = Absent
    Null = Null
    Junk = Junk
    Yes = Yes
    No = No
    Numbers = {0, 1, 2}
    Default = 2
    Cap = 2
    b1 = b1
    b2 = b2
    Banks = {b1}
    OtherBank = b2
INVARIANTS TypeOK AccountsAreInOrder RegisteredOnce PlanIsEffective VerdictIsFaithful LinkIsFrozen PageIsExact CatalogsAreCurrent
SYMMETRY Symmetry
CHECK_DEADLOCK FALSE
