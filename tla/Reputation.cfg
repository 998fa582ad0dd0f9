SPECIFICATION LiveSpec
CONSTANTS
    r1 = r1
    r2 = r2
    Slots = {r1, r2}
    OneSlot = {r1}
    OneFault = 1
    MaxFaults = 2
    x1 = x1
    x2 = x2
    x3 = x3
    Files = {x1, x2, x3}
    Limit = 2
    MaxOrder = 2
    MaxLast = 3
    TwoFiles = {x1, x2}
    i1 = i1
    i2 = i2
    Items = {i1, i2}
    d1 = d1
    d2 = d2
    Docs = {d1, d2}
    NoDoc = NoDoc
    None = None
    Digits = {0, 9}
INVARIANTS TypeOK PhotosAreShown VerifiedIsAccepted CertificateIsBacked
PROPERTIES WorkersFinish
CHECK_DEADLOCK FALSE
