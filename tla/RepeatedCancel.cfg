SPECIFICATION Spec
CONSTANTS
    p1 = p1
    p2 = p2
    p3 = p3
    c1 = c1
    c2 = c2
    e1 = e1
    r1 = r1
    r2 = r2
    k1 = k1
    k2 = k2
    s1 = s1
    s2 = s2
    r3 = r3
    None = None
    Requests = {p1, p2}
    Sweepers = {s1}
    Customers = {c1, c2}
    Events = {e1}
    Published = {e1}
    Capacity <- MCCapacity
    StartsAt <- MCStartsAt
    ReservationIds = {r1, r2}
    MaxQuantity = 2
    Keys = {k1, k2}
    InitialRows <- OneHold
    Scripts <- CanceledTwice
    HoldTime = 1
    BatchSize = 1
    MaxFailures = 0
    MaxClock = 2
PROPERTIES
    CancelIsIdempotent
