SPECIFICATION FairSpec
CONSTANTS
    p1 = p1
    p2 = p2
    p3 = p3
    t1 = t1
    t2 = t2
    c1 = c1
    c2 = c2
    g1 = g1
    g2 = g2
    e1 = e1
    e2 = e2
    k0 = k0
    k1 = k1
    k2 = k2
    k3 = k3
    k4 = k4
    None = None
    Requests = {p1, p2, p3}
    Tickets = {t1, t2}
    Events = {e1, e2}
    Customers = {c1, c2}
    Gates = {g1, g2}
    Tokens = {k0, k1, k2, k3, k4}
    EventOf <- MCEventOf
    OwnerOf <- MCOwnerOf
    EndsAt <- MCEndsAt
    Window = 1
    TicksPerSecond = 2
    Coded = {t1}
    Shared <- MCShared
    Scripts <- Admitting
    MaxFailures = 1
    MaxClock = 3
INVARIANTS
    TypeOK
    OneAdmission
    GateAnswersHold
    CodesAreGood
    CodesHandedOutAreStored
    OldLinksRevoked
    DeadLinksStayShut
PROPERTIES
    LinksAreReplaced
    IsTurnstile
    RequestsAnswered
CHECK_DEADLOCK FALSE
