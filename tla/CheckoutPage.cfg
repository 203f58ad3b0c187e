SPECIFICATION FairSpec
CONSTANTS
    r1 = r1
    r2 = r2
    None = None
    Ids = {r1, r2}
    HoldTime = 1
    Shown = 2
    Skew = 1
    MaxClock = 1
    MaxLost = 1
INVARIANTS
    TypeOK
    ShownIsTrue
    ShownStock
    PaymentsRecover
PROPERTIES
    ExpiryIsShown
CHECK_DEADLOCK FALSE
