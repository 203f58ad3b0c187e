SPECIFICATION FairSpec
CONSTANTS
    Requests = {p1, p2, p3}
    Users = {u1, u2}
    Events = {e1, e2, e3}
    Details = {d0, d1}
    Scripts <- LateEdit
    InitialEvents <- OneDraft
    Configured = {p1, p2, p3}
    MaxFailures = 0
    MaxClock = 3
    None = None
    p1 = p1
    p2 = p2
    p3 = p3
    u1 = u1
    u2 = u2
    e1 = e1
    e2 = e2
    e3 = e3
    d0 = d0
    d1 = d1
CHECK_DEADLOCK FALSE
PROPERTIES
    PublishedInFuture
