SPECIFICATION FairSpec
CONSTANTS
    e1 = e1
    e2 = e2
    c1 = c1
    c2 = c2
    dune = dune
    Customers = {c1, c2}
    None = None
    Failed = Failed
    Events = {e1, e2}
    MaxCalls = 2
    MaxStarts = 2
    MaxUnderWay = 2
    Texts <- MCTexts
    TotalPages <- MCTotalPages
    MaxAsked = 4
    MaxLinks = 3
INVARIANTS
    TypeOK
    ShownIsAsked
    PanelIsTrue
    WalletIsOwn
    FormsStayWithEvents
    NoticeIsTrue
PROPERTIES
    ScansStayInEvent
    StartupEnds
    CameraGoesOff
    ListComesBack
CHECK_DEADLOCK FALSE
