\* Two servers, headers shorter and longer than a share, fetches that take time.
SPECIFICATION Spec
CONSTANTS
    h1 = h1
    h2 = h2
    Hosts = {h1, h2}
    Deadlines <- MCDeadlines
    NoDeadline = NoDeadline
    Floor = 1
    BaseBackoff = 1
    MaxBackoff = 4
    MaxDoublings = 2
    Share = 4
    RetryAfters = {0, 3}
    FetchTimes = {0, 1}
    SubCrawls = TRUE
    Horizon = 13
INVARIANTS
    TypeOK
    WaitsStayInTheShare
    GivenUpIsBeyondReach
PROPERTIES
    PaceIsKept
    CallReturns
CHECK_DEADLOCK FALSE
