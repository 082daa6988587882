CONSTANTS
    Pulls = {p1, p2}
    Handlers = {h1, h2}
    SlowHandlers = FALSE
    SameSecond = FALSE
    MaxBatch = 1
    PageSize = 2
    MaxRows = 4
    MaxClock = 5
    MaxFaults = 1
    NoPage = NoPage
SPECIFICATION FairPullSpec
INVARIANTS NothingBehindCursor
PROPERTIES EverythingArrives
