CONSTANTS
    Pulls = {p1, p2}
    Handlers = {h1, h2}
    SlowHandlers = FALSE
    SameSecond = TRUE
    MaxBatch = 1
    PageSize = 2
    MaxRows = 2
    MaxClock = 3
    MaxFaults = 0
    NoPage = NoPage
SPECIFICATION FairPullSpec
PROPERTY EverythingArrives
