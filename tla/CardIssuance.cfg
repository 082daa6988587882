CONSTANTS
    c1 = c1
    c2 = c2
    Cards = {c1, c2}
    NoCard = NoCard
    SixByte <- OneSixByte
    Profiles <- AllProfiles
    MaxCalls = 3
    MaxFaults = 1
    Visits <- AllVisits
    Limit = 2
SPECIFICATION SectionSpec
INVARIANTS BooksAgree
PROPERTIES WritesAreMeant VisitEnds
CHECK_DEADLOCK FALSE
