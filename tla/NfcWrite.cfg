CONSTANTS
    Devices = {d1}
    c1 = c1
    c2 = c2
    Cards <- BothCards
    NoCard = NoCard
    MaxAttempts = 2
    Sites <- KioskAndStation
    MaxOps = 3
    MaxPipes = 2
SPECIFICATION FairSpec
INVARIANTS BooksGoTogether RecordedIsOnCard
PROPERTIES NoRollback WritingEnds
