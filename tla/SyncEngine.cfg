CONSTANTS
    Cycles = {y1, y2}
    MaxErrorRetries = 2
    Days <- SomeDays
    Slots = {1, 2}
    MaxChanges = 2
    MaxAttempts = 1
    Lucks <- SomeLucks
    Nothing = Nothing
SPECIFICATION SyncSpec
CHECK_DEADLOCK FALSE
INVARIANTS FlagIsNotStuck AlwaysListening
PROPERTIES NothingIsForgotten StatusArrives
