CONSTANTS
    Devices = {d1, d2}
    Sites <- FaultsForksAndEdits
    MaxCounter = 2
    MaxTasks = 2
    NoRow = NoRow
    NoTask = NoTask
    NoTx = NoTx
SPECIFICATION FairSpec
INVARIANTS VerdictsAreTrue
PROPERTIES CounterNeverFalls EverythingSettles
