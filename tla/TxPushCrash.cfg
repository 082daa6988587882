CONSTANTS
    Devices = {d1, d2}
    Sites <- CrashAtServer
    MaxCounter = 2
    MaxTasks = 2
    NoRow = NoRow
    NoTask = NoTask
    NoTx = NoTx
SPECIFICATION Spec
INVARIANTS BalanceFollowsLog
