CONSTANTS
    Hour = 3
    SessionTimeout = 4
    Rate = 1
    MinBeforeCheckin = 1
    MinAfterCheckout = 0
    MinTopup = 1
    MaxTopup = 2
    MaxBalance = 4
    LogSize = 2
    Skew = 1
    Issued <- MCIssued
    Amounts <- MCAmounts
    LocalChanges <- MCLocalChanges
    MaxTime = 5
    MaxCounter = 4
    Word = 16
    AmountRange = 5
    Tenants <- MCTenants
    Issuer = "ours"
SPECIFICATION WireSpec
INVARIANTS LogExplainsBalance SessionMatchesLog
PROPERTIES WritesAreUnderstood FeeFollowsStay RefinesPurse
