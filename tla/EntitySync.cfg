CONSTANTS
    d1 = d1
    d2 = d2
    Devices = {d1, d2}
    Sites <- AllSites
    MaxTime = 2
    MaxCounter = 2
    None = None
SPECIFICATION Spec
INVARIANTS NoEditIsLost AgreesUnlessSkipped
PROPERTIES ServerNeverGoesBack
