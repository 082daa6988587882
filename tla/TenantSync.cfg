CONSTANTS
    t1 = t1
    t2 = t2
    o1 = o1
    o2 = o2
    Locals = {t1, t2}
    Olds = {o1, o2}
    Slugs = {"s1", "s2"}
    Users = {"u1", "u2"}
    Sites <- AllSites
    None = None
    Unknown = Unknown
SPECIFICATION FairSpec
CHECK_DEADLOCK FALSE
INVARIANTS RegistrationAgrees
PROPERTIES RegistrationEnds
