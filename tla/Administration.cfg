CONSTANTS
    t1 = t1
    t2 = t2
    root = root
    member = member
    b1 = b1
    b2 = b2
    Tenants = {t1, t2}
    Member = member
    Accounts = {root, member, clerk}
    Self = root
    Home = t1
    Slots = {1, 2}
    MaxLogins = 2
    Visits <- AllVisits
    Browsers = {b1, b2}
    MaxSessions = 2
    MaxAttempts = 2
    Window = 2
    Duration = 2
    Blocks = {1, 2}
    Sites <- AllSites
    MaxRows = 2
    Scenes <- AllScenes
    None = None
SPECIFICATION Spec
CHECK_DEADLOCK FALSE
INVARIANTS SessionRules FreshIsCurrent
PROPERTIES NoFalseAlarm ArchivedForGood SuccessIsItsOwn
