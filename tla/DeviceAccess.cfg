CONSTANTS
    t1 = t1
    t2 = t2
    slotG = slotG
    slotS = slotS
    Tenants = {t1, t2}
    FetchSlots = {slotG, slotS}
    GrantSlot = slotG
    Cap = 1
    TokenLife = 1
    GrantLife = 2
    LocalLife = 4
    Buffer = 1
    MaxDelay = 2
    Sites <- Places
    None = None
    s1 = s1
    s2 = s2
    f1 = f1
    f2 = f2
    Servers = {s1, s2}
    Fresh = {f1, f2}
    Users = {"ann", "ben"}
    Passwords = {"p", "q"}
    Slugs = {"x", "y", "z"}
    Jobs = {1, 2}
    Plans <- AllPlans
SPECIFICATION BrowserSpec
CHECK_DEADLOCK FALSE
INVARIANTS NoOrphanPage LocalBooksAgree
PROPERTIES ServerIsObeyed AccessComesBack
