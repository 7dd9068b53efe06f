SPECIFICATION Spec
CONSTANTS
    u1 = u1
    u2 = u2
    e1 = e1
    e2 = e2
    None = None
    Users = {u1, u2}
    Emails = {e1, e2}
    Mntners = {m1}
    Keys = {k1}
    Browsers = {b1}
    Requests = {r1, r2}
    Scenarios <- MCScenarios
    HomeEmail <- MCHomeEmail
    RateLimit = 1
    MaxHashes = 1
    MaxDay = 1
    ResetValidity = 0
SYMMETRY RequestSymmetry
CHECK_DEADLOCK FALSE
INVARIANTS SessionOwner SecondFactor  MigrationConsistent
