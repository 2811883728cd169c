CONSTANTS
    auth = auth
    general = general
    c1 = c1
    c2 = c2
    Scope = {auth, general}
    BucketKey <- MCKey
    Limit <- MCLimit
    Window <- MCWindow
    Threshold = 1
    MaxTime = 5
    MaxExcess = 1
SPECIFICATION Spec
INVARIANTS
    BurstsBounded
    RefusedOnlyAtLimit
PROPERTIES
    ImplementsWindows
CHECK_DEADLOCK FALSE
