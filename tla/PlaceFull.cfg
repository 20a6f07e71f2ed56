SPECIFICATION LiveSpec
CONSTANTS
    c1 = c1  c2 = c2  k1 = k1  k2 = k2  a1 = a1  a2 = a2
    Callers = {c1}
    Keys = {k1}
    Attrs = {a1, a2}
    AttrOf <- OneKey
    EntryKeys = {}
    Settings <- FullSettings
    MaxAttempts = 2
    MaxReqs = 2
    MaxCrashes = 1
CHECK_DEADLOCK FALSE
INVARIANTS OkIsInBook FailedIsReject
PROPERTY LandedIsTracked
