SPECIFICATION Spec
CONSTANTS
    c1 = c1  c2 = c2  k1 = k1  k2 = k2  a1 = a1  a2 = a2
    Callers = {c1, c2}
    Keys = {k1, k2}
    Attrs = {a1, a2}
    AttrOf <- DistinctAttrs
    EntryKeys = {k2}
    Settings <- SafeSettings
    MaxAttempts = 3
    MaxReqs = 3
    MaxCrashes = 1
CHECK_DEADLOCK FALSE
INVARIANTS OneLiveOrder OwnOrder
PROPERTY KeepsOrder
