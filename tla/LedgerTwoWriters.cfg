SPECIFICATION Spec
CONSTANTS
    w1 = w1  w2 = w2  o1 = o1  o2 = o2
    Writers = {w1, w2}
    Orders = {o1}
    Qty = 2
    Overlap = TRUE
    Partial = TRUE
    EndStatuses = {}
    BookEmpties = FALSE
    MaxFails = 0
    MaxCrashes = 0
CHECK_DEADLOCK FALSE
INVARIANT NoOverbook
