SPECIFICATION Spec
CONSTANTS
    w1 = w1  w2 = w2  o1 = o1  o2 = o2
    Writers = {w1, w2}
    Orders = {o1, o2}
    Qty = 2
    Overlap = TRUE
    Partial = FALSE
    EndStatuses = {"CANCELLED", "REJECTED"}
    BookEmpties = TRUE
    MaxFails = 1
    MaxCrashes = 1
CHECK_DEADLOCK FALSE
INVARIANT NoOverbook
