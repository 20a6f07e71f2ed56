SPECIFICATION LiveSpec
CONSTANTS
    w1 = w1  w2 = w2  o1 = o1  o2 = o2
    Writers = {w1, w2}
    Orders = {o1}
    Qty = 3
    Overlap = FALSE
    Partial = TRUE
    EndStatuses = {"CANCELLED", "REJECTED"}
    BookEmpties = TRUE
    MaxFails = 2
    MaxCrashes = 0
CHECK_DEADLOCK FALSE
INVARIANTS TypeOK NoOverbook FilledQtyBacked CloseSparesFills
PROPERTIES ProgressKept ImplementsFillBook FillsBooked
