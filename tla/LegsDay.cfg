SPECIFICATION LiveSpec
CONSTANTS
    hedge = hedge  put = put  call = call  big = big
    h = h  p = p  c = c  b1 = b1  b2 = b2
    Legs = {hedge, put, call, big}
    Orders = {h, p, c, b1, b2}
    LegOf <- LegsOf
    Hedges = {hedge}
    Attrs = {1, 2, 3, 4, 5}
    AttrOf <- AttrsOf
    RetryAttempts = 3
    Settings <- DaySettings
CHECK_DEADLOCK FALSE
INVARIANTS LegOnce ReportedIsHeld CompletedIsWhole ShortIsHedged
PROPERTY EntryEnds
