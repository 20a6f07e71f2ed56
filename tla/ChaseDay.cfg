SPECIFICATION LiveSpec
CONSTANTS
    Settings <- DaySettings
    MaxOrders = 7
    MaxHours = 3
    MaxDays = 1
CHECK_DEADLOCK FALSE
INVARIANTS OneEntry NoStrayEntry
PROPERTIES NoReversal Protected Settles
