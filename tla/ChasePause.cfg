SPECIFICATION Spec
CONSTANTS
    Settings <- PauseSettings
    MaxOrders = 7
    MaxHours = 3
    MaxDays = 1
CHECK_DEADLOCK FALSE
PROPERTIES PausedSendsNoEntry
