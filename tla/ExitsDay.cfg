SPECIFICATION LiveSpec
CONSTANTS
    j1 = j1  j2 = j2
    Jobs = {j1, j2}
    Settings <- DaySettings
    RetryAttempts = 3
    MaxRefusals = 2
CHECK_DEADLOCK FALSE
INVARIANTS   NoStopLeft KillHolds
PROPERTIES OwnStopsOnly FlatByEnd
