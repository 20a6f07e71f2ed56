SPECIFICATION LiveSpec
CONSTANTS
    q1 = q1  q2 = q2  t1 = t1  s1 = s1 
    Requests = {q1, q2}
    Templates = {t1}
    TemplateOf <- SameTemplate
    Strikes = {s1}
    FollowUps <- StopOnly
    MaxAttempts = 2
    MaxRows = 2
    MaxAborts = 1
    MaxFaults = 1
CHECK_DEADLOCK FALSE
INVARIANTS OneKnownRun CompletedIsArmed LostIsLost
PROPERTY EntryIsFollowedUp
