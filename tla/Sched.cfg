SPECIFICATION FairSpec
CONSTANTS
    Pods = {p1, p2}
    InFlight = 1
    Schedules = {s1}
    Crons <- Mixed
    Null = Null
    Authorizing = TRUE
    MaxClock = 4
    MaxFaults = 1
    MaxEdits = 1
INVARIANTS  DoubleExplained
PROPERTY EventuallyHandled
