\* One API run, three deliveries, a worker exit, retention on.
SPECIFICATION Spec
CONSTANTS
    a = a
    c = c
    w1 = w1
    w2 = w2
    ApiJobs <- OneApi
    CronJobs <- NoJobs
    Guarded <- OneApi
    Workers <- TwoWorkers
    DefaultAttempts = 2
    MaxDeliver = 3
    Concurrency = 1
    MaxCrashes = 1
    RetentionOn = TRUE
SYMMETRY WorkerSymmetry
INVARIANT SettledWasHandled
INVARIANT NoFalseSuccess
INVARIANT OverlapNeedsExpiry
INVARIANT RetriesExplained
