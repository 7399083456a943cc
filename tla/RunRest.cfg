\* Two jobs share one handler slot.
SPECIFICATION FairSpec
CONSTANTS
    a = a
    c = c
    w1 = w1
    w2 = w2
    ApiJobs <- OneApi
    CronJobs <- OneCron
    Guarded <- OneCron
    Workers <- OneWorker
    DefaultAttempts = 2
    MaxDeliver = 1
    Concurrency = 1
    MaxCrashes = 1
    RetentionOn = TRUE
INVARIANT VerdictStands
 
