\* Handlers may still run when their lease ends; nothing is lost, and every job settles.
SPECIFICATION FairSpec
CONSTANTS
    w1 = w1
    w2 = w2
    k1 = k1
    NoKey = NoKey
    Workers = {w1, w2}
    Keys = {k1}
    MaxAttempts = 2
    RetryBase = 1
    RetryMax = 1
    LeaseTime = 0
    MaxRateLimitRequeues = 0
    Delays = {0}
    HandlersMayOverrun = TRUE
    MaxJobs = 2
    MaxCrashes = 0
    MaxAge = 2
INVARIANTS TypeOK DedupeUnique NothingDropped
PROPERTIES DoneIsFinal EveryJobSettles
