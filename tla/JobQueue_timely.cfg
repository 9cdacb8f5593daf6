\* Handlers end within their lease.
SPECIFICATION Spec
CONSTANTS
    w1 = w1
    w2 = w2
    k1 = k1
    NoKey = NoKey
    Workers = {w1, w2}
    Keys = {k1}
    MaxAttempts = 2
    RetryBase = 1
    RetryMax = 1
    LeaseTime = 1
    MaxRateLimitRequeues = 1
    Delays = {0}
    HandlersMayOverrun = FALSE
    MaxJobs = 3
    MaxCrashes = 1
    MaxAge = 0
SYMMETRY Symmetry
INVARIANTS OneWorkerPerJob OneJobPerKey DeadOnlyAfterBudget
PROPERTIES DeliverySpec DeadStaysDead
