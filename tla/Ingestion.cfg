SPECIFICATION Spec
CONSTANTS
    Items = {1, 2}
    Deployments <- MCDeployments
    Slots = {s1, s2}
    PageSize = 1
    Overlap = 1
    MaxAttempts = 1
    MaxRequeues = 1
    MaxTime = 3
    MaxRuns = 2
    MaxEvents = 2
SYMMETRY Symmetry
INVARIANTS TypeOK NothingMissed CoversSource
PROPERTY DeletesOnlyGone
CHECK_DEADLOCK FALSE
