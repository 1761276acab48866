\* Users and an administrator on two processes, with failures; no Stripe events.
CONSTANTS
    w1 = w1
    w2 = w2
    i1 = i1
    i2 = i2
    Workers <- TwoWorkers
    Instances <- TwoInstances
    Plans <- TwoPlans
    Quota <- SmallQuota
    Settable = {"status", "limit"}
    Kinds = {"read", "create"}
    Batches <- OneAtATime
    MayFail = TRUE
    MaxRequests = 3
    MaxFaults = 1
    MaxEvents = 0
    MaxCustomers = 0
SPECIFICATION Spec
CHECK_DEADLOCK FALSE
INVARIANTS
    CleanCacheIsCurrent
    LimitOvershootBounded
PROPERTIES
    CacheConverges
