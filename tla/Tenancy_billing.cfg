\* The administrator, checkouts and webhooks on one process, with failures; no users.
CONSTANTS
    w1 = w1
    w2 = w2
    i1 = i1
    i2 = i2
    Workers <- TwoWorkers
    Instances <- OneInstance
    Plans <- TwoPlans
    Quota <- SmallQuota
    Settable = {"plan", "features"}
    Kinds = {}
    Batches <- OneAtATime
    MayFail = TRUE
    MaxRequests = 4
    MaxFaults = 1
    MaxEvents = 3
    MaxCustomers = 2
SYMMETRY Symmetry
SPECIFICATION Spec
CHECK_DEADLOCK FALSE
INVARIANTS
    TenancyWellFormed
    InOrderAgrees
    EventsAreApplied
