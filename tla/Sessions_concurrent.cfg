\* One account, two concurrent requests, every operation, one failure.
CONSTANTS
    w1 = w1
    w2 = w2
    u1 = u1
    old = old
    new = new
    Workers <- TwoWorkers
    Users <- OneUser
    Passwords <- TwoPasswords
    MaxAttempts = 1
    Ops <- AllOps
    MayFail = TRUE
    MaxRequests = 5
    MaxFaults = 1
SYMMETRY WorkerSymmetry
SPECIFICATION Spec
CHECK_DEADLOCK FALSE
INVARIANTS
    SessionsWellFormed
    HonouredOnce
    LogoutAllIsFinal
    ResetUsesBounded
    FailuresBounded
