\* Two goroutines, three requests, one failure, an empty or a used database.
CONSTANTS
    w1 = w1
    w2 = w2
    ann = ann
    Workers <- TwoWorkers
    MayFail = TRUE
    MaxRequests = 3
    MaxFaults = 1
    Codes = {"C2", "DEFAULT"}
    Places = {"1-1-1"}
    Racks = {"1-1-1"}
    CodeOf <- OneCode
    Accounts <- OneAccount
    MaxWarehouses = 3
    Forms <- FourForms
    QueueSize = 1
    MaxRetries = 2
    MaxDays = 2
SYMMETRY WorkerSymmetry
SPECIFICATION Spec
CHECK_DEADLOCK FALSE
INVARIANTS
    AdministrationWellFormed
    NoOrphans
    DefaultIsAllowed
    ListAgreesWithContext
    AlertsAreNotRepeated
    TokenIsKept
