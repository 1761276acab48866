\* Two concurrent requests, two returns, three items, any call may fail.
CONSTANTS
    w1 = w1
    w2 = w2
    o1 = o1
    p = p
    q = q
    Workers <- TwoWorkers
    Orders <- OneOrder
    Products <- OneProduct
    Lines <- OrderLines
    Qtys <- UpToTwo
    Dispositions <- StockAndHold
    MayFail = TRUE
    MaxReturns = 2
    MaxItems = 3
SYMMETRY WorkerSymmetry
SPECIFICATION Spec
CHECK_DEADLOCK FALSE
INVARIANTS
    ReturnsWellFormed
    OverReturnBounded
    EffectsAccounted
    LateItemsBounded
PROPERTIES
    ClosedOnce
