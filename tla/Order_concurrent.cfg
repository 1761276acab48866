\* Two concurrent requests, one order, every operation, failing requests.
CONSTANTS
    NoExpiry = NoExpiry
    w1 = w1
    w2 = w2
    o1 = o1
    o2 = o2
    p = p
    q = q
    s1 = s1
    s2 = s2
    s3 = s3
    Workers <- TwoWorkers
    Orders <- OneOrder
    Slots <- OneRow
    Product <- ProductOf
    Expiry <- ExpiryOf
    Opening <- TwoEach
    Carts <- CartEither
    ScanQtys <- ScanAny
    Moves <- LoseOrGain
    Ops <- AllOps
    MayFail = TRUE
    MaxRequests = 7
SPECIFICATION Spec
SYMMETRY WorkerSymmetry
INVARIANTS
    PicksAccounted
    OverReserveBounded
    OutboundsBounded
PROPERTIES
    LifecycleSpec
    ShippedIsPicked
