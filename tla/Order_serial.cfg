\* One request at a time, two orders, three rows, every operation.
CONSTANTS
    NoExpiry = NoExpiry
    w1 = w1
    w2 = w2
    o1 = o1
    o2 = o2
    p = p
    q = q
    s1 = s1
    s2 = s2
    s3 = s3
    Workers <- OneWorker
    Orders <- TwoOrders
    Slots <- ThreeRows
    Product <- ProductOf
    Expiry <- ExpiryOf
    Opening <- TwoFirst
    Carts <- CartMixed
    ScanQtys <- ScanOne
    Moves <- LoseOne
    Ops <- AllOps
    MayFail = FALSE
    MaxRequests = 8
SPECIFICATION Spec
INVARIANTS
    ConfirmedIsReserved
    OutboundsMatchPicks
