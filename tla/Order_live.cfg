\* Two concurrent requests that run to their end, two orders.
CONSTANTS
    NoExpiry = NoExpiry
    w1 = w1
    w2 = w2
    o1 = o1
    o2 = o2
    p = p
    q = q
    s1 = s1
    s2 = s2
    s3 = s3
    Workers <- TwoWorkers
    Orders <- TwoOrders
    Slots <- OneRow
    Product <- ProductOf
    Expiry <- ExpiryOf
    Opening <- TwoEach
    Carts <- CartTwo
    ScanQtys <- ScanAny
    Moves <- NoMoves
    Ops <- Settled
    MayFail = FALSE
    MaxRequests = 5
SPECIFICATION FairSpec
INVARIANTS
    NoStrandedReservation
    CancelledIsClosed
PROPERTY ReservationsFreed
