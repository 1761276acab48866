\* Two concurrent requests, every operation, abandoned requests, two lots in one bin.
CONSTANTS
    w1 = w1
    w2 = w2
    a1 = a1
    a2 = a2
    b1 = b1
    Workers <- TwoWorkers
    Slots <- TwoLots
    Bin <- BinOf
    Qtys <- One
    Ops <- Everything
    PairIndex = TRUE
    MayAbandon = TRUE
    MaxRequests = 5
SPECIFICATION Spec
SYMMETRY WorkerSymmetry
INVARIANTS
    LedgerBalance
    ReversedOnce
