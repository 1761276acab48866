\* Two concurrent requests, stock drained by guarded operations and reversals only.
CONSTANTS
    w1 = w1
    w2 = w2
    a1 = a1
    a2 = a2
    b1 = b1
    Workers <- TwoWorkers
    Slots <- TwoBins
    Bin <- BinOf
    Qtys <- OneTwo
    Ops <- Guarded
    PairIndex = TRUE
    MayAbandon = FALSE
    MaxRequests = 4
SPECIFICATION FairSpec
INVARIANTS
    OverdraftBounded
PROPERTIES
    ReversalCompletes
