\* Three stock rows, quantities -1..3, two expiry dates or none.
CONSTANTS
    NoExpiry = NoExpiry
    r1 = r1
    r2 = r2
    r3 = r3
    MaxQty = 3
    MaxExpiry = 2
SPECIFICATION Spec
INVARIANTS
    PlanIsCorrect
