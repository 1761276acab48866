\* Two tabs, with two requests and one request, one expiry and two incidents.
CONSTANTS
    t1 = t1
    t2 = t2
    r1 = r1
    r2 = r2
    Tabs <- TwoTabs
    Requests <- TwoAndOne
    MaxExpiries = 1
    MaxIncidents = 2
SPECIFICATION Spec
CHECK_DEADLOCK FALSE
INVARIANTS
    ClientWellFormed
    NoSpuriousSignOut
PROPERTIES
    RequestsSettle
