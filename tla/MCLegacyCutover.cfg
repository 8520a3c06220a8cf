CONSTANTS
    Orders = {o1, o2}
    Pickups = {p1}
    Drivers = {d1}
    DispatchDates = {1, 2}
    Requests <- MCRequests
    Clients = {c1, c2}
    MaxSummaries = 2
    Indexed = TRUE
    None = None
    o1 = o1
    o2 = o2
    p1 = p1
    d1 = d1

SPECIFICATION Spec
SYMMETRY MCSymmetry

INVARIANTS
    TypeOK
    GateMeansCopied

PROPERTIES
    OnlyLateCallsErase
