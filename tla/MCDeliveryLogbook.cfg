CONSTANTS
    Orders = {o1}
    Drivers = {d1}
    Vehicles = {v1}
    RunSheetIds = {s1}
    Trips = {"trip1", "trip2"}
    LastDate = 2
    DispatchDates = {}
    None = None
    Callers = {c1, c2}
    MaxCalls = 5

SPECIFICATION LogbookSpec
SYMMETRY MCSymmetry

INVARIANTS
    LogbookTypeOK
    LogbookTellsTables

PROPERTIES
    EntriesChain
CHECK_DEADLOCK FALSE
