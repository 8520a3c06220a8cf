CONSTANTS
    Orders = {o1}
    Drivers = {d1}
    Vehicles = {}
    RunSheetIds = {s1, s2}
    Trips = {"trip1"}
    LastDate = 2
    DispatchDates = {}
    None = None
    Threads = {t1}

SPECIFICATION ThreadsSpec

INVARIANTS
    DeliveredStaysOut

CHECK_DEADLOCK FALSE
