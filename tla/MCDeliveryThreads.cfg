CONSTANTS
    Orders = {o1}
    Drivers = {d1}
    Vehicles = {v1}
    RunSheetIds = {s1, s2}
    Trips = {"trip1"}
    LastDate = 2
    DispatchDates = {}
    None = None
    Threads = {t1, t2}

SPECIFICATION ThreadsSpec
SYMMETRY MCSymmetry

INVARIANTS
    ThreadsTypeOK

PROPERTIES
    OnlyLateStatementsBreak

\* Once its driver is deleted and its order cancelled nothing is left to do.
CHECK_DEADLOCK FALSE
