CONSTANTS
    Orders = {o1, o2}
    Drivers = {d1, d2}
    Vehicles = {v1, v2}
    RunSheetIds = {s1, s2}
    Trips = {"trip1"}
    LastDate = 2
    DispatchDates = {1}
    None = None

SPECIFICATION Spec
SYMMETRY MCSymmetry

INVARIANTS
    TypeOK
    OneSheetPerDriverDate
    OneAssignmentPerOrder
    OneVehiclePerDriverDate
    CapturedOrdersIntact
    CapturedOnce
    VehicleTargetFrozen
    OutcomesCoverRows

PROPERTIES
    OnlyEditsPassOpenSheets
    ImplementsLifecycle
