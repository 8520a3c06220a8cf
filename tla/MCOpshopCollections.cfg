CONSTANTS
    Regular = {r1}
    OnCall = {c1}
    Countryside = {c1}
    Drivers = {d1, d2}
    CollectionIds = {k1, k2}
    LastDate = 2
    DispatchDates = {1}
    CreationDates <- MCCreationDates
    Due <- MCDue
    DefaultDriver <- MCDefaultDriver
    MaxBatch = 2
    None = None
    r1 = r1
    c1 = c1
    d1 = d1

SPECIFICATION Spec
SYMMETRY MCSymmetry

INVARIANTS
    TypeOK
    OneCollectionPerDriverDate
    CollectedOnce
    AssignedInBothTables

PROPERTIES
    OnlyUncheckedRoutesSpoil
