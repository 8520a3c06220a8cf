CONSTANTS
    Pickups = {p1}
    Orders = {o1}
    Drivers = {d1, d2}
    LastDate = 2
    SavedRows <- MCSavedRows
    Summaries <- MCSummaries
    None = None
    p1 = p1
    o1 = o1
    d1 = d1

SPECIFICATION Spec

INVARIANTS
    TypeOK
    FreshDatabasesIndexed

PROPERTIES
    RepairFollowsTasks
    OnlySummariesDuplicate
