CONSTANTS
    Regular = {r1}
    OnCall = {c1}
    Countryside = {c1}
    Drivers = {d1}
    CollectionIds = {k1}
    LastDate = 2
    DispatchDates = {1}
    CreationDates <- MCCreationDates
    Due <- MCDue
    DefaultDriver <- MCDefaultDriver
    MaxBatch = 1
    None = None
    r1 = r1
    c1 = c1
    d1 = d1

SPECIFICATION Spec

INVARIANT
    BoardsOpen
