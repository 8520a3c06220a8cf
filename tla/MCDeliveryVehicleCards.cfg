CONSTANTS
    Drivers = {d1, d2}
    Vehicles = {v1}
    NoVehicle = NoVehicle
    NoDraft = NoDraft
    MaxWrites = 2
    OtherClients = TRUE

SPECIFICATION FairSpec

INVARIANTS
    TypeOK
    ClaimsTakeTurns
    OneWriteAtATime
    PendingIffQueued

PROPERTIES
    CardsComeBack
