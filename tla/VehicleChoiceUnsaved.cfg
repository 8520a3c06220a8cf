CONSTANTS
    Drivers = {d1, d2}
    Vehicles = {v1}
    NoVehicle = NoVehicle
    NoDraft = NoDraft
    MaxWrites = 1
    OtherClients = FALSE

SPECIFICATION Spec

INVARIANT NoSilentDraft
