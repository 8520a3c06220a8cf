----------------------- MODULE MCDeliveryVehicleQueue -----------------------
EXTENDS DeliveryVehicleQueue, TLC

MCSymmetry == Permutations(Drivers) \cup Permutations(Vehicles)
=============================================================================
