------------------------- MODULE MCDeliveryDispatch -------------------------
EXTENDS DeliveryRefinement, TLC

\* Orders, drivers, vehicles and sheet ids are only compared with each other.
MCSymmetry == Permutations(Orders) \cup Permutations(Drivers)
                \cup Permutations(Vehicles) \cup Permutations(RunSheetIds)
=============================================================================
