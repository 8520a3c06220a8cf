-------------------------- MODULE MCDeliveryThreads --------------------------
EXTENDS DeliveryThreads, TLC

MCSymmetry == Permutations(Orders) \cup Permutations(Drivers)
                \cup Permutations(Vehicles) \cup Permutations(RunSheetIds)
                \cup Permutations(Threads)
=============================================================================
