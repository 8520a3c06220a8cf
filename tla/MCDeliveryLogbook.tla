-------------------------- MODULE MCDeliveryLogbook --------------------------
EXTENDS DeliveryLogbook, TLC

\* The names are only compared with each other.
MCSymmetry == Permutations(Callers)
==============================================================================
