-------------------------- MODULE MCLegacyCutover ---------------------------
EXTENDS LegacyCutover, TLC

CONSTANTS o1, o2, p1, d1

\* Two boards that name one driver and one order, a replacement, and a
\* snapshot with rows of both kinds.
MCRequests == {
    [dispatch_date |-> 1, driver_id |-> d1, orders |-> {o1}, pickups |-> {p1}],
    [dispatch_date |-> 1, driver_id |-> d1, orders |-> {o2}, pickups |-> {}],
    [dispatch_date |-> 2, driver_id |-> d1, orders |-> {o1}, pickups |-> {}]}

MCSymmetry == Permutations(Clients)
=============================================================================
