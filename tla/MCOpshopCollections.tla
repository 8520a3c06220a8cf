------------------------- MODULE MCOpshopCollections -------------------------
EXTENDS OpshopCollections, TLC

CONSTANTS r1, c1, d1

\* One regular schedule, due on the first day and with a default driver, and
\* one on-call schedule of the route group.  Tasks of the first are created
\* for the day on which it is due, and may move to the other.
MCCreationDates == [s \in Schedules |-> IF s \in Regular THEN {1} ELSE Dates]
MCDue == [s \in Regular |-> {1}]
MCDefaultDriver == [s \in Schedules |-> IF s \in Regular THEN d1 ELSE None]

MCSymmetry == Permutations(CollectionIds)
=============================================================================
