----------------------- MODULE MCDatabaseMaintenance ------------------------
EXTENDS DatabaseMaintenance

CONSTANTS p1, o1, d1

\* One pickup in the saved summaries of two boards, with the same driver.
MCSavedRows == {
    [task_id |-> p1, dispatch_date |-> 1, driver_id |-> d1],
    [task_id |-> p1, dispatch_date |-> 2, driver_id |-> d1]}

\* A legacy summary of the order on one of the boards.
MCSummaries == {[dispatch_date |-> 1, driver_id |-> d1, orders |-> {o1}]}
=============================================================================
