------------------------- MODULE DeliveryRefinement -------------------------
(***************************************************************************)
(* DeliveryDispatch implements OrderLifecycle: the phase of an order is    *)
(* computed from its row, its assignment, the sheets that reserve it and   *)
(* its recorded deliveries.                                                *)
(***************************************************************************)
EXTENDS DeliveryDispatch

\* Reservation takes precedence over assignment, as in the boards: a captured
\* order is still assigned, but it is listed nowhere.  Cancelling an order
\* that was delivered changes its row and not its phase.
order_phase(o) ==
    IF manual_orders[o].status = "ABSENT" THEN "ABSENT"
    ELSE IF Delivered(o) THEN "DELIVERED"
    ELSE IF manual_orders[o].status = "CANCELLED" THEN "CANCELLED"
    ELSE IF get_delivery_run_sheet_reserving_order(o) # {} THEN "CAPTURED"
    ELSE IF has_assignment_for_task(o) THEN "ASSIGNED"
    ELSE "POOL"

Lifecycle == INSTANCE OrderLifecycle
                 WITH phase <- [o \in Orders |-> order_phase(o)]

\* Every request, taken as a whole, is a step of the lifecycle or invisible
\* to it.
ImplementsLifecycle == Lifecycle!Spec
=============================================================================
