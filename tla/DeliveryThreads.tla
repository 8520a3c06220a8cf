--------------------------- MODULE DeliveryThreads ---------------------------
(***************************************************************************)
(* The Delivery handlers on the threads that run them.  FastAPI runs every *)
(* synchronous route in a pool of threads, and each repository call opens  *)
(* a connection of its own, so a handler without a transaction is a series *)
(* of statements with other requests' statements between them.  Four       *)
(* handlers that write are of that kind: editing and cancelling an order,  *)
(* deleting a driver and deleting a vehicle.  The others are atomic, and   *)
(* are the actions of DeliveryDispatch.                                    *)
(*                                                                         *)
(* A thread that meets an error returns to "idle".  One whose process dies *)
(* between two statements takes no further step, and leaves the tables as  *)
(* the statements executed so far have made them.                          *)
(***************************************************************************)
EXTENDS DeliveryDispatch

CONSTANT Threads        \* the threads that may hold an unfinished request

VARIABLE threads        \* what each of them is doing and has read

allVars == <<vars, threads>>

Thread == [pc : {"idle", "update_read", "update_write", "cancel_read",
                 "cancel_check", "cancel_write", "driver_assignments",
                 "driver_vehicles", "driver_delete", "vehicle_selection",
                 "vehicle_delete"},
           order_id : Orders \cup {None},
           driver_id : Drivers \cup {None},
           vehicle_id : Vehicles \cup {None},
           patch : Dates \cup {NoDate},
           existing : Order \cup {NoOrder}]

Idle == [pc |-> "idle", order_id |-> None, driver_id |-> None,
         vehicle_id |-> None, patch |-> NoDate, existing |-> NoOrder]

ThreadsTypeOK == TypeOK /\ threads \in [Threads -> Thread]

\* The thread goes on to the statement `pc`, or returns.
Continue(t, pc) == threads' = [threads EXCEPT ![t].pc = pc]
Return(t) == threads' = [threads EXCEPT ![t] = Idle]

-----------------------------------------------------------------------------
(* PATCH order: reservation check, read, then a write of the whole row. *)

\* NoDate stands for a request that leaves delivery_date out.
BeginUpdate(t, o, date) ==
    /\ threads[t].pc = "idle"
    /\ ensure_order_not_reserved(o)
    /\ threads' = [threads EXCEPT
           ![t] = [Idle EXCEPT !.pc = "update_read", !.order_id = o,
                               !.patch = date]]
    /\ UNCHANGED vars

UpdateRead(t) ==
    LET order == manual_orders[threads[t].order_id] IN
    /\ threads[t].pc = "update_read"
    /\ IF order.status = "ABSENT"
         THEN Return(t)
         ELSE threads' = [threads EXCEPT ![t].pc = "update_write",
                                         ![t].existing = order]
    /\ UNCHANGED vars

\* Fault: a date the request leaves out is written too.
written_patch(thread) ==
    [thread.existing EXCEPT !.delivery_date = thread.patch]

\* Every column is written: the patched ones, and the others as read.
written_order(thread) ==
    [thread.existing EXCEPT !.delivery_date =
        IF thread.patch = NoDate THEN @ ELSE thread.patch]

UpdateWrite(t) ==
    /\ threads[t].pc = "update_write"
    /\ manual_orders' = [manual_orders EXCEPT
           ![threads[t].order_id] = written_order(threads[t])]
    /\ Return(t)
    /\ UNCHANGED <<assignments, vehicle_assignments, run_sheets, outcomes,
                   deleted_drivers, deleted_vehicles>>

-----------------------------------------------------------------------------
(* Cancel order: reservation check, read, assignment check, write. *)

BeginCancel(t, o) ==
    /\ threads[t].pc = "idle"
    /\ ensure_order_not_reserved(o)
    /\ threads' = [threads EXCEPT
           ![t] = [Idle EXCEPT !.pc = "cancel_read", !.order_id = o]]
    /\ UNCHANGED vars

CancelRead(t) ==
    /\ threads[t].pc = "cancel_read"
    /\ IF manual_orders[threads[t].order_id].status \in {"ABSENT", "CANCELLED"}
         THEN Return(t)
         ELSE Continue(t, "cancel_check")
    /\ UNCHANGED vars

CancelCheck(t) ==
    /\ threads[t].pc = "cancel_check"
    /\ IF has_assignment_for_task(threads[t].order_id)
         THEN Return(t)
         ELSE Continue(t, "cancel_write")
    /\ UNCHANGED vars

\* The write repeats none of the checks.
CancelWrite(t) ==
    /\ threads[t].pc = "cancel_write"
    /\ manual_orders' = [manual_orders EXCEPT
           ![threads[t].order_id].status = "CANCELLED"]
    /\ Return(t)
    /\ UNCHANGED <<assignments, vehicle_assignments, run_sheets, outcomes,
                   deleted_drivers, deleted_vehicles>>

-----------------------------------------------------------------------------
(* Delete driver and delete vehicle: checks, then a conditional write. *)

BeginDeleteDriver(t, d) ==
    /\ threads[t].pc = "idle"
    /\ d \notin deleted_drivers
    /\ threads' = [threads EXCEPT
           ![t] = [Idle EXCEPT !.pc = "driver_assignments", !.driver_id = d]]
    /\ UNCHANGED vars

CheckDriverAssignments(t) ==
    /\ threads[t].pc = "driver_assignments"
    /\ IF driver_has_active_assignments(threads[t].driver_id)
         THEN Return(t)
         ELSE Continue(t, "driver_vehicles")
    /\ UNCHANGED vars

CheckDriverVehicles(t) ==
    /\ threads[t].pc = "driver_vehicles"
    /\ IF driver_has_vehicle_selection(threads[t].driver_id)
         THEN Return(t)
         ELSE Continue(t, "driver_delete")
    /\ UNCHANGED vars

DeleteDriverWrite(t) ==
    /\ threads[t].pc = "driver_delete"
    /\ deleted_drivers' = deleted_drivers \cup {threads[t].driver_id}
    /\ Return(t)
    /\ UNCHANGED <<manual_orders, assignments, vehicle_assignments,
                   run_sheets, outcomes, deleted_vehicles>>

BeginDeleteVehicle(t, v) ==
    /\ threads[t].pc = "idle"
    /\ v \notin deleted_vehicles
    /\ threads' = [threads EXCEPT
           ![t] = [Idle EXCEPT !.pc = "vehicle_selection", !.vehicle_id = v]]
    /\ UNCHANGED vars

CheckVehicleSelection(t) ==
    /\ threads[t].pc = "vehicle_selection"
    /\ IF vehicle_has_current_selection(threads[t].vehicle_id)
         THEN Return(t)
         ELSE Continue(t, "vehicle_delete")
    /\ UNCHANGED vars

DeleteVehicleWrite(t) ==
    /\ threads[t].pc = "vehicle_delete"
    /\ deleted_vehicles' = deleted_vehicles \cup {threads[t].vehicle_id}
    /\ Return(t)
    /\ UNCHANGED <<manual_orders, assignments, vehicle_assignments,
                   run_sheets, outcomes, deleted_drivers>>

-----------------------------------------------------------------------------

ThreadsInit == Init /\ threads = [t \in Threads |-> Idle]

OrderStatements(t) ==
    \/ \E o \in Orders :
        \/ \E date \in Dates \cup {NoDate} : BeginUpdate(t, o, date)
        \/ BeginCancel(t, o)
    \/ UpdateRead(t)
    \/ UpdateWrite(t)
    \/ CancelRead(t)
    \/ CancelCheck(t)
    \/ CancelWrite(t)

SpecificationStatements(t) ==
    \/ \E d \in Drivers : BeginDeleteDriver(t, d)
    \/ CheckDriverAssignments(t)
    \/ CheckDriverVehicles(t)
    \/ DeleteDriverWrite(t)
    \/ \E v \in Vehicles : BeginDeleteVehicle(t, v)
    \/ CheckVehicleSelection(t)
    \/ DeleteVehicleWrite(t)

ThreadsNext ==
    \/ AtomicRequests /\ UNCHANGED threads
    \/ \E t \in Threads : OrderStatements(t) \/ SpecificationStatements(t)

ThreadsSpec == ThreadsInit /\ [][ThreadsNext]_allVars

-----------------------------------------------------------------------------

\* Only a write that an order handler makes after its checks were overtaken
\* can spoil what a reserving sheet captured; no transaction does.
OnlyLateOrderWritesSpoil ==
    [][(CapturedOrdersIntact /\ ~CapturedOrdersIntact') =>
          \E t \in Threads : UpdateWrite(t) \/ CancelWrite(t)]_allVars

\* Likewise only the last statement of an edit brings a delivered order back.
OnlyLateUpdatesRevive ==
    [][(DeliveredStaysOut /\ ~DeliveredStaysOut') =>
          \E t \in Threads : UpdateWrite(t)]_allVars

\* No transaction chooses a deleted driver or vehicle: if one is in use, it
\* was taken into use after the checks of the request that deleted it.
OnlyLateDeletesOrphan ==
    [][(DeletedAreIdle /\ ~DeletedAreIdle') =>
          \E t \in Threads : DeleteDriverWrite(t) \/ DeleteVehicleWrite(t)]_allVars

\* Together: whatever the interleaving, no transaction breaks a promise of
\* DeliveryDispatch; the last statement of a handler that checked in earlier
\* statements is to blame.
OnlyLateStatementsBreak ==
    /\ OnlyLateOrderWritesSpoil
    /\ OnlyLateUpdatesRevive
    /\ OnlyLateDeletesOrphan
=============================================================================
