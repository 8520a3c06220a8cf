-------------------------- MODULE DeliveryDispatch --------------------------
(***************************************************************************)
(* The Order Delivery half of the dispatch board, as its SQLite tables and *)
(* the handlers that write them.  One action is one complete request: the  *)
(* handlers under "transactional" run inside a single BEGIN IMMEDIATE      *)
(* transaction, "conditional writes" are one guarded SQL statement, and    *)
(* the handlers under "run alone" are several statements executed without  *)
(* interference.  DeliveryThreads cuts the last group into its statements  *)
(* and interleaves them with everything else; this module is what those    *)
(* handlers promise when nobody overtakes them.                            *)
(*                                                                         *)
(* A request that the code rejects changes no table and is not a step.     *)
(*                                                                         *)
(* A definition marked "Fault" is the one after it with a likely mistake:  *)
(* it is used nowhere, and shows which property would notice the mistake.  *)
(***************************************************************************)
EXTENDS Naturals, FiniteSets

CONSTANTS
    Orders,         \* values of manual_orders.order_id
    Drivers,        \* values of manual_drivers.driver_id
    Vehicles,       \* values of manual_vehicles.vehicle_id
    RunSheetIds,    \* values of delivery_run_sheets.run_sheet_id
    Trips,          \* the trips in use, some of SUPPORTED_TRIPS
    LastDate,       \* dates are the days 1..LastDate
    DispatchDates,  \* dates a client sends as the optional dispatch_date
    None            \* SQL NULL

Dates == 1..LastDate
NoDate == 0

ASSUME DateAssumption == LastDate \in Nat /\ DispatchDates \subseteq Dates
ASSUME TripAssumption == Trips \subseteq {"trip1", "trip2"}
ASSUME NullAssumption == None \notin Vehicles /\ None \notin Drivers

VARIABLES
    manual_orders,                \* one row per order id
    assignments,                  \* manual_dispatch_assignments, task_type ORDER
    vehicle_assignments,          \* manual_driver_vehicle_assignments
    run_sheets,                   \* delivery_run_sheets and their rows
    outcomes,                     \* delivery_run_sheet_outcomes
    deleted_drivers,              \* manual_drivers with is_deleted = 1
    deleted_vehicles              \* manual_vehicles with is_deleted = 1

vars == <<manual_orders, assignments, vehicle_assignments, run_sheets,
          outcomes, deleted_drivers, deleted_vehicles>>

-----------------------------------------------------------------------------
(* Rows of the tables. *)

Order == [status : {"ACTIVE", "FINALIZED", "CANCELLED"},
          delivery_date : Dates]

\* An order id under which no row is stored yet.  Orders are never deleted.
NoOrder == [status |-> "ABSENT", delivery_date |-> NoDate]

Assignment == [task_id : Orders, dispatch_date : Dates,
               driver_id : Drivers, trip_no : Trips]

VehicleAssignment == [dispatch_date : Dates, delivery_date : Dates,
                      driver_id : Drivers, vehicle_id : Vehicles]

RunSheetRow == [task_id : Orders, trip_no : Trips]

RunSheet == [status : {"GENERATED", "SAVED"},
             execution_status : {"OPEN", "CLOSED"},
             delivery_date : Dates,
             driver_id : Drivers,
             vehicle_id : Vehicles \cup {None},
             rows : SUBSET RunSheetRow]

\* A run sheet id under which no row is stored: never used, or deleted.
NoRunSheet == [status |-> "ABSENT", execution_status |-> "OPEN",
               delivery_date |-> NoDate, driver_id |-> None,
               vehicle_id |-> None, rows |-> {}]

Outcome == [run_sheet_id : RunSheetIds, order_id : Orders,
            outcome : {"DELIVERED", "RETURN_TO_POOL"},
            next_delivery_date : Dates \cup {NoDate}]

\* Every table holds rows of its own shape (the schema of backend/db).
TypeOK ==
    /\ manual_orders \in [Orders -> Order \cup {NoOrder}]
    /\ assignments \subseteq Assignment
    /\ vehicle_assignments \subseteq VehicleAssignment
    /\ run_sheets \in [RunSheetIds -> RunSheet \cup {NoRunSheet}]
    /\ outcomes \subseteq Outcome
    /\ deleted_drivers \subseteq Drivers
    /\ deleted_vehicles \subseteq Vehicles

-----------------------------------------------------------------------------
(* Queries of the repository. *)

AtMostOne(rows) == \A x, y \in rows : x = y

list_assignments_for_task(o) == {a \in assignments : a.task_id = o}

has_assignment_for_task(o) == \E a \in assignments : a.task_id = o

driver_has_active_assignments(d) == \E a \in assignments : a.driver_id = d

driver_has_vehicle_selection(d) ==
    \E v \in vehicle_assignments : v.driver_id = d

vehicle_has_current_selection(v) ==
    \E a \in vehicle_assignments : a.vehicle_id = v

list_delivery_order_assignments_for_delivery_date(date) ==
    {a \in assignments : /\ manual_orders[a.task_id].status = "ACTIVE"
                         /\ manual_orders[a.task_id].delivery_date = date}

\* The vehicle rows of one driver and delivery date, whatever Dispatch Date
\* they were first created under.
vehicle_rows(date, d) ==
    {v \in vehicle_assignments : v.delivery_date = date /\ v.driver_id = d}

Stored(s) == run_sheets[s].status # "ABSENT"

\* Fault: a closed sheet no longer occupies its driver/date.
open_sheet_for_driver(date, d) ==
    {s \in RunSheetIds : /\ Stored(s)
                         /\ run_sheets[s].execution_status = "OPEN"
                         /\ run_sheets[s].delivery_date = date
                         /\ run_sheets[s].driver_id = d}

get_delivery_run_sheet_for_driver(date, d) ==
    {s \in RunSheetIds : /\ Stored(s)
                         /\ run_sheets[s].delivery_date = date
                         /\ run_sheets[s].driver_id = d}

\* A sheet that still reserves the orders it captured: GENERATED, or SAVED
\* and not closed out.
Reserving(s) == \/ run_sheets[s].status = "GENERATED"
                \/ /\ run_sheets[s].status = "SAVED"
                   /\ run_sheets[s].execution_status = "OPEN"

captured_orders(s) == {r.task_id : r \in run_sheets[s].rows}

get_delivery_run_sheet_reserving_order(o) ==
    {s \in RunSheetIds : Reserving(s) /\ o \in captured_orders(s)}

-----------------------------------------------------------------------------
(* Guards shared by the handlers. *)

validate_driver_exists(d) == d \notin deleted_drivers

validate_vehicle_exists(v) == v \notin deleted_vehicles

\* Fault: only saved sheets reserve.
ensure_order_not_saved(o) ==
    \A s \in get_delivery_run_sheet_reserving_order(o) :
        run_sheets[s].status # "SAVED"

ensure_order_not_reserved(o) == get_delivery_run_sheet_reserving_order(o) = {}

\* Fault: a saved sheet no longer locks its driver/date.
ensure_key_not_generated(date, d) ==
    \A s \in get_delivery_run_sheet_for_driver(date, d) :
        run_sheets[s].status # "GENERATED"

\* GENERATED and SAVED sheets, closed ones included, lock their driver/date.
ensure_delivery_run_sheet_key_mutable(date, d) ==
    get_delivery_run_sheet_for_driver(date, d) = {}

active_order(o) == manual_orders[o].status = "ACTIVE"

-----------------------------------------------------------------------------
(* Conditional and primitive writes of the repository. *)

\* Fault: an assignment is looked up by task and driver.
upsert_assignment_of_driver(o, dispatch_date, d, trip) ==
    LET existing == {a \in list_assignments_for_task(o) : a.driver_id = d}
    IN  assignments' = (assignments \ existing) \cup
            {[task_id |-> o, dispatch_date |-> dispatch_date,
              driver_id |-> d, trip_no |-> trip]}

\* Reassignment updates the one row of the task and keeps the Dispatch Date
\* under which it was created.
upsert_assignment(o, dispatch_date, d, trip) ==
    LET existing == list_assignments_for_task(o) IN
    /\ AtMostOne(existing)
    /\ assignments' = (assignments \ existing) \cup
           (IF existing = {}
              THEN {[task_id |-> o, dispatch_date |-> dispatch_date,
                     driver_id |-> d, trip_no |-> trip]}
              ELSE {[a EXCEPT !.driver_id = d, !.trip_no = trip] :
                        a \in existing})

remove_assignments_for_task(o) ==
    /\ AtMostOne(list_assignments_for_task(o))
    /\ assignments' = assignments \ list_assignments_for_task(o)

\* Fault: nobody looks who else has the vehicle that day.
upsert_vehicle_unchecked(dispatch_date, date, d, v) ==
    vehicle_assignments' = (vehicle_assignments \ vehicle_rows(date, d)) \cup
        {[dispatch_date |-> dispatch_date, delivery_date |-> date,
          driver_id |-> d, vehicle_id |-> v]}

upsert_vehicle_assignment(dispatch_date, date, d, v) ==
    LET current == vehicle_rows(date, d)
        conflict == {a \in vehicle_assignments : /\ a.delivery_date = date
                                                 /\ a.vehicle_id = v
                                                 /\ a.driver_id # d}
    IN  /\ AtMostOne(current)
        /\ conflict = {}
        /\ vehicle_assignments' = (vehicle_assignments \ current) \cup
               (IF current = {}
                  THEN {[dispatch_date |-> dispatch_date,
                         delivery_date |-> date,
                         driver_id |-> d, vehicle_id |-> v]}
                  ELSE {[a EXCEPT !.vehicle_id = v] : a \in current})

\* The key is checked again inside the write transaction, and the id is new.
upsert_delivery_run_sheet(s, sheet) ==
    /\ ~Stored(s)
    /\ get_delivery_run_sheet_for_driver(sheet.delivery_date,
                                         sheet.driver_id) = {}
    /\ run_sheets' = [run_sheets EXCEPT ![s] = sheet]

-----------------------------------------------------------------------------
(* Snapshots taken by generation. *)

\* Fault: the trips of a driver are taken whatever their delivery date.
build_trips_of_any_date(date, d) ==
    {[task_id |-> a.task_id, trip_no |-> a.trip_no] :
        a \in {b \in assignments : /\ b.driver_id = d
                                   /\ active_order(b.task_id)}}

build_trips(date, d) ==
    {[task_id |-> a.task_id, trip_no |-> a.trip_no] :
        a \in {b \in list_delivery_order_assignments_for_delivery_date(date) :
                  b.driver_id = d}}

\* Listing the vehicles of a date refuses duplicated drivers and vehicles.
vehicle_identity(date) ==
    \A a, b \in {v \in vehicle_assignments : v.delivery_date = date} :
        (a.driver_id = b.driver_id \/ a.vehicle_id = b.vehicle_id) => a = b

vehicle_snapshot(date, d) ==
    IF vehicle_rows(date, d) = {}
      THEN None
      ELSE (CHOOSE v \in vehicle_rows(date, d) : TRUE).vehicle_id

-----------------------------------------------------------------------------
(* Transactional handlers of the Delivery workspace. *)

AssignOrder(o, d, trip) ==
    /\ active_order(o)
    /\ validate_driver_exists(d)
    /\ ensure_order_not_reserved(o)
    /\ \A a \in list_assignments_for_task(o) :
           ensure_delivery_run_sheet_key_mutable(
               manual_orders[o].delivery_date, a.driver_id)
    /\ ensure_delivery_run_sheet_key_mutable(
           manual_orders[o].delivery_date, d)
    /\ \E dispatch_date \in DispatchDates \cup {manual_orders[o].delivery_date} :
           upsert_assignment(o, dispatch_date, d, trip)
    /\ UNCHANGED <<manual_orders, vehicle_assignments, run_sheets, outcomes,
                   deleted_drivers, deleted_vehicles>>

UnassignOrder(o) ==
    /\ active_order(o)
    /\ ensure_order_not_reserved(o)
    /\ \A a \in list_assignments_for_task(o) :
           ensure_delivery_run_sheet_key_mutable(
               manual_orders[o].delivery_date, a.driver_id)
    /\ remove_assignments_for_task(o)
    /\ UNCHANGED <<manual_orders, vehicle_assignments, run_sheets, outcomes,
                   deleted_drivers, deleted_vehicles>>

AssignVehicle(date, d, v) ==
    /\ validate_driver_exists(d)
    /\ validate_vehicle_exists(v)
    /\ ensure_delivery_run_sheet_key_mutable(date, d)
    /\ \E dispatch_date \in DispatchDates \cup {date} :
           upsert_vehicle_assignment(dispatch_date, date, d, v)
    /\ UNCHANGED <<manual_orders, assignments, run_sheets, outcomes,
                   deleted_drivers, deleted_vehicles>>

ClearVehicle(date, d) ==
    /\ validate_driver_exists(d)
    /\ ensure_delivery_run_sheet_key_mutable(date, d)
    /\ AtMostOne(vehicle_rows(date, d))
    /\ vehicle_assignments' = vehicle_assignments \ vehicle_rows(date, d)
    /\ UNCHANGED <<manual_orders, assignments, run_sheets, outcomes,
                   deleted_drivers, deleted_vehicles>>

GenerateRunSheet(s, date, d) ==
    /\ validate_driver_exists(d)
    /\ get_delivery_run_sheet_for_driver(date, d) = {}
    /\ build_trips(date, d) # {}
    /\ vehicle_identity(date)
    /\ upsert_delivery_run_sheet(s,
           [status |-> "GENERATED", execution_status |-> "OPEN",
            delivery_date |-> date, driver_id |-> d,
            vehicle_id |-> vehicle_snapshot(date, d),
            rows |-> build_trips(date, d)])
    /\ UNCHANGED <<manual_orders, assignments, vehicle_assignments, outcomes,
                   deleted_drivers, deleted_vehicles>>

\* The live order and its assignment still are what the saved row captured.
row_unchanged(s, r) ==
    /\ manual_orders[r.task_id].status = "ACTIVE"
    /\ manual_orders[r.task_id].delivery_date = run_sheets[s].delivery_date
    /\ AtMostOne(list_assignments_for_task(r.task_id))
    /\ \E a \in list_assignments_for_task(r.task_id) :
           /\ a.driver_id = run_sheets[s].driver_id
           /\ a.trip_no = r.trip_no

\* What the driver reports of one row; a returned order needs a later date.
closeout_rows(date) ==
    [outcome : {"DELIVERED"}, next_delivery_date : {NoDate}] \cup
    [outcome : {"RETURN_TO_POOL"},
     next_delivery_date : {n \in Dates : n > date}]

\* Fault: a submission may leave rows out.
partial_submissions(s) ==
    UNION {[O -> closeout_rows(run_sheets[s].delivery_date)] :
              O \in SUBSET captured_orders(s)}

\* The submissions that cover every row of the sheet exactly once.
closeout_submissions(s) ==
    [captured_orders(s) -> closeout_rows(run_sheets[s].delivery_date)]

\* Faults: the next date is copied whatever the outcome; no reported order
\* is finalized.
closed_order_dated(order, report) ==
    [order EXCEPT
        !.status = IF report.outcome = "DELIVERED" THEN "FINALIZED" ELSE @,
        !.delivery_date = report.next_delivery_date]
closed_order_active(order, report) ==
    [order EXCEPT !.delivery_date = IF report.outcome = "RETURN_TO_POOL"
                                      THEN report.next_delivery_date ELSE @]

closed_order(order, report) ==
    IF report.outcome = "DELIVERED"
      THEN [order EXCEPT !.status = "FINALIZED"]
      ELSE [order EXCEPT !.delivery_date = report.next_delivery_date]

CloseRunSheet(s, reports) ==
    /\ run_sheets[s].status = "SAVED"
    /\ run_sheets[s].execution_status = "OPEN"
    /\ \A r \in run_sheets[s].rows : row_unchanged(s, r)
    /\ manual_orders' = [o \in Orders |->
           IF o \in DOMAIN reports
             THEN closed_order(manual_orders[o], reports[o])
             ELSE manual_orders[o]]
    /\ assignments' = {a \in assignments : a.task_id \notin DOMAIN reports}
    /\ outcomes' = outcomes \cup
           {[run_sheet_id |-> s, order_id |-> o,
             outcome |-> reports[o].outcome,
             next_delivery_date |-> reports[o].next_delivery_date] :
                o \in DOMAIN reports}
    /\ run_sheets' = [run_sheets EXCEPT ![s].execution_status = "CLOSED"]
    /\ UNCHANGED <<vehicle_assignments, deleted_drivers, deleted_vehicles>>

-----------------------------------------------------------------------------
(* Handlers that are one conditional write. *)

\* A new id is generated from the stored ones; the insert fails on a clash.
CreateOrder(o, date) ==
    /\ manual_orders[o].status = "ABSENT"
    /\ manual_orders' = [manual_orders EXCEPT
           ![o] = [status |-> "ACTIVE", delivery_date |-> date]]
    /\ UNCHANGED <<assignments, vehicle_assignments, run_sheets, outcomes,
                   deleted_drivers, deleted_vehicles>>

SaveRunSheet(s) ==
    /\ run_sheets[s].status = "GENERATED"
    /\ run_sheets' = [run_sheets EXCEPT ![s].status = "SAVED"]
    /\ UNCHANGED <<manual_orders, assignments, vehicle_assignments, outcomes,
                   deleted_drivers, deleted_vehicles>>

\* The rows go with the sheet (ON DELETE CASCADE); assignments stay.
CancelRunSheet(s) ==
    /\ run_sheets[s].status = "GENERATED"
    /\ run_sheets' = [run_sheets EXCEPT ![s] = NoRunSheet]
    /\ UNCHANGED <<manual_orders, assignments, vehicle_assignments, outcomes,
                   deleted_drivers, deleted_vehicles>>

-----------------------------------------------------------------------------
(* Handlers of several statements, run alone. *)

\* Editing an order rewrites its whole row; of the fields only the delivery
\* date matters to dispatch.  The order may have any status.
UpdateOrder(o, date) ==
    /\ manual_orders[o].status # "ABSENT"
    /\ ensure_order_not_reserved(o)
    /\ manual_orders' = [manual_orders EXCEPT ![o].delivery_date = date]
    /\ UNCHANGED <<assignments, vehicle_assignments, run_sheets, outcomes,
                   deleted_drivers, deleted_vehicles>>

\* Fault: an assigned order can be cancelled.
CancelAssignedOrder(o) ==
    /\ manual_orders[o].status \notin {"ABSENT", "CANCELLED"}
    /\ ensure_order_not_reserved(o)
    /\ manual_orders' = [manual_orders EXCEPT ![o].status = "CANCELLED"]
    /\ UNCHANGED <<assignments, vehicle_assignments, run_sheets, outcomes,
                   deleted_drivers, deleted_vehicles>>

\* Any order that is not assigned can be cancelled, a FINALIZED one too.
CancelOrder(o) ==
    /\ manual_orders[o].status \notin {"ABSENT", "CANCELLED"}
    /\ ensure_order_not_reserved(o)
    /\ ~has_assignment_for_task(o)
    /\ manual_orders' = [manual_orders EXCEPT ![o].status = "CANCELLED"]
    /\ UNCHANGED <<assignments, vehicle_assignments, run_sheets, outcomes,
                   deleted_drivers, deleted_vehicles>>

DeleteDriver(d) ==
    /\ d \notin deleted_drivers
    /\ ~driver_has_active_assignments(d)
    /\ ~driver_has_vehicle_selection(d)
    /\ deleted_drivers' = deleted_drivers \cup {d}
    /\ UNCHANGED <<manual_orders, assignments, vehicle_assignments,
                   run_sheets, outcomes, deleted_vehicles>>

DeleteVehicle(v) ==
    /\ v \notin deleted_vehicles
    /\ ~vehicle_has_current_selection(v)
    /\ deleted_vehicles' = deleted_vehicles \cup {v}
    /\ UNCHANGED <<manual_orders, assignments, vehicle_assignments,
                   run_sheets, outcomes, deleted_drivers>>

-----------------------------------------------------------------------------

Init ==
    /\ manual_orders = [o \in Orders |-> NoOrder]
    /\ assignments = {}
    /\ vehicle_assignments = {}
    /\ run_sheets = [s \in RunSheetIds |-> NoRunSheet]
    /\ outcomes = {}
    /\ deleted_drivers = {}
    /\ deleted_vehicles = {}

\* Requests that one transaction or one conditional write carries out.
AtomicRequests ==
    \/ \E o \in Orders :
        \/ \E date \in Dates : CreateOrder(o, date)
        \/ \E d \in Drivers, trip \in Trips : AssignOrder(o, d, trip)
        \/ UnassignOrder(o)
    \/ \E d \in Drivers, date \in Dates :
        \/ \E v \in Vehicles : AssignVehicle(date, d, v)
        \/ ClearVehicle(date, d)
    \/ \E s \in RunSheetIds :
        \/ \E date \in Dates, d \in Drivers : GenerateRunSheet(s, date, d)
        \/ SaveRunSheet(s)
        \/ CancelRunSheet(s)
        \/ \E reports \in closeout_submissions(s) : CloseRunSheet(s, reports)

\* Requests of several statements, each run from its first to its last.
StepwiseRequests ==
    \/ \E o \in Orders :
        \/ \E date \in Dates : UpdateOrder(o, date)
        \/ CancelOrder(o)
    \/ \E d \in Drivers : DeleteDriver(d)
    \/ \E v \in Vehicles : DeleteVehicle(v)

Next == AtomicRequests \/ StepwiseRequests

Spec == Init /\ [][Next]_vars

-----------------------------------------------------------------------------
(* What the handlers promise. *)

\* A driver has at most one run sheet per delivery date, cancelled sheets
\* excepted: README "Delivery Date is the sole business scope for ... Run
\* Sheet candidates and locks".
OneSheetPerDriverDate ==
    \A s, t \in RunSheetIds :
        (/\ Stored(s) /\ Stored(t)
         /\ run_sheets[s].delivery_date = run_sheets[t].delivery_date
         /\ run_sheets[s].driver_id = run_sheets[t].driver_id) => s = t

\* An assignment is identified by its task: no order is assigned twice.
OneAssignmentPerOrder ==
    \A a, b \in assignments : a.task_id = b.task_id => a = b

\* On one date a driver has one vehicle and a vehicle one driver, so the
\* listing that refuses duplicates never refuses.
OneVehiclePerDriverDate == \A date \in Dates : vehicle_identity(date)

\* Every order a reserving sheet captured is still ACTIVE, on the sheet's
\* date, and assigned to its driver on the captured trip: a saved sheet can
\* always be closed out, since nothing else would unlock its orders.
CapturedOrdersIntact ==
    \A s \in RunSheetIds :
        Reserving(s) => \A r \in run_sheets[s].rows : row_unchanged(s, r)

\* README "reserves its captured Orders": no order is captured by two sheets
\* that both still reserve it, or twice by one.
CapturedOnce ==
    \A o \in Orders : \A s, t \in get_delivery_run_sheet_reserving_order(o) :
        /\ s = t
        /\ \A p, q \in run_sheets[s].rows :
               (p.task_id = o /\ q.task_id = o) => p = q

\* As long as a driver/date has a sheet, the vehicle chosen for it is the one
\* the sheet captured (README "reserves ... vehicle target").
VehicleTargetFrozen ==
    \A s \in RunSheetIds : Stored(s) =>
        {v.vehicle_id : v \in vehicle_rows(run_sheets[s].delivery_date,
                                           run_sheets[s].driver_id)}
            = {run_sheets[s].vehicle_id} \ {None}

\* The outcomes of a sheet answer every captured row once if it is closed,
\* and none if it is not.
OutcomesCoverRows ==
    \A s \in RunSheetIds :
        LET recorded == {u \in outcomes : u.run_sheet_id = s} IN
        /\ \A u, w \in recorded : u.order_id = w.order_id => u = w
        /\ {u.order_id : u \in recorded} =
              IF run_sheets[s].execution_status = "CLOSED"
                THEN captured_orders(s) ELSE {}

Delivered(o) == \E u \in outcomes : u.order_id = o /\ u.outcome = "DELIVERED"

\* A delivered order never comes back: it is not ACTIVE, so it is in no Task
\* Pool and on no later sheet, and it was delivered by one sheet.
DeliveredStaysOut ==
    \A u \in outcomes : u.outcome = "DELIVERED" =>
        /\ ~active_order(u.order_id)
        /\ \A w \in outcomes :
               (w.order_id = u.order_id /\ w.outcome = "DELIVERED") => w = u

\* A deleted driver or vehicle is chosen for nothing.
DeletedAreIdle ==
    /\ \A a \in assignments : a.driver_id \notin deleted_drivers
    /\ \A v \in vehicle_assignments : /\ v.driver_id \notin deleted_drivers
                                       /\ v.vehicle_id \notin deleted_vehicles

orders_for(date, d) == {r.task_id : r \in build_trips(date, d)}

SavedAndOpen(s) == /\ run_sheets[s].status = "SAVED"
                   /\ run_sheets[s].execution_status = "OPEN"

\* What a step may do to the orders of a sheet that stays saved and open.
KeepsOrders(s) ==
    LET of == orders_for(run_sheets[s].delivery_date, run_sheets[s].driver_id) IN
    (SavedAndOpen(s) /\ SavedAndOpen(s)' /\ of' # of) =>
        /\ \E o \in Orders, date \in Dates : UpdateOrder(o, date)
        /\ of \cap captured_orders(s) = of' \cap captured_orders(s)

\* README "SAVED + OPEN ... block Delivery assignment ... changes for their
\* driver/date": while a sheet is saved and open, the orders assigned to its
\* driver for its date stay the same.  Only an edit gets past the lock, by
\* giving an order of the driver that is on no sheet this or another date.
OnlyEditsPassOpenSheets == [][\A s \in RunSheetIds : KeepsOrders(s)]_vars
=============================================================================
