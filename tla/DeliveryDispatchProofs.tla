----------------------- MODULE DeliveryDispatchProofs -----------------------
(***************************************************************************)
(* Proofs about DeliveryDispatch for any number of orders, drivers,        *)
(* vehicles, run sheets and dates.  First its tables: they keep their      *)
(* shape and what sheets and assignments promise of orders and drivers;    *)
(* nobody shares a vehicle on a date, and the one a run sheet captured     *)
(* stays selected.  Then what becomes of orders: what closing a sheet      *)
(* records, that delivered orders stay out, what locks a saved and open    *)
(* sheet, and that the tables implement OrderLifecycle: for every request, *)
(* which orders change their phase, and that all of them change it in one  *)
(* step of the life cycle.                                                 *)
(***************************************************************************)
EXTENDS DeliveryRefinement, TLAPS

LEMMA DatesType == Dates \subseteq Nat /\ NoDate \notin Dates /\ DispatchDates \subseteq Dates
  BY DateAssumption DEF Dates, NoDate

-----------------------------------------------------------------------------
(* Type correctness. *)

LEMMA InitTypeOK == Init => TypeOK
  BY DEF Init, TypeOK

\* An order that exists has a status and a date.
LEMMA StoredOrder ==
  ASSUME TypeOK, NEW o \in Orders, manual_orders[o].status # "ABSENT"
  PROVE  manual_orders[o] \in Order
  BY DEF TypeOK, NoOrder

\* A stored sheet is a row of the table.
LEMMA StoredSheet ==
  ASSUME TypeOK, NEW s \in RunSheetIds, Stored(s)
  PROVE  run_sheets[s] \in RunSheet
  BY DEF TypeOK, NoRunSheet, Stored

LEMMA AssignOrderType ==
  ASSUME TypeOK, NEW o \in Orders, NEW d \in Drivers, NEW trip \in Trips,
         AssignOrder(o, d, trip)
  PROVE  TypeOK'
<1>1. manual_orders[o].delivery_date \in Dates
  BY StoredOrder DEF AssignOrder, active_order, Order
<1>2. PICK dd \in DispatchDates \cup {manual_orders[o].delivery_date} :
          upsert_assignment(o, dd, d, trip)
  BY DEF AssignOrder
<1>3. dd \in Dates
  BY <1>1, DatesType
<1>4. [task_id |-> o, dispatch_date |-> dd, driver_id |-> d, trip_no |-> trip]
          \in Assignment
  BY <1>3 DEF Assignment
<1>5. \A a \in Assignment :
          [a EXCEPT !.driver_id = d, !.trip_no = trip] \in Assignment
  BY DEF Assignment
<1>6. assignments' \subseteq Assignment
  BY <1>2, <1>4, <1>5 DEF upsert_assignment, list_assignments_for_task, TypeOK
<1> QED
  BY <1>6 DEF AssignOrder, TypeOK

LEMMA AssignVehicleType ==
  ASSUME TypeOK, NEW date \in Dates, NEW d \in Drivers, NEW v \in Vehicles,
         AssignVehicle(date, d, v)
  PROVE  TypeOK'
<1>1. PICK dd \in DispatchDates \cup {date} :
          upsert_vehicle_assignment(dd, date, d, v)
  BY DEF AssignVehicle
<1>2. dd \in Dates
  BY DatesType
<1>3. [dispatch_date |-> dd, delivery_date |-> date, driver_id |-> d,
       vehicle_id |-> v] \in VehicleAssignment
  BY <1>2 DEF VehicleAssignment
<1>4. \A a \in VehicleAssignment : [a EXCEPT !.vehicle_id = v] \in VehicleAssignment
  BY DEF VehicleAssignment
<1>5. vehicle_assignments' \subseteq VehicleAssignment
  BY <1>1, <1>3, <1>4 DEF upsert_vehicle_assignment, vehicle_rows, TypeOK
<1> QED
  BY <1>5 DEF AssignVehicle, TypeOK

\* A snapshot of the trips and the vehicle is well-formed.
LEMMA SnapshotType ==
  ASSUME TypeOK, NEW date \in Dates, NEW d \in Drivers
  PROVE  /\ build_trips(date, d) \subseteq RunSheetRow
         /\ vehicle_snapshot(date, d) \in Vehicles \cup {None}
<1>1. \A a \in Assignment :
          [task_id |-> a.task_id, trip_no |-> a.trip_no] \in RunSheetRow
  BY DEF Assignment, RunSheetRow
<1>2. build_trips(date, d) \subseteq RunSheetRow
  BY <1>1 DEF build_trips, list_delivery_order_assignments_for_delivery_date,
              TypeOK
<1>3. ASSUME vehicle_rows(date, d) # {}
      PROVE  (CHOOSE v \in vehicle_rows(date, d) : TRUE).vehicle_id \in Vehicles
  <2>1. (CHOOSE v \in vehicle_rows(date, d) : TRUE) \in vehicle_rows(date, d)
    BY <1>3
  <2> QED
    BY <2>1 DEF vehicle_rows, TypeOK, VehicleAssignment
<1> QED
  BY <1>2, <1>3 DEF vehicle_snapshot

LEMMA GenerateType ==
  ASSUME TypeOK, NEW s \in RunSheetIds, NEW date \in Dates, NEW d \in Drivers,
         GenerateRunSheet(s, date, d)
  PROVE  TypeOK'
<1> DEFINE sheet == [status |-> "GENERATED", execution_status |-> "OPEN",
                     delivery_date |-> date, driver_id |-> d,
                     vehicle_id |-> vehicle_snapshot(date, d),
                     rows |-> build_trips(date, d)]
<1>1. sheet \in RunSheet
  BY SnapshotType DEF RunSheet
<1>2. run_sheets' = [run_sheets EXCEPT ![s] = sheet]
  BY DEF GenerateRunSheet, upsert_delivery_run_sheet
<1> HIDE DEF sheet
<1>3. run_sheets' \in [RunSheetIds -> RunSheet \cup {NoRunSheet}]
  BY <1>1, <1>2 DEF TypeOK
<1> QED
  BY <1>3 DEF GenerateRunSheet, TypeOK

\* What a closeout report says of one order.
LEMMA ReportType ==
  ASSUME TypeOK, NEW s \in RunSheetIds,
         NEW reports \in closeout_submissions(s), NEW o \in DOMAIN reports
  PROVE  /\ o \in captured_orders(s)
         /\ reports[o] \in closeout_rows(run_sheets[s].delivery_date)
         /\ \/ reports[o].outcome = "DELIVERED" /\ reports[o].next_delivery_date = NoDate
            \/ reports[o].outcome = "RETURN_TO_POOL" /\ reports[o].next_delivery_date \in Dates
<1>1. o \in captured_orders(s)
  BY DEF closeout_submissions
<1>2. reports[o] \in closeout_rows(run_sheets[s].delivery_date)
  BY <1>1 DEF closeout_submissions
<1> QED
  BY <1>1, <1>2 DEF closeout_rows

LEMMA CloseType ==
  ASSUME TypeOK, NEW s \in RunSheetIds,
         NEW reports \in closeout_submissions(s), CloseRunSheet(s, reports)
  PROVE  TypeOK'
<1>1. Stored(s)
  BY DEF CloseRunSheet, Stored
<1>2. run_sheets[s] \in RunSheet
  BY <1>1, StoredSheet
<1>3. captured_orders(s) \subseteq Orders
  BY <1>2 DEF captured_orders, RunSheet, RunSheetRow
<1>4. ASSUME NEW o \in DOMAIN reports
      PROVE  /\ o \in Orders
             /\ manual_orders[o].status = "ACTIVE"
  <2>1. PICK r \in run_sheets[s].rows : r.task_id = o
    BY <1>4, ReportType DEF captured_orders
  <2>2. row_unchanged(s, r)
    BY DEF CloseRunSheet
  <2> QED
    BY <1>3, <1>4, <2>1, <2>2, ReportType DEF row_unchanged
<1>5. ASSUME NEW o \in DOMAIN reports
      PROVE  closed_order(manual_orders[o], reports[o]) \in Order
  <2>1. manual_orders[o] \in Order
    BY <1>4, StoredOrder
  <2> QED
    BY <1>5, <2>1, ReportType DEF closed_order, Order
<1>6. manual_orders' \in [Orders -> Order \cup {NoOrder}]
  BY <1>5 DEF CloseRunSheet, TypeOK
<1>7. outcomes' \subseteq Outcome
  <2>1. ASSUME NEW o \in DOMAIN reports
        PROVE  [run_sheet_id |-> s, order_id |-> o,
                outcome |-> reports[o].outcome,
                next_delivery_date |-> reports[o].next_delivery_date] \in Outcome
    BY <1>4, <2>1, ReportType DEF Outcome
  <2> QED
    BY <2>1 DEF CloseRunSheet, TypeOK
<1>8. run_sheets' \in [RunSheetIds -> RunSheet \cup {NoRunSheet}]
  <2>1. [run_sheets[s] EXCEPT !.execution_status = "CLOSED"] \in RunSheet
    BY <1>2 DEF RunSheet
  <2> QED
    BY <2>1 DEF CloseRunSheet, TypeOK
<1>9. assignments' \subseteq Assignment
  BY DEF CloseRunSheet, TypeOK
<1> QED
  BY <1>6, <1>7, <1>8, <1>9 DEF CloseRunSheet, TypeOK

\* The handlers that write one order row.
LEMMA OrderRowType ==
  ASSUME TypeOK, NEW o \in Orders, NEW date \in Dates,
         CreateOrder(o, date) \/ UpdateOrder(o, date) \/ CancelOrder(o)
  PROVE  TypeOK'
<1>1. CASE CreateOrder(o, date)
  <2>1. [status |-> "ACTIVE", delivery_date |-> date] \in Order
    BY DEF Order
  <2> QED
    BY <1>1, <2>1 DEF CreateOrder, TypeOK
<1>2. CASE UpdateOrder(o, date)
  <2>1. manual_orders[o] \in Order
    BY <1>2, StoredOrder DEF UpdateOrder
  <2>2. [manual_orders[o] EXCEPT !.delivery_date = date] \in Order
    BY <2>1 DEF Order
  <2> QED
    BY <1>2, <2>2 DEF UpdateOrder, TypeOK
<1>3. CASE CancelOrder(o)
  <2>1. manual_orders[o] \in Order
    BY <1>3, StoredOrder DEF CancelOrder
  <2>2. [manual_orders[o] EXCEPT !.status = "CANCELLED"] \in Order
    BY <2>1 DEF Order
  <2> QED
    BY <1>3, <2>2 DEF CancelOrder, TypeOK
<1> QED
  BY <1>1, <1>2, <1>3

\* The handlers that promote or delete one generated sheet.
LEMMA SheetStatusType ==
  ASSUME TypeOK, NEW s \in RunSheetIds, SaveRunSheet(s) \/ CancelRunSheet(s)
  PROVE  TypeOK'
<1>1. CASE SaveRunSheet(s)
  <2>1. run_sheets[s] \in RunSheet
    BY <1>1, StoredSheet DEF SaveRunSheet, Stored
  <2>2. [run_sheets[s] EXCEPT !.status = "SAVED"] \in RunSheet
    BY <2>1 DEF RunSheet
  <2> QED
    BY <1>1, <2>2 DEF SaveRunSheet, TypeOK
<1>2. CASE CancelRunSheet(s)
  BY <1>2 DEF CancelRunSheet, TypeOK
<1> QED
  BY <1>1, <1>2

\* Every request keeps every table well-typed.
LEMMA AtomicTypeOK == TypeOK /\ AtomicRequests => TypeOK'
<1> SUFFICES ASSUME TypeOK, AtomicRequests PROVE TypeOK'
  OBVIOUS
<1>1. ASSUME NEW o \in Orders, UnassignOrder(o) PROVE TypeOK'
  BY <1>1 DEF UnassignOrder, remove_assignments_for_task, TypeOK
<1>2. ASSUME NEW date \in Dates, NEW d \in Drivers, ClearVehicle(date, d)
      PROVE  TypeOK'
  BY <1>2 DEF ClearVehicle, TypeOK
<1> QED
  BY <1>1, <1>2, OrderRowType, AssignOrderType, AssignVehicleType,
     GenerateType, SheetStatusType, CloseType DEF AtomicRequests

LEMMA StepwiseTypeOK == TypeOK /\ StepwiseRequests => TypeOK'
<1> SUFFICES ASSUME TypeOK, StepwiseRequests PROVE TypeOK'
  OBVIOUS
<1>1. ASSUME NEW o \in Orders, CancelOrder(o) PROVE TypeOK'
  <2>1. manual_orders[o].delivery_date \in Dates
    BY <1>1, StoredOrder DEF CancelOrder, Order
  <2> QED
    BY <1>1, <2>1, OrderRowType
<1>2. ASSUME NEW d \in Drivers, DeleteDriver(d) PROVE TypeOK'
  BY <1>2 DEF DeleteDriver, TypeOK
<1>3. ASSUME NEW v \in Vehicles, DeleteVehicle(v) PROVE TypeOK'
  BY <1>3 DEF DeleteVehicle, TypeOK
<1> QED
  BY <1>1, <1>2, <1>3, OrderRowType DEF StepwiseRequests

LEMMA StutterTypeOK == TypeOK /\ UNCHANGED vars => TypeOK'
  BY DEF TypeOK, vars

\* Every reachable state has well-formed tables: no request writes a row
\* that the schema of its table would reject.
THEOREM TypeCorrect == Spec => []TypeOK
<1>1. TypeOK /\ [Next]_vars => TypeOK'
  BY AtomicTypeOK, StepwiseTypeOK, StutterTypeOK DEF Next
<1> QED
  BY <1>1, InitTypeOK, PTL DEF Spec

-----------------------------------------------------------------------------
(* One run sheet per driver and date. *)

LEMMA GenerateOneSheet ==
  ASSUME TypeOK, OneSheetPerDriverDate,
         NEW s \in RunSheetIds, NEW date \in Dates, NEW d \in Drivers,
         GenerateRunSheet(s, date, d)
  PROVE  OneSheetPerDriverDate'
<1>1. \A t \in RunSheetIds \ {s} : run_sheets'[t] = run_sheets[t]
  BY DEF GenerateRunSheet, upsert_delivery_run_sheet, TypeOK
<1>2. run_sheets'[s].delivery_date = date /\ run_sheets'[s].driver_id = d
  BY DEF GenerateRunSheet, upsert_delivery_run_sheet, TypeOK
<1>3. \A t \in RunSheetIds :
          Stored(t) => \/ run_sheets[t].delivery_date # date
                       \/ run_sheets[t].driver_id # d
  BY DEF GenerateRunSheet, get_delivery_run_sheet_for_driver
<1> QED
  BY <1>1, <1>2, <1>3 DEF OneSheetPerDriverDate, Stored

\* Any step that stores no new sheet and moves none to another driver/date.
LEMMA KeepKeysOneSheet ==
  ASSUME OneSheetPerDriverDate,
         \A t \in RunSheetIds :
             Stored(t)' => /\ Stored(t)
                           /\ run_sheets'[t].delivery_date = run_sheets[t].delivery_date
                           /\ run_sheets'[t].driver_id = run_sheets[t].driver_id
  PROVE  OneSheetPerDriverDate'
  BY DEF OneSheetPerDriverDate

LEMMA SameSheetsOneSheet ==
  ASSUME OneSheetPerDriverDate, UNCHANGED run_sheets
  PROVE  OneSheetPerDriverDate'
  BY DEF OneSheetPerDriverDate, Stored

LEMMA AtomicOneSheet ==
  TypeOK /\ OneSheetPerDriverDate /\ AtomicRequests => OneSheetPerDriverDate'
<1> SUFFICES ASSUME TypeOK, OneSheetPerDriverDate, AtomicRequests
             PROVE  OneSheetPerDriverDate'
  OBVIOUS
<1>1. ASSUME NEW s \in RunSheetIds, SaveRunSheet(s)
      PROVE  OneSheetPerDriverDate'
  <2>1. \A t \in RunSheetIds :
           /\ run_sheets'[t].delivery_date = run_sheets[t].delivery_date
           /\ run_sheets'[t].driver_id = run_sheets[t].driver_id
           /\ Stored(t)' => Stored(t)
    BY <1>1 DEF SaveRunSheet, TypeOK, Stored
  <2> QED
    BY <2>1, KeepKeysOneSheet
<1>2. ASSUME NEW s \in RunSheetIds, CancelRunSheet(s)
      PROVE  OneSheetPerDriverDate'
  <2>1. \A t \in RunSheetIds : Stored(t)' => Stored(t) /\ run_sheets'[t] = run_sheets[t]
    BY <1>2 DEF CancelRunSheet, TypeOK, Stored, NoRunSheet
  <2> QED
    BY <2>1, KeepKeysOneSheet
<1>3. ASSUME NEW s \in RunSheetIds, NEW reports \in closeout_submissions(s),
             CloseRunSheet(s, reports)
      PROVE  OneSheetPerDriverDate'
  <2>1. \A t \in RunSheetIds :
           /\ run_sheets'[t].delivery_date = run_sheets[t].delivery_date
           /\ run_sheets'[t].driver_id = run_sheets[t].driver_id
           /\ Stored(t)' => Stored(t)
    BY <1>3 DEF CloseRunSheet, TypeOK, Stored
  <2> QED
    BY <2>1, KeepKeysOneSheet
<1>4. ASSUME UNCHANGED run_sheets PROVE OneSheetPerDriverDate'
  BY <1>4, SameSheetsOneSheet
<1> QED
  BY <1>1, <1>2, <1>3, <1>4, GenerateOneSheet
     DEF AtomicRequests, CreateOrder, AssignOrder, UnassignOrder,
         AssignVehicle, ClearVehicle

LEMMA StepwiseKeepsSheets == StepwiseRequests => UNCHANGED run_sheets
  BY DEF StepwiseRequests, UpdateOrder, CancelOrder, DeleteDriver, DeleteVehicle

\* A driver never has two run sheets for one delivery date, however the
\* requests that create, save, cancel and close sheets follow each other.
THEOREM OneSheet == Spec => []OneSheetPerDriverDate
<1>1. Init => OneSheetPerDriverDate
  BY DEF Init, OneSheetPerDriverDate, Stored, NoRunSheet
<1>2. TypeOK /\ OneSheetPerDriverDate /\ [Next]_vars => OneSheetPerDriverDate'
  BY AtomicOneSheet, StepwiseKeepsSheets, SameSheetsOneSheet DEF Next, vars
<1> QED
  BY <1>1, <1>2, TypeCorrect, PTL DEF Spec

-----------------------------------------------------------------------------
(* One assignment per order. *)

\* Assigning replaces the rows of the order by one row at most.
LEMMA UpsertShape ==
  ASSUME TypeOK, NEW o \in Orders, NEW dd, NEW d, NEW trip,
         upsert_assignment(o, dd, d, trip)
  PROVE  \E new :
            /\ \A a \in new : a.task_id = o
            /\ AtMostOne(new)
            /\ assignments' =
                  (assignments \ list_assignments_for_task(o)) \cup new
<1> DEFINE existing == list_assignments_for_task(o)
           fresh == [task_id |-> o, dispatch_date |-> dd,
                     driver_id |-> d, trip_no |-> trip]
           moved(a) == [a EXCEPT !.driver_id = d, !.trip_no = trip]
<1>1. existing \subseteq Assignment /\ AtMostOne(existing)
  BY DEF upsert_assignment, list_assignments_for_task, TypeOK
<1>2. CASE existing = {}
  <2>1. assignments' = (assignments \ existing) \cup {fresh}
    BY <1>2 DEF upsert_assignment
  <2>2. (\A a \in {fresh} : a.task_id = o) /\ AtMostOne({fresh})
    BY DEF AtMostOne
  <2> HIDE DEF fresh
  <2> QED
    BY <2>1, <2>2
<1>3. CASE existing # {}
  <2>1. PICK a \in existing : existing = {a}
    BY <1>1, <1>3 DEF AtMostOne
  <2>2. moved(a).task_id = o
    BY <1>1, <2>1 DEF list_assignments_for_task, Assignment
  <2>3. assignments' = (assignments \ existing) \cup {moved(b) : b \in existing}
    BY <1>3 DEF upsert_assignment
  <2> HIDE DEF moved
  <2>4. assignments' = (assignments \ existing) \cup {moved(a)}
    BY <2>1, <2>3
  <2> QED
    BY <2>2, <2>4 DEF AtMostOne
<1> QED
  BY <1>2, <1>3

LEMMA AssignOrderOnce ==
  ASSUME TypeOK, OneAssignmentPerOrder, NEW o \in Orders, NEW d \in Drivers,
         NEW trip \in Trips, AssignOrder(o, d, trip)
  PROVE  OneAssignmentPerOrder'
<1>1. PICK new : /\ \A a \in new : a.task_id = o
                 /\ AtMostOne(new)
                 /\ assignments' =
                       (assignments \ list_assignments_for_task(o)) \cup new
  BY UpsertShape DEF AssignOrder
<1>2. \A a \in assignments \ list_assignments_for_task(o) : a.task_id # o
  BY DEF list_assignments_for_task
<1> QED
  BY <1>1, <1>2 DEF OneAssignmentPerOrder, AtMostOne

LEMMA FewerAssignmentsOnce ==
  ASSUME OneAssignmentPerOrder, assignments' \subseteq assignments
  PROVE  OneAssignmentPerOrder'
  BY DEF OneAssignmentPerOrder

LEMMA AtomicOnce ==
  TypeOK /\ OneAssignmentPerOrder /\ AtomicRequests => OneAssignmentPerOrder'
<1> SUFFICES ASSUME TypeOK, OneAssignmentPerOrder, AtomicRequests
             PROVE  OneAssignmentPerOrder'
  OBVIOUS
<1>1. CASE \E o \in Orders, d \in Drivers, trip \in Trips :
              AssignOrder(o, d, trip)
  BY <1>1, AssignOrderOnce
<1>2. CASE assignments' \subseteq assignments
  BY <1>2, FewerAssignmentsOnce
<1> QED
  BY <1>1, <1>2
     DEF AtomicRequests, UnassignOrder, remove_assignments_for_task,
         CreateOrder, AssignVehicle, ClearVehicle, GenerateRunSheet,
         SaveRunSheet, CancelRunSheet, CloseRunSheet

LEMMA StepwiseKeepsAssignments == StepwiseRequests => UNCHANGED assignments
  BY DEF StepwiseRequests, UpdateOrder, CancelOrder, DeleteDriver, DeleteVehicle

\* No order is ever assigned twice, so assigning an assigned order moves it.
THEOREM AssignedOnce == Spec => []OneAssignmentPerOrder
<1>1. Init => OneAssignmentPerOrder
  BY DEF Init, OneAssignmentPerOrder
<1>2. TypeOK /\ OneAssignmentPerOrder /\ [Next]_vars => OneAssignmentPerOrder'
  BY AtomicOnce, StepwiseKeepsAssignments, FewerAssignmentsOnce DEF Next, vars
<1> QED
  BY <1>1, <1>2, TypeCorrect, PTL DEF Spec

-----------------------------------------------------------------------------
(* What a reserving sheet captured stays as it captured it. *)

\* Rows stay intact across a step under which every row that is reserved
\* afterwards was reserved before, with its order and assignment untouched.
LEMMA KeepCaptured ==
  ASSUME CapturedOrdersIntact,
         \A t \in RunSheetIds : Reserving(t)' =>
             /\ Reserving(t)
             /\ run_sheets'[t].rows = run_sheets[t].rows
             /\ run_sheets'[t].delivery_date = run_sheets[t].delivery_date
             /\ run_sheets'[t].driver_id = run_sheets[t].driver_id
             /\ \A r \in run_sheets[t].rows :
                    /\ manual_orders'[r.task_id] = manual_orders[r.task_id]
                    /\ list_assignments_for_task(r.task_id)'
                          = list_assignments_for_task(r.task_id)
  PROVE  CapturedOrdersIntact'
<1> SUFFICES ASSUME NEW t \in RunSheetIds, Reserving(t)',
                    NEW r \in run_sheets'[t].rows
             PROVE  row_unchanged(t, r)'
  BY DEF CapturedOrdersIntact
<1>1. row_unchanged(t, r)
  BY DEF CapturedOrdersIntact
<1> QED
  BY <1>1 DEF row_unchanged, AtMostOne

\* A handler that touches one order only, and that found it unreserved.
LEMMA UnreservedOrderStep ==
  ASSUME TypeOK, CapturedOrdersIntact, UNCHANGED run_sheets,
         NEW o \in Orders, ensure_order_not_reserved(o),
         \A p \in Orders \ {o} :
             /\ manual_orders'[p] = manual_orders[p]
             /\ list_assignments_for_task(p)' = list_assignments_for_task(p)
  PROVE  CapturedOrdersIntact'
<1>1. ASSUME NEW t \in RunSheetIds, Reserving(t), NEW r \in run_sheets[t].rows
      PROVE  r.task_id \in Orders \ {o}
  <2>1. run_sheets[t] \in RunSheet
    BY <1>1, StoredSheet DEF Reserving, Stored
  <2>2. r.task_id \in Orders
    BY <2>1 DEF RunSheet, RunSheetRow
  <2>3. r.task_id # o
    BY <1>1 DEF ensure_order_not_reserved, captured_orders,
                get_delivery_run_sheet_reserving_order
  <2> QED
    BY <2>2, <2>3
<1>2. \A t \in RunSheetIds : Reserving(t)' => Reserving(t)
  BY DEF Reserving
<1> QED
  BY <1>1, <1>2, KeepCaptured

LEMMA AssignOrderIntact ==
  ASSUME TypeOK, CapturedOrdersIntact, NEW o \in Orders, NEW d \in Drivers,
         NEW trip \in Trips, AssignOrder(o, d, trip)
  PROVE  CapturedOrdersIntact'
<1>1. PICK new : /\ \A a \in new : a.task_id = o
                 /\ assignments' =
                       (assignments \ list_assignments_for_task(o)) \cup new
  BY UpsertShape DEF AssignOrder
<1>2. \A p \in Orders \ {o} :
          list_assignments_for_task(p)' = list_assignments_for_task(p)
  BY <1>1 DEF list_assignments_for_task
<1> QED
  BY <1>2, UnreservedOrderStep DEF AssignOrder

LEMMA UnassignOrderIntact ==
  ASSUME TypeOK, CapturedOrdersIntact, NEW o \in Orders, UnassignOrder(o)
  PROVE  CapturedOrdersIntact'
<1>1. \A p \in Orders \ {o} :
          list_assignments_for_task(p)' = list_assignments_for_task(p)
  BY DEF UnassignOrder, remove_assignments_for_task, list_assignments_for_task
<1> QED
  BY <1>1, UnreservedOrderStep DEF UnassignOrder

\* An order that does not exist is captured by no sheet.
LEMMA CreateOrderIntact ==
  ASSUME TypeOK, CapturedOrdersIntact, NEW o \in Orders, NEW date \in Dates,
         CreateOrder(o, date)
  PROVE  CapturedOrdersIntact'
<1>1. ensure_order_not_reserved(o)
  BY DEF CreateOrder, CapturedOrdersIntact, row_unchanged, captured_orders,
         ensure_order_not_reserved, get_delivery_run_sheet_reserving_order
<1>2. \A p \in Orders \ {o} :
          /\ manual_orders'[p] = manual_orders[p]
          /\ list_assignments_for_task(p)' = list_assignments_for_task(p)
  BY DEF CreateOrder, list_assignments_for_task, TypeOK
<1> QED
  BY <1>1, <1>2, UnreservedOrderStep DEF CreateOrder

LEMMA EditOrderIntact ==
  ASSUME TypeOK, CapturedOrdersIntact, NEW o \in Orders,
         CancelOrder(o) \/ \E date \in Dates : UpdateOrder(o, date)
  PROVE  CapturedOrdersIntact'
<1>1. \A p \in Orders \ {o} :
          /\ manual_orders'[p] = manual_orders[p]
          /\ list_assignments_for_task(p)' = list_assignments_for_task(p)
  BY DEF CancelOrder, UpdateOrder, list_assignments_for_task, TypeOK
<1> QED
  BY <1>1, UnreservedOrderStep DEF CancelOrder, UpdateOrder

\* Generation captures live orders as they are; nobody has two assignments.
LEMMA GenerateIntact ==
  ASSUME TypeOK, OneAssignmentPerOrder, CapturedOrdersIntact,
         NEW s \in RunSheetIds, NEW date \in Dates, NEW d \in Drivers,
         GenerateRunSheet(s, date, d)
  PROVE  CapturedOrdersIntact'
<1>1. \A t \in RunSheetIds \ {s} : run_sheets'[t] = run_sheets[t]
  BY DEF GenerateRunSheet, upsert_delivery_run_sheet, TypeOK
<1>2. /\ run_sheets'[s].delivery_date = date
      /\ run_sheets'[s].driver_id = d
      /\ run_sheets'[s].rows = build_trips(date, d)
  BY DEF GenerateRunSheet, upsert_delivery_run_sheet, TypeOK
<1>3. UNCHANGED <<manual_orders, assignments>>
  BY DEF GenerateRunSheet
<1>4. ASSUME NEW r \in run_sheets'[s].rows PROVE row_unchanged(s, r)'
  <2>1. PICK a \in list_delivery_order_assignments_for_delivery_date(date) :
            /\ a.driver_id = d
            /\ r = [task_id |-> a.task_id, trip_no |-> a.trip_no]
    BY <1>2 DEF build_trips
  <2>2. /\ a \in assignments
        /\ manual_orders[a.task_id].status = "ACTIVE"
        /\ manual_orders[a.task_id].delivery_date = date
    BY DEF list_delivery_order_assignments_for_delivery_date
  <2>3. r.task_id = a.task_id /\ r.trip_no = a.trip_no
    BY <2>1
  <2>4. a \in list_assignments_for_task(r.task_id)
    BY <2>2, <2>3 DEF list_assignments_for_task
  <2>5. AtMostOne(list_assignments_for_task(r.task_id))
    BY DEF AtMostOne, OneAssignmentPerOrder, list_assignments_for_task
  <2>6. list_assignments_for_task(r.task_id)' = list_assignments_for_task(r.task_id)
    BY <1>3 DEF list_assignments_for_task
  <2> QED
    BY <1>2, <1>3, <2>1, <2>2, <2>3, <2>4, <2>5, <2>6
       DEF row_unchanged, AtMostOne
<1>5. ASSUME NEW t \in RunSheetIds \ {s}, Reserving(t)',
             NEW r \in run_sheets'[t].rows
      PROVE  row_unchanged(t, r)'
  <2>1. Reserving(t) /\ r \in run_sheets[t].rows
    BY <1>1, <1>5 DEF Reserving
  <2>2. row_unchanged(t, r)
    BY <2>1 DEF CapturedOrdersIntact
  <2> QED
    BY <1>1, <1>3, <2>2 DEF row_unchanged, list_assignments_for_task, AtMostOne
<1> QED
  BY <1>4, <1>5 DEF CapturedOrdersIntact

\* A row that two reserving sheets captured gives them the same driver and
\* date, so they are the same sheet.
LEMMA RowsOfOneSheet ==
  ASSUME OneSheetPerDriverDate, CapturedOrdersIntact,
         NEW s \in RunSheetIds, NEW t \in RunSheetIds,
         Reserving(s), Reserving(t),
         NEW p \in run_sheets[s].rows, NEW q \in run_sheets[t].rows,
         p.task_id = q.task_id
  PROVE  s = t /\ p.trip_no = q.trip_no
<1>1. row_unchanged(s, p) /\ row_unchanged(t, q)
  BY DEF CapturedOrdersIntact
<1>2. run_sheets[s].delivery_date = run_sheets[t].delivery_date
  BY <1>1 DEF row_unchanged
<1>3. PICK a \in list_assignments_for_task(p.task_id) :
          a.driver_id = run_sheets[s].driver_id /\ a.trip_no = p.trip_no
  BY <1>1 DEF row_unchanged
<1>4. a.driver_id = run_sheets[t].driver_id /\ a.trip_no = q.trip_no
  BY <1>1, <1>3 DEF row_unchanged, AtMostOne
<1>5. Stored(s) /\ Stored(t)
  BY DEF Reserving, Stored
<1> QED
  BY <1>2, <1>3, <1>4, <1>5 DEF OneSheetPerDriverDate

\* Closing a sheet changes only what it captured, and no other sheet that
\* still reserves captured any of it.
LEMMA CloseIntact ==
  ASSUME TypeOK, OneSheetPerDriverDate, CapturedOrdersIntact,
         NEW s \in RunSheetIds, NEW reports \in closeout_submissions(s),
         CloseRunSheet(s, reports)
  PROVE  CapturedOrdersIntact'
<1>1. Reserving(s)
  BY DEF CloseRunSheet, Reserving
<1>2. /\ \A t \in RunSheetIds \ {s} : run_sheets'[t] = run_sheets[t]
      /\ ~Reserving(s)'
  <2>1. run_sheets[s] \in RunSheet
    BY <1>1, StoredSheet DEF Reserving, Stored
  <2>2. run_sheets'[s] = [run_sheets[s] EXCEPT !.execution_status = "CLOSED"]
    BY DEF CloseRunSheet, TypeOK
  <2>3. run_sheets'[s].status = "SAVED" /\ run_sheets'[s].execution_status = "CLOSED"
    BY <2>1, <2>2 DEF CloseRunSheet, RunSheet
  <2> QED
    BY <2>3 DEF CloseRunSheet, TypeOK, Reserving
<1>3. ASSUME NEW t \in RunSheetIds, Reserving(t)'
      PROVE  t # s /\ Reserving(t) /\ run_sheets'[t] = run_sheets[t]
  BY <1>2, <1>3 DEF Reserving
<1>4. ASSUME NEW t \in RunSheetIds, Reserving(t)', NEW r \in run_sheets[t].rows
      PROVE  r.task_id \in Orders /\ r.task_id \notin DOMAIN reports
  <2>1. run_sheets[t] \in RunSheet
    BY <1>3, <1>4, StoredSheet DEF Reserving, Stored
  <2>2. r.task_id \in Orders
    BY <2>1 DEF RunSheet, RunSheetRow
  <2>3. r.task_id \notin captured_orders(s)
    BY <1>1, <1>3, <1>4, RowsOfOneSheet DEF captured_orders
  <2> QED
    BY <2>2, <2>3, ReportType
<1>5. ASSUME NEW o \in Orders, o \notin DOMAIN reports
      PROVE  /\ manual_orders'[o] = manual_orders[o]
             /\ list_assignments_for_task(o)' = list_assignments_for_task(o)
  BY <1>5 DEF CloseRunSheet, list_assignments_for_task
<1> QED
  BY <1>3, <1>4, <1>5, KeepCaptured

\* A step that leaves orders and assignments alone and stores no new sheet.
LEMMA SheetStepIntact ==
  ASSUME CapturedOrdersIntact, UNCHANGED <<manual_orders, assignments>>,
         \A t \in RunSheetIds : Reserving(t)' =>
             /\ Reserving(t)
             /\ run_sheets'[t].rows = run_sheets[t].rows
             /\ run_sheets'[t].delivery_date = run_sheets[t].delivery_date
             /\ run_sheets'[t].driver_id = run_sheets[t].driver_id
  PROVE  CapturedOrdersIntact'
  BY KeepCaptured DEF list_assignments_for_task

LEMMA PromoteIntact ==
  ASSUME TypeOK, CapturedOrdersIntact, NEW s \in RunSheetIds,
         SaveRunSheet(s) \/ CancelRunSheet(s)
  PROVE  CapturedOrdersIntact'
<1>1. CASE SaveRunSheet(s)
  BY <1>1, SheetStepIntact DEF SaveRunSheet, TypeOK, Reserving
<1>2. CASE CancelRunSheet(s)
  BY <1>2, SheetStepIntact DEF CancelRunSheet, TypeOK, Reserving, NoRunSheet
<1> QED
  BY <1>1, <1>2

LEMMA OtherTablesIntact ==
  ASSUME CapturedOrdersIntact,
         UNCHANGED <<manual_orders, assignments, run_sheets>>
  PROVE  CapturedOrdersIntact'
  BY SheetStepIntact DEF Reserving

\* Together these are inductive.
ReservationInv ==
  /\ TypeOK
  /\ OneSheetPerDriverDate
  /\ OneAssignmentPerOrder
  /\ CapturedOrdersIntact

LEMMA AtomicIntact == ReservationInv /\ AtomicRequests => CapturedOrdersIntact'
<1> SUFFICES ASSUME ReservationInv, AtomicRequests PROVE CapturedOrdersIntact'
  OBVIOUS
<1>1. TypeOK /\ OneSheetPerDriverDate /\ OneAssignmentPerOrder /\ CapturedOrdersIntact
  BY DEF ReservationInv
<1>2. CASE UNCHANGED <<manual_orders, assignments, run_sheets>>
  BY <1>1, <1>2, OtherTablesIntact
<1> QED
  BY <1>1, <1>2, CreateOrderIntact, AssignOrderIntact, UnassignOrderIntact,
     GenerateIntact, PromoteIntact, CloseIntact
     DEF AtomicRequests, AssignVehicle, ClearVehicle

LEMMA StepwiseIntact == ReservationInv /\ StepwiseRequests => CapturedOrdersIntact'
<1> SUFFICES ASSUME TypeOK, CapturedOrdersIntact, StepwiseRequests
             PROVE  CapturedOrdersIntact'
  BY DEF ReservationInv
<1> QED
  BY EditOrderIntact, OtherTablesIntact
     DEF StepwiseRequests, DeleteDriver, DeleteVehicle

\* When requests run alone, every order a reserving sheet captured is still
\* ACTIVE, on the sheet's date and on the captured trip of its driver, so
\* closeout of a saved sheet never finds a row that changed.
THEOREM Intact == Spec => []CapturedOrdersIntact
<1>1. Init => CapturedOrdersIntact
  BY DEF Init, CapturedOrdersIntact, Reserving, NoRunSheet
<1>2. ReservationInv /\ [Next]_vars => CapturedOrdersIntact'
  BY AtomicIntact, StepwiseIntact, OtherTablesIntact
     DEF Next, vars, ReservationInv
<1> QED
  BY <1>1, <1>2, TypeCorrect, OneSheet, AssignedOnce, PTL
     DEF Spec, ReservationInv

\* README "reserve captured Orders": no order is captured by two sheets that
\* both still reserve it, or on two trips of one sheet.
THEOREM Once == Spec => []CapturedOnce
<1>1. ReservationInv => CapturedOnce
  <2> SUFFICES ASSUME ReservationInv, NEW o \in Orders,
                      NEW s \in get_delivery_run_sheet_reserving_order(o),
                      NEW t \in get_delivery_run_sheet_reserving_order(o)
               PROVE  /\ s = t
                      /\ \A p, q \in run_sheets[s].rows :
                             (p.task_id = o /\ q.task_id = o) => p = q
    BY DEF CapturedOnce
  <2>1. /\ s \in RunSheetIds /\ Reserving(s) /\ o \in captured_orders(s)
        /\ t \in RunSheetIds /\ Reserving(t) /\ o \in captured_orders(t)
    BY DEF get_delivery_run_sheet_reserving_order
  <2>2. s = t
    BY <2>1, RowsOfOneSheet DEF ReservationInv, captured_orders
  <2>3. ASSUME NEW p \in run_sheets[s].rows, NEW q \in run_sheets[s].rows,
               p.task_id = o, q.task_id = o
        PROVE  p = q
    <3>1. run_sheets[s] \in RunSheet
      BY <2>1, StoredSheet DEF ReservationInv, Reserving, Stored
    <3>2. p \in RunSheetRow /\ q \in RunSheetRow
      BY <3>1 DEF RunSheet
    <3>3. p.trip_no = q.trip_no
      BY <2>1, <2>3, RowsOfOneSheet DEF ReservationInv
    <3> QED
      BY <2>3, <3>2, <3>3 DEF RunSheetRow
  <2> QED
    BY <2>2, <2>3
<1> QED
  BY <1>1, TypeCorrect, OneSheet, AssignedOnce, Intact, PTL DEF ReservationInv

-----------------------------------------------------------------------------
(* Vehicles. *)

\* Selecting replaces the row of the driver and date by one row, for a
\* vehicle that no other driver has on the date.
LEMMA UpsertVehicleShape ==
  ASSUME TypeOK, NEW dd, NEW date \in Dates, NEW d \in Drivers, NEW v,
         upsert_vehicle_assignment(dd, date, d, v)
  PROVE  \E new :
            /\ new.delivery_date = date /\ new.driver_id = d /\ new.vehicle_id = v
            /\ vehicle_assignments' =
                  (vehicle_assignments \ vehicle_rows(date, d)) \cup {new}
<1> DEFINE fresh == [dispatch_date |-> dd, delivery_date |-> date,
                     driver_id |-> d, vehicle_id |-> v]
           moved(a) == [a EXCEPT !.vehicle_id = v]
<1>1. CASE vehicle_rows(date, d) = {}
  <2>1. vehicle_assignments' =
            (vehicle_assignments \ vehicle_rows(date, d)) \cup {fresh}
    BY <1>1 DEF upsert_vehicle_assignment
  <2>2. fresh.delivery_date = date /\ fresh.driver_id = d /\ fresh.vehicle_id = v
    OBVIOUS
  <2> HIDE DEF fresh
  <2> QED
    BY <2>1, <2>2
<1>2. CASE vehicle_rows(date, d) # {}
  <2>1. PICK a \in vehicle_rows(date, d) : vehicle_rows(date, d) = {a}
    BY <1>2 DEF upsert_vehicle_assignment, AtMostOne
  <2>2. a \in VehicleAssignment /\ a.delivery_date = date /\ a.driver_id = d
    BY <2>1 DEF vehicle_rows, TypeOK
  <2>3. /\ moved(a).delivery_date = date
        /\ moved(a).driver_id = d
        /\ moved(a).vehicle_id = v
    BY <2>2 DEF VehicleAssignment
  <2>4. vehicle_assignments' = (vehicle_assignments \ vehicle_rows(date, d))
                                  \cup {moved(b) : b \in vehicle_rows(date, d)}
    BY <1>2 DEF upsert_vehicle_assignment
  <2> HIDE DEF moved
  <2>5. vehicle_assignments' =
            (vehicle_assignments \ vehicle_rows(date, d)) \cup {moved(a)}
    BY <2>1, <2>4
  <2> QED
    BY <2>3, <2>5
<1> QED
  BY <1>1, <1>2

LEMMA AssignVehicleUnshared ==
  ASSUME TypeOK, OneVehiclePerDriverDate,
         NEW date \in Dates, NEW d \in Drivers, NEW v \in Vehicles,
         AssignVehicle(date, d, v)
  PROVE  OneVehiclePerDriverDate'
<1>1. PICK dd : upsert_vehicle_assignment(dd, date, d, v)
  BY DEF AssignVehicle
<1>2. PICK new :
         /\ new.delivery_date = date /\ new.driver_id = d /\ new.vehicle_id = v
         /\ vehicle_assignments' =
               (vehicle_assignments \ vehicle_rows(date, d)) \cup {new}
  BY <1>1, UpsertVehicleShape
<1>3. ASSUME NEW a \in vehicle_assignments \ vehicle_rows(date, d),
             a.delivery_date = date
      PROVE  a.driver_id # d /\ a.vehicle_id # v
  BY <1>1, <1>3 DEF upsert_vehicle_assignment, vehicle_rows
<1>4. ASSUME NEW day \in Dates,
             NEW a \in vehicle_assignments', NEW b \in vehicle_assignments',
             a.delivery_date = day, b.delivery_date = day,
             a.driver_id = b.driver_id \/ a.vehicle_id = b.vehicle_id
      PROVE  a = b
  <2>1. CASE a \in vehicle_assignments /\ b \in vehicle_assignments
    BY <1>4, <2>1 DEF OneVehiclePerDriverDate, vehicle_identity
  <2>2. CASE a = new \/ b = new
    BY <1>2, <1>3, <1>4, <2>2
  <2> QED
    BY <1>2, <2>1, <2>2
<1> QED
  BY <1>4 DEF OneVehiclePerDriverDate, vehicle_identity

LEMMA FewerVehiclesUnshared ==
  ASSUME OneVehiclePerDriverDate, vehicle_assignments' \subseteq vehicle_assignments
  PROVE  OneVehiclePerDriverDate'
  BY DEF OneVehiclePerDriverDate, vehicle_identity

\* Only two handlers write the table of selected vehicles.
LEMMA OtherKeepVehicles ==
  ASSUME [Next]_vars
  PROVE  \/ UNCHANGED vehicle_assignments
         \/ \E d \in Drivers, date \in Dates :
                \/ \E v \in Vehicles : AssignVehicle(date, d, v)
                \/ ClearVehicle(date, d)
  BY DEF Next, vars, AtomicRequests, StepwiseRequests, CreateOrder, AssignOrder,
         UnassignOrder, GenerateRunSheet, SaveRunSheet, CancelRunSheet,
         CloseRunSheet, UpdateOrder, CancelOrder, DeleteDriver, DeleteVehicle

\* On any date a driver has at most one vehicle and a vehicle at most one
\* driver, whatever Dispatch Dates the rows were created under: listing the
\* vehicles of a date, which generation begins with, never refuses.
THEOREM VehiclesUnshared == Spec => []OneVehiclePerDriverDate
<1>1. Init => OneVehiclePerDriverDate
  BY DEF Init, OneVehiclePerDriverDate, vehicle_identity
<1>2. TypeOK /\ OneVehiclePerDriverDate /\ [Next]_vars => OneVehiclePerDriverDate'
  <2> SUFFICES ASSUME TypeOK, OneVehiclePerDriverDate, [Next]_vars
               PROVE  OneVehiclePerDriverDate'
    OBVIOUS
  <2>1. CASE UNCHANGED vehicle_assignments
    BY <2>1, FewerVehiclesUnshared
  <2>2. ASSUME NEW d \in Drivers, NEW date \in Dates, ClearVehicle(date, d)
        PROVE  OneVehiclePerDriverDate'
    BY <2>2, FewerVehiclesUnshared DEF ClearVehicle
  <2> QED
    BY <2>1, <2>2, OtherKeepVehicles, AssignVehicleUnshared
<1> QED
  BY <1>1, <1>2, TypeCorrect, PTL DEF Spec

-----------------------------------------------------------------------------
(* The captured vehicle. *)

selected(date, d) == {v.vehicle_id : v \in vehicle_rows(date, d)}

\* Generation captures what is selected, NULL if nothing is.
LEMMA SnapshotIsSelected ==
  ASSUME TypeOK, OneVehiclePerDriverDate, NEW date \in Dates, NEW d \in Drivers
  PROVE  selected(date, d) = {vehicle_snapshot(date, d)} \ {None}
<1>1. CASE vehicle_rows(date, d) = {}
  BY <1>1 DEF selected, vehicle_snapshot
<1>2. CASE vehicle_rows(date, d) # {}
  <2> DEFINE v == CHOOSE v \in vehicle_rows(date, d) : TRUE
  <2>1. v \in vehicle_rows(date, d)
    BY <1>2
  <2>2. \A w \in vehicle_rows(date, d) : w = v
    BY <2>1 DEF vehicle_rows, OneVehiclePerDriverDate, vehicle_identity
  <2>3. vehicle_snapshot(date, d) = v.vehicle_id
    BY <1>2 DEF vehicle_snapshot
  <2>4. v.vehicle_id # None
    BY <2>1, NullAssumption DEF vehicle_rows, TypeOK, VehicleAssignment
  <2> HIDE DEF v
  <2> QED
    BY <2>1, <2>2, <2>3, <2>4 DEF selected
<1> QED
  BY <1>1, <1>2

\* The selection of a driver and date that has a sheet is not touched.
LEMMA VehicleStepElsewhere ==
  ASSUME TypeOK, NEW date \in Dates, NEW d \in Drivers,
         ClearVehicle(date, d) \/ \E v \in Vehicles : AssignVehicle(date, d, v),
         NEW s \in RunSheetIds, Stored(s)
  PROVE  vehicle_rows(run_sheets[s].delivery_date, run_sheets[s].driver_id)'
            = vehicle_rows(run_sheets[s].delivery_date, run_sheets[s].driver_id)
<1>1. run_sheets[s].delivery_date # date \/ run_sheets[s].driver_id # d
  BY DEF ClearVehicle, AssignVehicle, ensure_delivery_run_sheet_key_mutable,
         get_delivery_run_sheet_for_driver
<1>2. UNCHANGED run_sheets
  BY DEF ClearVehicle, AssignVehicle
<1>3. CASE ClearVehicle(date, d)
  BY <1>1, <1>2, <1>3 DEF ClearVehicle, vehicle_rows
<1>4. ASSUME NEW v \in Vehicles, AssignVehicle(date, d, v)
      PROVE  vehicle_rows(run_sheets[s].delivery_date, run_sheets[s].driver_id)'
                = vehicle_rows(run_sheets[s].delivery_date, run_sheets[s].driver_id)
  <2>1. PICK dd : upsert_vehicle_assignment(dd, date, d, v)
    BY <1>4 DEF AssignVehicle
  <2>2. PICK new :
           /\ new.delivery_date = date /\ new.driver_id = d
           /\ vehicle_assignments' =
                 (vehicle_assignments \ vehicle_rows(date, d)) \cup {new}
    BY <2>1, UpsertVehicleShape
  <2> QED
    BY <1>1, <1>2, <2>2 DEF vehicle_rows
<1> QED
  BY <1>3, <1>4

\* A sheet that is stored was stored, with the same key and vehicle, or has
\* just been generated.
LEMMA SheetsKeepVehicle ==
  ASSUME TypeOK, [Next]_vars, NEW s \in RunSheetIds, Stored(s)',
         \A date \in Dates, d \in Drivers : ~GenerateRunSheet(s, date, d)
  PROVE  /\ Stored(s)
         /\ run_sheets'[s].delivery_date = run_sheets[s].delivery_date
         /\ run_sheets'[s].driver_id = run_sheets[s].driver_id
         /\ run_sheets'[s].vehicle_id = run_sheets[s].vehicle_id
<1>1. CASE UNCHANGED run_sheets
  BY <1>1 DEF Stored
<1>2. ASSUME NEW t \in RunSheetIds, NEW date \in Dates, NEW d \in Drivers,
             GenerateRunSheet(t, date, d)
      PROVE  run_sheets'[s] = run_sheets[s]
  BY <1>2 DEF GenerateRunSheet, upsert_delivery_run_sheet, TypeOK
<1>3. ASSUME NEW t \in RunSheetIds, SaveRunSheet(t)
      PROVE  /\ Stored(s)' => Stored(s)
             /\ run_sheets'[s].delivery_date = run_sheets[s].delivery_date
             /\ run_sheets'[s].driver_id = run_sheets[s].driver_id
             /\ run_sheets'[s].vehicle_id = run_sheets[s].vehicle_id
  BY <1>3 DEF SaveRunSheet, TypeOK, Stored
<1>4. ASSUME NEW t \in RunSheetIds, CancelRunSheet(t)
      PROVE  run_sheets'[s] = run_sheets[s]
  BY <1>4 DEF CancelRunSheet, TypeOK, Stored, NoRunSheet
<1>5. ASSUME NEW t \in RunSheetIds, NEW reports \in closeout_submissions(t),
             CloseRunSheet(t, reports)
      PROVE  /\ Stored(s)' => Stored(s)
             /\ run_sheets'[s].delivery_date = run_sheets[s].delivery_date
             /\ run_sheets'[s].driver_id = run_sheets[s].driver_id
             /\ run_sheets'[s].vehicle_id = run_sheets[s].vehicle_id
  BY <1>5 DEF CloseRunSheet, TypeOK, Stored
<1>6. ASSUME run_sheets'[s] = run_sheets[s] PROVE Stored(s)' => Stored(s)
  BY <1>6 DEF Stored
<1>7. CASE StepwiseRequests
  BY <1>1, <1>7, StepwiseKeepsSheets
<1>8. CASE AtomicRequests
  BY <1>1, <1>2, <1>3, <1>4, <1>5, <1>6, <1>8
     DEF AtomicRequests, CreateOrder, AssignOrder, UnassignOrder,
         AssignVehicle, ClearVehicle
<1> QED
  BY <1>1, <1>7, <1>8 DEF Next, vars

LEMMA StepKeepsTarget ==
  ASSUME TypeOK, OneVehiclePerDriverDate, VehicleTargetFrozen, [Next]_vars,
         NEW s \in RunSheetIds, Stored(s)'
  PROVE  selected(run_sheets[s].delivery_date, run_sheets[s].driver_id)'
            = {run_sheets'[s].vehicle_id} \ {None}
<1>1. ASSUME NEW date \in Dates, NEW d \in Drivers, GenerateRunSheet(s, date, d)
      PROVE  selected(run_sheets[s].delivery_date, run_sheets[s].driver_id)'
                = {run_sheets'[s].vehicle_id} \ {None}
  <2>1. /\ run_sheets'[s].delivery_date = date /\ run_sheets'[s].driver_id = d
        /\ run_sheets'[s].vehicle_id = vehicle_snapshot(date, d)
        /\ UNCHANGED vehicle_assignments
    BY <1>1 DEF GenerateRunSheet, upsert_delivery_run_sheet, TypeOK
  <2>2. selected(run_sheets[s].delivery_date, run_sheets[s].driver_id)'
            = selected(date, d)
    BY <2>1 DEF selected, vehicle_rows
  <2> QED
    BY <2>1, <2>2, SnapshotIsSelected
<1>2. ASSUME \A date \in Dates, d \in Drivers : ~GenerateRunSheet(s, date, d)
      PROVE  selected(run_sheets[s].delivery_date, run_sheets[s].driver_id)'
                = {run_sheets'[s].vehicle_id} \ {None}
  <2>1. /\ Stored(s)
        /\ run_sheets'[s].delivery_date = run_sheets[s].delivery_date
        /\ run_sheets'[s].driver_id = run_sheets[s].driver_id
        /\ run_sheets'[s].vehicle_id = run_sheets[s].vehicle_id
    BY <1>2, SheetsKeepVehicle
  <2>2. vehicle_rows(run_sheets[s].delivery_date, run_sheets[s].driver_id)'
            = vehicle_rows(run_sheets[s].delivery_date, run_sheets[s].driver_id)
    <3>1. CASE UNCHANGED vehicle_assignments
      BY <2>1, <3>1 DEF vehicle_rows
    <3> QED
      BY <2>1, <3>1, OtherKeepVehicles, VehicleStepElsewhere
  <2>3. selected(run_sheets[s].delivery_date, run_sheets[s].driver_id)
            = {run_sheets[s].vehicle_id} \ {None}
    BY <2>1 DEF VehicleTargetFrozen, selected
  <2> QED
    BY <2>1, <2>2, <2>3 DEF selected
<1> QED
  BY <1>1, <1>2

\* README "reserves ... vehicle target": as long as a driver and date have a
\* sheet, open or closed, the vehicle selected for them is the captured one.
THEOREM VehicleFrozen == Spec => []VehicleTargetFrozen
<1>1. Init => VehicleTargetFrozen
  BY DEF Init, VehicleTargetFrozen, Stored, NoRunSheet
<1>2. TypeOK /\ OneVehiclePerDriverDate /\ VehicleTargetFrozen /\ [Next]_vars
         => VehicleTargetFrozen'
  BY StepKeepsTarget DEF VehicleTargetFrozen, selected
<1> QED
  BY <1>1, <1>2, TypeCorrect, VehiclesUnshared, PTL DEF Spec

-----------------------------------------------------------------------------
(* What becomes of orders. *)

\* Only a saved sheet is closed.
OnlySavedAreClosed ==
  \A s \in RunSheetIds :
      run_sheets[s].status # "SAVED" => run_sheets[s].execution_status = "OPEN"

LEMMA OtherKeepSheets ==
  ASSUME [Next]_vars
  PROVE  \/ UNCHANGED <<run_sheets, outcomes>>
         \/ \E s \in RunSheetIds :
                \/ \E date \in Dates, d \in Drivers : GenerateRunSheet(s, date, d)
                \/ SaveRunSheet(s)
                \/ CancelRunSheet(s)
                \/ \E reports \in closeout_submissions(s) : CloseRunSheet(s, reports)
  BY DEF Next, vars, AtomicRequests, StepwiseRequests, CreateOrder, AssignOrder,
         UnassignOrder, AssignVehicle, ClearVehicle, UpdateOrder, CancelOrder,
         DeleteDriver, DeleteVehicle

\* What the handlers of a sheet do to it; they leave the other sheets alone.
LEMMA GeneratedSheet ==
  ASSUME TypeOK, NEW s \in RunSheetIds, NEW date, NEW d,
         GenerateRunSheet(s, date, d)
  PROVE  /\ run_sheets[s] = NoRunSheet
         /\ run_sheets'[s].status = "GENERATED"
         /\ run_sheets'[s].execution_status = "OPEN"
         /\ run_sheets'[s].delivery_date = date
         /\ run_sheets'[s].driver_id = d
         /\ run_sheets'[s].rows = build_trips(date, d)
         /\ \A t \in RunSheetIds \ {s} : run_sheets'[t] = run_sheets[t]
<1>1. ~Stored(s)
  BY DEF GenerateRunSheet, upsert_delivery_run_sheet
<1>2. run_sheets[s] = NoRunSheet
  BY <1>1 DEF TypeOK, Stored, RunSheet
<1> QED
  BY <1>2 DEF GenerateRunSheet, upsert_delivery_run_sheet, TypeOK

LEMMA SavedSheet ==
  ASSUME TypeOK, NEW s \in RunSheetIds, SaveRunSheet(s)
  PROVE  /\ run_sheets[s].status = "GENERATED"
         /\ run_sheets'[s].status = "SAVED"
         /\ run_sheets'[s].execution_status = run_sheets[s].execution_status
         /\ run_sheets'[s].delivery_date = run_sheets[s].delivery_date
         /\ run_sheets'[s].driver_id = run_sheets[s].driver_id
         /\ run_sheets'[s].rows = run_sheets[s].rows
         /\ \A t \in RunSheetIds \ {s} : run_sheets'[t] = run_sheets[t]
<1>1. run_sheets[s] \in RunSheet
  BY StoredSheet DEF SaveRunSheet, Stored
<1> QED
  BY <1>1 DEF SaveRunSheet, TypeOK, RunSheet

LEMMA CancelledSheet ==
  ASSUME TypeOK, NEW s \in RunSheetIds, CancelRunSheet(s)
  PROVE  /\ run_sheets[s].status = "GENERATED"
         /\ run_sheets'[s] = NoRunSheet
         /\ \A t \in RunSheetIds \ {s} : run_sheets'[t] = run_sheets[t]
  BY DEF CancelRunSheet, TypeOK

LEMMA ClosedSheet ==
  ASSUME TypeOK, NEW s \in RunSheetIds, NEW reports, CloseRunSheet(s, reports)
  PROVE  /\ run_sheets[s].status = "SAVED"
         /\ run_sheets[s].execution_status = "OPEN"
         /\ run_sheets'[s].status = "SAVED"
         /\ run_sheets'[s].execution_status = "CLOSED"
         /\ run_sheets'[s].delivery_date = run_sheets[s].delivery_date
         /\ run_sheets'[s].driver_id = run_sheets[s].driver_id
         /\ run_sheets'[s].rows = run_sheets[s].rows
         /\ \A t \in RunSheetIds \ {s} : run_sheets'[t] = run_sheets[t]
<1>1. run_sheets[s] \in RunSheet
  BY StoredSheet DEF CloseRunSheet, Stored
<1> QED
  BY <1>1 DEF CloseRunSheet, TypeOK, RunSheet

LEMMA StepOnlySavedAreClosed ==
  TypeOK /\ OnlySavedAreClosed /\ [Next]_vars => OnlySavedAreClosed'
<1> SUFFICES ASSUME TypeOK, OnlySavedAreClosed, [Next]_vars,
                    NEW t \in RunSheetIds, run_sheets'[t].status # "SAVED"
             PROVE  run_sheets'[t].execution_status = "OPEN"
  BY DEF OnlySavedAreClosed
<1>1. CASE run_sheets'[t] = run_sheets[t]
  BY <1>1 DEF OnlySavedAreClosed
<1>2. ASSUME NEW s \in RunSheetIds, NEW date \in Dates, NEW d \in Drivers,
             GenerateRunSheet(s, date, d)
      PROVE  run_sheets'[t].execution_status = "OPEN"
  BY <1>1, <1>2, GeneratedSheet
<1>3. ASSUME NEW s \in RunSheetIds, SaveRunSheet(s)
      PROVE  run_sheets'[t].execution_status = "OPEN"
  BY <1>1, <1>3, SavedSheet
<1>4. ASSUME NEW s \in RunSheetIds, CancelRunSheet(s)
      PROVE  run_sheets'[t].execution_status = "OPEN"
  BY <1>1, <1>4, CancelledSheet DEF NoRunSheet
<1>5. ASSUME NEW s \in RunSheetIds, NEW reports \in closeout_submissions(s),
             CloseRunSheet(s, reports)
      PROVE  run_sheets'[t].execution_status = "OPEN"
  BY <1>1, <1>5, ClosedSheet
<1> QED
  BY <1>1, <1>2, <1>3, <1>4, <1>5, OtherKeepSheets

-----------------------------------------------------------------------------
(* Outcomes. *)

outcomes_of(s) == {u \in outcomes : u.run_sheet_id = s}

\* Closing records one outcome for each captured row.
LEMMA CloseRecords ==
  ASSUME TypeOK, NEW s \in RunSheetIds, NEW reports \in closeout_submissions(s),
         CloseRunSheet(s, reports), outcomes_of(s) = {}
  PROVE  /\ \A u, w \in outcomes_of(s)' : u.order_id = w.order_id => u = w
         /\ {u.order_id : u \in outcomes_of(s)'} = captured_orders(s)
<1> DEFINE recorded(o) == [run_sheet_id |-> s, order_id |-> o,
                           outcome |-> reports[o].outcome,
                           next_delivery_date |-> reports[o].next_delivery_date]
<1>1. DOMAIN reports = captured_orders(s)
  BY DEF closeout_submissions
<1>2. outcomes' = outcomes \cup {recorded(o) : o \in captured_orders(s)}
  BY <1>1 DEF CloseRunSheet
<1>3. \A o : recorded(o).run_sheet_id = s /\ recorded(o).order_id = o
  OBVIOUS
<1> HIDE DEF recorded
<1>4. outcomes_of(s)' = {recorded(o) : o \in captured_orders(s)}
  BY <1>2, <1>3 DEF outcomes_of
<1> QED
  BY <1>3, <1>4

LEMMA StepOutcomesCoverRows ==
  TypeOK /\ OnlySavedAreClosed /\ OutcomesCoverRows /\ [Next]_vars
      => OutcomesCoverRows'
<1> SUFFICES ASSUME TypeOK, OnlySavedAreClosed, OutcomesCoverRows, [Next]_vars,
                    NEW t \in RunSheetIds
             PROVE  /\ \A u, w \in outcomes_of(t)' : u.order_id = w.order_id => u = w
                    /\ {u.order_id : u \in outcomes_of(t)'} =
                          IF run_sheets'[t].execution_status = "CLOSED"
                            THEN captured_orders(t)' ELSE {}
  BY DEF OutcomesCoverRows, outcomes_of
<1> DEFINE covered == 
             /\ \A u, w \in outcomes_of(t)' : u.order_id = w.order_id => u = w
             /\ {u.order_id : u \in outcomes_of(t)'} =
                   IF run_sheets'[t].execution_status = "CLOSED"
                     THEN captured_orders(t)' ELSE {}
<1>1. /\ \A u, w \in outcomes_of(t) : u.order_id = w.order_id => u = w
      /\ {u.order_id : u \in outcomes_of(t)} =
            IF run_sheets[t].execution_status = "CLOSED"
              THEN captured_orders(t) ELSE {}
  BY DEF OutcomesCoverRows, outcomes_of
<1>2. ASSUME outcomes_of(t)' = outcomes_of(t),
             run_sheets'[t].execution_status = run_sheets[t].execution_status,
             \/ run_sheets[t].execution_status = "OPEN"
             \/ run_sheets'[t].rows = run_sheets[t].rows
      PROVE  covered
  BY <1>1, <1>2 DEF captured_orders
<1>3. ASSUME NEW s \in RunSheetIds, NEW date \in Dates, NEW d \in Drivers,
             GenerateRunSheet(s, date, d)
      PROVE  covered
  <2>1. outcomes_of(t)' = outcomes_of(t)
    BY <1>3 DEF GenerateRunSheet, outcomes_of
  <2> QED
    BY <1>2, <1>3, <2>1, GeneratedSheet DEF NoRunSheet
<1>4. ASSUME NEW s \in RunSheetIds, SaveRunSheet(s)
      PROVE  covered
  <2>1. outcomes_of(t)' = outcomes_of(t)
    BY <1>4 DEF SaveRunSheet, outcomes_of
  <2> QED
    BY <1>2, <1>4, <2>1, SavedSheet
<1>5. ASSUME NEW s \in RunSheetIds, CancelRunSheet(s)
      PROVE  covered
  <2>1. outcomes_of(t)' = outcomes_of(t)
    BY <1>5 DEF CancelRunSheet, outcomes_of
  <2>2. run_sheets[s].execution_status = "OPEN"
    BY <1>5, CancelledSheet DEF OnlySavedAreClosed
  <2> QED
    BY <1>2, <1>5, <2>1, <2>2, CancelledSheet DEF NoRunSheet
<1>6. ASSUME NEW s \in RunSheetIds, NEW reports \in closeout_submissions(s),
             CloseRunSheet(s, reports)
      PROVE  covered
  <2>1. CASE t = s
    <3>1. run_sheets[t].execution_status = "OPEN"
      BY <1>6, <2>1, ClosedSheet
    <3>2. outcomes_of(t) = {}
      BY <1>1, <3>1
    <3>3. captured_orders(t)' = captured_orders(t)
      BY <1>6, <2>1, ClosedSheet DEF captured_orders
    <3>4. run_sheets'[t].execution_status = "CLOSED"
      BY <1>6, <2>1, ClosedSheet
    <3> QED
      BY <1>6, <2>1, <3>2, <3>3, <3>4, CloseRecords
  <2>2. CASE t # s
    <3>1. outcomes_of(t)' = outcomes_of(t)
      BY <1>6, <2>2 DEF CloseRunSheet, outcomes_of
    <3> QED
      BY <1>2, <1>6, <2>2, <3>1, ClosedSheet
  <2> QED
    BY <2>1, <2>2
<1>7. CASE UNCHANGED <<run_sheets, outcomes>>
  BY <1>1, <1>7 DEF outcomes_of, captured_orders
<1> QED
  BY <1>3, <1>4, <1>5, <1>6, <1>7, OtherKeepSheets

LEMMA OnlySaved == Spec => []OnlySavedAreClosed
<1>1. Init => OnlySavedAreClosed
  BY DEF Init, OnlySavedAreClosed, NoRunSheet
<1> QED
  BY <1>1, StepOnlySavedAreClosed, TypeCorrect, PTL DEF Spec

\* A sheet is closed together with all of its rows: as long as it is open it
\* has no outcome, and once it is closed every captured order has one.
THEOREM OutcomesComplete == Spec => []OutcomesCoverRows
<1>1. Init => OutcomesCoverRows
  BY DEF Init, OutcomesCoverRows, NoRunSheet
<1> QED
  BY <1>1, StepOutcomesCoverRows, OnlySaved, TypeCorrect, PTL DEF Spec

-----------------------------------------------------------------------------
(* Orders that are assigned, finalized or delivered. *)

\* Assigned orders are ACTIVE, and an order is FINALIZED only by a delivery.
StatusInv ==
  /\ \A a \in assignments : manual_orders[a.task_id].status = "ACTIVE"
  /\ \A o \in Orders : manual_orders[o].status = "FINALIZED" => Delivered(o)
  /\ \A o \in Orders : Delivered(o) =>
         manual_orders[o].status \in {"FINALIZED", "CANCELLED"}

\* Handlers that change neither an order nor an outcome, and assign none but
\* ACTIVE orders.
LEMMA SameOrdersStatus ==
  ASSUME StatusInv, UNCHANGED <<manual_orders, outcomes>>,
         \A a \in assignments' \ assignments : manual_orders[a.task_id].status = "ACTIVE"
  PROVE  StatusInv'
  BY DEF StatusInv, Delivered

\* Handlers that change one order that is not assigned.
LEMMA OneOrderStatus ==
  ASSUME TypeOK, StatusInv, UNCHANGED <<assignments, outcomes>>, NEW o \in Orders,
         \A p \in Orders \ {o} : manual_orders'[p] = manual_orders[p],
         \/ manual_orders'[o].status = manual_orders[o].status
         \/ /\ ~has_assignment_for_task(o)
            /\ \/ manual_orders'[o].status = "CANCELLED"
               \/ manual_orders[o].status = "ABSENT" /\ manual_orders'[o].status = "ACTIVE"
  PROVE  StatusInv'
<1>1. \A p \in Orders : Delivered(p)' = Delivered(p)
  BY DEF Delivered
<1>2. ASSUME NEW a \in assignments'
      PROVE  manual_orders'[a.task_id].status = "ACTIVE"
  <2>1. a.task_id \in Orders /\ manual_orders[a.task_id].status = "ACTIVE"
    BY <1>2 DEF TypeOK, Assignment, StatusInv
  <2>2. CASE a.task_id = o
    BY <1>2, <2>1, <2>2 DEF has_assignment_for_task
  <2> QED
    BY <2>1, <2>2
<1>3. ASSUME NEW p \in Orders, manual_orders'[p].status = "FINALIZED"
      PROVE  Delivered(p)'
  BY <1>1, <1>3 DEF StatusInv
<1>4. ASSUME NEW p \in Orders, Delivered(p)'
      PROVE  manual_orders'[p].status \in {"FINALIZED", "CANCELLED"}
  BY <1>1, <1>4 DEF StatusInv
<1> QED
  BY <1>2, <1>3, <1>4 DEF StatusInv

LEMMA AssignedIsActive ==
  ASSUME TypeOK, NEW o \in Orders, NEW d \in Drivers, NEW trip \in Trips,
         AssignOrder(o, d, trip)
  PROVE  /\ \A a \in assignments' \ assignments : manual_orders[a.task_id].status = "ACTIVE"
         /\ UNCHANGED <<manual_orders, outcomes, run_sheets>>
<1>1. PICK new : /\ \A a \in new : a.task_id = o
                 /\ assignments' =
                       (assignments \ list_assignments_for_task(o)) \cup new
  BY UpsertShape DEF AssignOrder
<1> QED
  BY <1>1 DEF AssignOrder, active_order

\* A closed sheet's orders are those reported, each ACTIVE until then.
LEMMA ReportedOrders ==
  ASSUME TypeOK, NEW s \in RunSheetIds, NEW reports \in closeout_submissions(s),
         CloseRunSheet(s, reports)
  PROVE  /\ DOMAIN reports = captured_orders(s)
         /\ captured_orders(s) \subseteq Orders
         /\ \A o \in captured_orders(s) : manual_orders[o].status = "ACTIVE"
         /\ \A o \in Orders \ captured_orders(s) : manual_orders'[o] = manual_orders[o]
         /\ \A o \in captured_orders(s) :
                \/ /\ reports[o].outcome = "DELIVERED"
                   /\ manual_orders'[o].status = "FINALIZED"
                   /\ Delivered(o)'
                \/ /\ reports[o].outcome = "RETURN_TO_POOL"
                   /\ manual_orders'[o].status = "ACTIVE"
                   /\ Delivered(o)' = Delivered(o)
         /\ \A o \in Orders \ captured_orders(s) : Delivered(o)' = Delivered(o)
         /\ assignments' = {a \in assignments : a.task_id \notin captured_orders(s)}
<1>1. DOMAIN reports = captured_orders(s)
  BY DEF closeout_submissions
<1>2. captured_orders(s) \subseteq Orders
  <2>1. run_sheets[s] \in RunSheet
    BY StoredSheet DEF CloseRunSheet, Stored
  <2> QED
    BY <2>1 DEF captured_orders, RunSheet, RunSheetRow
<1>3. \A o \in captured_orders(s) : manual_orders[o].status = "ACTIVE"
  BY DEF CloseRunSheet, row_unchanged, captured_orders
<1>4. \A o \in Orders \ captured_orders(s) : manual_orders'[o] = manual_orders[o]
  BY <1>1 DEF CloseRunSheet
<1>5. assignments' = {a \in assignments : a.task_id \notin captured_orders(s)}
  BY <1>1 DEF CloseRunSheet
<1> DEFINE recorded(o) == [run_sheet_id |-> s, order_id |-> o,
                           outcome |-> reports[o].outcome,
                           next_delivery_date |-> reports[o].next_delivery_date]
<1>6. outcomes' = outcomes \cup {recorded(o) : o \in captured_orders(s)}
  BY <1>1 DEF CloseRunSheet
<1>7. \A o : recorded(o).order_id = o /\ recorded(o).outcome = reports[o].outcome
  OBVIOUS
<1> HIDE DEF recorded
<1>8. ASSUME NEW o
      PROVE  Delivered(o)' <=>
                \/ Delivered(o)
                \/ o \in captured_orders(s) /\ reports[o].outcome = "DELIVERED"
  BY <1>6, <1>7 DEF Delivered
<1>9. ASSUME NEW o \in captured_orders(s)
      PROVE  \/ /\ reports[o].outcome = "DELIVERED"
                /\ manual_orders'[o].status = "FINALIZED"
                /\ Delivered(o)'
             \/ /\ reports[o].outcome = "RETURN_TO_POOL"
                /\ manual_orders'[o].status = "ACTIVE"
                /\ Delivered(o)' = Delivered(o)
  <2>1. o \in Orders /\ o \in DOMAIN reports
    BY <1>1, <1>2, <1>9
  <2>2. manual_orders'[o] = closed_order(manual_orders[o], reports[o])
    BY <2>1 DEF CloseRunSheet
  <2>3. manual_orders[o] \in Order /\ manual_orders[o].status = "ACTIVE"
    BY <1>3, <1>9, <2>1, StoredOrder
  <2>4. reports[o].outcome \in {"DELIVERED", "RETURN_TO_POOL"}
    BY <2>1, ReportType
  <2>5. CASE reports[o].outcome = "DELIVERED"
    <3>1. manual_orders'[o].status = "FINALIZED"
      BY <2>2, <2>3, <2>5 DEF closed_order, Order
    <3> QED
      BY <1>8, <1>9, <2>5, <3>1
  <2>6. CASE reports[o].outcome = "RETURN_TO_POOL"
    <3>1. manual_orders'[o].status = "ACTIVE"
      BY <2>2, <2>3, <2>6 DEF closed_order, Order
    <3>2. Delivered(o)' <=> Delivered(o)
      BY <1>8, <2>6
    <3> QED
      BY <2>6, <3>1, <3>2 DEF Delivered
  <2> QED
    BY <2>4, <2>5, <2>6
<1>10. ASSUME NEW o \in Orders \ captured_orders(s)
       PROVE  Delivered(o)' = Delivered(o)
  BY <1>8, <1>10 DEF Delivered
<1> QED
  BY <1>1, <1>2, <1>3, <1>4, <1>5, <1>9, <1>10

LEMMA CloseStatus ==
  ASSUME TypeOK, StatusInv, NEW s \in RunSheetIds,
         NEW reports \in closeout_submissions(s), CloseRunSheet(s, reports)
  PROVE  StatusInv'
<1>1. ASSUME NEW a \in assignments'
      PROVE  manual_orders'[a.task_id].status = "ACTIVE"
  <2>1. /\ a.task_id \in Orders \ captured_orders(s)
        /\ manual_orders[a.task_id].status = "ACTIVE"
    BY <1>1, ReportedOrders DEF TypeOK, Assignment, StatusInv
  <2> QED
    BY <2>1, ReportedOrders
<1>2. ASSUME NEW o \in Orders
      PROVE  /\ manual_orders'[o].status = "FINALIZED" => Delivered(o)'
             /\ Delivered(o)' => manual_orders'[o].status \in {"FINALIZED", "CANCELLED"}
  <2>1. CASE o \in captured_orders(s)
    <3>1. ~Delivered(o)
      BY <2>1, ReportedOrders DEF StatusInv
    <3> QED
      BY <2>1, <3>1, ReportedOrders
  <2>2. CASE o \notin captured_orders(s)
    BY <2>2, ReportedOrders DEF StatusInv
  <2> QED
    BY <2>1, <2>2
<1> QED
  BY <1>1, <1>2 DEF StatusInv

LEMMA StepStatus == TypeOK /\ StatusInv /\ [Next]_vars => StatusInv'
<1> SUFFICES ASSUME TypeOK, StatusInv, [Next]_vars PROVE StatusInv'
  OBVIOUS
<1>1. CASE UNCHANGED <<manual_orders, outcomes, assignments>>
  BY <1>1, SameOrdersStatus
<1>2. ASSUME NEW o \in Orders, NEW date \in Dates, CreateOrder(o, date)
      PROVE  StatusInv'
  <2>1. ~has_assignment_for_task(o)
    BY <1>2 DEF CreateOrder, StatusInv, has_assignment_for_task
  <2>2. manual_orders'[o].status = "ACTIVE"
    BY <1>2 DEF CreateOrder, TypeOK
  <2> QED
    BY <1>2, <2>1, <2>2, OneOrderStatus DEF CreateOrder, TypeOK
<1>3. ASSUME NEW o \in Orders, NEW date \in Dates, UpdateOrder(o, date)
      PROVE  StatusInv'
  <2>1. manual_orders[o] \in Order
    BY <1>3, StoredOrder DEF UpdateOrder
  <2>2. manual_orders'[o].status = manual_orders[o].status
    BY <1>3, <2>1 DEF UpdateOrder, TypeOK, Order
  <2> QED
    BY <1>3, <2>2, OneOrderStatus DEF UpdateOrder, TypeOK
<1>4. ASSUME NEW o \in Orders, CancelOrder(o)
      PROVE  StatusInv'
  <2>1. manual_orders[o] \in Order
    BY <1>4, StoredOrder DEF CancelOrder
  <2>2. manual_orders'[o].status = "CANCELLED" /\ ~has_assignment_for_task(o)
    BY <1>4, <2>1 DEF CancelOrder, TypeOK, Order
  <2> QED
    BY <1>4, <2>2, OneOrderStatus DEF CancelOrder, TypeOK
<1>5. ASSUME NEW o \in Orders, NEW d \in Drivers, NEW trip \in Trips,
             AssignOrder(o, d, trip)
      PROVE  StatusInv'
  BY <1>5, AssignedIsActive, SameOrdersStatus
<1>6. ASSUME NEW o \in Orders, UnassignOrder(o)
      PROVE  StatusInv'
  BY <1>6, SameOrdersStatus DEF UnassignOrder, remove_assignments_for_task
<1>7. CASE StepwiseRequests
  BY <1>1, <1>3, <1>4, <1>7 DEF StepwiseRequests, DeleteDriver, DeleteVehicle
<1>8. CASE AtomicRequests
  BY <1>1, <1>2, <1>5, <1>6, <1>8, CloseStatus
     DEF AtomicRequests, AssignVehicle, ClearVehicle, GenerateRunSheet,
         SaveRunSheet, CancelRunSheet
<1> QED
  BY <1>1, <1>7, <1>8 DEF Next, vars

LEMMA Status == Spec => []StatusInv
<1>1. Init => StatusInv
  BY DEF Init, StatusInv, Delivered, NoOrder
<1> QED
  BY <1>1, StepStatus, TypeCorrect, PTL DEF Spec

\* Closing delivers no order that was delivered before, and each at most once.
LEMMA CloseDeliversOnce ==
  ASSUME TypeOK, DeliveredStaysOut, NEW s \in RunSheetIds,
         NEW reports \in closeout_submissions(s), CloseRunSheet(s, reports),
         NEW u \in outcomes', NEW w \in outcomes',
         u.outcome = "DELIVERED", w.outcome = "DELIVERED", w.order_id = u.order_id
  PROVE  w = u
<1> DEFINE recorded(o) == [run_sheet_id |-> s, order_id |-> o,
                           outcome |-> reports[o].outcome,
                           next_delivery_date |-> reports[o].next_delivery_date]
<1>1. outcomes' = outcomes \cup {recorded(o) : o \in captured_orders(s)}
  BY ReportedOrders DEF CloseRunSheet
<1>2. \A o : recorded(o).order_id = o
  OBVIOUS
<1> HIDE DEF recorded
<1>3. \A o \in captured_orders(s) : ~Delivered(o)
  BY ReportedOrders DEF DeliveredStaysOut, Delivered, active_order
<1>4. CASE u \in outcomes /\ w \in outcomes
  BY <1>4 DEF DeliveredStaysOut
<1>5. ASSUME NEW o \in captured_orders(s), u = recorded(o) \/ w = recorded(o)
      PROVE  u = recorded(o) /\ w = recorded(o)
  <2>1. u.order_id = o
    BY <1>2, <1>5
  <2>2. u \notin outcomes /\ w \notin outcomes
    BY <1>3, <2>1 DEF Delivered
  <2> QED
    BY <1>1, <1>2, <2>1, <2>2
<1> QED
  BY <1>1, <1>4, <1>5

\* When requests run alone a delivered order is never ACTIVE again, so it is
\* in no Task Pool and on no later sheet, and one sheet delivered it.
THEOREM DeliveredForGood == Spec => []DeliveredStaysOut
<1>1. Init => DeliveredStaysOut
  BY DEF Init, DeliveredStaysOut
<1>2. TypeOK /\ TypeOK' /\ StatusInv /\ StatusInv' /\ DeliveredStaysOut /\ [Next]_vars
         => DeliveredStaysOut'
  <2> SUFFICES ASSUME TypeOK, StatusInv, StatusInv', TypeOK', DeliveredStaysOut, [Next]_vars,
                      NEW u \in outcomes', u.outcome = "DELIVERED"
               PROVE  /\ ~active_order(u.order_id)'
                      /\ \A w \in outcomes' :
                             (w.order_id = u.order_id /\ w.outcome = "DELIVERED") => w = u
    BY DEF DeliveredStaysOut
  <2>1. ~active_order(u.order_id)'
    BY DEF StatusInv, Delivered, TypeOK, Outcome, active_order
  <2>2. CASE UNCHANGED outcomes
    BY <2>1, <2>2 DEF DeliveredStaysOut
  <2>3. ASSUME NEW s \in RunSheetIds, NEW reports \in closeout_submissions(s),
               CloseRunSheet(s, reports)
        PROVE  \A w \in outcomes' :
                   (w.order_id = u.order_id /\ w.outcome = "DELIVERED") => w = u
    BY <2>3, CloseDeliversOnce
  <2> QED
    BY <2>1, <2>2, <2>3, OtherKeepSheets
       DEF GenerateRunSheet, SaveRunSheet, CancelRunSheet
<1> QED
  BY <1>1, <1>2, TypeCorrect, Status, PTL DEF Spec

-----------------------------------------------------------------------------
(* The lock of a saved and open sheet. *)

\* The orders of a driver and date, by their rows.
OrdersForByRows ==
  \A date, d, o :
      o \in orders_for(date, d) <=>
          /\ manual_orders[o].status = "ACTIVE"
          /\ manual_orders[o].delivery_date = date
          /\ \E a \in list_assignments_for_task(o) : a.driver_id = d

LEMMA OrdersFor == OrdersForByRows
<1> SUFFICES ASSUME NEW date, NEW d, NEW o
             PROVE  o \in orders_for(date, d) <=>
                        /\ manual_orders[o].status = "ACTIVE"
                        /\ manual_orders[o].delivery_date = date
                        /\ \E a \in list_assignments_for_task(o) : a.driver_id = d
  BY DEF OrdersForByRows
<1>1. ASSUME o \in orders_for(date, d)
      PROVE  /\ manual_orders[o].status = "ACTIVE"
             /\ manual_orders[o].delivery_date = date
             /\ \E a \in list_assignments_for_task(o) : a.driver_id = d
  <2>1. PICK r \in build_trips(date, d) : o = r.task_id
    BY <1>1 DEF orders_for
  <2>2. PICK a \in list_delivery_order_assignments_for_delivery_date(date) :
            a.driver_id = d /\ r = [task_id |-> a.task_id, trip_no |-> a.trip_no]
    BY <2>1 DEF build_trips
  <2>3. a.task_id = o
    BY <2>1, <2>2
  <2> QED
    BY <2>2, <2>3 DEF list_delivery_order_assignments_for_delivery_date,
                      list_assignments_for_task
<1>2. ASSUME manual_orders[o].status = "ACTIVE", manual_orders[o].delivery_date = date,
             NEW a \in list_assignments_for_task(o), a.driver_id = d
      PROVE  o \in orders_for(date, d)
  <2>1. a \in list_delivery_order_assignments_for_delivery_date(date) /\ a.task_id = o
    BY <1>2 DEF list_delivery_order_assignments_for_delivery_date,
                list_assignments_for_task
  <2>2. [task_id |-> a.task_id, trip_no |-> a.trip_no] \in build_trips(date, d)
    BY <1>2, <2>1 DEF build_trips
  <2> QED
    BY <2>1, <2>2 DEF orders_for
<1> QED
  BY <1>1, <1>2

LEMMA OrdersForNext == OrdersForByRows'
  BY OrdersFor, PTL

\* A step that touches only orders that are not for the driver and date,
\* neither before nor after.
LEMMA OtherOrdersFor ==
  ASSUME TypeOK, TypeOK', NEW date, NEW d, NEW S \in SUBSET Orders,
         \A p \in Orders \ S :
             /\ manual_orders'[p] = manual_orders[p]
             /\ list_assignments_for_task(p)' = list_assignments_for_task(p),
         \A p \in S : p \notin orders_for(date, d) /\ p \notin orders_for(date, d)'
  PROVE  orders_for(date, d)' = orders_for(date, d)
<1>1. ASSUME NEW o, o \in orders_for(date, d) PROVE o \in Orders
  <2>1. PICK a \in list_assignments_for_task(o) : a.driver_id = d
    BY <1>1, OrdersFor DEF OrdersForByRows
  <2> QED
    BY <2>1 DEF list_assignments_for_task, TypeOK, Assignment
<1>2. ASSUME NEW o, o \in orders_for(date, d)' PROVE o \in Orders
  BY <1>2 DEF orders_for, build_trips, TypeOK, Assignment,
              list_delivery_order_assignments_for_delivery_date
<1>3. ASSUME NEW o \in Orders \ S
      PROVE  o \in orders_for(date, d)' <=> o \in orders_for(date, d)
  <2>1. o \in orders_for(date, d)' <=>
            /\ manual_orders'[o].status = "ACTIVE"
            /\ manual_orders'[o].delivery_date = date
            /\ \E a \in list_assignments_for_task(o)' : a.driver_id = d
    BY OrdersForNext DEF OrdersForByRows
  <2> QED
    BY <1>3, <2>1, OrdersFor DEF OrdersForByRows
<1> QED
  BY <1>1, <1>2, <1>3

\* An order is assigned to nobody but the driver it has just been given to.
LEMMA AssignedToDriver ==
  ASSUME TypeOK, NEW o \in Orders, NEW d \in Drivers, NEW trip \in Trips,
         AssignOrder(o, d, trip)
  PROVE  /\ \A a \in list_assignments_for_task(o)' : a.driver_id = d
         /\ \A p \in Orders \ {o} :
                list_assignments_for_task(p)' = list_assignments_for_task(p)
         /\ has_assignment_for_task(o)'
<1> DEFINE existing == list_assignments_for_task(o)
           moved(a) == [a EXCEPT !.driver_id = d, !.trip_no = trip]
<1>1. PICK dd : upsert_assignment(o, dd, d, trip)
  BY DEF AssignOrder
<1> DEFINE fresh == [task_id |-> o, dispatch_date |-> dd,
                     driver_id |-> d, trip_no |-> trip]
<1>2. existing \subseteq Assignment /\ AtMostOne(existing)
  BY <1>1 DEF upsert_assignment, list_assignments_for_task, TypeOK
<1>3. \E new : new.task_id = o /\ new.driver_id = d
               /\ assignments' = (assignments \ existing) \cup {new}
  <2>1. CASE existing = {}
    <3>1. assignments' = (assignments \ existing) \cup {fresh}
      BY <1>1, <2>1 DEF upsert_assignment
    <3>2. fresh.task_id = o /\ fresh.driver_id = d
      OBVIOUS
    <3> HIDE DEF fresh
    <3> QED
      BY <3>1, <3>2
  <2>2. CASE existing # {}
    <3>1. PICK a \in existing : existing = {a}
      BY <1>2, <2>2 DEF AtMostOne
    <3>2. moved(a).task_id = o /\ moved(a).driver_id = d
      BY <1>2, <3>1 DEF list_assignments_for_task, Assignment
    <3>3. assignments' = (assignments \ existing) \cup {moved(b) : b \in existing}
      BY <1>1, <2>2 DEF upsert_assignment
    <3> HIDE DEF moved
    <3>4. assignments' = (assignments \ existing) \cup {moved(a)}
      BY <3>1, <3>3
    <3> QED
      BY <3>2, <3>4
  <2> QED
    BY <2>1, <2>2
<1> QED
  BY <1>3 DEF list_assignments_for_task, has_assignment_for_task

\* Locked: no handler that asks for the lock of a driver and date gives or
\* takes an order while they have a sheet.
LEMMA AssignmentKeepsOrders ==
  ASSUME TypeOK, TypeOK', NEW s \in RunSheetIds, Stored(s),
         NEW o \in Orders,
         UnassignOrder(o) \/ \E d \in Drivers, trip \in Trips : AssignOrder(o, d, trip)
  PROVE  orders_for(run_sheets[s].delivery_date, run_sheets[s].driver_id)'
            = orders_for(run_sheets[s].delivery_date, run_sheets[s].driver_id)
<1>1. PICK date, d : date = run_sheets[s].delivery_date /\ d = run_sheets[s].driver_id
  OBVIOUS
<1>2. UNCHANGED <<run_sheets, manual_orders>>
  BY DEF UnassignOrder, AssignOrder
<1>3. \A e : ensure_delivery_run_sheet_key_mutable(manual_orders[o].delivery_date, e)
                => manual_orders[o].delivery_date # date \/ e # d
  BY <1>1 DEF ensure_delivery_run_sheet_key_mutable, get_delivery_run_sheet_for_driver
<1>4. o \notin orders_for(date, d)
  BY <1>3, OrdersFor DEF UnassignOrder, AssignOrder, OrdersForByRows
<1>5. /\ o \notin orders_for(date, d)'
      /\ \A p \in Orders \ {o} :
             list_assignments_for_task(p)' = list_assignments_for_task(p)
  <2>1. CASE UnassignOrder(o)
    BY <2>1, OrdersForNext DEF UnassignOrder, remove_assignments_for_task,
                               list_assignments_for_task, OrdersForByRows
  <2>2. ASSUME NEW e \in Drivers, NEW trip \in Trips, AssignOrder(o, e, trip)
        PROVE  /\ o \notin orders_for(date, d)'
               /\ \A p \in Orders \ {o} :
                      list_assignments_for_task(p)' = list_assignments_for_task(p)
    <3>1. manual_orders[o].delivery_date # date \/ e # d
      BY <1>3, <2>2 DEF AssignOrder
    <3>2. /\ \A a \in list_assignments_for_task(o)' : a.driver_id = e
          /\ \A p \in Orders \ {o} :
                 list_assignments_for_task(p)' = list_assignments_for_task(p)
      BY <2>2, AssignedToDriver
    <3> QED
      BY <1>2, <3>1, <3>2, OrdersForNext DEF OrdersForByRows
  <2> QED
    BY <2>1, <2>2
<1>6. orders_for(date, d)' = orders_for(date, d)
  <2>1. {o} \in SUBSET Orders
    OBVIOUS
  <2> QED
    BY <1>2, <1>4, <1>5, <2>1, OtherOrdersFor
<1>7. orders_for(run_sheets[s].delivery_date, run_sheets[s].driver_id)'
         = orders_for(date, d)'
  BY <1>1, <1>2 DEF orders_for, build_trips,
                    list_delivery_order_assignments_for_delivery_date
<1> QED
  BY <1>1, <1>6, <1>7

\* Nobody is given an order by a step that leaves orders and assignments
\* alone, or changes only orders that nobody is assigned to afterwards and
\* that were not for the driver and date before.
LEMMA UnassignedKeepOrders ==
  ASSUME TypeOK, TypeOK', NEW s \in RunSheetIds,
         run_sheets'[s].delivery_date = run_sheets[s].delivery_date,
         run_sheets'[s].driver_id = run_sheets[s].driver_id,
         NEW S \in SUBSET Orders,
         \A p \in Orders \ S :
             /\ manual_orders'[p] = manual_orders[p]
             /\ list_assignments_for_task(p)' = list_assignments_for_task(p),
         \A p \in S :
             /\ p \notin orders_for(run_sheets[s].delivery_date, run_sheets[s].driver_id)
             /\ list_assignments_for_task(p)' = {}
  PROVE  orders_for(run_sheets[s].delivery_date, run_sheets[s].driver_id)'
            = orders_for(run_sheets[s].delivery_date, run_sheets[s].driver_id)
<1>1. PICK date, d : date = run_sheets[s].delivery_date /\ d = run_sheets[s].driver_id
  OBVIOUS
<1>2. \A p \in S : p \notin orders_for(date, d)'
  BY OrdersForNext DEF OrdersForByRows
<1>3. orders_for(date, d)' = orders_for(date, d)
  BY <1>1, <1>2, OtherOrdersFor
<1>4. orders_for(run_sheets[s].delivery_date, run_sheets[s].driver_id)'
         = orders_for(date, d)'
  BY <1>1 DEF orders_for, build_trips,
              list_delivery_order_assignments_for_delivery_date
<1> QED
  BY <1>1, <1>3, <1>4

LEMMA CreateKeepsOrders ==
  ASSUME TypeOK, TypeOK', StatusInv, NEW s \in RunSheetIds,
         NEW o \in Orders, NEW day \in Dates, CreateOrder(o, day)
  PROVE  orders_for(run_sheets[s].delivery_date, run_sheets[s].driver_id)'
            = orders_for(run_sheets[s].delivery_date, run_sheets[s].driver_id)
<1>1. /\ UNCHANGED <<run_sheets, assignments>>
      /\ \A p \in Orders \ {o} : manual_orders'[p] = manual_orders[p]
  BY DEF CreateOrder, TypeOK
<1>2. \A p : list_assignments_for_task(p)' = list_assignments_for_task(p)
  BY <1>1 DEF list_assignments_for_task
<1>3. list_assignments_for_task(o) = {}
  BY DEF CreateOrder, StatusInv, list_assignments_for_task
<1>4. o \notin orders_for(run_sheets[s].delivery_date, run_sheets[s].driver_id)
  BY <1>3, OrdersFor DEF OrdersForByRows
<1>5. {o} \in SUBSET Orders
  OBVIOUS
<1> QED
  BY <1>1, <1>2, <1>3, <1>4, <1>5, UnassignedKeepOrders

LEMMA CancelKeepsOrders ==
  ASSUME TypeOK, TypeOK', NEW s \in RunSheetIds,
         NEW o \in Orders, CancelOrder(o)
  PROVE  orders_for(run_sheets[s].delivery_date, run_sheets[s].driver_id)'
            = orders_for(run_sheets[s].delivery_date, run_sheets[s].driver_id)
<1>1. /\ UNCHANGED <<run_sheets, assignments>>
      /\ \A p \in Orders \ {o} : manual_orders'[p] = manual_orders[p]
  BY DEF CancelOrder, TypeOK
<1>2. \A p : list_assignments_for_task(p)' = list_assignments_for_task(p)
  BY <1>1 DEF list_assignments_for_task
<1>3. list_assignments_for_task(o) = {}
  BY DEF CancelOrder, has_assignment_for_task, list_assignments_for_task
<1>4. o \notin orders_for(run_sheets[s].delivery_date, run_sheets[s].driver_id)
  BY <1>3, OrdersFor DEF OrdersForByRows
<1>5. {o} \in SUBSET Orders
  OBVIOUS
<1> QED
  BY <1>1, <1>2, <1>3, <1>4, <1>5, UnassignedKeepOrders

\* What another sheet captured is for another driver or another date.
LEMMA CloseKeepsOrders ==
  ASSUME TypeOK, TypeOK', OneSheetPerDriverDate,
         NEW s \in RunSheetIds, Stored(s), NEW t \in RunSheetIds, t # s,
         NEW reports \in closeout_submissions(t), CloseRunSheet(t, reports)
  PROVE  orders_for(run_sheets[s].delivery_date, run_sheets[s].driver_id)'
            = orders_for(run_sheets[s].delivery_date, run_sheets[s].driver_id)
<1>1. /\ run_sheets'[s] = run_sheets[s]
      /\ Stored(t)
  BY ClosedSheet DEF Stored
<1>2. \A p \in Orders \ captured_orders(t) :
          /\ manual_orders'[p] = manual_orders[p]
          /\ list_assignments_for_task(p)' = list_assignments_for_task(p)
  BY ReportedOrders DEF list_assignments_for_task
<1>3. ASSUME NEW p \in captured_orders(t)
      PROVE  p \notin orders_for(run_sheets[s].delivery_date, run_sheets[s].driver_id)
  <2>1. PICK r \in run_sheets[t].rows : r.task_id = p
    BY <1>3 DEF captured_orders
  <2>2. row_unchanged(t, r)
    BY DEF CloseRunSheet
  <2>3. /\ manual_orders[p].delivery_date = run_sheets[t].delivery_date
        /\ \A a \in list_assignments_for_task(p) : a.driver_id = run_sheets[t].driver_id
    BY <2>1, <2>2 DEF row_unchanged, AtMostOne
  <2>4. \/ run_sheets[t].delivery_date # run_sheets[s].delivery_date
        \/ run_sheets[t].driver_id # run_sheets[s].driver_id
    BY <1>1 DEF OneSheetPerDriverDate
  <2> QED
    BY <2>3, <2>4, OrdersFor DEF OrdersForByRows
<1>4. \A p \in captured_orders(t) : list_assignments_for_task(p)' = {}
  BY ReportedOrders DEF list_assignments_for_task
<1>5. captured_orders(t) \in SUBSET Orders
  BY ReportedOrders
<1> QED
  BY <1>1, <1>2, <1>3, <1>4, <1>5, UnassignedKeepOrders

\* The one handler that gets past the lock moves no order of the sheet.
LEMMA EditKeepsCaptured ==
  ASSUME TypeOK, TypeOK', NEW s \in RunSheetIds, SavedAndOpen(s),
         NEW o \in Orders, NEW day \in Dates, UpdateOrder(o, day),
         NEW p \in captured_orders(s)
  PROVE  p \in orders_for(run_sheets[s].delivery_date, run_sheets[s].driver_id)'
            <=> p \in orders_for(run_sheets[s].delivery_date, run_sheets[s].driver_id)
<1>1. PICK date, d : date = run_sheets[s].delivery_date /\ d = run_sheets[s].driver_id
  OBVIOUS
<1>2. p # o
  BY DEF UpdateOrder, ensure_order_not_reserved, Reserving, SavedAndOpen,
         get_delivery_run_sheet_reserving_order
<1>3. run_sheets[s] \in RunSheet
  BY StoredSheet DEF SavedAndOpen, Stored
<1>4. p \in Orders
  BY <1>3 DEF captured_orders, RunSheet, RunSheetRow
<1>5. manual_orders'[p] = manual_orders[p]
  BY <1>2, <1>4 DEF UpdateOrder, TypeOK
<1>6. list_assignments_for_task(p)' = list_assignments_for_task(p)
  BY DEF UpdateOrder, list_assignments_for_task
<1>7. p \in orders_for(date, d)' <=> p \in orders_for(date, d)
  BY <1>5, <1>6, OrdersFor, OrdersForNext DEF OrdersForByRows
<1>8. UNCHANGED run_sheets
  BY DEF UpdateOrder
<1>9. orders_for(run_sheets[s].delivery_date, run_sheets[s].driver_id)'
         = orders_for(date, d)'
  BY <1>1, <1>8 DEF orders_for, build_trips,
                    list_delivery_order_assignments_for_delivery_date
<1> QED
  BY <1>1, <1>7, <1>9

\* Steps that write neither orders nor assignments, and leave the sheet its
\* driver and date.
LEMMA OtherKeepOrders ==
  ASSUME TypeOK, TypeOK', NEW s \in RunSheetIds,
         UNCHANGED <<manual_orders, assignments>>,
         run_sheets'[s].delivery_date = run_sheets[s].delivery_date,
         run_sheets'[s].driver_id = run_sheets[s].driver_id
  PROVE  orders_for(run_sheets[s].delivery_date, run_sheets[s].driver_id)'
            = orders_for(run_sheets[s].delivery_date, run_sheets[s].driver_id)
<1>1. \A p \in Orders \ {} :
          /\ manual_orders'[p] = manual_orders[p]
          /\ list_assignments_for_task(p)' = list_assignments_for_task(p)
  BY DEF list_assignments_for_task
<1>2. {} \in SUBSET Orders
  OBVIOUS
<1> QED
  BY <1>1, <1>2, UnassignedKeepOrders

LEMMA LockedStep ==
  ASSUME TypeOK, TypeOK', OneSheetPerDriverDate, StatusInv, Next,
         NEW s \in RunSheetIds
  PROVE  KeepsOrders(s)
<1> DEFINE of == orders_for(run_sheets[s].delivery_date, run_sheets[s].driver_id)
<1> SUFFICES ASSUME SavedAndOpen(s), SavedAndOpen(s)'
             PROVE  \/ of' = of
                    \/ /\ \E o \in Orders, date \in Dates : UpdateOrder(o, date)
                       /\ of \cap captured_orders(s) = of' \cap captured_orders(s)
  BY DEF KeepsOrders
<1>1. Stored(s) /\ run_sheets[s].status = "SAVED" /\ run_sheets'[s].execution_status = "OPEN"
  BY DEF SavedAndOpen, Stored
<1>2. ASSUME NEW o \in Orders, NEW day \in Dates, UpdateOrder(o, day)
      PROVE  /\ \E p \in Orders, date \in Dates : UpdateOrder(p, date)
             /\ of \cap captured_orders(s) = of' \cap captured_orders(s)
  <2>1. \A p \in captured_orders(s) : p \in of' <=> p \in of
    BY <1>2, EditKeepsCaptured
  <2> HIDE DEF of
  <2> QED
    BY <1>2, <2>1
<1>3. ASSUME UNCHANGED <<manual_orders, assignments>>,
             run_sheets'[s] = run_sheets[s]
      PROVE  of' = of
  BY <1>3, OtherKeepOrders
<1>4. ASSUME NEW t \in RunSheetIds,
             \/ \E date \in Dates, d \in Drivers : GenerateRunSheet(t, date, d)
             \/ SaveRunSheet(t)
             \/ CancelRunSheet(t)
             \/ \E reports \in closeout_submissions(t) : CloseRunSheet(t, reports)
      PROVE  of' = of
  <2>1. CASE \E date \in Dates, d \in Drivers : GenerateRunSheet(t, date, d)
    <3>1. t # s
      BY <1>1, <2>1, GeneratedSheet DEF NoRunSheet
    <3> QED
      BY <1>3, <2>1, <3>1, GeneratedSheet DEF GenerateRunSheet
  <2>2. CASE SaveRunSheet(t)
    BY <1>1, <1>3, <2>2, SavedSheet DEF SaveRunSheet
  <2>3. CASE CancelRunSheet(t)
    BY <1>1, <1>3, <2>3, CancelledSheet DEF CancelRunSheet
  <2>4. ASSUME NEW reports \in closeout_submissions(t), CloseRunSheet(t, reports)
        PROVE  of' = of
    <3>1. t # s
      BY <1>1, <2>4, ClosedSheet
    <3> QED
      BY <1>1, <2>4, <3>1, CloseKeepsOrders
  <2> QED
    BY <1>4, <2>1, <2>2, <2>3, <2>4
<1>5. ASSUME NEW o \in Orders,
             \/ \E date \in Dates : CreateOrder(o, date)
             \/ \E d \in Drivers, trip \in Trips : AssignOrder(o, d, trip)
             \/ UnassignOrder(o)
             \/ CancelOrder(o)
      PROVE  of' = of
  BY <1>1, <1>5, CreateKeepsOrders, CancelKeepsOrders, AssignmentKeepsOrders
<1>6. CASE UNCHANGED <<manual_orders, assignments, run_sheets>>
  BY <1>3, <1>6
<1> HIDE DEF of
<1> QED
  BY <1>2, <1>4, <1>5, <1>6
     DEF Next, AtomicRequests, StepwiseRequests, AssignVehicle, ClearVehicle,
         DeleteDriver, DeleteVehicle

\* When requests run alone, only an edit gives or takes an order of a driver
\* whose sheet for the date is saved and open, and no order of the sheet.
THEOREM LockedOrders == Spec => OnlyEditsPassOpenSheets
<1>1. TypeOK /\ TypeOK' /\ OneSheetPerDriverDate /\ StatusInv /\ [Next]_vars
         => [\A s \in RunSheetIds : KeepsOrders(s)]_vars
  BY LockedStep
<1> QED
  BY <1>1, TypeCorrect, OneSheet, Status, PTL DEF Spec, OnlyEditsPassOpenSheets

-----------------------------------------------------------------------------
(* The tables implement the life cycle of an order. *)

Reserved(o) == get_delivery_run_sheet_reserving_order(o) # {}

\* The phases of exactly the orders in S change, from one phase to another.
Moved(S, from, to) ==
  \A o \in Orders : IF o \in S THEN order_phase(o) = from /\ order_phase(o)' = to
                               ELSE order_phase(o)' = order_phase(o)

LEMMA MoveStep ==
  ASSUME NEW S \in SUBSET Orders, NEW from, NEW to, Moved(S, from, to)
  PROVE  Lifecycle!Move(S, from, to)
  BY DEF Moved, Lifecycle!Move

\* An order's phase depends on four facts about it.
LEMMA SamePhase ==
  ASSUME NEW o,
         manual_orders'[o].status = manual_orders[o].status,
         Delivered(o)' <=> Delivered(o),
         Reserved(o)' <=> Reserved(o),
         has_assignment_for_task(o)' <=> has_assignment_for_task(o)
  PROVE  order_phase(o)' = order_phase(o)
  BY DEF order_phase, Reserved

\* Reserved orders are assigned, and assigned orders are ACTIVE and were not
\* delivered.
LEMMA ReservedAssigned ==
  ASSUME CapturedOrdersIntact, NEW o, Reserved(o)
  PROVE  has_assignment_for_task(o)
<1>1. PICK s \in RunSheetIds : Reserving(s) /\ o \in captured_orders(s)
  BY DEF Reserved, get_delivery_run_sheet_reserving_order
<1>2. PICK r \in run_sheets[s].rows : r.task_id = o
  BY <1>1 DEF captured_orders
<1>3. list_assignments_for_task(o) # {}
  BY <1>1, <1>2 DEF CapturedOrdersIntact, row_unchanged
<1> QED
  BY <1>3 DEF list_assignments_for_task, has_assignment_for_task

LEMMA AssignedActive ==
  ASSUME StatusInv, NEW o \in Orders, has_assignment_for_task(o)
  PROVE  manual_orders[o].status = "ACTIVE" /\ ~Delivered(o)
  BY DEF StatusInv, has_assignment_for_task

\* The invariants the steps below rely on, all proved before.
LifecycleInv ==
  ReservationInv /\ CapturedOnce /\ StatusInv /\ OnlySavedAreClosed

\* The phase of an order, by its row.
PhasesByRows ==
  \A o \in Orders :
      /\ manual_orders[o].status = "ABSENT" => order_phase(o) = "ABSENT"
      /\ Reserved(o) => order_phase(o) = "CAPTURED"
      /\ has_assignment_for_task(o) /\ ~Reserved(o) => order_phase(o) = "ASSIGNED"
      /\ manual_orders[o].status = "ACTIVE" /\ ~has_assignment_for_task(o)
             => order_phase(o) = "POOL"
      /\ manual_orders[o].status \in {"FINALIZED", "CANCELLED"} /\ Delivered(o)
             => order_phase(o) = "DELIVERED"
      /\ manual_orders[o].status = "CANCELLED" /\ ~Delivered(o)
             => order_phase(o) = "CANCELLED"

LEMMA Phases == LifecycleInv => PhasesByRows
<1> SUFFICES ASSUME LifecycleInv, NEW o \in Orders
             PROVE  /\ manual_orders[o].status = "ABSENT" => order_phase(o) = "ABSENT"
                    /\ Reserved(o) => order_phase(o) = "CAPTURED"
                    /\ has_assignment_for_task(o) /\ ~Reserved(o)
                           => order_phase(o) = "ASSIGNED"
                    /\ manual_orders[o].status = "ACTIVE" /\ ~has_assignment_for_task(o)
                           => order_phase(o) = "POOL"
                    /\ manual_orders[o].status \in {"FINALIZED", "CANCELLED"}
                       /\ Delivered(o) => order_phase(o) = "DELIVERED"
                    /\ manual_orders[o].status = "CANCELLED" /\ ~Delivered(o)
                           => order_phase(o) = "CANCELLED"
  BY DEF PhasesByRows
<1>1. manual_orders[o].status = "ACTIVE" => ~Delivered(o)
  BY DEF StatusInv, LifecycleInv
<1>2. Reserved(o) => has_assignment_for_task(o)
  BY ReservedAssigned DEF LifecycleInv, ReservationInv
<1>3. has_assignment_for_task(o) => manual_orders[o].status = "ACTIVE"
  BY AssignedActive DEF LifecycleInv
<1> QED
  BY <1>1, <1>2, <1>3 DEF order_phase, Reserved

LEMMA PhasesNext == LifecycleInv' => PhasesByRows'
  BY Phases, PTL

\* Nothing a sheet reserves changes as long as sheets do not.
LEMMA SameReserved ==
  ASSUME UNCHANGED run_sheets, NEW o
  PROVE  Reserved(o)' <=> Reserved(o)
  BY DEF Reserved, get_delivery_run_sheet_reserving_order, Reserving, captured_orders

LEMMA CreatePhase ==
  ASSUME LifecycleInv, LifecycleInv', NEW o \in Orders, NEW date \in Dates,
         CreateOrder(o, date)
  PROVE  Moved({o}, "ABSENT", "POOL")
<1>1. /\ \A p \in Orders \ {o} : manual_orders'[p] = manual_orders[p]
      /\ manual_orders'[o].status = "ACTIVE"
      /\ UNCHANGED <<assignments, outcomes, run_sheets>>
  BY DEF CreateOrder, TypeOK, LifecycleInv, ReservationInv
<1>2. \A p : /\ Delivered(p)' <=> Delivered(p)
             /\ Reserved(p)' <=> Reserved(p)
             /\ has_assignment_for_task(p)' <=> has_assignment_for_task(p)
  BY <1>1, SameReserved DEF Delivered, has_assignment_for_task
<1>3. order_phase(o) = "ABSENT"
  BY DEF CreateOrder, order_phase
<1>4. ~has_assignment_for_task(o)'
  BY <1>2, AssignedActive DEF CreateOrder, LifecycleInv
<1>5. order_phase(o)' = "POOL"
  BY <1>1, <1>4, PhasesNext DEF PhasesByRows
<1> QED
  BY <1>1, <1>2, <1>3, <1>5, SamePhase DEF Moved

\* Orders that are neither reserved nor assigned to begin with.
LEMMA AssignPhase ==
  ASSUME LifecycleInv, LifecycleInv', NEW o \in Orders, NEW d \in Drivers,
         NEW trip \in Trips, AssignOrder(o, d, trip)
  PROVE  IF has_assignment_for_task(o) THEN Moved({}, "POOL", "ASSIGNED")
                                       ELSE Moved({o}, "POOL", "ASSIGNED")
<1>1. UNCHANGED <<manual_orders, outcomes, run_sheets>>
  BY DEF AssignOrder
<1>2. \A p : /\ Delivered(p)' <=> Delivered(p)
             /\ Reserved(p)' <=> Reserved(p)
  BY <1>1, SameReserved DEF Delivered
<1>3. /\ has_assignment_for_task(o)'
      /\ \A p \in Orders \ {o} :
             has_assignment_for_task(p)' <=> has_assignment_for_task(p)
  <2>1. TypeOK
    BY DEF LifecycleInv, ReservationInv
  <2>2. \A p \in Orders \ {o} :
            list_assignments_for_task(p)' = list_assignments_for_task(p)
    BY <2>1, AssignedToDriver
  <2>3. \A p : /\ has_assignment_for_task(p) <=> list_assignments_for_task(p) # {}
               /\ has_assignment_for_task(p)' <=> list_assignments_for_task(p)' # {}
    BY DEF has_assignment_for_task, list_assignments_for_task
  <2> QED
    BY <2>1, <2>2, <2>3, AssignedToDriver
<1>4. manual_orders[o].status = "ACTIVE" /\ ~Reserved(o)
  BY DEF AssignOrder, active_order, ensure_order_not_reserved, Reserved
<1>5. order_phase(o)' = "ASSIGNED"
  BY <1>2, <1>3, <1>4, PhasesNext DEF PhasesByRows
<1>6. order_phase(o) = IF has_assignment_for_task(o) THEN "ASSIGNED" ELSE "POOL"
  BY <1>4, Phases DEF PhasesByRows
<1>7. \A p \in Orders \ {o} : order_phase(p)' = order_phase(p)
  BY <1>1, <1>2, <1>3, SamePhase
<1> QED
  BY <1>5, <1>6, <1>7 DEF Moved

LEMMA UnassignPhase ==
  ASSUME LifecycleInv, LifecycleInv', NEW o \in Orders, UnassignOrder(o)
  PROVE  IF has_assignment_for_task(o) THEN Moved({o}, "ASSIGNED", "POOL")
                                       ELSE Moved({}, "ASSIGNED", "POOL")
<1>1. UNCHANGED <<manual_orders, outcomes, run_sheets>>
  BY DEF UnassignOrder
<1>2. \A p : /\ Delivered(p)' <=> Delivered(p)
             /\ Reserved(p)' <=> Reserved(p)
  BY <1>1, SameReserved DEF Delivered
<1>3. /\ ~has_assignment_for_task(o)'
      /\ \A p \in Orders \ {o} :
             has_assignment_for_task(p)' <=> has_assignment_for_task(p)
  BY DEF UnassignOrder, remove_assignments_for_task, has_assignment_for_task,
         list_assignments_for_task
<1>4. manual_orders[o].status = "ACTIVE" /\ ~Reserved(o)
  BY DEF UnassignOrder, active_order, ensure_order_not_reserved, Reserved
<1>5. order_phase(o)' = "POOL"
  BY <1>1, <1>3, <1>4, PhasesNext DEF PhasesByRows
<1>6. order_phase(o) = IF has_assignment_for_task(o) THEN "ASSIGNED" ELSE "POOL"
  BY <1>4, Phases DEF PhasesByRows
<1>7. \A p \in Orders \ {o} : order_phase(p)' = order_phase(p)
  BY <1>1, <1>2, <1>3, SamePhase
<1> QED
  BY <1>5, <1>6, <1>7 DEF Moved

\* An order that is withdrawn was in the pool, or was delivered before.
LEMMA CancelOrderPhase ==
  ASSUME LifecycleInv, LifecycleInv', NEW o \in Orders, CancelOrder(o)
  PROVE  IF Delivered(o) THEN Moved({}, "POOL", "CANCELLED")
                         ELSE Moved({o}, "POOL", "CANCELLED")
<1>1. /\ \A p \in Orders \ {o} : manual_orders'[p] = manual_orders[p]
      /\ UNCHANGED <<assignments, outcomes, run_sheets>>
  BY DEF CancelOrder, TypeOK, LifecycleInv, ReservationInv
<1>2. manual_orders[o] \in Order /\ manual_orders'[o].status = "CANCELLED"
  <2>1. manual_orders[o] \in Order
    BY StoredOrder DEF CancelOrder, LifecycleInv, ReservationInv
  <2> QED
    BY <2>1 DEF CancelOrder, TypeOK, Order, LifecycleInv, ReservationInv
<1>3. \A p : /\ Delivered(p)' <=> Delivered(p)
             /\ Reserved(p)' <=> Reserved(p)
             /\ has_assignment_for_task(p)' <=> has_assignment_for_task(p)
  BY <1>1, SameReserved DEF Delivered, has_assignment_for_task
<1>4. order_phase(o) = IF Delivered(o) THEN "DELIVERED" ELSE "POOL"
  <2>1. manual_orders[o].status \in {"ACTIVE", "FINALIZED"} /\ ~has_assignment_for_task(o)
    BY <1>2 DEF CancelOrder, Order
  <2>2. CASE manual_orders[o].status = "ACTIVE"
    BY <2>1, <2>2, Phases DEF PhasesByRows, LifecycleInv, StatusInv
  <2>3. CASE manual_orders[o].status = "FINALIZED"
    BY <2>3, Phases DEF PhasesByRows, LifecycleInv, StatusInv
  <2> QED
    BY <2>1, <2>2, <2>3
<1>5. order_phase(o)' = IF Delivered(o) THEN "DELIVERED" ELSE "CANCELLED"
  BY <1>2, <1>3, PhasesNext DEF PhasesByRows
<1>6. \A p \in Orders \ {o} : order_phase(p)' = order_phase(p)
  BY <1>1, <1>3, SamePhase
<1> QED
  BY <1>4, <1>5, <1>6 DEF Moved

\* Editing changes no phase.
LEMMA UpdatePhase ==
  ASSUME LifecycleInv, NEW o \in Orders, NEW date \in Dates, UpdateOrder(o, date)
  PROVE  Moved({}, "POOL", "POOL")
<1>1. UNCHANGED <<assignments, outcomes, run_sheets>>
  BY DEF UpdateOrder
<1>2. \A p \in Orders : manual_orders'[p].status = manual_orders[p].status
  <2>1. manual_orders[o] \in Order
    BY StoredOrder DEF UpdateOrder, LifecycleInv, ReservationInv
  <2> QED
    BY <2>1 DEF UpdateOrder, TypeOK, Order, LifecycleInv, ReservationInv
<1>3. \A p : /\ Delivered(p)' <=> Delivered(p)
             /\ Reserved(p)' <=> Reserved(p)
             /\ has_assignment_for_task(p)' <=> has_assignment_for_task(p)
  BY <1>1, SameReserved DEF Delivered, has_assignment_for_task
<1> QED
  BY <1>2, <1>3, SamePhase DEF Moved

-----------------------------------------------------------------------------
(* The handlers of sheets. *)

\* Generation captures orders that are assigned and on no other sheet: a
\* sheet that reserved one of them would be for the same driver and date.
LEMMA GeneratePhase ==
  ASSUME LifecycleInv, LifecycleInv', NEW s \in RunSheetIds,
         NEW date \in Dates, NEW d \in Drivers, GenerateRunSheet(s, date, d)
  PROVE  Moved(captured_orders(s)', "ASSIGNED", "CAPTURED")
<1> USE DEF LifecycleInv, ReservationInv
<1>1. /\ UNCHANGED <<manual_orders, assignments, outcomes>>
      /\ \A t \in RunSheetIds \ {s} : run_sheets'[t] = run_sheets[t]
      /\ run_sheets[s] = NoRunSheet
      /\ Reserving(s)'
      /\ run_sheets'[s].rows = build_trips(date, d)
  BY GeneratedSheet DEF GenerateRunSheet, Reserving
<1>2. \A p : /\ Delivered(p)' <=> Delivered(p)
             /\ has_assignment_for_task(p)' <=> has_assignment_for_task(p)
  BY <1>1 DEF Delivered, has_assignment_for_task
<1>3. \A t \in RunSheetIds \ {s} : /\ Reserving(t)' <=> Reserving(t)
                                   /\ captured_orders(t)' = captured_orders(t)
  BY <1>1 DEF Reserving, captured_orders
<1>4. ~Reserving(s)
  BY <1>1 DEF Reserving, NoRunSheet
<1>5. \A p : Reserved(p)' <=> Reserved(p) \/ p \in captured_orders(s)'
  BY <1>1, <1>3, <1>4 DEF Reserved, get_delivery_run_sheet_reserving_order
<1>6. ASSUME NEW o \in Orders, o \in captured_orders(s)'
      PROVE  has_assignment_for_task(o) /\ ~Reserved(o)
  <2>1. captured_orders(s)' = orders_for(date, d)
    BY <1>1 DEF captured_orders, orders_for
  <2>2. PICK a \in list_assignments_for_task(o) :
            /\ a.driver_id = d
            /\ manual_orders[o].delivery_date = date
    BY <1>6, <2>1, OrdersFor DEF OrdersForByRows
  <2>3. has_assignment_for_task(o)
    BY <2>2 DEF list_assignments_for_task, has_assignment_for_task
  <2>4. ASSUME NEW t \in RunSheetIds, Reserving(t), NEW r \in run_sheets[t].rows,
               r.task_id = o
        PROVE  FALSE
    <3>1. row_unchanged(t, r)
      BY <2>4 DEF CapturedOrdersIntact
    <3>2. run_sheets[t].delivery_date = date /\ run_sheets[t].driver_id = d
      BY <2>2, <2>4, <3>1 DEF row_unchanged, AtMostOne
    <3> QED
      BY <2>4, <3>2 DEF GenerateRunSheet, get_delivery_run_sheet_for_driver,
                        Reserving, Stored
  <2> QED
    BY <2>3, <2>4 DEF Reserved, captured_orders, get_delivery_run_sheet_reserving_order
<1>7. ASSUME NEW o \in Orders, o \in captured_orders(s)'
      PROVE  order_phase(o) = "ASSIGNED" /\ order_phase(o)' = "CAPTURED"
  BY <1>5, <1>6, <1>7, Phases, PhasesNext DEF PhasesByRows
<1>8. ASSUME NEW o \in Orders, o \notin captured_orders(s)'
      PROVE  order_phase(o)' = order_phase(o)
  BY <1>1, <1>2, <1>5, <1>8, SamePhase
<1> QED
  BY <1>7, <1>8 DEF Moved

\* Saving keeps what the sheet reserves: it was open.
LEMMA SavePhase ==
  ASSUME LifecycleInv, NEW s \in RunSheetIds, SaveRunSheet(s)
  PROVE  Moved({}, "POOL", "POOL")
<1> USE DEF LifecycleInv, ReservationInv
<1>1. /\ UNCHANGED <<manual_orders, assignments, outcomes>>
      /\ run_sheets[s].execution_status = "OPEN"
  BY SavedSheet DEF SaveRunSheet, OnlySavedAreClosed
<1>2. \A t \in RunSheetIds : /\ Reserving(t)' <=> Reserving(t)
                             /\ captured_orders(t)' = captured_orders(t)
  BY <1>1, SavedSheet DEF Reserving, captured_orders
<1>3. \A p : /\ Delivered(p)' <=> Delivered(p)
             /\ Reserved(p)' <=> Reserved(p)
             /\ has_assignment_for_task(p)' <=> has_assignment_for_task(p)
  BY <1>1, <1>2 DEF Delivered, has_assignment_for_task, Reserved,
                    get_delivery_run_sheet_reserving_order
<1> QED
  BY <1>1, <1>3, SamePhase DEF Moved

\* No other sheet reserves what a reserving sheet captured, so it is free
\* again when the sheet no longer reserves.
LEMMA FreedOrders ==
  ASSUME CapturedOnce, NEW s \in RunSheetIds, Reserving(s), ~Reserving(s)',
         \A t \in RunSheetIds \ {s} : run_sheets'[t] = run_sheets[t]
  PROVE  \A p \in Orders : Reserved(p)' <=> Reserved(p) /\ p \notin captured_orders(s)
<1>1. \A t \in RunSheetIds \ {s} : /\ Reserving(t)' <=> Reserving(t)
                                   /\ captured_orders(t)' = captured_orders(t)
  BY DEF Reserving, captured_orders
<1>2. \A p \in Orders, t \in RunSheetIds \ {s} :
          Reserving(t) /\ p \in captured_orders(t) => p \notin captured_orders(s)
  BY DEF CapturedOnce, get_delivery_run_sheet_reserving_order
<1> QED
  BY <1>1, <1>2 DEF Reserved, get_delivery_run_sheet_reserving_order

LEMMA CancelSheetPhase ==
  ASSUME LifecycleInv, LifecycleInv', NEW s \in RunSheetIds, CancelRunSheet(s)
  PROVE  Moved(captured_orders(s), "CAPTURED", "ASSIGNED")
<1> USE DEF LifecycleInv, ReservationInv
<1>1. /\ UNCHANGED <<manual_orders, assignments, outcomes>>
      /\ Reserving(s)
      /\ ~Reserving(s)'
  <2>1. run_sheets[s].status = "GENERATED" /\ run_sheets'[s].status = "ABSENT"
    BY CancelledSheet DEF NoRunSheet
  <2> QED
    BY <2>1 DEF CancelRunSheet, Reserving
<1>2. \A p : /\ Delivered(p)' <=> Delivered(p)
             /\ has_assignment_for_task(p)' <=> has_assignment_for_task(p)
  BY <1>1 DEF Delivered, has_assignment_for_task
<1>3. \A p \in Orders : Reserved(p)' <=> Reserved(p) /\ p \notin captured_orders(s)
  BY <1>1, CancelledSheet, FreedOrders
<1>4. ASSUME NEW o \in Orders, o \in captured_orders(s)
      PROVE  order_phase(o) = "CAPTURED" /\ order_phase(o)' = "ASSIGNED"
  <2>1. Reserved(o)
    BY <1>1, <1>4 DEF Reserved, get_delivery_run_sheet_reserving_order
  <2>2. has_assignment_for_task(o)' /\ ~Reserved(o)'
    BY <1>2, <1>3, <1>4, <2>1, ReservedAssigned
  <2> QED
    BY <2>1, <2>2, Phases, PhasesNext DEF PhasesByRows
<1>5. ASSUME NEW o \in Orders, o \notin captured_orders(s)
      PROVE  order_phase(o)' = order_phase(o)
  BY <1>1, <1>2, <1>3, <1>5, SamePhase
<1> QED
  BY <1>4, <1>5 DEF Moved

LEMMA ClosePhase ==
  ASSUME LifecycleInv, LifecycleInv', NEW s \in RunSheetIds,
         NEW reports \in closeout_submissions(s), CloseRunSheet(s, reports),
         NEW D, D = {o \in captured_orders(s) : reports[o].outcome = "DELIVERED"}
  PROVE  /\ captured_orders(s) \in SUBSET Orders
         /\ Lifecycle!CloseOut(captured_orders(s), D)
<1> USE DEF LifecycleInv, ReservationInv
<1>1. /\ Reserving(s)
      /\ ~Reserving(s)'
      /\ captured_orders(s) \subseteq Orders
      /\ UNCHANGED vehicle_assignments
  BY ClosedSheet, ReportedOrders DEF CloseRunSheet, Reserving
<1>2. \A p \in Orders : Reserved(p)' <=> Reserved(p) /\ p \notin captured_orders(s)
  BY <1>1, ClosedSheet, FreedOrders
<1>3. \A o \in captured_orders(s) : order_phase(o) = "CAPTURED"
  <2>1. \A o \in captured_orders(s) : Reserved(o)
    BY <1>1 DEF Reserved, get_delivery_run_sheet_reserving_order
  <2> QED
    BY <1>1, <2>1, Phases DEF PhasesByRows
<1>4. ASSUME NEW o \in captured_orders(s)
      PROVE  order_phase(o)' = IF o \in D THEN "DELIVERED" ELSE "POOL"
  <2>1. ~has_assignment_for_task(o)' /\ o \in Orders
    BY <1>1, ReportedOrders DEF has_assignment_for_task
  <2>2. CASE reports[o].outcome = "DELIVERED"
    <3>1. manual_orders'[o].status = "FINALIZED" /\ Delivered(o)'
      BY <2>2, ReportedOrders
    <3> QED
      BY <2>1, <2>2, <3>1, PhasesNext DEF PhasesByRows
  <2>3. CASE reports[o].outcome # "DELIVERED"
    <3>1. manual_orders'[o].status = "ACTIVE"
      BY <2>3, ReportedOrders
    <3> QED
      BY <2>1, <2>3, <3>1, PhasesNext DEF PhasesByRows
  <2> QED
    BY <2>2, <2>3
<1>5. ASSUME NEW o \in Orders, o \notin captured_orders(s)
      PROVE  order_phase(o)' = order_phase(o)
  <2>1. manual_orders'[o] = manual_orders[o] /\ (Delivered(o)' <=> Delivered(o))
    BY <1>5, ReportedOrders
  <2>2. has_assignment_for_task(o)' <=> has_assignment_for_task(o)
    BY <1>5, ReportedOrders DEF has_assignment_for_task
  <2> QED
    BY <1>2, <1>5, <2>1, <2>2, SamePhase
<1>6. [o \in Orders |-> order_phase(o)]' =
          [o \in Orders |-> IF o \in D THEN "DELIVERED"
                            ELSE IF o \in captured_orders(s) THEN "POOL"
                            ELSE order_phase(o)]
  BY <1>4, <1>5
<1> QED
  BY <1>1, <1>3, <1>6 DEF Lifecycle!CloseOut

-----------------------------------------------------------------------------

\* Steps after which every phase is as before.
LEMMA NothingMoved ==
  ASSUME NEW from, NEW to, Moved({}, from, to)
  PROVE  UNCHANGED [o \in Orders |-> order_phase(o)]
  BY DEF Moved

LEMMA OtherPhase ==
  ASSUME UNCHANGED <<manual_orders, assignments, outcomes, run_sheets>>
  PROVE  Moved({}, "POOL", "POOL")
<1>1. \A p : /\ Delivered(p)' <=> Delivered(p)
             /\ Reserved(p)' <=> Reserved(p)
             /\ has_assignment_for_task(p)' <=> has_assignment_for_task(p)
  BY SameReserved DEF Delivered, has_assignment_for_task
<1> QED
  BY <1>1, SamePhase DEF Moved

LEMMA StepImplements ==
  LifecycleInv /\ LifecycleInv' /\ [Next]_vars
      => [Lifecycle!Next]_([o \in Orders |-> order_phase(o)])
<1> DEFINE implemented == [Lifecycle!Next]_([o \in Orders |-> order_phase(o)])
<1> SUFFICES ASSUME LifecycleInv, LifecycleInv', [Next]_vars
             PROVE  implemented
  OBVIOUS
<1>1. ASSUME NEW from, NEW to, Moved({}, from, to)
      PROVE  implemented
  BY <1>1, NothingMoved
<1>2. ASSUME NEW o \in Orders,
             \/ Lifecycle!Create(o)
             \/ Lifecycle!Assign(o)
             \/ Lifecycle!Unassign(o)
             \/ Lifecycle!Withdraw(o)
      PROVE  implemented
  BY <1>2 DEF Lifecycle!Next
<1>3. ASSUME NEW S \in SUBSET Orders, Lifecycle!Capture(S) \/ Lifecycle!Release(S)
      PROVE  implemented
  BY <1>3 DEF Lifecycle!Next
<1>4. ASSUME NEW o \in Orders, NEW date \in Dates, CreateOrder(o, date)
      PROVE  implemented
  <2>1. Lifecycle!Create(o)
    BY <1>4, CreatePhase, MoveStep DEF Lifecycle!Create
  <2> QED
    BY <1>2, <2>1
<1>5. ASSUME NEW o \in Orders, NEW d \in Drivers, NEW trip \in Trips,
             AssignOrder(o, d, trip)
      PROVE  implemented
  <2>1. CASE Moved({o}, "POOL", "ASSIGNED")
    <3>1. Lifecycle!Assign(o)
      BY <2>1, MoveStep DEF Lifecycle!Assign
    <3> QED
      BY <1>2, <3>1
  <2> QED
    BY <1>1, <1>5, <2>1, AssignPhase
<1>6. ASSUME NEW o \in Orders, UnassignOrder(o)
      PROVE  implemented
  <2>1. CASE Moved({o}, "ASSIGNED", "POOL")
    <3>1. Lifecycle!Unassign(o)
      BY <2>1, MoveStep DEF Lifecycle!Unassign
    <3> QED
      BY <1>2, <3>1
  <2> QED
    BY <1>1, <1>6, <2>1, UnassignPhase
<1>7. ASSUME NEW o \in Orders, CancelOrder(o)
      PROVE  implemented
  <2>1. CASE Moved({o}, "POOL", "CANCELLED")
    <3>1. Lifecycle!Withdraw(o)
      BY <2>1, MoveStep DEF Lifecycle!Withdraw
    <3> QED
      BY <1>2, <3>1
  <2> QED
    BY <1>1, <1>7, <2>1, CancelOrderPhase
<1>8. ASSUME NEW o \in Orders, NEW date \in Dates, UpdateOrder(o, date)
      PROVE  implemented
  BY <1>1, <1>8, UpdatePhase
<1>9. ASSUME NEW s \in RunSheetIds, NEW date \in Dates, NEW d \in Drivers,
             GenerateRunSheet(s, date, d)
      PROVE  implemented
  <2>1. captured_orders(s)' \in SUBSET Orders
    <3>1. run_sheets'[s].rows \subseteq RunSheetRow
      BY <1>9, GeneratedSheet, SnapshotType DEF LifecycleInv, ReservationInv
    <3> QED
      BY <3>1 DEF captured_orders, RunSheetRow
  <2>2. Lifecycle!Capture(captured_orders(s)')
    BY <1>9, <2>1, GeneratePhase, MoveStep DEF Lifecycle!Capture
  <2> QED
    BY <1>3, <2>1, <2>2
<1>10. ASSUME NEW s \in RunSheetIds, SaveRunSheet(s)
       PROVE  implemented
  BY <1>1, <1>10, SavePhase
<1>11. ASSUME NEW s \in RunSheetIds, CancelRunSheet(s)
       PROVE  implemented
  <2>1. captured_orders(s) \in SUBSET Orders
    <3>1. run_sheets[s] \in RunSheet
      BY <1>11, StoredSheet DEF CancelRunSheet, Stored, LifecycleInv, ReservationInv
    <3> QED
      BY <3>1 DEF captured_orders, RunSheet, RunSheetRow
  <2>2. Lifecycle!Release(captured_orders(s))
    BY <1>11, <2>1, CancelSheetPhase, MoveStep DEF Lifecycle!Release
  <2> QED
    BY <1>3, <2>1, <2>2
<1>12. ASSUME NEW s \in RunSheetIds, NEW reports \in closeout_submissions(s),
              CloseRunSheet(s, reports)
       PROVE  implemented
  <2>1. PICK D : D = {o \in captured_orders(s) : reports[o].outcome = "DELIVERED"}
    OBVIOUS
  <2>2. /\ captured_orders(s) \in SUBSET Orders
        /\ D \in SUBSET captured_orders(s)
        /\ Lifecycle!CloseOut(captured_orders(s), D)
    BY <1>12, <2>1, ClosePhase
  <2> QED
    BY <2>2 DEF Lifecycle!Next
<1>13. CASE UNCHANGED <<manual_orders, assignments, outcomes, run_sheets>>
  BY <1>1, <1>13, OtherPhase
<1> HIDE DEF implemented
<1> QED
  BY <1>4, <1>5, <1>6, <1>7, <1>8, <1>9, <1>10, <1>11, <1>12, <1>13
     DEF Next, vars, AtomicRequests, StepwiseRequests, AssignVehicle,
         ClearVehicle, DeleteDriver, DeleteVehicle

\* Whatever requests come, each taken as a whole: every order lives the life
\* of OrderLifecycle, and one request moves orders in one step of it.
THEOREM Implements == Spec => ImplementsLifecycle
<1>1. Init => Lifecycle!Init
  BY DEF Init, Lifecycle!Init, order_phase, NoOrder
<1>2. Spec => []LifecycleInv
  BY TypeCorrect, OneSheet, AssignedOnce, Intact, Once, Status, OnlySaved, PTL
     DEF LifecycleInv, ReservationInv
<1> QED
  BY <1>1, <1>2, StepImplements, PTL DEF Spec, ImplementsLifecycle, Lifecycle!Spec
=============================================================================
