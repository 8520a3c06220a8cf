--------------------- MODULE DeliveryConcurrencyProofs ----------------------
(***************************************************************************)
(* Proofs about requests that interleave, for any number of threads.       *)
(*                                                                         *)
(* DeliveryThreads: whatever the interleaving, tables keep their shape,    *)
(* and a promise that requests keep when they run alone is broken only by  *)
(* the last statement of one that checked in earlier statements.  Two      *)
(* promises survive interleaving altogether: no driver has two sheets for  *)
(* a date, and no order is assigned twice, since only transactions write   *)
(* these tables.                                                           *)
(*                                                                         *)
(* DeliveryLogbook: the entries that handlers append after their           *)
(* transactions tell the tables and form a chain, except where an entry    *)
(* was lost or its call overtaken.                                         *)
(***************************************************************************)
EXTENDS DeliveryThreads, DeliveryLogbook, DeliveryDispatchProofs

-----------------------------------------------------------------------------
(* What a request has read by the time it gets to a statement. *)

Started(th) ==
  /\ th.pc \in {"update_read", "update_write", "cancel_read", "cancel_check",
                "cancel_write"} => th.order_id \in Orders
  /\ th.pc = "update_write" => th.existing \in Order
  /\ th.pc \in {"cancel_check", "cancel_write"} =>
         manual_orders[th.order_id].status # "ABSENT"
  /\ th.pc \in {"driver_assignments", "driver_vehicles", "driver_delete"} =>
         th.driver_id \in Drivers
  /\ th.pc \in {"vehicle_selection", "vehicle_delete"} => th.vehicle_id \in Vehicles

\* Rows of orders are never removed, so what was read stays stored, and so
\* do the orders of outcomes.
StoredInv ==
  /\ \A t \in Threads : Started(threads[t])
  /\ \A u \in outcomes : manual_orders[u.order_id].status # "ABSENT"

ThreadsInv ==
  /\ ThreadsTypeOK
  /\ StoredInv
  /\ OneSheetPerDriverDate
  /\ OneAssignmentPerOrder

-----------------------------------------------------------------------------
(* The statements. *)

\* Only the last statement of a request writes.
LEMMA OnlyLastStatementsWrite ==
  ASSUME NEW t \in Threads, OrderStatements(t) \/ SpecificationStatements(t)
  PROVE  \/ UNCHANGED vars
         \/ UpdateWrite(t)
         \/ CancelWrite(t)
         \/ DeleteDriverWrite(t)
         \/ DeleteVehicleWrite(t)
  BY DEF OrderStatements, SpecificationStatements, BeginUpdate, UpdateRead,
         BeginCancel, CancelRead, CancelCheck, BeginDeleteDriver,
         CheckDriverAssignments, CheckDriverVehicles, BeginDeleteVehicle,
         CheckVehicleSelection

LEMMA ThreadsSteps ==
  ASSUME [ThreadsNext]_allVars
  PROVE  \/ AtomicRequests /\ UNCHANGED threads
         \/ UNCHANGED vars
         \/ \E t \in Threads :
                \/ UpdateWrite(t)
                \/ CancelWrite(t)
                \/ DeleteDriverWrite(t)
                \/ DeleteVehicleWrite(t)
  BY OnlyLastStatementsWrite DEF ThreadsNext, allVars

\* An edit writes a whole row of the right shape, and a cancellation an
\* order that exists.
LEMMA WrittenOrder ==
  ASSUME TypeOK, NEW th \in Thread, Started(th), th.pc = "update_write"
  PROVE  written_order(th) \in Order
<1>1. th.existing \in Order /\ th.patch \in Dates \cup {NoDate}
  BY DEF Started, Thread
<1>2. th.patch # NoDate => th.patch \in Dates
  BY <1>1
<1> QED
  BY <1>1, <1>2 DEF written_order, Order

LEMMA UpdateWritten ==
  ASSUME ThreadsTypeOK, StoredInv, NEW t \in Threads, UpdateWrite(t)
  PROVE  \E o \in Orders :
             /\ manual_orders'[o] \in Order
             /\ manual_orders' = [manual_orders EXCEPT ![o] = manual_orders'[o]]
<1>1. threads[t] \in Thread /\ Started(threads[t])
  BY DEF ThreadsTypeOK, StoredInv
<1>2. threads[t].pc = "update_write" /\ threads[t].order_id \in Orders
  BY <1>1 DEF UpdateWrite, Started
<1>3. written_order(threads[t]) \in Order
  BY <1>1, <1>2, WrittenOrder DEF ThreadsTypeOK
<1> HIDE DEF written_order
<1>4. manual_orders' = [manual_orders EXCEPT ![threads[t].order_id]
                            = written_order(threads[t])]
  BY DEF UpdateWrite
<1>5. manual_orders'[threads[t].order_id] = written_order(threads[t])
  BY <1>2, <1>4 DEF ThreadsTypeOK, TypeOK
<1> QED
  BY <1>2, <1>3, <1>4, <1>5

LEMMA CancelWritten ==
  ASSUME ThreadsTypeOK, StoredInv, NEW t \in Threads, CancelWrite(t)
  PROVE  \E o \in Orders :
             /\ manual_orders[o] \in Order
             /\ manual_orders' = [manual_orders EXCEPT ![o].status = "CANCELLED"]
<1>1. Started(threads[t])
  BY DEF StoredInv
<1>2. /\ threads[t].order_id \in Orders
      /\ manual_orders[threads[t].order_id].status # "ABSENT"
  BY <1>1 DEF CancelWrite, Started
<1>3. manual_orders[threads[t].order_id] \in Order
  BY <1>2, StoredOrder DEF ThreadsTypeOK
<1> QED
  BY <1>2, <1>3 DEF CancelWrite

\* Either way one order is written, and is stored afterwards.
LEMMA OrderWritten ==
  ASSUME ThreadsTypeOK, StoredInv, NEW t \in Threads, UpdateWrite(t) \/ CancelWrite(t)
  PROVE  \E o \in Orders :
             /\ manual_orders'[o] \in Order
             /\ manual_orders' = [manual_orders EXCEPT ![o] = manual_orders'[o]]
<1>1. CASE UpdateWrite(t)
  BY <1>1, UpdateWritten
<1>2. CASE CancelWrite(t)
  <2>1. PICK o \in Orders :
            /\ manual_orders[o] \in Order
            /\ manual_orders' = [manual_orders EXCEPT ![o].status = "CANCELLED"]
    BY <1>2, CancelWritten
  <2>2. manual_orders'[o] = [manual_orders[o] EXCEPT !.status = "CANCELLED"]
    BY <2>1 DEF ThreadsTypeOK, TypeOK
  <2>3. manual_orders'[o] \in Order
    BY <2>1, <2>2 DEF Order
  <2> QED
    BY <2>1, <2>2, <2>3
<1> QED
  BY <1>1, <1>2

-----------------------------------------------------------------------------
(* Rows that were read stay stored. *)

LEMMA AtomicKeepStored ==
  ASSUME TypeOK, AtomicRequests, NEW o \in Orders, manual_orders[o].status # "ABSENT"
  PROVE  manual_orders'[o].status # "ABSENT"
<1>1. CASE UNCHANGED manual_orders
  BY <1>1
<1>2. ASSUME NEW p \in Orders, NEW date \in Dates, CreateOrder(p, date)
      PROVE  manual_orders'[o].status # "ABSENT"
  BY <1>2 DEF CreateOrder, TypeOK
<1>3. ASSUME NEW s \in RunSheetIds, NEW reports \in closeout_submissions(s),
             CloseRunSheet(s, reports)
      PROVE  manual_orders'[o].status # "ABSENT"
  BY <1>3, ReportedOrders
<1> QED
  BY <1>1, <1>2, <1>3
     DEF AtomicRequests, AssignOrder, UnassignOrder, AssignVehicle, ClearVehicle,
         GenerateRunSheet, SaveRunSheet, CancelRunSheet

LEMMA KeepStored ==
  ASSUME ThreadsTypeOK, StoredInv, [ThreadsNext]_allVars, NEW o \in Orders,
         manual_orders[o].status # "ABSENT"
  PROVE  manual_orders'[o].status # "ABSENT"
<1>1. TypeOK
  BY DEF ThreadsTypeOK
<1>2. CASE AtomicRequests
  BY <1>1, <1>2, AtomicKeepStored
<1>3. CASE UNCHANGED manual_orders
  BY <1>3
<1>4. ASSUME NEW t \in Threads, UpdateWrite(t) \/ CancelWrite(t)
      PROVE  manual_orders'[o].status # "ABSENT"
  <2>1. PICK p \in Orders :
            /\ manual_orders'[p] \in Order
            /\ manual_orders' = [manual_orders EXCEPT ![p] = manual_orders'[p]]
    BY <1>4, OrderWritten
  <2> QED
    BY <1>1, <2>1 DEF TypeOK, Order
<1> QED
  BY <1>2, <1>3, <1>4, ThreadsSteps DEF vars, DeleteDriverWrite, DeleteVehicleWrite

LEMMA StepOutcomesStored ==
  ASSUME ThreadsTypeOK, StoredInv, [ThreadsNext]_allVars, NEW u \in outcomes'
  PROVE  manual_orders'[u.order_id].status # "ABSENT"
<1>1. TypeOK /\ \A w \in outcomes : w.order_id \in Orders
  BY DEF ThreadsTypeOK, TypeOK, Outcome
<1>2. CASE u \in outcomes
  BY <1>1, <1>2, KeepStored DEF StoredInv
<1>3. ASSUME NEW s \in RunSheetIds, NEW reports \in closeout_submissions(s),
             CloseRunSheet(s, reports), u \notin outcomes
      PROVE  manual_orders'[u.order_id].status # "ABSENT"
  <2>1. u.order_id \in captured_orders(s)
    <3> DEFINE outcome(o) == [run_sheet_id |-> s, order_id |-> o,
                               outcome |-> reports[o].outcome,
                               next_delivery_date |-> reports[o].next_delivery_date]
    <3>1. outcomes' = outcomes \cup {outcome(o) : o \in captured_orders(s)}
      BY <1>1, <1>3, ReportedOrders DEF CloseRunSheet
    <3>2. \A o : outcome(o).order_id = o
      OBVIOUS
    <3> HIDE DEF outcome
    <3> QED
      BY <1>3, <3>1, <3>2
  <2> QED
    BY <1>1, <1>3, <2>1, ReportedOrders
<1>4. \/ UNCHANGED outcomes
      \/ \E s \in RunSheetIds : \E reports \in closeout_submissions(s) :
             CloseRunSheet(s, reports)
  BY ThreadsSteps
     DEF vars, AtomicRequests, CreateOrder, AssignOrder, UnassignOrder,
         AssignVehicle, ClearVehicle, GenerateRunSheet, SaveRunSheet,
         CancelRunSheet, UpdateWrite, CancelWrite, DeleteDriverWrite,
         DeleteVehicleWrite
<1> QED
  BY <1>2, <1>3, <1>4

-----------------------------------------------------------------------------
(* The threads. *)

\* The state of a thread after a step of its own.
Moves(t, new) ==
  /\ threads' = [threads EXCEPT ![t] = new]
  /\ new \in Thread
  /\ Started(new)

LEMMA IdleThread == Idle \in Thread /\ Started(Idle)
  BY DEF Idle, Thread, Started

LEMMA ReturnMoves ==
  ASSUME NEW t \in Threads, Return(t)
  PROVE  Moves(t, Idle)
  BY IdleThread DEF Return, Moves

LEMMA ContinueMoves ==
  ASSUME ThreadsTypeOK, NEW t \in Threads, NEW pc, Continue(t, pc),
         NEW new, new = [threads[t] EXCEPT !.pc = pc],
         new \in Thread, Started(new)
  PROVE  Moves(t, new)
  BY DEF Continue, Moves, ThreadsTypeOK

\* A step is to a statement for whose checks the request has what it needs.
LEMMA UpdateMoves ==
  ASSUME ThreadsTypeOK, StoredInv, NEW t \in Threads,
         \/ \E o \in Orders, date \in Dates \cup {NoDate} : BeginUpdate(t, o, date)
         \/ UpdateRead(t)
         \/ UpdateWrite(t)
  PROVE  \E new : Moves(t, new)
<1>1. threads[t] \in Thread /\ Started(threads[t]) /\ TypeOK
  BY DEF ThreadsTypeOK, StoredInv
<1>2. ASSUME NEW o \in Orders, NEW date \in Dates \cup {NoDate}, BeginUpdate(t, o, date)
      PROVE  \E new : Moves(t, new)
  <2> DEFINE new == [Idle EXCEPT !.pc = "update_read", !.order_id = o, !.patch = date]
  <2>1. new \in Thread /\ Started(new)
    BY <1>2 DEF Idle, Thread, Started
  <2>2. Moves(t, new)
    BY <1>2, <2>1 DEF BeginUpdate, Moves
  <2> QED
    BY <2>2
<1>3. CASE UpdateRead(t)
  <2>1. threads[t].order_id \in Orders
    BY <1>1, <1>3 DEF UpdateRead, Started
  <2>2. CASE manual_orders[threads[t].order_id].status = "ABSENT"
    BY <1>3, <2>2, ReturnMoves DEF UpdateRead
  <2>3. CASE manual_orders[threads[t].order_id].status # "ABSENT"
    <3> DEFINE order == manual_orders[threads[t].order_id]
               new == [threads[t] EXCEPT !.pc = "update_write", !.existing = order]
    <3>1. order \in Order
      BY <1>1, <2>1, <2>3, StoredOrder
    <3>2. threads' = [threads EXCEPT ![t].pc = "update_write", ![t].existing = order]
      BY <1>3, <2>3 DEF UpdateRead
    <3> HIDE DEF order
    <3>3. new \in Thread /\ Started(new)
      BY <1>1, <2>1, <3>1 DEF Thread, Started
    <3>4. threads' = [threads EXCEPT ![t] = new]
      BY <3>2 DEF ThreadsTypeOK
    <3>5. Moves(t, new)
      BY <3>3, <3>4 DEF Moves
    <3> QED
      BY <3>5
  <2> QED
    BY <2>2, <2>3
<1>4. CASE UpdateWrite(t)
  BY <1>4, ReturnMoves DEF UpdateWrite
<1> QED
  BY <1>2, <1>3, <1>4

LEMMA CancelMoves ==
  ASSUME ThreadsTypeOK, StoredInv, NEW t \in Threads,
         \/ \E o \in Orders : BeginCancel(t, o)
         \/ CancelRead(t)
         \/ CancelCheck(t)
         \/ CancelWrite(t)
  PROVE  \E new : Moves(t, new)
<1>1. threads[t] \in Thread /\ Started(threads[t])
  BY DEF ThreadsTypeOK, StoredInv
<1>2. ASSUME NEW o \in Orders, BeginCancel(t, o) PROVE \E new : Moves(t, new)
  <2> DEFINE new == [Idle EXCEPT !.pc = "cancel_read", !.order_id = o]
  <2>1. new \in Thread /\ Started(new)
    BY DEF Idle, Thread, Started
  <2>2. Moves(t, new)
    BY <1>2, <2>1 DEF BeginCancel, Moves
  <2> QED
    BY <2>2
<1>3. CASE CancelRead(t)
  <2> DEFINE new == [threads[t] EXCEPT !.pc = "cancel_check"]
  <2>1. CASE Return(t)
    BY <2>1, ReturnMoves
  <2>2. CASE /\ manual_orders[threads[t].order_id].status # "ABSENT"
             /\ Continue(t, "cancel_check")
    <3>1. new \in Thread /\ Started(new)
      BY <1>1, <1>3, <2>2 DEF CancelRead, Thread, Started
    <3>2. Moves(t, new)
      BY <2>2, <3>1, ContinueMoves
    <3> QED
      BY <3>2
  <2> QED
    BY <1>3, <2>1, <2>2 DEF CancelRead
<1>4. CASE CancelCheck(t)
  <2> DEFINE new == [threads[t] EXCEPT !.pc = "cancel_write"]
  <2>1. CASE Return(t)
    BY <2>1, ReturnMoves
  <2>2. CASE Continue(t, "cancel_write")
    <3>1. new \in Thread /\ Started(new)
      BY <1>1, <1>4 DEF CancelCheck, Thread, Started
    <3>2. Moves(t, new)
      BY <2>2, <3>1, ContinueMoves
    <3> QED
      BY <3>2
  <2> QED
    BY <1>4, <2>1, <2>2 DEF CancelCheck
<1>5. CASE CancelWrite(t)
  BY <1>5, ReturnMoves DEF CancelWrite
<1> QED
  BY <1>2, <1>3, <1>4, <1>5

LEMMA SpecificationMoves ==
  ASSUME ThreadsTypeOK, StoredInv, NEW t \in Threads, SpecificationStatements(t)
  PROVE  \E new : Moves(t, new)
<1>1. threads[t] \in Thread /\ Started(threads[t])
  BY DEF ThreadsTypeOK, StoredInv
<1>2. CASE Return(t)
  BY <1>2, ReturnMoves
<1>3. ASSUME NEW pc, Continue(t, pc),
             \/ /\ pc \in {"driver_vehicles", "driver_delete"}
                /\ threads[t].pc \in {"driver_assignments", "driver_vehicles"}
             \/ pc = "vehicle_delete" /\ threads[t].pc = "vehicle_selection"
      PROVE  \E new : Moves(t, new)
  <2> DEFINE new == [threads[t] EXCEPT !.pc = pc]
  <2>1. new \in Thread /\ Started(new)
    BY <1>1, <1>3 DEF Thread, Started
  <2>2. Moves(t, new)
    BY <1>3, <2>1, ContinueMoves
  <2> QED
    BY <2>2
<1>4. ASSUME NEW d \in Drivers, BeginDeleteDriver(t, d) PROVE \E new : Moves(t, new)
  <2> DEFINE new == [Idle EXCEPT !.pc = "driver_assignments", !.driver_id = d]
  <2>1. new \in Thread /\ Started(new)
    BY DEF Idle, Thread, Started
  <2>2. Moves(t, new)
    BY <1>4, <2>1 DEF BeginDeleteDriver, Moves
  <2> QED
    BY <2>2
<1>5. ASSUME NEW v \in Vehicles, BeginDeleteVehicle(t, v) PROVE \E new : Moves(t, new)
  <2> DEFINE new == [Idle EXCEPT !.pc = "vehicle_selection", !.vehicle_id = v]
  <2>1. new \in Thread /\ Started(new)
    BY DEF Idle, Thread, Started
  <2>2. Moves(t, new)
    BY <1>5, <2>1 DEF BeginDeleteVehicle, Moves
  <2> QED
    BY <2>2
<1>6. CASE CheckDriverAssignments(t)
  BY <1>2, <1>3, <1>6 DEF CheckDriverAssignments
<1>7. CASE CheckDriverVehicles(t)
  BY <1>2, <1>3, <1>7 DEF CheckDriverVehicles
<1>8. CASE CheckVehicleSelection(t)
  BY <1>2, <1>3, <1>8 DEF CheckVehicleSelection
<1>9. CASE DeleteDriverWrite(t) \/ DeleteVehicleWrite(t)
  BY <1>2, <1>9 DEF DeleteDriverWrite, DeleteVehicleWrite
<1> QED
  BY <1>4, <1>5, <1>6, <1>7, <1>8, <1>9 DEF SpecificationStatements

LEMMA ThreadMoves ==
  ASSUME ThreadsTypeOK, StoredInv, [ThreadsNext]_allVars
  PROVE  UNCHANGED threads \/ \E t \in Threads, new \in Thread : Moves(t, new)
<1>1. ASSUME NEW t \in Threads, OrderStatements(t) \/ SpecificationStatements(t)
      PROVE  \E new : Moves(t, new)
  BY <1>1, UpdateMoves, CancelMoves, SpecificationMoves DEF OrderStatements
<1> QED
  BY <1>1 DEF ThreadsNext, allVars, Moves

LEMMA StepStoredInv ==
  ASSUME ThreadsTypeOK, StoredInv, [ThreadsNext]_allVars
  PROVE  StoredInv'
<1>1. ASSUME NEW th, Started(th) PROVE Started(th)'
  BY <1>1, KeepStored DEF Started
<1>2. ASSUME NEW p \in Threads PROVE Started(threads[p])'
  <2>1. CASE threads'[p] = threads[p]
    BY <1>1, <2>1 DEF StoredInv, Started
  <2>2. ASSUME NEW t \in Threads, NEW new \in Thread, Moves(t, new), t = p
        PROVE  Started(threads[p])'
    <3>1. threads'[p] = new /\ Started(new)
      BY <2>2 DEF Moves, ThreadsTypeOK
    <3> QED
      BY <1>1, <3>1 DEF Started
  <2>3. ASSUME NEW t \in Threads, NEW new \in Thread, Moves(t, new), t # p
        PROVE  threads'[p] = threads[p]
    BY <2>3 DEF Moves, ThreadsTypeOK
  <2> QED
    BY <2>1, <2>2, <2>3, ThreadMoves
<1> QED
  BY <1>2, StepOutcomesStored DEF StoredInv

-----------------------------------------------------------------------------
(* The shape of the tables and of the threads. *)

LEMMA StepThreadsType ==
  ASSUME ThreadsTypeOK, StoredInv, [ThreadsNext]_allVars
  PROVE  ThreadsTypeOK'
<1>1. TypeOK
  BY DEF ThreadsTypeOK
<1>2. ASSUME NEW t \in Threads, UpdateWrite(t) \/ CancelWrite(t) PROVE TypeOK'
  <2>1. PICK o \in Orders :
            /\ manual_orders'[o] \in Order
            /\ manual_orders' = [manual_orders EXCEPT ![o] = manual_orders'[o]]
    BY <1>2, OrderWritten
  <2>2. UNCHANGED <<assignments, vehicle_assignments, run_sheets, outcomes,
                    deleted_drivers, deleted_vehicles>>
    BY <1>2 DEF UpdateWrite, CancelWrite
  <2>3. manual_orders' \in [Orders -> Order \cup {NoOrder}]
    BY <1>1, <2>1 DEF TypeOK
  <2> QED
    BY <1>1, <2>2, <2>3 DEF TypeOK
<1>3. ASSUME NEW t \in Threads, DeleteDriverWrite(t) \/ DeleteVehicleWrite(t)
      PROVE  TypeOK'
  <2>1. Started(threads[t])
    BY DEF StoredInv
  <2> QED
    BY <1>1, <1>3, <2>1 DEF DeleteDriverWrite, DeleteVehicleWrite, Started, TypeOK
<1>4. TypeOK'
  BY <1>1, <1>2, <1>3, AtomicTypeOK, StutterTypeOK, ThreadsSteps
<1>5. threads' \in [Threads -> Thread]
  BY ThreadMoves DEF Moves, ThreadsTypeOK
<1> QED
  BY <1>4, <1>5 DEF ThreadsTypeOK

\* Sheets and assignments are written by transactions only.
LEMMA StatementsKeepSheets ==
  ASSUME [ThreadsNext]_allVars
  PROVE  AtomicRequests \/ UNCHANGED <<run_sheets, assignments, outcomes>>
  BY ThreadsSteps DEF vars, UpdateWrite, CancelWrite, DeleteDriverWrite,
                      DeleteVehicleWrite

LEMMA InitThreadsInv == ThreadsInit => ThreadsInv
<1> SUFFICES ASSUME ThreadsInit PROVE ThreadsInv
  OBVIOUS
<1>1. Init /\ threads = [t \in Threads |-> Idle]
  BY DEF ThreadsInit
<1>2. ThreadsTypeOK
  BY <1>1, InitTypeOK, IdleThread DEF ThreadsTypeOK
<1>3. StoredInv
  BY <1>1, IdleThread DEF Init, StoredInv
<1>4. OneSheetPerDriverDate /\ OneAssignmentPerOrder
  BY <1>1 DEF Init, OneSheetPerDriverDate, OneAssignmentPerOrder, Stored, NoRunSheet
<1> QED
  BY <1>2, <1>3, <1>4 DEF ThreadsInv

LEMMA StepThreadsInv == ThreadsInv /\ [ThreadsNext]_allVars => ThreadsInv'
<1> SUFFICES ASSUME ThreadsInv, [ThreadsNext]_allVars PROVE ThreadsInv'
  OBVIOUS
<1>1. /\ ThreadsTypeOK /\ TypeOK /\ StoredInv
      /\ OneSheetPerDriverDate /\ OneAssignmentPerOrder
  BY DEF ThreadsInv, ThreadsTypeOK
<1>2. ThreadsTypeOK' /\ StoredInv'
  BY <1>1, StepThreadsType, StepStoredInv
<1>3. OneSheetPerDriverDate'
  BY <1>1, AtomicOneSheet, SameSheetsOneSheet, StatementsKeepSheets
<1>4. OneAssignmentPerOrder'
  BY <1>1, AtomicOnce, FewerAssignmentsOnce, StatementsKeepSheets
<1> QED
  BY <1>2, <1>3, <1>4 DEF ThreadsInv

LEMMA ThreadsInvariant == ThreadsSpec => []ThreadsInv
  BY InitThreadsInv, StepThreadsInv, PTL DEF ThreadsSpec

\* However the statements of requests interleave, the tables keep the shape
\* of their schema, and a thread writes rows it has read.
THEOREM ThreadsTypeCorrect == ThreadsSpec => []ThreadsTypeOK
<1>1. ThreadsInv => ThreadsTypeOK
  BY DEF ThreadsInv
<1> QED
  BY <1>1, ThreadsInvariant, PTL

\* Two promises survive every interleaving: a driver has one sheet per date,
\* and an order one assignment.
THEOREM ThreadsKeepKeys ==
  ThreadsSpec => [](OneSheetPerDriverDate /\ OneAssignmentPerOrder)
<1>1. ThreadsInv => OneSheetPerDriverDate /\ OneAssignmentPerOrder
  BY DEF ThreadsInv
<1> QED
  BY <1>1, ThreadsInvariant, PTL

-----------------------------------------------------------------------------
(* Which statements break what. *)

LEMMA StepIntact ==
  ASSUME ThreadsInv, [ThreadsNext]_allVars, CapturedOrdersIntact
  PROVE  CapturedOrdersIntact' \/ \E t \in Threads : UpdateWrite(t) \/ CancelWrite(t)
<1>1. ReservationInv
  BY DEF ThreadsInv, ThreadsTypeOK, ReservationInv
<1>2. CASE AtomicRequests
  BY <1>1, <1>2, AtomicIntact
<1>3. CASE UNCHANGED <<manual_orders, assignments, run_sheets>>
  BY <1>3, OtherTablesIntact
<1> QED
  BY <1>2, <1>3, ThreadsSteps DEF vars, DeleteDriverWrite, DeleteVehicleWrite

\* A transaction brings no delivered order back: it closes ACTIVE orders,
\* and creates orders that were never stored.
LEMMA CloseStaysOut ==
  ASSUME TypeOK, TypeOK', DeliveredStaysOut, NEW s \in RunSheetIds,
         NEW reports \in closeout_submissions(s), CloseRunSheet(s, reports)
  PROVE  DeliveredStaysOut'
<1> DEFINE outcome(o) == [run_sheet_id |-> s, order_id |-> o,
                           outcome |-> reports[o].outcome,
                           next_delivery_date |-> reports[o].next_delivery_date]
<1>1. outcomes' = outcomes \cup {outcome(o) : o \in captured_orders(s)}
  BY ReportedOrders DEF CloseRunSheet
<1>2. \A o : outcome(o).order_id = o /\ outcome(o).outcome = reports[o].outcome
  OBVIOUS
<1> HIDE DEF outcome
<1>3. ASSUME NEW u \in outcomes', u.outcome = "DELIVERED"
      PROVE  ~active_order(u.order_id)'
  <2>1. CASE u \in outcomes
    <3>1. manual_orders[u.order_id].status # "ACTIVE" /\ u.order_id \in Orders
      BY <1>3, <2>1 DEF DeliveredStaysOut, active_order, TypeOK, Outcome
    <3>2. u.order_id \notin captured_orders(s)
      BY <3>1, ReportedOrders
    <3>3. manual_orders'[u.order_id] = manual_orders[u.order_id]
      BY <3>1, <3>2, ReportedOrders
    <3> QED
      BY <3>1, <3>3 DEF active_order
  <2>2. ASSUME NEW o \in captured_orders(s), u = outcome(o)
        PROVE  ~active_order(u.order_id)'
    <3>1. u.order_id = o /\ reports[o].outcome = "DELIVERED"
      BY <1>2, <1>3, <2>2
    <3>2. manual_orders'[o].status = "FINALIZED"
      BY <3>1, ReportedOrders
    <3> QED
      BY <3>1, <3>2 DEF active_order
  <2> QED
    BY <1>1, <2>1, <2>2
<1> QED
  BY <1>3, CloseDeliversOnce DEF DeliveredStaysOut

LEMMA AtomicStaysOut ==
  ASSUME ThreadsInv, ThreadsTypeOK', AtomicRequests, DeliveredStaysOut
  PROVE  DeliveredStaysOut'
<1>1. TypeOK /\ TypeOK' /\ StoredInv
  BY DEF ThreadsInv, ThreadsTypeOK
<1>2. CASE UNCHANGED <<manual_orders, outcomes>>
  BY <1>2 DEF DeliveredStaysOut, active_order
<1>3. ASSUME NEW o \in Orders, NEW date \in Dates, CreateOrder(o, date)
      PROVE  DeliveredStaysOut'
  <2>1. UNCHANGED outcomes /\ \A u \in outcomes : u.order_id \in Orders \ {o}
    BY <1>1, <1>3 DEF CreateOrder, StoredInv, TypeOK, Outcome
  <2>2. \A p \in Orders \ {o} : manual_orders'[p] = manual_orders[p]
    BY <1>1, <1>3 DEF CreateOrder, TypeOK
  <2> QED
    BY <2>1, <2>2 DEF DeliveredStaysOut, active_order
<1>4. ASSUME NEW s \in RunSheetIds, NEW reports \in closeout_submissions(s),
             CloseRunSheet(s, reports)
      PROVE  DeliveredStaysOut'
  BY <1>1, <1>4, CloseStaysOut
<1> QED
  BY <1>2, <1>3, <1>4
     DEF AtomicRequests, AssignOrder, UnassignOrder, AssignVehicle, ClearVehicle,
         GenerateRunSheet, SaveRunSheet, CancelRunSheet

LEMMA StepStaysOut ==
  ASSUME ThreadsInv, ThreadsTypeOK', [ThreadsNext]_allVars, DeliveredStaysOut
  PROVE  DeliveredStaysOut' \/ \E t \in Threads : UpdateWrite(t)
<1>1. CASE AtomicRequests
  BY <1>1, AtomicStaysOut
<1>2. CASE UNCHANGED <<manual_orders, outcomes>>
  BY <1>2 DEF DeliveredStaysOut, active_order
<1>3. ASSUME NEW t \in Threads, CancelWrite(t) PROVE DeliveredStaysOut'
  <2>1. PICK o \in Orders :
            manual_orders' = [manual_orders EXCEPT ![o].status = "CANCELLED"]
    BY <1>3, CancelWritten DEF ThreadsInv
  <2>2. TypeOK
    BY DEF ThreadsInv, ThreadsTypeOK
  <2>3. \A p \in Orders : active_order(p)' => active_order(p)
    BY <2>1, <2>2 DEF active_order, TypeOK, Order, NoOrder
  <2>4. UNCHANGED outcomes /\ \A u \in outcomes : u.order_id \in Orders
    BY <1>3, <2>2 DEF CancelWrite, TypeOK, Outcome
  <2> QED
    BY <2>3, <2>4 DEF DeliveredStaysOut
<1> QED
  BY <1>1, <1>2, <1>3, ThreadsSteps DEF vars, DeleteDriverWrite, DeleteVehicleWrite

\* A transaction assigns orders and vehicles to drivers that are not
\* deleted, and no deleted vehicle.
LEMMA AtomicIdle ==
  ASSUME TypeOK, DeletedAreIdle, AtomicRequests
  PROVE  DeletedAreIdle'
<1>1. ASSUME NEW o \in Orders, NEW d \in Drivers, NEW trip \in Trips,
             AssignOrder(o, d, trip)
      PROVE  DeletedAreIdle'
  <2>1. /\ \A a \in list_assignments_for_task(o)' : a.driver_id = d
        /\ \A p \in Orders \ {o} :
               list_assignments_for_task(p)' = list_assignments_for_task(p)
    BY <1>1, AssignedToDriver
  <2>2. PICK new : /\ \A a \in new : a.task_id = o
                   /\ assignments' =
                         (assignments \ list_assignments_for_task(o)) \cup new
    BY <1>1, UpsertShape DEF AssignOrder
  <2>3. \A a \in assignments' : a \in assignments \/ a.driver_id = d
    BY <2>1, <2>2 DEF list_assignments_for_task
  <2>4. /\ d \notin deleted_drivers
        /\ UNCHANGED <<vehicle_assignments, deleted_drivers, deleted_vehicles>>
    BY <1>1 DEF AssignOrder, validate_driver_exists
  <2> QED
    BY <2>3, <2>4 DEF DeletedAreIdle
<1>2. ASSUME NEW d \in Drivers, NEW date \in Dates, NEW v \in Vehicles,
             AssignVehicle(date, d, v)
      PROVE  DeletedAreIdle'
  <2>1. PICK new :
            /\ new.driver_id = d /\ new.vehicle_id = v
            /\ vehicle_assignments' =
                  (vehicle_assignments \ vehicle_rows(date, d)) \cup {new}
    BY <1>2, UpsertVehicleShape DEF AssignVehicle
  <2>2. /\ d \notin deleted_drivers /\ v \notin deleted_vehicles
        /\ UNCHANGED <<assignments, deleted_drivers, deleted_vehicles>>
    BY <1>2 DEF AssignVehicle, validate_driver_exists, validate_vehicle_exists
  <2> QED
    BY <2>1, <2>2 DEF DeletedAreIdle
<1>3. CASE /\ assignments' \subseteq assignments
           /\ vehicle_assignments' \subseteq vehicle_assignments
           /\ UNCHANGED <<deleted_drivers, deleted_vehicles>>
  BY <1>3 DEF DeletedAreIdle
<1> QED
  BY <1>1, <1>2, <1>3
     DEF AtomicRequests, CreateOrder, UnassignOrder, remove_assignments_for_task,
         ClearVehicle, GenerateRunSheet, SaveRunSheet, CancelRunSheet, CloseRunSheet

LEMMA StepIdle ==
  ASSUME ThreadsInv, [ThreadsNext]_allVars, DeletedAreIdle
  PROVE  \/ DeletedAreIdle'
         \/ \E t \in Threads : DeleteDriverWrite(t) \/ DeleteVehicleWrite(t)
<1>1. TypeOK
  BY DEF ThreadsInv, ThreadsTypeOK
<1>2. CASE AtomicRequests
  BY <1>1, <1>2, AtomicIdle
<1>3. CASE UNCHANGED <<assignments, vehicle_assignments, deleted_drivers, deleted_vehicles>>
  BY <1>3 DEF DeletedAreIdle
<1> QED
  BY <1>2, <1>3, ThreadsSteps DEF vars, UpdateWrite, CancelWrite

\* Whatever the interleaving, no transaction breaks a promise: captured
\* orders are spoiled by late edits and cancellations, delivered orders come
\* back by late edits, and deleted drivers and vehicles are in use by late
\* deletions, and by nothing else.
THEOREM LateStatementsOnly == ThreadsSpec => OnlyLateStatementsBreak
<1>1. ThreadsInv /\ ThreadsInv' /\ [ThreadsNext]_allVars =>
        /\ [(CapturedOrdersIntact /\ ~CapturedOrdersIntact') =>
               \E t \in Threads : UpdateWrite(t) \/ CancelWrite(t)]_allVars
        /\ [(DeliveredStaysOut /\ ~DeliveredStaysOut') =>
               \E t \in Threads : UpdateWrite(t)]_allVars
        /\ [(DeletedAreIdle /\ ~DeletedAreIdle') =>
               \E t \in Threads : DeleteDriverWrite(t) \/ DeleteVehicleWrite(t)]_allVars
  BY StepIntact, StepStaysOut, StepIdle DEF ThreadsInv
<1> QED
  BY <1>1, ThreadsInvariant, PTL
     DEF ThreadsSpec, OnlyLateStatementsBreak, OnlyLateOrderWritesSpoil,
         OnlyLateUpdatesRevive, OnlyLateDeletesOrphan

-----------------------------------------------------------------------------
(* DeliveryLogbook. *)

(* What a transaction changes is what its entries are about. *)

\* Calls that read again after the transaction.
Assigning == {"assign_order", "assign_vehicle"}
\* Calls whose entry says that nothing is left.
Removing == {"unassign_order", "clear_vehicle", "cancel"}
\* Calls that do not read before the transaction.
Blind == {"generate", "save", "close"}

\* The rows behind a snapshot.
LEMMA SnapshotKept ==
    ASSUME NEW x \in Entities,
           x \in Orders => list_assignments_for_task(x)' = list_assignments_for_task(x),
           x \in VehicleKeys => vehicle_rows(x[1], x[2])' = vehicle_rows(x[1], x[2]),
           x \in RunSheetIds => run_sheets'[x] = run_sheets[x]
    PROVE  snapshot(x)' = snapshot(x)
<1>1. CASE x \in Orders
    BY <1>1, EntityAssumption DEF snapshot
<1>2. CASE x \in VehicleKeys
    BY <1>2, EntityAssumption DEF snapshot
<1>3. CASE x \in RunSheetIds
    BY <1>3, EntityAssumption DEF snapshot, Stored
<1> QED BY <1>1, <1>2, <1>3 DEF Entities

\* Everything but e keeps its snapshot.
OthersKept(S) == \A x \in Entities \ S : snapshot(x)' = snapshot(x)

\* Assigning an order changes what is told of this order only.
LEMMA AssignOrderEntries ==
    ASSUME TypeOK, NEW o \in Orders, NEW d \in Drivers, NEW trip \in Trips,
           AssignOrder(o, d, trip)
    PROVE  OthersKept({o})
<1>1. PICK new : /\ \A a \in new : a.task_id = o
                 /\ assignments' =
                       (assignments \ list_assignments_for_task(o)) \cup new
    BY UpsertShape DEF AssignOrder
<1>2. \A p \in Orders \ {o} :
          list_assignments_for_task(p)' = list_assignments_for_task(p)
    BY <1>1 DEF list_assignments_for_task
<1>3. UNCHANGED <<vehicle_assignments, run_sheets>>
    BY DEF AssignOrder
<1> QED BY <1>2, <1>3, SnapshotKept DEF OthersKept, vehicle_rows

\* So does unassigning it, and nothing is left.
LEMMA UnassignOrderEntries ==
    ASSUME TypeOK, NEW o \in Orders, UnassignOrder(o)
    PROVE  OthersKept({o}) /\ snapshot(o)' = None
<1>1. \A p \in Orders \ {o} :
          list_assignments_for_task(p)' = list_assignments_for_task(p)
    BY DEF UnassignOrder, remove_assignments_for_task, list_assignments_for_task
<1>2. list_assignments_for_task(o)' = {}
    BY DEF UnassignOrder, remove_assignments_for_task, list_assignments_for_task
<1>3. UNCHANGED <<vehicle_assignments, run_sheets>>
    BY DEF UnassignOrder
<1>4. snapshot(o)' = None
    BY <1>2, EntityAssumption DEF snapshot, the
<1> QED BY <1>1, <1>3, <1>4, SnapshotKept DEF OthersKept, vehicle_rows

\* The key of a vehicle selection.
LEMMA KeyParts ==
    ASSUME NEW x \in VehicleKeys
    PROVE  x[1] \in Dates /\ x[2] \in Drivers /\ x = <<x[1], x[2]>>
    BY DEF VehicleKeys

\* Selecting a vehicle changes what is told of the driver and date only.
LEMMA AssignVehicleEntries ==
    ASSUME TypeOK, NEW e \in VehicleKeys, NEW v \in Vehicles,
           AssignVehicle(e[1], e[2], v)
    PROVE  OthersKept({e})
<1>1. PICK new : /\ new.delivery_date = e[1] /\ new.driver_id = e[2]
                 /\ vehicle_assignments' =
                       (vehicle_assignments \ vehicle_rows(e[1], e[2])) \cup {new}
    BY UpsertVehicleShape, KeyParts DEF AssignVehicle
<1>2. \A x \in VehicleKeys \ {e} :
          vehicle_rows(x[1], x[2])' = vehicle_rows(x[1], x[2])
    <2> SUFFICES ASSUME NEW x \in VehicleKeys \ {e}
                 PROVE  vehicle_rows(x[1], x[2])' = vehicle_rows(x[1], x[2])
        OBVIOUS
    <2>1. x[1] # e[1] \/ x[2] # e[2]
        BY KeyParts
    <2> QED BY <1>1, <2>1 DEF vehicle_rows
<1>3. UNCHANGED <<assignments, run_sheets>>
    BY DEF AssignVehicle
<1> QED BY <1>2, <1>3, SnapshotKept DEF OthersKept, list_assignments_for_task

\* So does clearing it, and nothing is left.
LEMMA ClearVehicleEntries ==
    ASSUME TypeOK, NEW e \in VehicleKeys, ClearVehicle(e[1], e[2])
    PROVE  OthersKept({e}) /\ snapshot(e)' = None
<1>1. vehicle_assignments' = vehicle_assignments \ vehicle_rows(e[1], e[2])
      /\ UNCHANGED <<assignments, run_sheets>>
    BY DEF ClearVehicle
<1>2. \A x \in VehicleKeys \ {e} :
          vehicle_rows(x[1], x[2])' = vehicle_rows(x[1], x[2])
    <2> SUFFICES ASSUME NEW x \in VehicleKeys \ {e}
                 PROVE  vehicle_rows(x[1], x[2])' = vehicle_rows(x[1], x[2])
        OBVIOUS
    <2>1. x[1] # e[1] \/ x[2] # e[2]
        BY KeyParts
    <2> QED BY <1>1, <2>1 DEF vehicle_rows
<1>3. vehicle_rows(e[1], e[2])' = {}
    BY <1>1 DEF vehicle_rows
<1>4. snapshot(e)' = None
    BY <1>3, EntityAssumption DEF snapshot, the
<1> QED BY <1>1, <1>2, <1>4, SnapshotKept DEF OthersKept, list_assignments_for_task

\* A sheet's snapshot is told by its two status columns.
LEMMA SheetEntries ==
    ASSUME TypeOK, OnlySavedAreClosed, NEW s \in RunSheetIds,
           \/ \E date \in Dates, d \in Drivers : GenerateRunSheet(s, date, d)
           \/ SaveRunSheet(s) \/ CancelRunSheet(s)
    PROVE  /\ OthersKept({s})
           /\ (\E date \in Dates, d \in Drivers : GenerateRunSheet(s, date, d))
                  => snapshot(s)' = "GENERATED"
           /\ SaveRunSheet(s) => snapshot(s)' = "SAVED"
           /\ CancelRunSheet(s) => snapshot(s)' = None
<1>1. UNCHANGED <<assignments, vehicle_assignments>>
    BY DEF GenerateRunSheet, SaveRunSheet, CancelRunSheet
<1>2. \A t \in RunSheetIds \ {s} : run_sheets'[t] = run_sheets[t]
    BY GeneratedSheet, SavedSheet, CancelledSheet
<1>3. OthersKept({s})
    BY <1>1, <1>2, SnapshotKept DEF OthersKept, list_assignments_for_task, vehicle_rows
<1>4. ASSUME NEW date \in Dates, NEW d \in Drivers, GenerateRunSheet(s, date, d)
      PROVE  snapshot(s)' = "GENERATED"
    <2>1. /\ run_sheets'[s].status = "GENERATED"
          /\ run_sheets'[s].execution_status = "OPEN"
        BY <1>4, GeneratedSheet
    <2> QED BY <2>1, EntityAssumption DEF snapshot, Stored
<1>5. ASSUME SaveRunSheet(s) PROVE snapshot(s)' = "SAVED"
    <2>1. /\ run_sheets'[s].status = "SAVED"
          /\ run_sheets'[s].execution_status = "OPEN"
        BY <1>5, SavedSheet DEF OnlySavedAreClosed
    <2> QED BY <2>1, EntityAssumption DEF snapshot, Stored
<1>6. ASSUME CancelRunSheet(s) PROVE snapshot(s)' = None
    <2>1. run_sheets'[s] = NoRunSheet
        BY <1>6, CancelledSheet
    <2>2. /\ run_sheets'[s].status = "ABSENT"
          /\ run_sheets'[s].execution_status = "OPEN"
        BY <2>1 DEF NoRunSheet
    <2> QED BY <2>2, EntityAssumption DEF snapshot, Stored
<1> QED BY <1>3, <1>4, <1>5, <1>6

\* Closing a sheet changes what is told of the sheet and of the orders it
\* captured, and leaves what its entries will say.
LEMMA CloseEntries ==
    ASSUME TypeOK, NEW s \in RunSheetIds,
           NEW reports \in closeout_submissions(s), CloseRunSheet(s, reports)
    PROVE  /\ OthersKept({s} \cup captured_orders(s))
           /\ snapshot(s)' = "CLOSED"
           /\ captured_orders(s) \subseteq Orders
           /\ \A o \in captured_orders(s) : snapshot(o)' = None
<1>1. DOMAIN reports = captured_orders(s)
    BY DEF closeout_submissions
<1>2. /\ assignments' = {a \in assignments : a.task_id \notin captured_orders(s)}
      /\ UNCHANGED vehicle_assignments
      /\ run_sheets' = [run_sheets EXCEPT ![s].execution_status = "CLOSED"]
      /\ run_sheets[s].status = "SAVED"
    BY <1>1 DEF CloseRunSheet
<1>3. run_sheets[s] \in RunSheet
    BY <1>2, StoredSheet DEF Stored
<1>4. captured_orders(s) \subseteq Orders
    BY <1>3 DEF captured_orders, RunSheet, RunSheetRow
<1>5. /\ run_sheets'[s].status = "SAVED"
      /\ run_sheets'[s].execution_status = "CLOSED"
      /\ \A t \in RunSheetIds \ {s} : run_sheets'[t] = run_sheets[t]
    BY <1>2, <1>3 DEF TypeOK, RunSheet
<1>6. \A o \in Orders : list_assignments_for_task(o)' =
          IF o \in captured_orders(s) THEN {} ELSE list_assignments_for_task(o)
    BY <1>2 DEF list_assignments_for_task
<1>7. OthersKept({s} \cup captured_orders(s))
    BY <1>2, <1>5, <1>6, SnapshotKept DEF OthersKept, vehicle_rows
<1>8. snapshot(s)' = "CLOSED"
    BY <1>5, EntityAssumption DEF snapshot, Stored
<1>9. \A o \in captured_orders(s) : snapshot(o)' = None
    BY <1>4, <1>6, EntityAssumption DEF snapshot, the
<1> QED BY <1>4, <1>7, <1>8, <1>9

\* Edits and new orders change nothing that entries tell.
LEMMA OrderRequestEntries ==
    ASSUME OrderRequest
    PROVE  OthersKept({})
<1>1. UNCHANGED <<assignments, vehicle_assignments, run_sheets>>
    BY DEF OrderRequest, CreateOrder, UpdateOrder
<1> QED BY <1>1, SnapshotKept DEF OthersKept, list_assignments_for_task, vehicle_rows

\* A transaction changes nothing that its entries are not about, and unless
\* the handler reads again, they will say what it leaves.
LEMMA TransactionEntries ==
    ASSUME TypeOK, OnlySavedAreClosed, NEW op \in Operations,
           NEW e \in entity_kind(op), Transaction(op, e)
    PROVE  /\ AtomicRequests
           /\ OthersKept(recorded(op, e))
           /\ recorded(op, e) \subseteq {e} \cup (IF op = "close" THEN Orders ELSE {})
           /\ e \in recorded(op, e) /\ recorded(op, e) \subseteq Entities
           /\ DOMAIN returned(op, e) = recorded(op, e)
           /\ op \notin Assigning =>
                  \A x \in recorded(op, e) : returned(op, e)[x] = snapshot(x)'
           /\ op \in Removing => returned(op, e)[e] = None
<1>1. e \in Entities
    BY DEF Operations, entity_kind, Entities
<1>2. DOMAIN returned(op, e) = recorded(op, e)
    BY DEF returned
<1>3. CASE op = "assign_order"
    <2>1. e \in Orders /\ recorded(op, e) = {e}
        BY <1>3 DEF entity_kind, recorded
    <2>2. PICK d \in Drivers, trip \in Trips : AssignOrder(e, d, trip)
        BY <1>3 DEF Transaction
    <2> QED BY <1>1, <1>2, <1>3, <2>1, <2>2, AssignOrderEntries
            DEF AtomicRequests, Assigning, Removing
<1>4. CASE op = "unassign_order"
    <2>1. e \in Orders /\ recorded(op, e) = {e} /\ returned(op, e) = [x \in {e} |-> None]
        BY <1>4 DEF entity_kind, recorded, returned
    <2>2. UnassignOrder(e)
        BY <1>4 DEF Transaction
    <2> QED BY <1>1, <1>2, <1>4, <2>1, <2>2, UnassignOrderEntries DEF AtomicRequests
<1>5. CASE op = "assign_vehicle"
    <2>1. e \in VehicleKeys /\ recorded(op, e) = {e}
        BY <1>5 DEF entity_kind, recorded
    <2>2. PICK v \in Vehicles : AssignVehicle(e[1], e[2], v)
        BY <1>5 DEF Transaction
    <2>3. OthersKept({e})
        BY <2>1, <2>2, AssignVehicleEntries
    <2>4. AtomicRequests
        BY <2>1, <2>2, KeyParts DEF AtomicRequests
    <2> QED BY <1>1, <1>2, <1>5, <2>1, <2>3, <2>4 DEF Assigning, Removing
<1>6. CASE op = "clear_vehicle"
    <2>1. e \in VehicleKeys /\ recorded(op, e) = {e}
          /\ returned(op, e) = [x \in {e} |-> None]
        BY <1>6 DEF entity_kind, recorded, returned
    <2>2. ClearVehicle(e[1], e[2])
        BY <1>6 DEF Transaction
    <2>3. OthersKept({e}) /\ snapshot(e)' = None
        BY <2>1, <2>2, ClearVehicleEntries
    <2>4. AtomicRequests
        BY <2>1, <2>2, KeyParts DEF AtomicRequests
    <2> QED BY <1>1, <1>2, <1>6, <2>1, <2>3, <2>4
<1>7. CASE op = "generate"
    <2>1. e \in RunSheetIds /\ recorded(op, e) = {e}
          /\ returned(op, e) = [x \in {e} |-> "GENERATED"]
        BY <1>7 DEF entity_kind, recorded, returned
    <2>2. PICK date \in Dates, d \in Drivers : GenerateRunSheet(e, date, d)
        BY <1>7 DEF Transaction
    <2>3. OthersKept({e}) /\ snapshot(e)' = "GENERATED"
        BY <2>1, <2>2, SheetEntries
    <2>4. AtomicRequests
        BY <2>1, <2>2 DEF AtomicRequests
    <2> QED BY <1>1, <1>2, <1>7, <2>1, <2>3, <2>4 DEF Removing
<1>8. CASE op = "save"
    <2>1. e \in RunSheetIds /\ recorded(op, e) = {e}
          /\ returned(op, e) = [x \in {e} |-> "SAVED"]
        BY <1>8 DEF entity_kind, recorded, returned
    <2>2. SaveRunSheet(e)
        BY <1>8 DEF Transaction
    <2>3. OthersKept({e}) /\ snapshot(e)' = "SAVED"
        BY <2>1, <2>2, SheetEntries
    <2>4. AtomicRequests
        BY <2>1, <2>2 DEF AtomicRequests
    <2> QED BY <1>1, <1>2, <1>8, <2>1, <2>3, <2>4 DEF Removing
<1>9. CASE op = "cancel"
    <2>1. e \in RunSheetIds /\ recorded(op, e) = {e}
          /\ returned(op, e) = [x \in {e} |-> None]
        BY <1>9 DEF entity_kind, recorded, returned
    <2>2. CancelRunSheet(e)
        BY <1>9 DEF Transaction
    <2>3. OthersKept({e}) /\ snapshot(e)' = None
        BY <2>1, <2>2, SheetEntries
    <2>4. AtomicRequests
        BY <2>1, <2>2 DEF AtomicRequests
    <2> QED BY <1>1, <1>2, <1>9, <2>1, <2>3, <2>4
<1>10. CASE op = "close"
    <2>1. e \in RunSheetIds /\ recorded(op, e) = {e} \cup captured_orders(e)
        BY <1>10 DEF entity_kind, recorded
    <2>2. PICK reports \in closeout_submissions(e) : CloseRunSheet(e, reports)
        BY <1>10 DEF Transaction
    <2>3. /\ OthersKept({e} \cup captured_orders(e))
          /\ snapshot(e)' = "CLOSED"
          /\ captured_orders(e) \subseteq Orders
          /\ \A o \in captured_orders(e) : snapshot(o)' = None
        BY <2>1, <2>2, CloseEntries
    <2>4. AtomicRequests
        BY <2>1, <2>2 DEF AtomicRequests
    <2>5. e \notin captured_orders(e)
        BY <2>1, <2>3, EntityAssumption
    <2>6. returned(op, e) = [x \in recorded(op, e) |->
                                 IF x = e THEN "CLOSED" ELSE None]
        BY <1>10 DEF returned
    <2>7. \A x \in recorded(op, e) : returned(op, e)[x] = snapshot(x)'
        BY <2>1, <2>3, <2>5, <2>6
    <2>8. recorded(op, e) \subseteq Entities
        BY <1>1, <2>1, <2>3 DEF Entities
    <2> QED BY <1>2, <1>10, <2>1, <2>3, <2>4, <2>7, <2>8 DEF Removing
<1> QED BY <1>3, <1>4, <1>5, <1>6, <1>7, <1>8, <1>9, <1>10 DEF Operations

-----------------------------------------------------------------------------
(* The invariant, over the calls, what the tables say now, what the logbook  *)
(* told, and what is doubtful.                                               *)

\* What is there to tell of every entity.
snapshots == [e \in Entities |-> snapshot(e)]

\* The fields of a call.
Fields == {"op", "entity", "step", "before", "after", "unsaid", "overtaken"}

\* A call has its type, and what it will tell is read by then.
Called(k) ==
    /\ DOMAIN k = Fields
    /\ k.op \in Operations /\ k.entity \in entity_kind(k.op)
    /\ k.step \in {"execute", "read", "record"}
    /\ k.unsaid \subseteq subjects(k) \cap Entities
    /\ k.overtaken \subseteq Entities
    /\ k.unsaid = {} <=> k.step = "execute"
    /\ k.step = "read" => k.op \in Assigning
    /\ k.step = "record" => k.unsaid \subseteq DOMAIN k.after
    /\ (k.step = "record" /\ k.op \in Removing) => k.after[k.entity] = None

\* Unless another call came in between, what was read before is still there
\* when the transaction starts, and what is told will be true.
Current(k, now) ==
    /\ (/\ k.step = "execute" /\ k.op \notin Blind
        /\ k.entity \notin k.overtaken) => k.before = now[k.entity]
    /\ k.step = "record" =>
           \A x \in k.unsaid \ k.overtaken : k.after[x] = now[x]

\* The call will write an entry about e, or leave e in doubt.
Speaks(k, e, now) ==
    /\ k # NoCall /\ e \in k.unsaid
    /\ \/ e \in k.overtaken
       \/ k.op \in Blind
       \/ k.before # now[e]

\* Every unfinished call is well formed and up to date.
CallsInv(cs, now) ==
    /\ DOMAIN cs = Callers
    /\ \A c \in Callers : cs[c] # NoCall =>
           Called(cs[c]) /\ Current(cs[c], now)

\* The logbook tells what is there, or somebody will.
Backed(cs, now, tl, db) ==
    \A e \in Entities :
        e \in db \/ tl[e] = now[e] \/ \E c \in Callers : Speaks(cs[c], e, now)

\* What a call read is what the logbook told, or it is not what an entry of
\* the call will be about.
Chained(cs, now, tl, db) ==
    \A c \in Callers :
        (/\ cs[c] # NoCall /\ cs[c].op \notin Blind
         /\ cs[c].entity \notin cs[c].overtaken)
        => \/ cs[c].entity \in db
           \/ tl[cs[c].entity] = now[cs[c].entity]
           \/ tl[cs[c].entity] = cs[c].before
           \/ \E b \in Callers \ {c} : Speaks(cs[b], cs[c].entity, now)

\* The logbook, the doubts and the calls fit the tables.
Good(cs, now, tl, db) ==
    CallsInv(cs, now) /\ Backed(cs, now, tl, db) /\ Chained(cs, now, tl, db)

\* The inductive invariant.
LogbookInv ==
    /\ TypeOK /\ OnlySavedAreClosed
    /\ Good(calls, snapshots, told, doubtful)
    /\ told = [e \in Entities |-> told[e]]
    /\ doubtful \subseteq Entities
    /\ begun \in 0..MaxCalls

\* What a call is about.
LEMMA CalledEntity ==
    ASSUME NEW k, Called(k)
    PROVE  /\ k # NoCall /\ k.entity \in Entities
           /\ k.op # "close" => subjects(k) = {k.entity}
<1>1. k.op # NoCall.op
    BY DEF Called, Operations, NoCall
<1>2. k.entity \in Entities
    BY DEF Called, Operations, entity_kind, Entities
<1> QED BY <1>1, <1>2 DEF subjects

-----------------------------------------------------------------------------
(* The steps of a call. *)

\* A call that begins has read what the logbook tells or somebody will.
LEMMA BeginGood ==
    ASSUME NEW cs, NEW now, NEW tl, NEW db, Good(cs, now, tl, db),
           NEW c \in Callers, cs[c] = NoCall, NEW op \in Operations,
           NEW e \in entity_kind(op),
           NEW k, k = [op |-> op, entity |-> e, step |-> "execute",
                       before |-> IF op \in Blind THEN None ELSE now[e],
                       after |-> << >>, unsaid |-> {}, overtaken |-> {}],
           NEW cs2, cs2 = [cs EXCEPT ![c] = k]
    PROVE  Good(cs2, now, tl, db)
<1>1. /\ k.op = op /\ k.entity = e /\ k.step = "execute"
      /\ k.before = IF op \in Blind THEN None ELSE now[e]
      /\ k.unsaid = {} /\ k.overtaken = {}
      /\ DOMAIN k = Fields
    BY DEF Fields
<1>2. Called(k) /\ Current(k, now)
    BY <1>1 DEF Called, Current
<1>3. DOMAIN cs = Callers /\ DOMAIN cs2 = Callers
      /\ cs2[c] = k /\ \A b \in Callers \ {c} : cs2[b] = cs[b]
    BY DEF Good, CallsInv
<1>4. CallsInv(cs2, now)
    BY <1>2, <1>3 DEF Good, CallsInv
<1>5. \A x, b : b \in Callers /\ Speaks(cs[b], x, now) => b # c /\ Speaks(cs2[b], x, now)
    BY <1>3 DEF Speaks
<1>6. Backed(cs2, now, tl, db)
    BY <1>5 DEF Good, Backed
<1>7. e \in Entities
    BY <1>1, <1>2, CalledEntity
<1>8. e \in db \/ tl[e] = now[e] \/ \E b \in Callers \ {c} : Speaks(cs2[b], e, now)
    BY <1>5, <1>7 DEF Good, Backed
<1>9. Chained(cs2, now, tl, db)
    <2> SUFFICES ASSUME NEW b \in Callers, cs2[b] # NoCall, cs2[b].op \notin Blind,
                        cs2[b].entity \notin cs2[b].overtaken
                 PROVE  \/ cs2[b].entity \in db
                        \/ tl[cs2[b].entity] = now[cs2[b].entity]
                        \/ tl[cs2[b].entity] = cs2[b].before
                        \/ \E a \in Callers \ {b} : Speaks(cs2[a], cs2[b].entity, now)
        BY DEF Chained
    <2>1. CASE b = c
        BY <1>1, <1>3, <1>8, <2>1
    <2>2. CASE b # c
        BY <1>3, <1>5, <2>2 DEF Good, Chained
    <2> QED BY <2>1, <2>2
<1> QED BY <1>4, <1>6, <1>9 DEF Good

\* A call that has nothing to say may end.
LEMMA SilentEndGood ==
    ASSUME NEW cs, NEW now, NEW tl, NEW db, Good(cs, now, tl, db),
           NEW c \in Callers, cs[c] # NoCall, NEW db2, db2 = db \cup cs[c].unsaid,
           NEW cs2, cs2 = [cs EXCEPT ![c] = NoCall]
    PROVE  Good(cs2, now, tl, db2)
<1>1. DOMAIN cs = Callers /\ DOMAIN cs2 = Callers
      /\ cs2[c] = NoCall /\ \A b \in Callers \ {c} : cs2[b] = cs[b]
    BY DEF Good, CallsInv
<1>2. CallsInv(cs2, now)
    BY <1>1 DEF Good, CallsInv
<1>3. \A b \in Callers : \A x :
          Speaks(cs[b], x, now) => x \in db2 \/ (b # c /\ Speaks(cs2[b], x, now))
    <2> SUFFICES ASSUME NEW b \in Callers, NEW x, Speaks(cs[b], x, now)
                 PROVE  x \in db2 \/ (b # c /\ Speaks(cs2[b], x, now))
        OBVIOUS
    <2>1. CASE b = c
        <3>1. x \in cs[c].unsaid
            BY <2>1 DEF Speaks
        <3> QED BY <3>1
    <2>2. CASE b # c
        BY <1>1, <2>2
    <2> QED BY <2>1, <2>2
<1>4. Backed(cs2, now, tl, db2)
    BY <1>3 DEF Good, Backed
<1>5. Chained(cs2, now, tl, db2)
    BY <1>1, <1>3 DEF Good, Chained
<1> QED BY <1>2, <1>4, <1>5 DEF Good

\* A call after it has read again.
LEMMA ReadCall ==
    ASSUME NEW j, Called(j), NEW now, j.step = "read",
           NEW k, k = [j EXCEPT !.step = "record",
                                !.after = [x \in {j.entity} |-> now[x]]]
    PROVE  /\ k.op = j.op /\ k.entity = j.entity /\ k.before = j.before
           /\ k.unsaid = j.unsaid /\ k.overtaken = j.overtaken
           /\ Called(k) /\ Current(k, now)
<1>1. /\ DOMAIN k = Fields /\ k.step = "record"
      /\ k.op = j.op /\ k.entity = j.entity /\ k.before = j.before
      /\ k.unsaid = j.unsaid /\ k.overtaken = j.overtaken
      /\ k.after = [x \in {j.entity} |-> now[x]]
    BY DEF Called, Fields
<1>2. /\ j.op \in Assigning /\ j.op \notin Removing /\ j.op # "close"
      /\ j.unsaid # {}
    BY DEF Called, Assigning, Removing
<1>3. j.unsaid \subseteq {j.entity} /\ subjects(k) = subjects(j)
    BY <1>1, <1>2, CalledEntity DEF Called, subjects
<1>4. \A x \in k.unsaid : x \in DOMAIN k.after /\ k.after[x] = now[x]
    BY <1>1, <1>3
<1>5. Called(k)
    BY <1>1, <1>2, <1>3, <1>4 DEF Called
<1>6. Current(k, now)
    BY <1>1, <1>4 DEF Current
<1> QED BY <1>1, <1>5, <1>6

\* Reading again keeps the invariant.
LEMMA ReadAfterGood ==
    ASSUME NEW cs, NEW now, NEW tl, NEW db, Good(cs, now, tl, db),
           NEW c \in Callers, cs[c] # NoCall,
           NEW k, Called(k), Current(k, now),
           k.op = cs[c].op, k.entity = cs[c].entity, k.before = cs[c].before,
           k.unsaid = cs[c].unsaid, k.overtaken = cs[c].overtaken,
           NEW cs2, cs2 = [cs EXCEPT ![c] = k]
    PROVE  Good(cs2, now, tl, db)
<1>1. DOMAIN cs = Callers /\ DOMAIN cs2 = Callers
      /\ cs2[c] = k /\ \A b \in Callers \ {c} : cs2[b] = cs[b]
    BY DEF Good, CallsInv
<1>2. CallsInv(cs2, now)
    BY <1>1 DEF Good, CallsInv
<1>3. ASSUME NEW b \in Callers, NEW x, Speaks(cs[b], x, now)
      PROVE  Speaks(cs2[b], x, now)
    <2>1. CASE b = c
        BY <1>1, <1>3, <2>1, CalledEntity DEF Speaks
    <2>2. CASE b # c
        BY <1>1, <1>3, <2>2
    <2> QED BY <2>1, <2>2
<1>4. Backed(cs2, now, tl, db)
    BY <1>3 DEF Good, Backed
<1>5. ASSUME NEW b \in Callers, cs2[b] # NoCall
      PROVE  /\ cs[b] # NoCall /\ cs2[b].op = cs[b].op
             /\ cs2[b].entity = cs[b].entity
             /\ cs2[b].overtaken = cs[b].overtaken /\ cs2[b].before = cs[b].before
    BY <1>1, <1>5
<1>6. Chained(cs2, now, tl, db)
    BY <1>3, <1>5 DEF Good, Chained
<1> QED BY <1>2, <1>4, <1>6 DEF Good

\* Whether an entry is written, for a call that was not overtaken.
LEMMA ReportedWhenSpeaking ==
    ASSUME NEW k, NEW now, Called(k), Current(k, now), k.step = "record",
           NEW e \in k.unsaid \ k.overtaken
    PROVE  /\ e \in DOMAIN k.after /\ k.after[e] = now[e]
           /\ reported(k) <=> Speaks(k, e, now)
           /\ k.op \notin Blind => e = k.entity
           /\ ~reported(k) => k.op \notin Blind /\ k.before = now[e]
<1>1. e \in DOMAIN k.after /\ k.after[e] = now[e] /\ k # NoCall
    BY CalledEntity DEF Called, Current
<1>2. k.op \in Operations /\ Operations = Assigning \cup Removing \cup Blind
      /\ Assigning \cap Blind = {} /\ Removing \cap Blind = {}
      /\ Assigning \cap Removing = {}
    BY DEF Called, Operations, Assigning, Removing, Blind
<1>3. k.op \notin Blind => e = k.entity
    BY CalledEntity DEF Called, Blind
<1>4. reported(k) <=> Speaks(k, e, now)
    <2>1. CASE k.op \in Blind
        <3>1. reported(k)
            BY <2>1 DEF reported, Blind
        <3> QED BY <1>1, <2>1, <3>1 DEF Speaks
    <2>2. CASE k.op \in Removing
        <3>1. reported(k) <=> k.before # None
            BY <2>2 DEF reported, Removing
        <3>2. now[e] = None
            BY <1>1, <1>2, <1>3, <2>2 DEF Called
        <3> QED BY <1>1, <1>2, <2>2, <3>1, <3>2 DEF Speaks
    <2>3. CASE k.op \in Assigning
        <3>1. reported(k) <=> k.before # k.after[k.entity]
            BY <2>3 DEF reported, Assigning
        <3> QED BY <1>1, <1>2, <1>3, <2>3, <3>1 DEF Speaks
    <2> QED BY <1>2, <2>1, <2>2, <2>3
<1> QED BY <1>1, <1>3, <1>4 DEF Speaks

\* One entry is written, or none was due.
\* A call, the logbook and the doubts after the call's entry about e.
SaidOf(j, e) == IF j.unsaid = {e} THEN NoCall ELSE [j EXCEPT !.unsaid = @ \ {e}]

ToldBy(tl, j, e) ==
    IF reported(j) /\ e \in DOMAIN j.after THEN [tl EXCEPT ![e] = j.after[e]] ELSE tl

DoubtBy(db, j, e) ==
    IF e \in j.overtaken THEN db \cup {e}
    ELSE IF reported(j) /\ e \in DOMAIN j.after THEN db \ {e} ELSE db

\* Recording an entry keeps the invariant.
LEMMA RecordGood ==
    ASSUME NEW cs, NEW now, NEW tl, NEW db, Good(cs, now, tl, db),
           NEW c \in Callers, cs[c] # NoCall, cs[c].step = "record",
           NEW e \in cs[c].unsaid, DOMAIN tl = Entities
    PROVE  Good([cs EXCEPT ![c] = SaidOf(cs[c], e)], now,
                ToldBy(tl, cs[c], e), DoubtBy(db, cs[c], e))
<1> DEFINE j == cs[c]
           k == SaidOf(j, e)
           cs2 == [cs EXCEPT ![c] = k]
           tl2 == ToldBy(tl, j, e)
           db2 == DoubtBy(db, j, e)
<1>a. k = IF cs[c].unsaid = {e} THEN NoCall ELSE [cs[c] EXCEPT !.unsaid = @ \ {e}]
    BY DEF SaidOf
<1>b. cs2 = [cs EXCEPT ![c] = k]
    OBVIOUS
<1>c. tl2 = IF reported(cs[c]) /\ e \in DOMAIN cs[c].after
            THEN [tl EXCEPT ![e] = cs[c].after[e]] ELSE tl
    BY DEF ToldBy
<1>d. db2 = IF e \in cs[c].overtaken THEN db \cup {e}
            ELSE IF reported(cs[c]) /\ e \in DOMAIN cs[c].after
                 THEN db \ {e} ELSE db
    BY DEF DoubtBy
<1> SUFFICES Good(cs2, now, tl2, db2)
    OBVIOUS
<1> HIDE DEF k, cs2, tl2, db2
<1>1. DOMAIN cs = Callers /\ DOMAIN cs2 = Callers
      /\ cs2[c] = k /\ \A b \in Callers \ {c} : cs2[b] = cs[b]
    BY <1>b DEF Good, CallsInv
<1>2. Called(j) /\ Current(j, now) /\ e \in Entities
    BY DEF Good, CallsInv, Called
<1>3. ASSUME k # NoCall
      PROVE  /\ DOMAIN k = Fields /\ k.step = j.step /\ k.after = j.after
             /\ k.op = j.op /\ k.entity = j.entity /\ k.before = j.before
             /\ k.unsaid = j.unsaid \ {e} /\ k.overtaken = j.overtaken
             /\ k.unsaid # {}
    BY <1>2, <1>3, <1>a DEF Called, Fields
<1>4. k # NoCall => Called(k) /\ Current(k, now)
    <2> SUFFICES ASSUME k # NoCall PROVE Called(k) /\ Current(k, now)
        OBVIOUS
    <2>1. subjects(k) = subjects(j)
        BY <1>3 DEF subjects
    <2> QED BY <1>2, <1>3, <2>1 DEF Called, Current
<1>5. CallsInv(cs2, now)
    BY <1>1, <1>4 DEF Good, CallsInv
<1>6. \A b \in Callers : \A x : x # e /\ Speaks(cs[b], x, now) => Speaks(cs2[b], x, now)
    <2> SUFFICES ASSUME NEW b \in Callers, NEW x, x # e, Speaks(cs[b], x, now)
                 PROVE  Speaks(cs2[b], x, now)
        OBVIOUS
    <2>1. CASE b = c
        <3>1. x \in j.unsaid
            BY <2>1 DEF Speaks
        <3>2. k = [j EXCEPT !.unsaid = j.unsaid \ {e}]
            BY <1>a, <3>1
        <3>3. k.op = j.op
            BY <1>2, <3>2 DEF Called, Fields
        <3>4. k # NoCall
            BY <1>2, <3>3 DEF Called, Operations, NoCall
        <3> QED BY <1>1, <1>3, <2>1, <3>4 DEF Speaks
    <2>2. CASE b # c
        BY <1>1, <2>2
    <2> QED BY <2>1, <2>2
<1>7. /\ \A x \in Entities \ {e} : tl2[x] = tl[x]
      /\ \A x : x # e => (x \in db2 <=> x \in db)
    BY <1>2, <1>c, <1>d
<1>8. \/ e \in db2
      \/ tl2[e] = now[e]
      \/ /\ tl2[e] = tl[e] /\ (e \in db2 <=> e \in db)
         /\ ~Speaks(j, e, now) /\ j.before = now[e]
    <2>1. CASE e \in j.overtaken
        BY <1>d, <2>1
    <2>2. CASE e \notin j.overtaken /\ reported(j)
        <3>1. e \in DOMAIN j.after /\ j.after[e] = now[e]
            BY <1>2, <2>2, ReportedWhenSpeaking
        <3> QED BY <1>2, <1>c, <2>2, <3>1
    <2>3. CASE e \notin j.overtaken /\ ~reported(j)
        BY <1>2, <1>c, <1>d, <2>3, ReportedWhenSpeaking
    <2> QED BY <2>1, <2>2, <2>3
<1>9. e \in db2 \/ tl2[e] = now[e] \/ \E b \in Callers \ {c} : Speaks(cs2[b], e, now)
    BY <1>1, <1>2, <1>8 DEF Good, Backed
<1>10. Backed(cs2, now, tl2, db2)
    <2> SUFFICES ASSUME NEW x \in Entities
                 PROVE  x \in db2 \/ tl2[x] = now[x]
                            \/ \E b \in Callers : Speaks(cs2[b], x, now)
        BY DEF Backed
    <2>1. CASE x = e
        BY <1>9, <2>1
    <2>2. CASE x # e
        BY <1>6, <1>7, <2>2 DEF Good, Backed
    <2> QED BY <2>1, <2>2
<1>11. ASSUME NEW b \in Callers, cs2[b] # NoCall
       PROVE  /\ cs[b] # NoCall /\ cs2[b].op = cs[b].op
              /\ cs2[b].entity = cs[b].entity /\ cs[b].entity \in Entities
              /\ cs2[b].overtaken = cs[b].overtaken /\ cs2[b].before = cs[b].before
    <2>1. cs[b] # NoCall
        BY <1>1, <1>11
    <2>2. cs[b].entity \in Entities
        BY <2>1, CalledEntity DEF Good, CallsInv
    <2> QED BY <1>1, <1>3, <1>11, <2>1, <2>2
<1>12. Chained(cs2, now, tl2, db2)
    <2> SUFFICES ASSUME NEW b \in Callers, cs2[b] # NoCall, cs2[b].op \notin Blind,
                        cs2[b].entity \notin cs2[b].overtaken
                 PROVE  \/ cs2[b].entity \in db2
                        \/ tl2[cs2[b].entity] = now[cs2[b].entity]
                        \/ tl2[cs2[b].entity] = cs2[b].before
                        \/ \E a \in Callers \ {b} : Speaks(cs2[a], cs2[b].entity, now)
        BY DEF Chained
    <2> DEFINE x == cs[b].entity
    <2>1. \/ x \in db \/ tl[x] = now[x] \/ tl[x] = cs[b].before
          \/ \E a \in Callers \ {b} : Speaks(cs[a], x, now)
        BY <1>11 DEF Good, Chained
    <2>2. CASE x # e
        BY <1>6, <1>7, <1>11, <2>1, <2>2
    <2>3. CASE x = e /\ b # c
        <3>1. CASE e \in db2 \/ tl2[e] = now[e]
            BY <1>11, <2>3, <3>1
        <3>2. CASE /\ tl2[e] = tl[e] /\ (e \in db2 <=> e \in db)
                   /\ ~Speaks(j, e, now)
            BY <1>1, <1>11, <2>1, <2>3, <3>2
        <3> QED BY <1>8, <3>1, <3>2
    <2>4. CASE x = e /\ b = c
        BY <1>9, <1>11, <2>4
    <2> QED BY <2>2, <2>3, <2>4
<1> QED BY <1>5, <1>10, <1>12 DEF Good

\* A transaction: what it changes is what the call is about to tell, and what
\* overtakes the other calls about the same.
\* A call after its transaction.
Executed(j, rec, ret) ==
    [j EXCEPT !.step = IF j.op \in Assigning THEN "read" ELSE "record",
              !.after = ret, !.unsaid = rec]

\* It is well formed and up to date with what it has just stored.
LEMMA ExecutedCall ==
    ASSUME NEW j, Called(j), j.step = "execute", NEW now2,
           NEW rec, rec \subseteq subjects(j) \cap Entities, j.entity \in rec,
           NEW ret, DOMAIN ret = rec,
           j.op \notin Assigning => \A x \in rec : ret[x] = now2[x],
           j.op \in Removing => ret[j.entity] = None,
           NEW k, k = Executed(j, rec, ret)
    PROVE  /\ k.op = j.op /\ k.entity = j.entity /\ k.before = j.before
           /\ k.unsaid = rec /\ k.overtaken = j.overtaken
           /\ Called(k) /\ Current(k, now2)
<1>1. /\ DOMAIN k = Fields
      /\ k.step = IF j.op \in Assigning THEN "read" ELSE "record"
      /\ k.op = j.op /\ k.entity = j.entity /\ k.before = j.before
      /\ k.unsaid = rec /\ k.overtaken = j.overtaken
      /\ k.after = ret
    BY DEF Called, Fields, Executed
<1>2. subjects(k) = subjects(j)
    BY <1>1 DEF subjects
<1>3. Called(k)
    BY <1>1, <1>2 DEF Called
<1>4. Current(k, now2)
    BY <1>1 DEF Current
<1> QED BY <1>1, <1>3, <1>4

\* The entities with another snapshot than before.
Differing(now, now2) == {x \in Entities : now2[x] # now[x]}

\* A call that was overtaken stays up to date with what was not changed.
LEMMA OvertakenCall ==
    ASSUME NEW j, Called(j), NEW now, NEW now2, Current(j, now),
           NEW ch, ch = Differing(now, now2),
           NEW k, k = [j EXCEPT !.overtaken = @ \cup (ch \cap subjects(j))]
    PROVE  /\ k.op = j.op /\ k.entity = j.entity /\ k.before = j.before
           /\ k.unsaid = j.unsaid
           /\ k.overtaken = j.overtaken \cup (ch \cap subjects(j))
           /\ Called(k) /\ Current(k, now2)
<1>1. /\ DOMAIN k = Fields /\ k.step = j.step /\ k.after = j.after
      /\ k.op = j.op /\ k.entity = j.entity /\ k.before = j.before
      /\ k.unsaid = j.unsaid
      /\ k.overtaken = j.overtaken \cup (ch \cap subjects(j))
    BY DEF Called, Fields
<1>2. subjects(k) = subjects(j) /\ j.entity \in subjects(j) /\ ch \subseteq Entities
      /\ j.entity \in Entities /\ j.unsaid \subseteq Entities
      /\ j.unsaid \subseteq subjects(j)
    BY <1>1, CalledEntity DEF subjects, Called, Differing
<1>3. Called(k)
    BY <1>1, <1>2 DEF Called
<1>4. /\ j.entity \notin k.overtaken => now2[j.entity] = now[j.entity]
      /\ \A x \in j.unsaid \ k.overtaken : now2[x] = now[x]
    BY <1>1, <1>2 DEF Differing
<1>5. Current(k, now2)
    BY <1>1, <1>4 DEF Current
<1> QED BY <1>1, <1>3, <1>5

\* Call c overtook the other calls by changing ch.
OvertookOthers(cs, cs2, c, ch) ==
    /\ DOMAIN cs2 = Callers
    /\ \A b \in Callers \ {c} : cs2[b] =
           IF cs[b] = NoCall THEN NoCall
           ELSE [cs[b] EXCEPT !.overtaken = @ \cup (ch \cap subjects(cs[b]))]

\* A transaction keeps the invariant: what it changed is what its call is about
\* to tell, and the other calls know that they were overtaken.
LEMMA ExecuteGood ==
    ASSUME NEW cs, NEW now, NEW tl, NEW db, Good(cs, now, tl, db),
           NEW now2, NEW ch, ch = Differing(now, now2),
           NEW c \in Callers, cs[c] # NoCall, cs[c].step = "execute",
           NEW k, Called(k), Current(k, now2),
           k.op = cs[c].op, k.entity = cs[c].entity, k.before = cs[c].before,
           ch \subseteq k.unsaid, k.overtaken = cs[c].overtaken,
           NEW cs2, cs2[c] = k, OvertookOthers(cs, cs2, c, ch)
    PROVE  Good(cs2, now2, tl, db)
<1>0. /\ DOMAIN cs2 = Callers
      /\ \A b \in Callers \ {c} : cs2[b] =
             IF cs[b] = NoCall THEN NoCall
             ELSE [cs[b] EXCEPT !.overtaken = @ \cup (ch \cap subjects(cs[b]))]
    BY DEF OvertookOthers
<1>1. /\ Called(cs[c]) /\ Current(cs[c], now) /\ cs[c].unsaid = {} /\ k # NoCall
      /\ cs[c].entity \in Entities
    BY CalledEntity DEF Good, CallsInv, Called
<1>2. ASSUME NEW b \in Callers \ {c}, cs[b] # NoCall
      PROVE  /\ cs2[b].op = cs[b].op /\ cs2[b].entity = cs[b].entity
             /\ cs2[b].before = cs[b].before /\ cs2[b].unsaid = cs[b].unsaid
             /\ cs2[b].overtaken = cs[b].overtaken \cup (ch \cap subjects(cs[b]))
             /\ Called(cs2[b]) /\ Current(cs2[b], now2)
    <2> DEFINE j == cs[b]
               m == cs2[b]
    <2>1. Called(j) /\ Current(j, now)
        BY <1>2 DEF Good, CallsInv
    <2>2. m = [j EXCEPT !.overtaken = @ \cup (ch \cap subjects(j))]
        BY <1>0, <1>2
    <2> HIDE DEF j, m
    <2>3. /\ m.op = j.op /\ m.entity = j.entity /\ m.before = j.before
          /\ m.unsaid = j.unsaid
          /\ m.overtaken = j.overtaken \cup (ch \cap subjects(j))
          /\ Called(m) /\ Current(m, now2)
        BY <2>1, <2>2, OvertakenCall
    <2> QED BY <2>3 DEF j, m
<1>3. ASSUME NEW b \in Callers \ {c}, cs[b] = NoCall
      PROVE  cs2[b] = NoCall
    BY <1>0, <1>3
<1>4. CallsInv(cs2, now2)
    BY <1>0, <1>2, <1>3 DEF CallsInv
<1>5. ASSUME NEW b \in Callers, NEW x, Speaks(cs[b], x, now)
      PROVE  b # c /\ Speaks(cs2[b], x, now2)
    <2>1. cs[b] # NoCall /\ x \in cs[b].unsaid
        BY <1>5 DEF Speaks
    <2>2. b # c
        BY <1>1, <2>1
    <2>3. x \in subjects(cs[b]) /\ x \in Entities
        BY <2>1 DEF Good, CallsInv, Called
    <2>4. /\ cs2[b].op = cs[b].op /\ cs2[b].before = cs[b].before
          /\ cs2[b].unsaid = cs[b].unsaid /\ cs2[b] # NoCall
          /\ cs2[b].overtaken = cs[b].overtaken \cup (ch \cap subjects(cs[b]))
        BY <1>2, <2>1, <2>2, CalledEntity
    <2>5. x \in ch \/ now2[x] = now[x]
        BY <2>3 DEF Differing
    <2> QED BY <1>5, <2>1, <2>2, <2>3, <2>4, <2>5 DEF Speaks
<1>6. ASSUME NEW x \in ch
      PROVE  Speaks(k, x, now2)
    <2>1. x \in k.unsaid /\ x \in Entities /\ now2[x] # now[x]
        BY DEF Differing
    <2>2. CASE k.op \in Blind \/ x \in k.overtaken
        BY <1>1, <2>1, <2>2 DEF Speaks
    <2>3. CASE k.op \notin Blind /\ x \notin k.overtaken
        <3>1. x = k.entity
            BY <2>1, <2>3, CalledEntity DEF Called, Blind
        <3>2. k.before = now[x]
            BY <1>1, <2>3, <3>1 DEF Current
        <3> QED BY <1>1, <2>1, <3>2 DEF Speaks
    <2> QED BY <2>2, <2>3
<1>7. Backed(cs2, now2, tl, db)
    <2> SUFFICES ASSUME NEW x \in Entities
                 PROVE  x \in db \/ tl[x] = now2[x]
                            \/ \E b \in Callers : Speaks(cs2[b], x, now2)
        BY DEF Backed
    <2>1. CASE x \in ch
        BY <1>6, <2>1
    <2>2. CASE x \notin ch
        BY <1>5, <2>2 DEF Good, Backed, Differing
    <2> QED BY <2>1, <2>2
<1>8. Chained(cs2, now2, tl, db)
    <2> SUFFICES ASSUME NEW b \in Callers, cs2[b] # NoCall, cs2[b].op \notin Blind,
                        cs2[b].entity \notin cs2[b].overtaken
                 PROVE  \/ cs2[b].entity \in db
                        \/ tl[cs2[b].entity] = now2[cs2[b].entity]
                        \/ tl[cs2[b].entity] = cs2[b].before
                        \/ \E a \in Callers \ {b} : Speaks(cs2[a], cs2[b].entity, now2)
        BY DEF Chained
    <2> DEFINE x == cs[b].entity
    <2>1. /\ cs[b] # NoCall /\ cs2[b].op = cs[b].op
          /\ cs2[b].entity = x /\ cs2[b].before = cs[b].before
          /\ cs[b].overtaken \subseteq cs2[b].overtaken
        BY <1>1, <1>2, <1>3
    <2>2. x \in Entities /\ x \in subjects(cs[b])
        BY <2>1, CalledEntity DEF Good, CallsInv, subjects
    <2>3. \/ x \in db \/ tl[x] = now[x] \/ tl[x] = cs[b].before
          \/ \E a \in Callers \ {b} : Speaks(cs[a], x, now)
        BY <2>1 DEF Good, Chained
    <2>4. CASE b # c
        <3>1. now2[x] = now[x]
            BY <1>2, <2>1, <2>2, <2>4 DEF Differing
        <3> QED BY <1>5, <2>1, <2>3, <3>1
    <2>5. CASE b = c
        <3>1. cs[b].before = now[x]
            BY <1>1, <2>1, <2>5 DEF Current
        <3> QED BY <1>5, <2>1, <2>3, <3>1
    <2> QED BY <2>4, <2>5
<1> QED BY <1>4, <1>7, <1>8 DEF Good

-----------------------------------------------------------------------------
(* The theorems. *)

\* Nothing to tell anew.
LEMMA KeptSnapshots ==
    ASSUME OthersKept({})
    PROVE  snapshots' = snapshots
    BY DEF OthersKept, snapshots

\* Steps that leave the tables alone.
LEMMA SameTables ==
    ASSUME UNCHANGED vars, TypeOK, OnlySavedAreClosed
    PROVE  /\ snapshots' = snapshots
           /\ TypeOK' /\ OnlySavedAreClosed'
<1>1. OthersKept({})
    BY SnapshotKept DEF OthersKept, vars, list_assignments_for_task, vehicle_rows
<1> QED BY <1>1, KeptSnapshots, StutterTypeOK, StepOnlySavedAreClosed

\* What the tables keep.
LEMMA NextTables ==
    ASSUME Next, TypeOK, OnlySavedAreClosed
    PROVE  TypeOK' /\ OnlySavedAreClosed'
    BY AtomicTypeOK, StepwiseTypeOK, StepOnlySavedAreClosed DEF Next

\* An empty logbook tells empty tables.
LEMMA LogbookInitInv == LogbookInit => LogbookInv
<1> SUFFICES ASSUME LogbookInit PROVE LogbookInv
    OBVIOUS
<1>1. TypeOK /\ OnlySavedAreClosed
    BY InitTypeOK DEF LogbookInit, Init, OnlySavedAreClosed, NoRunSheet
<1>2. ASSUME NEW e \in Entities PROVE snapshot(e) = None
    <2>1. CASE e \in Orders
        BY <2>1, EntityAssumption
           DEF LogbookInit, Init, snapshot, the, list_assignments_for_task
    <2>2. CASE e \in VehicleKeys
        BY <2>2, EntityAssumption DEF LogbookInit, Init, snapshot, the, vehicle_rows
    <2>3. CASE e \in RunSheetIds
        <3>1. /\ run_sheets[e].status = "ABSENT"
              /\ run_sheets[e].execution_status = "OPEN"
            BY <2>3 DEF LogbookInit, Init, NoRunSheet
        <3> QED BY <2>3, <3>1, EntityAssumption DEF snapshot, Stored
    <2> QED BY <2>1, <2>2, <2>3 DEF Entities
<1>3. Good(calls, snapshots, told, doubtful)
    BY <1>2 DEF LogbookInit, Good, CallsInv, Backed, Chained, snapshots
<1> QED BY <1>1, <1>3, CallsAssumption DEF LogbookInit, LogbookInv

\* Steps that leave the tables alone.
LEMMA BeginInv ==
    ASSUME LogbookInv, NEW c \in Callers, NEW op \in Operations,
           NEW e \in entity_kind(op), Begin(c, op, e)
    PROVE  LogbookInv'
<1> DEFINE k == [op |-> op, entity |-> e, step |-> "execute",
                 before |-> IF op \in Blind THEN None ELSE snapshots[e],
                 after |-> << >>, unsaid |-> {}, overtaken |-> {}]
<1>1. e \in Entities
    BY DEF Operations, entity_kind, Entities
<1>2. calls[c] = NoCall /\ calls' = [calls EXCEPT ![c] = k]
    BY <1>1 DEF Begin, snapshots, Blind
<1>3. TypeOK' /\ OnlySavedAreClosed' /\ snapshots' = snapshots
    BY SameTables DEF Begin, LogbookInv
<1>4. Good(calls, snapshots, told, doubtful)
    BY DEF LogbookInv
<1>5. UNCHANGED <<told, doubtful>> /\ begun' \in 0..MaxCalls
    BY CallsAssumption DEF Begin, LogbookInv
<1> HIDE DEF LogbookInv, snapshots
<1>6. Good(calls', snapshots, told, doubtful)
    BY <1>2, <1>4, BeginGood
<1> QED BY <1>3, <1>5, <1>6 DEF LogbookInv

\* A rejected or lost call leaves the invariant.
LEMMA EndsInv ==
    ASSUME LogbookInv, NEW c \in Callers, Rejected(c) \/ Lost(c)
    PROVE  LogbookInv'
<1>1. /\ calls[c] # NoCall
      /\ calls' = [calls EXCEPT ![c] = NoCall]
      /\ UNCHANGED <<vars, told, begun>>
    BY DEF Rejected, Lost
<1>2. Good(calls, snapshots, told, doubtful) /\ Called(calls[c])
    BY <1>1 DEF LogbookInv, Good, CallsInv
<1>3. doubtful' = doubtful \cup calls[c].unsaid
    <2>1. Rejected(c) => calls[c].unsaid = {} /\ doubtful' = doubtful
        BY <1>2 DEF Rejected, Called
    <2>2. Lost(c) => doubtful' = doubtful \cup calls[c].unsaid
        BY DEF Lost
    <2> QED BY <2>1, <2>2
<1>4. TypeOK' /\ OnlySavedAreClosed' /\ snapshots' = snapshots
    BY <1>1, SameTables DEF LogbookInv
<1>5. calls[c].unsaid \subseteq Entities
    BY <1>2 DEF Called
<1>6. Good(calls', snapshots, told, doubtful')
    BY <1>1, <1>2, <1>3, SilentEndGood
<1> QED BY <1>1, <1>3, <1>4, <1>5, <1>6 DEF LogbookInv

\* So does reading again,
LEMMA ReadAfterInv ==
    ASSUME LogbookInv, NEW c \in Callers, ReadAfter(c)
    PROVE  LogbookInv'
<1> DEFINE j == calls[c]
           k == [j EXCEPT !.step = "record",
                          !.after = [x \in {j.entity} |-> snapshots[x]]]
<1>1. j # NoCall /\ j.step = "read" /\ UNCHANGED <<vars, told, doubtful, begun>>
    BY DEF ReadAfter
<1>2. Good(calls, snapshots, told, doubtful) /\ Called(j) /\ j.entity \in Entities
    BY <1>1, CalledEntity DEF LogbookInv, Good, CallsInv
<1>3. calls' = [calls EXCEPT ![c] = k]
    <2>1. [x \in {j.entity} |-> snapshots[x]] = [x \in {j.entity} |-> snapshot(x)]
        BY <1>2 DEF snapshots
    <2> QED BY <2>1 DEF ReadAfter
<1>4. TypeOK' /\ OnlySavedAreClosed' /\ snapshots' = snapshots
    BY <1>1, SameTables DEF LogbookInv
<1>5. /\ k.op = j.op /\ k.entity = j.entity /\ k.before = j.before
      /\ k.unsaid = j.unsaid /\ k.overtaken = j.overtaken
      /\ Called(k) /\ Current(k, snapshots)
    <2> HIDE DEF j, snapshots
    <2> QED BY <1>1, <1>2, ReadCall
<1> HIDE DEF k
<1>6. Good(calls', snapshots, told, doubtful)
    BY <1>1, <1>2, <1>3, <1>5, ReadAfterGood
<1> QED BY <1>1, <1>4, <1>6 DEF LogbookInv

\* an entry,
LEMMA RecordInv ==
    ASSUME LogbookInv, NEW c \in Callers, NEW e \in Entities, Record(c, e)
    PROVE  LogbookInv'
<1>1. /\ calls[c] # NoCall /\ calls[c].step = "record" /\ e \in calls[c].unsaid
      /\ UNCHANGED <<vars, begun>>
      /\ calls' = [calls EXCEPT ![c] = SaidOf(calls[c], e)]
      /\ told' = ToldBy(told, calls[c], e)
      /\ doubtful' = DoubtBy(doubtful, calls[c], e)
    BY DEF Record, rest, SaidOf, ToldBy, DoubtBy
<1>3. /\ Good(calls, snapshots, told, doubtful)
      /\ DOMAIN told = Entities
    BY DEF LogbookInv
<1>4. TypeOK' /\ OnlySavedAreClosed' /\ snapshots' = snapshots
    BY <1>1, SameTables DEF LogbookInv
<1>5. told' = [x \in Entities |-> told'[x]] /\ doubtful' \subseteq Entities
    BY <1>1 DEF LogbookInv, ToldBy, DoubtBy
<1>6. Good(calls', snapshots, told', doubtful')
    BY <1>1, <1>3, RecordGood
<1>7. Good(calls', snapshots', told', doubtful')
    BY <1>4, <1>6
<1>8. begun' \in 0..MaxCalls
    BY <1>1 DEF LogbookInv
<1> QED BY <1>4, <1>5, <1>7, <1>8 DEF LogbookInv

\* a transaction,
LEMMA ExecuteInv ==
    ASSUME LogbookInv, NEW c \in Callers, Execute(c)
    PROVE  LogbookInv'
<1> DEFINE j == calls[c]
           rec == recorded(j.op, j.entity)
           ret == returned(j.op, j.entity)
           k == [j EXCEPT !.step = IF j.op \in Assigning THEN "read" ELSE "record",
                          !.after = ret, !.unsaid = rec]
           ch == Differing(snapshots, snapshots')
<1>1. /\ j # NoCall /\ j.step = "execute"
      /\ Transaction(j.op, j.entity)
      /\ UNCHANGED <<told, doubtful, begun>>
    BY DEF Execute
<1>2. /\ Good(calls, snapshots, told, doubtful) /\ Called(j) /\ Current(j, snapshots)
      /\ TypeOK /\ OnlySavedAreClosed
      /\ j.op \in Operations /\ j.entity \in entity_kind(j.op)
    BY <1>1 DEF LogbookInv, Good, CallsInv, Called
<1>3. /\ AtomicRequests /\ OthersKept(rec)
      /\ rec \subseteq {j.entity} \cup (IF j.op = "close" THEN Orders ELSE {})
      /\ j.entity \in rec /\ rec \subseteq Entities /\ DOMAIN ret = rec
      /\ j.op \notin Assigning => \A x \in rec : ret[x] = snapshot(x)'
      /\ j.op \in Removing => ret[j.entity] = None
    <2> HIDE DEF j
    <2> QED BY <1>1, <1>2, TransactionEntries
<1>4. TypeOK' /\ OnlySavedAreClosed'
    BY <1>2, <1>3, NextTables DEF Next
<1>5. changed \subseteq rec /\ ch = changed
    BY <1>3 DEF changed, OthersKept, Differing, snapshots
<1>6. rec \subseteq subjects(j) \cap Entities
    BY <1>3 DEF subjects
<1>7. j.op \notin Assigning => \A x \in rec : ret[x] = snapshots'[x]
    BY <1>3 DEF snapshots
<1>8. /\ DOMAIN calls = Callers
      /\ calls' = overtake(c, [calls EXCEPT ![c] =
           [j EXCEPT !.step = IF j.op \in {"assign_order", "assign_vehicle"}
                              THEN "read" ELSE "record",
                     !.after = ret, !.unsaid = rec \cup changed]])
    BY <1>2 DEF Execute, Good, CallsInv
<1>9. rec \cup changed = rec
    BY <1>5
<1>10. calls' = overtake(c, [calls EXCEPT ![c] = k])
    BY <1>8, <1>9 DEF Assigning
<1> HIDE DEF k
<1>11. /\ DOMAIN calls' = Callers /\ calls'[c] = k
       /\ \A b \in Callers \ {c} : calls'[b] =
              IF calls[b] = NoCall THEN NoCall
              ELSE [calls[b] EXCEPT !.overtaken = @ \cup (ch \cap subjects(calls[b]))]
    BY <1>5, <1>8, <1>10 DEF overtake
<1>12. /\ k.op = j.op /\ k.entity = j.entity /\ k.before = j.before
       /\ k.unsaid = rec /\ k.overtaken = j.overtaken
       /\ Called(k) /\ Current(k, snapshots')
    <2> HIDE DEF j, rec, ret, snapshots
    <2>1. k = Executed(j, rec, ret)
        BY DEF k, Executed
    <2>2. Called(j) /\ j.step = "execute"
        BY <1>1, <1>2
    <2>3. rec \subseteq subjects(j) \cap Entities /\ j.entity \in rec
        BY <1>3, <1>6
    <2>4. DOMAIN ret = rec
        BY <1>3
    <2>5. j.op \notin Assigning => \A x \in rec : ret[x] = snapshots'[x]
        BY <1>7
    <2>6. j.op \in Removing => ret[j.entity] = None
        BY <1>3
    <2> QED BY <2>1, <2>2, <2>3, <2>4, <2>5, <2>6, ExecutedCall
<1>13. ch \subseteq k.unsaid
    BY <1>5, <1>12
<1> HIDE DEF rec, ret, ch, snapshots
<1>14. ch = Differing(snapshots, snapshots')
    BY DEF ch
<1>15. Good(calls', snapshots', told, doubtful)
    <2>1. OvertookOthers(calls, calls', c, ch)
        BY <1>11 DEF OvertookOthers
    <2>2. /\ k.op = calls[c].op /\ k.entity = calls[c].entity
          /\ k.before = calls[c].before /\ k.overtaken = calls[c].overtaken
          /\ calls[c] # NoCall /\ calls[c].step = "execute"
        BY <1>1, <1>12
    <2>3. calls'[c] = k
        BY <1>11
    <2> QED BY <1>2, <1>12, <1>13, <1>14, <2>1, <2>2, <2>3, ExecuteGood
<1>16. /\ told' = [x \in Entities |-> told'[x]] /\ doubtful' \subseteq Entities
       /\ begun' \in 0..MaxCalls
    BY <1>1 DEF LogbookInv
<1>17. Good(calls', snapshots', told', doubtful')
    BY <1>1, <1>15
<1> QED BY <1>4, <1>16, <1>17 DEF LogbookInv

\* and a request whose entries tell nothing of the entities.
LEMMA OrderRequestInv ==
    ASSUME LogbookInv, OrderRequest
    PROVE  LogbookInv'
<1>1. snapshots' = snapshots
    BY OrderRequestEntries, KeptSnapshots
<1>2. TypeOK' /\ OnlySavedAreClosed'
    BY NextTables
       DEF OrderRequest, LogbookInv, Next, AtomicRequests, StepwiseRequests
<1> QED BY <1>1, <1>2 DEF OrderRequest, LogbookInv

\* The inductive invariant: unless an entry was lost or its call overtaken, the
\* logbook tells what is stored or the call that changed it will tell; and what
\* a call has read is what the logbook told, or its entry will be about a later
\* change.
THEOREM LogbookInvariant == LogbookSpec => []LogbookInv
<1>1. LogbookInv /\ [LogbookNext]_logVars => LogbookInv'
    <2>1. LogbookInv /\ UNCHANGED logVars => LogbookInv'
        BY SameTables DEF LogbookInv, logVars
    <2> QED BY <2>1, BeginInv, ExecuteInv, ReadAfterInv, EndsInv, RecordInv,
               OrderRequestInv DEF LogbookNext
<1> QED BY LogbookInitInv, <1>1, PTL DEF LogbookSpec

\* Calls, entries and doubts have their types in every state.
THEOREM LogbookTypeCorrect == LogbookSpec => []LogbookTypeOK
<1>1. LogbookInv => LogbookTypeOK
    <2> SUFFICES ASSUME LogbookInv PROVE LogbookTypeOK
        OBVIOUS
    <2>1. ASSUME NEW c \in Callers, calls[c] # NoCall PROVE Called(calls[c])
        BY <2>1 DEF LogbookInv, Good, CallsInv
    <2> QED BY <2>1 DEF LogbookInv, LogbookTypeOK, Good, CallsInv, Called, Fields
<1> QED BY LogbookInvariant, <1>1, PTL

\* The logbook tells the tables: the latest entry about an entity says what is
\* stored, unless a call is about to tell it or its entry was lost or
\* overtaken.
THEOREM LogbookIsTrue == LogbookSpec => []LogbookTellsTables
<1>1. LogbookInv => LogbookTellsTables
    BY DEF LogbookInv, Good, Backed, Speaks, snapshots, LogbookTellsTables
<1> QED BY LogbookInvariant, <1>1, PTL

\* Entries form a chain: what an entry says was there before is what the entry
\* before it told, for any number of callers.
THEOREM LogbookChain == LogbookSpec => EntriesChain
<1>1. LogbookInv /\ [LogbookNext]_logVars =>
        [\A c \in Callers :
          (/\ calls[c] # NoCall
           /\ calls[c].op \notin {"generate", "save", "close"}
           /\ calls[c].entity \notin doubtful \cup calls[c].overtaken
           /\ \A b \in Callers \ {c} : calls[b] # NoCall =>
                 calls[c].entity \notin calls[b].unsaid
           /\ Record(c, calls[c].entity) /\ told' # told)
          => calls[c].before = told[calls[c].entity]]_logVars
    <2> SUFFICES ASSUME LogbookInv, NEW c \in Callers,
                        calls[c] # NoCall, calls[c].op \notin Blind,
                        calls[c].entity \notin doubtful,
                        calls[c].entity \notin calls[c].overtaken,
                        \A b \in Callers \ {c} : calls[b] # NoCall =>
                            calls[c].entity \notin calls[b].unsaid,
                        Record(c, calls[c].entity), told' # told
                 PROVE  calls[c].before = told[calls[c].entity]
        BY DEF Blind
    <2> DEFINE e == calls[c].entity
    <2>1. /\ Called(calls[c]) /\ Current(calls[c], snapshots)
          /\ calls[c].step = "record" /\ e \in calls[c].unsaid
        BY DEF LogbookInv, Good, CallsInv, Record
    <2>2. \/ told[e] = snapshots[e] \/ told[e] = calls[c].before
        BY DEF LogbookInv, Good, Chained, Speaks
    <2>3. calls[c].after[e] = snapshots[e]
        BY <2>1 DEF Current
    <2>4. told' = [told EXCEPT ![e] = calls[c].after[e]]
        BY DEF Record
    <2>5. told[e] # calls[c].after[e]
        BY <2>4 DEF LogbookInv
    <2> QED BY <2>2, <2>3, <2>5
<1> QED BY LogbookInvariant, <1>1, PTL DEF LogbookSpec, EntriesChain
=============================================================================
