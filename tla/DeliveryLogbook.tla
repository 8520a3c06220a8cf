-------------------------- MODULE DeliveryLogbook --------------------------
(***************************************************************************)
(* The logbook beside the Delivery tables.  A handler of the workspace     *)
(* facade reads what it is about to change, runs the transaction, reads    *)
(* again, and appends an entry with both values.  Only the transaction is  *)
(* atomic: the reads are connections of their own, and the entry is        *)
(* written to a text file after the commit.  A failure to append is        *)
(* swallowed, and a process that dies after the commit appends nothing.    *)
(*                                                                         *)
(* The transactions are the actions of DeliveryDispatch.  Of the logbook,  *)
(* the model keeps what its latest entry says of each order, of each       *)
(* driver's vehicle and of each sheet.  Entries about failed requests say  *)
(* nothing of the tables and are left out.  A process that dies is every   *)
(* call of it ending in Lost.                                              *)
(***************************************************************************)
EXTENDS DeliveryDispatch

CONSTANTS
    Callers,        \* threads that may hold an unfinished request
    MaxCalls        \* bound on the calls that are begun

ASSUME CallsAssumption == MaxCalls \in Nat

VARIABLES
    calls,      \* what each caller is doing and has read
    told,       \* what the latest entry about an entity says of it
    doubtful,   \* entities whose latest entry was lost or overtaken
    begun       \* calls so far, for the bound only

logVars == <<vars, calls, told, doubtful, begun>>

\* What entries are about: orders, vehicles of a driver and date, sheets.
VehicleKeys == Dates \X Drivers
Entities == Orders \cup VehicleKeys \cup RunSheetIds

\* Entries name the kind of what they are about.
ASSUME EntityAssumption ==
    /\ Orders \cap RunSheetIds = {}
    /\ VehicleKeys \cap (Orders \cup RunSheetIds) = {}

SheetStates == {"GENERATED", "SAVED", "CLOSED"}

the(rows) == IF rows = {} THEN None ELSE CHOOSE r \in rows : TRUE

\* Fault: the assignment is looked up under the order's delivery date.
snapshot_of_date(e) ==
    IF e \in Orders
      THEN the({a \in list_assignments_for_task(e) :
                   a.dispatch_date = manual_orders[e].delivery_date})
    ELSE IF e \in VehicleKeys THEN the(vehicle_rows(e[1], e[2]))
    ELSE None

\* What a handler reads of an entity before or after the transaction.
snapshot(e) ==
    CASE e \in Orders -> the(list_assignments_for_task(e))
      [] e \in VehicleKeys -> the(vehicle_rows(e[1], e[2]))
      [] e \in RunSheetIds ->
             CASE ~Stored(e) -> None
               [] run_sheets[e].execution_status = "CLOSED" -> "CLOSED"
               [] OTHER -> run_sheets[e].status

Value == Assignment \cup VehicleAssignment \cup SheetStates \cup {None}

Operations == {"assign_order", "unassign_order", "assign_vehicle",
               "clear_vehicle", "generate", "save", "cancel", "close"}

\* unsaid: what the transaction changed and no entry tells yet; overtaken:
\* what other calls changed since the call began.
Call == [op : Operations, entity : Entities, step : {"execute", "read", "record"},
         before : Value, after : [Entities -> Value],
         unsaid : SUBSET Entities, overtaken : SUBSET Entities]

NoCall == [op |-> "none"]

LogbookTypeOK ==
    /\ TypeOK
    /\ DOMAIN calls = Callers /\ DOMAIN told = Entities
    /\ \A c \in Callers : calls[c] = NoCall \/
           /\ DOMAIN calls[c] = {"op", "entity", "step", "before", "after",
                                 "unsaid", "overtaken"}
           /\ calls[c].op \in Operations
           /\ calls[c].step \in {"execute", "read", "record"}
           /\ calls[c].unsaid \cup calls[c].overtaken \subseteq Entities
           /\ calls[c].unsaid = {} <=> calls[c].step = "execute"
    /\ doubtful \subseteq Entities
    /\ begun \in 0..MaxCalls

-----------------------------------------------------------------------------
(* One call: read, execute, read again, record. *)

entity_kind(op) ==
    CASE op \in {"assign_order", "unassign_order"} -> Orders
      [] op \in {"assign_vehicle", "clear_vehicle"} -> VehicleKeys
      [] OTHER -> RunSheetIds

\* Only cancelling reads a sheet first; it records what it read.
Begin(c, op, e) ==
    /\ calls[c] = NoCall
    /\ begun < MaxCalls /\ begun' = begun + 1
    /\ calls' = [calls EXCEPT ![c] =
           [op |-> op, entity |-> e, step |-> "execute",
            before |-> IF op \in {"generate", "save", "close"} THEN None
                       ELSE snapshot(e),
            after |-> << >>, unsaid |-> {}, overtaken |-> {}]]
    /\ UNCHANGED <<vars, told, doubtful>>

\* The transaction raises: nothing has changed, and the error is recorded.
Rejected(c) ==
    /\ calls[c] # NoCall /\ calls[c].step = "execute"
    /\ calls' = [calls EXCEPT ![c] = NoCall]
    /\ UNCHANGED <<vars, told, doubtful, begun>>

\* The transaction of a call.
Transaction(op, e) ==
    CASE op = "assign_order" ->
             \E d \in Drivers, trip \in Trips : AssignOrder(e, d, trip)
      [] op = "unassign_order" -> UnassignOrder(e)
      [] op = "assign_vehicle" ->
             \E v \in Vehicles : AssignVehicle(e[1], e[2], v)
      [] op = "clear_vehicle" -> ClearVehicle(e[1], e[2])
      [] op = "generate" ->
             \E date \in Dates, d \in Drivers : GenerateRunSheet(e, date, d)
      [] op = "save" -> SaveRunSheet(e)
      [] op = "cancel" -> CancelRunSheet(e)
      [] op = "close" ->
             \E reports \in closeout_submissions(e) : CloseRunSheet(e, reports)

changed == {e \in Entities : snapshot(e)' # snapshot(e)}

\* Fault: a row that returns to the pool is given no entry.
recorded_deliveries(op, e) ==
    IF op = "close"
      THEN {e} \cup {o \in captured_orders(e) :
                        manual_orders'[o].status = "FINALIZED"}
      ELSE {e}

\* A closeout has an entry for the sheet and one for each of its rows.
recorded(op, e) ==
    IF op = "close" THEN {e} \cup captured_orders(e) ELSE {e}

\* What the entry will say if the handler does not read again: removals say
\* nothing is left, sheets what the transaction returned.
returned(op, e) ==
    [x \in recorded(op, e) |->
        CASE op \in {"unassign_order", "clear_vehicle", "cancel"} -> None
          [] op = "generate" -> "GENERATED"
          [] op = "save" -> "SAVED"
          [] op = "close" -> IF x = e THEN "CLOSED" ELSE None
          [] OTHER -> None]

\* What the entries of a call are about.
subjects(call) ==
    {call.entity} \cup (IF call.op = "close" THEN Orders ELSE {})

overtake(c, others) ==
    [b \in Callers |->
        IF b = c \/ calls[b] = NoCall THEN others[b]
        ELSE [others[b] EXCEPT !.overtaken = @ \cup (changed \cap subjects(calls[b]))]]

Execute(c) ==
    LET call == calls[c] IN
    /\ call # NoCall /\ call.step = "execute"
    /\ Transaction(call.op, call.entity)
    /\ calls' = overtake(c, [calls EXCEPT ![c] =
           [call EXCEPT
               !.step = IF call.op \in {"assign_order", "assign_vehicle"}
                        THEN "read" ELSE "record",
               !.after = returned(call.op, call.entity),
               !.unsaid = recorded(call.op, call.entity) \cup changed]])
    /\ UNCHANGED <<told, doubtful, begun>>

ReadAfter(c) ==
    LET call == calls[c] IN
    /\ call # NoCall /\ call.step = "read"
    /\ calls' = [calls EXCEPT ![c] =
           [call EXCEPT !.step = "record",
                        !.after = [e \in {call.entity} |-> snapshot(e)]]]
    /\ UNCHANGED <<vars, told, doubtful, begun>>

\* Whether an entry is written: removals need something read before, and
\* other changes a difference and something to tell.
reported(call) ==
    CASE call.op \in {"unassign_order", "clear_vehicle", "cancel"} ->
             call.before # None
      [] call.op \in {"assign_order", "assign_vehicle"} ->
             /\ call.before # call.after[call.entity]
             /\ call.after[call.entity] # None \/ call.before # None
      [] OTHER -> TRUE

\* Fault: the call does not return after its last entry.
rest_for_ever(c, e) == [calls[c] EXCEPT !.unsaid = @ \ {e}]

\* The entries are appended one by one; the call returns after the last.
rest(c, e) ==
    IF calls[c].unsaid = {e} THEN NoCall
    ELSE [calls[c] EXCEPT !.unsaid = @ \ {e}]

Record(c, e) ==
    LET call == calls[c] IN
    /\ call # NoCall /\ call.step = "record" /\ e \in call.unsaid
    /\ told' = IF reported(call) /\ e \in DOMAIN call.after
               THEN [told EXCEPT ![e] = call.after[e]] ELSE told
    /\ doubtful' = IF e \in call.overtaken THEN doubtful \cup {e}
                   ELSE IF reported(call) /\ e \in DOMAIN call.after
                        THEN doubtful \ {e} ELSE doubtful
    /\ calls' = [calls EXCEPT ![c] = rest(c, e)]
    /\ UNCHANGED <<vars, begun>>

\* The append fails, or the process dies: the entries are never written.
Lost(c) ==
    /\ calls[c] # NoCall
    /\ doubtful' = doubtful \cup calls[c].unsaid
    /\ calls' = [calls EXCEPT ![c] = NoCall]
    /\ UNCHANGED <<vars, told, begun>>

\* Requests whose entries tell nothing of the entities.
OrderRequest ==
    /\ \E o \in Orders, date \in Dates : CreateOrder(o, date) \/ UpdateOrder(o, date)
    /\ UNCHANGED <<calls, told, doubtful, begun>>

LogbookInit ==
    /\ Init
    /\ calls = [c \in Callers |-> NoCall]
    /\ told = [e \in Entities |-> None]
    /\ doubtful = {}
    /\ begun = 0

LogbookNext ==
    \/ \E c \in Callers, op \in Operations : \E e \in entity_kind(op) :
           Begin(c, op, e)
    \/ \E c \in Callers :
           \/ Execute(c) \/ ReadAfter(c) \/ Rejected(c) \/ Lost(c)
           \/ \E e \in Entities : Record(c, e)
    \/ OrderRequest

LogbookSpec == LogbookInit /\ [][LogbookNext]_logVars

-----------------------------------------------------------------------------
(* Properties. *)

\* The logbook tells the tables: the latest entry about an order, a driver's
\* vehicle or a sheet says what is stored, unless a call is about to tell
\* it, or the entry was lost or its call overtaken by a change of the same.
LogbookTellsTables ==
    \A e \in Entities :
        \/ e \in doubtful \/ told[e] = snapshot(e)
        \/ \E c \in Callers : calls[c] # NoCall /\ e \in calls[c].unsaid

\* Entries form a chain: what an entry says was there before is what the
\* entry before it told, with the same exceptions, and no other call is
\* about to tell of the same.
EntriesChain ==
    [][\A c \in Callers :
          (/\ calls[c] # NoCall
           /\ calls[c].op \notin {"generate", "save", "close"}
           /\ calls[c].entity \notin doubtful \cup calls[c].overtaken
           /\ \A b \in Callers \ {c} : calls[b] # NoCall =>
                 calls[c].entity \notin calls[b].unsaid
           /\ Record(c, calls[c].entity) /\ told' # told)
          => calls[c].before = told[calls[c].entity]]_logVars
=============================================================================
