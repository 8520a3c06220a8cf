---------------------------- MODULE LegacyCutover ----------------------------
(***************************************************************************)
(* The legacy board with its Final Trip Summaries, the tool that copies    *)
(* saved summaries into Delivery run sheets and Pickup Collections, and    *)
(* the readiness gate in front of both workspaces.                         *)
(*                                                                         *)
(* The legacy routes answer only in a process started with the flag that   *)
(* enables them.  Their summary handlers hold no transaction: each reads   *)
(* and checks with SELECTs that commit on their own, and its transaction   *)
(* begins at its first write.  A request is therefore two steps, a Check   *)
(* and a Write that acts on what the Check read; stopping the process      *)
(* drops the requests between them.                                        *)
(*                                                                         *)
(* All orders, pickups and summaries are of one Delivery Date.  Of the     *)
(* workspaces only what meets the legacy tables is here: sheets are        *)
(* generated and cancelled.  A definition marked "Fault" is the one after  *)
(* it with a likely mistake.                                               *)
(***************************************************************************)
EXTENDS Integers, FiniteSets

CONSTANTS
    Orders, Pickups, Drivers,
    DispatchDates,  \* dispatch dates; each board has its own
    Requests,       \* what clients ask the legacy routes to snapshot
    Clients,        \* requests that may be in flight at once
    MaxSummaries,   \* bound on FTS numbers
    Indexed,        \* whether the unique indexes of invariants.py exist
    None            \* SQL NULL

SummaryIds == 1..MaxSummaries
Modules == {"delivery", "opshop"}

Contents == [dispatch_date : DispatchDates, driver_id : Drivers,
             orders : SUBSET Orders, pickups : SUBSET Pickups]

ASSUME LegacyBoundAssumption == MaxSummaries \in Nat /\ Indexed \in BOOLEAN
ASSUME RequestAssumption == Requests \subseteq Contents
ASSUME LegacyNullAssumption == None \notin SummaryIds

VARIABLES
    mode,           \* the running process: none, with or without the flag
    orders,         \* status of manual_orders
    assignments,    \* manual_dispatch_assignments, task_type ORDER
    summaries,      \* final_trip_summaries and their rows, by FTS number
    sheets,         \* delivery_run_sheets and their rows
    collections,    \* opshop_pickup_collections and their rows
    calls           \* what a request between its two steps has read

data == <<orders, assignments, summaries, sheets, collections>>
vars == <<mode, orders, assignments, summaries, sheets, collections, calls>>

NoContents == [dispatch_date |-> 0, driver_id |-> None,
               orders |-> {}, pickups |-> {}]
Absent == [status |-> "ABSENT", of |-> NoContents]

Summary == [status : {"GENERATED", "SAVED"}, of : Contents]

Assignment == [task_id : Orders, dispatch_date : DispatchDates,
               driver_id : Drivers]

\* Snapshots of the workspaces; legacy_summary_id marks the copied ones.
Snapshot(Rows) ==
    [legacy_summary_id : SummaryIds \cup {None},
     status : {"GENERATED", "SAVED"}, dispatch_date : DispatchDates,
     driver_id : Drivers, rows : SUBSET Rows]

NoCall == [op |-> "none", id |-> 0, read |-> Absent, generated |-> {}]

Call == [op : {"create", "save", "cancel"}, id : 1..(MaxSummaries + 1),
         read : Summary, generated : SUBSET SummaryIds]

TypeOK ==
    /\ mode \in {"stopped", "current", "legacy"}
    /\ orders \in [Orders -> {"ACTIVE", "FINALIZED", "CANCELLED"}]
    /\ assignments \subseteq Assignment
    /\ summaries \in [SummaryIds -> Summary \cup {Absent}]
    /\ sheets \subseteq Snapshot(Orders)
    /\ collections \subseteq Snapshot(Pickups)
    /\ calls \in [Clients -> Call \cup {NoCall}]

Init ==
    /\ mode = "stopped"
    /\ orders = [o \in Orders |-> "ACTIVE"]
    /\ assignments = {}
    /\ summaries = [n \in SummaryIds |-> Absent]
    /\ sheets = {} /\ collections = {}
    /\ calls = [c \in Clients |-> NoCall]

------------------------------------------------------------------------------
(* What the summaries say. *)

with_status(status) == {n \in SummaryIds : summaries[n].status = status}
stored == with_status("GENERATED") \cup with_status("SAVED")

same_key(of, other) ==
    of.dispatch_date = other.dispatch_date /\ of.driver_id = other.driver_id

has_saved_final_trip_summary(of) ==
    \E n \in with_status("SAVED") : same_key(summaries[n].of, of)

generated_for_driver(of) ==
    {n \in with_status("GENERATED") : same_key(summaries[n].of, of)}

\* MAX + 1 over the stored numbers: the number of a deleted summary returns.
create_final_trip_summary_id(present) ==
    CHOOSE n \in 1..(MaxSummaries + 1) :
        /\ \A m \in present : m < n
        /\ n = 1 \/ n - 1 \in present

order_assignments(o) == {a \in assignments : a.task_id = o}

\* An order on a sheet that is not closed may not be reassigned.
reserved(o) == \E s \in sheets : o \in s.rows

AtMostOne(S) == Cardinality(S) <= 1

\* The row of the order keeps its dispatch date; with two rows the request
\* fails.
upsert_assignment(date, o, d) ==
    /\ AtMostOne(order_assignments(o))
    /\ assignments' =
           (assignments \ order_assignments(o)) \cup
           {[task_id |-> o, driver_id |-> d,
             dispatch_date |-> IF order_assignments(o) = {} THEN date
                               ELSE (CHOOSE a \in order_assignments(o) : TRUE)
                                        .dispatch_date]}

------------------------------------------------------------------------------
(* The readiness gate. *)

snapshots(module) == IF module = "delivery" THEN sheets ELSE collections

rows_of(n, module) ==
    IF module = "delivery" THEN summaries[n].of.orders
                           ELSE summaries[n].of.pickups

marked(n, module) == {s \in snapshots(module) : s.legacy_summary_id = n}

\* The gate counts rows; it does not compare them.
valid_markers(n, module) ==
    {s \in marked(n, module) :
        /\ s.status = "SAVED"
        /\ same_key(s, summaries[n].of)
        /\ Cardinality(s.rows) = Cardinality(rows_of(n, module))}

unmigrated(module) ==
    {n \in with_status("SAVED") :
        /\ rows_of(n, module) # {}
        /\ Cardinality(valid_markers(n, module)) # 1}

\* Fault: only generated summaries close the gate.
ready_when_resolved(module) == with_status("GENERATED") = {}

ensure_ready(module) ==
    with_status("GENERATED") = {} /\ unmigrated(module) = {}

------------------------------------------------------------------------------
(* The legacy routes. *)

\* assign_task of an order.
\* The finalized lock asks for saved summaries of the request's own board.
AssignTask(date, o, d) ==
    /\ mode = "legacy"
    /\ orders[o] = "ACTIVE"
    /\ ~has_saved_final_trip_summary([dispatch_date |-> date, driver_id |-> d])
    /\ ~reserved(o)
    /\ \A a \in order_assignments(o) : a.dispatch_date = date
    /\ upsert_assignment(date, o, d)
    /\ UNCHANGED <<mode, orders, summaries, sheets, collections, calls>>

UnassignTask(date, o) ==
    /\ mode = "legacy"
    /\ ~reserved(o)
    /\ \E a \in order_assignments(o) :
           /\ a.dispatch_date = date
           /\ ~has_saved_final_trip_summary(a)
           /\ assignments' = assignments \ {a}
    /\ UNCHANGED <<mode, orders, summaries, sheets, collections, calls>>

\* cancel_order asks nothing of the legacy summaries.
CancelOrder(o) ==
    /\ mode = "legacy"
    /\ orders[o] = "ACTIVE"
    /\ ~reserved(o)
    /\ order_assignments(o) = {}
    /\ orders' = [orders EXCEPT ![o] = "CANCELLED"]
    /\ UNCHANGED <<mode, assignments, summaries, sheets, collections, calls>>

begin_call(c, call) ==
    /\ mode = "legacy"
    /\ calls[c] = NoCall
    /\ calls' = [calls EXCEPT ![c] = call]
    /\ UNCHANGED <<mode, data>>

\* The client names the rows: an order must be active, a pickup need only
\* exist; neither has to be assigned or uncaptured.
normalize_final_summary_rows(of) ==
    \A o \in of.orders : orders[o] = "ACTIVE"

\* Everything a request that creates a summary checks before its first write.
CheckCreate(c, of, status) ==
    /\ normalize_final_summary_rows(of)
    /\ ~has_saved_final_trip_summary(of)
    /\ begin_call(c, [op |-> "create",
                      id |-> create_final_trip_summary_id(stored),
                      read |-> [status |-> status, of |-> of],
                      generated |-> generated_for_driver(of)])

CheckSave(c, n) ==
    /\ summaries[n].status = "GENERATED"
    /\ \A m \in with_status("SAVED") :
           ~same_key(summaries[m].of, summaries[n].of)
    /\ begin_call(c, [op |-> "save", id |-> n, read |-> summaries[n],
                      generated |-> {}])

\* Fault: a saved summary can be cancelled.
CheckCancelAny(c, n) ==
    /\ n \in stored
    /\ begin_call(c, [op |-> "cancel", id |-> n, read |-> summaries[n],
                      generated |-> {}])

CheckCancel(c, n) ==
    /\ summaries[n].status = "GENERATED"
    /\ begin_call(c, [op |-> "cancel", id |-> n, read |-> summaries[n],
                      generated |-> {}])

finalize(captured, date) ==
    /\ orders' = [o \in Orders |->
                     IF o \in captured /\ orders[o] = "ACTIVE"
                     THEN "FINALIZED" ELSE orders[o]]
    /\ assignments' = {a \in assignments :
                          ~(a.task_id \in captured /\ a.dispatch_date = date)}

end_call(c) ==
    /\ calls' = [calls EXCEPT ![c] = NoCall]
    /\ UNCHANGED <<mode, sheets, collections>>

\* If there are generated summaries to replace, the transaction begins by
\* deleting them and the number is taken inside it; otherwise the number is
\* the one read before.
kept(call) == stored \ call.generated

number(call) ==
    IF call.generated = {} THEN call.id
    ELSE create_final_trip_summary_id(kept(call))

\* The summaries read as GENERATED are deleted whatever they are now.
insert_final_trip_summary_snapshot(call) ==
    /\ number(call) \in SummaryIds \ kept(call)
    /\ summaries' = [m \in SummaryIds |->
                        CASE m = number(call) -> call.read
                          [] m # number(call) /\ m \in kept(call) -> summaries[m]
                          [] OTHER -> Absent]

WriteGenerated(c) ==
    /\ calls[c].op = "create"
    /\ calls[c].read.status = "GENERATED"
    /\ insert_final_trip_summary_snapshot(calls[c])
    /\ UNCHANGED <<orders, assignments>>
    /\ end_call(c)

\* The route that saves without generating first.
WriteSaved(c) ==
    /\ calls[c].op = "create"
    /\ calls[c].read.status = "SAVED"
    /\ insert_final_trip_summary_snapshot(calls[c])
    /\ finalize(calls[c].read.of.orders, calls[c].read.of.dispatch_date)
    /\ end_call(c)

\* The number was taken meanwhile: the insert fails on the primary key.
FailCreate(c) ==
    /\ calls[c].op = "create"
    /\ calls[c].generated = {}
    /\ calls[c].id \in stored
    /\ UNCHANGED <<orders, assignments, summaries>>
    /\ end_call(c)

\* Fault: the update inserts what it does not find.
save_upsert(c) ==
    /\ calls[c].op = "save"
    /\ summaries' = [summaries EXCEPT ![calls[c].id].status = "SAVED"]
    /\ finalize(summaries[calls[c].id].of.orders,
                calls[c].read.of.dispatch_date)
    /\ end_call(c)

\* The update names only the number, and the rows are those stored under it
\* now; the dispatch date is the one read before.
WriteSave(c) ==
    /\ calls[c].op = "save"
    /\ LET n == calls[c].id IN
       IF n \in stored
       THEN /\ summaries' = [summaries EXCEPT ![n].status = "SAVED"]
            /\ finalize(summaries[n].of.orders,
                        calls[c].read.of.dispatch_date)
       ELSE UNCHANGED <<orders, assignments, summaries>>
    /\ end_call(c)

\* What cancelling leaves of the assignments: the order returns to the board
\* under the key that was read before.
returned(of) ==
    {a \in assignments : ~(/\ a.task_id \in of.orders
                           /\ a.dispatch_date = of.dispatch_date)}
    \cup {[task_id |-> o, dispatch_date |-> of.dispatch_date,
           driver_id |-> of.driver_id] : o \in of.orders}

\* idx_manual_dispatch_assignments_task_identity
one_row_per_task(rows) ==
    Indexed => \A a, b \in rows : a.task_id = b.task_id => a = b

\* The summary is deleted whatever its status is now.
WriteCancel(c) ==
    LET of == calls[c].read.of IN
    /\ calls[c].op = "cancel"
    /\ one_row_per_task(returned(of))
    /\ orders' = [o \in Orders |->
                     IF o \in of.orders /\ orders[o] # "CANCELLED"
                     THEN "ACTIVE" ELSE orders[o]]
    /\ assignments' = returned(of)
    /\ summaries' = [summaries EXCEPT ![calls[c].id] = Absent]
    /\ end_call(c)

FailCancel(c) ==
    /\ calls[c].op = "cancel"
    /\ ~one_row_per_task(returned(calls[c].read.of))
    /\ UNCHANGED <<orders, assignments, summaries>>
    /\ end_call(c)

------------------------------------------------------------------------------
(* The migration tool. *)

copied(n, rows) ==
    [legacy_summary_id |-> n, status |-> "SAVED",
     dispatch_date |-> summaries[n].of.dispatch_date,
     driver_id |-> summaries[n].of.driver_id, rows |-> rows]

insert_delivery_run_sheet(n) == copied(n, summaries[n].of.orders)
insert_opshop_collection(n) == copied(n, summaries[n].of.pickups)

copy(n, module) == IF module = "delivery" THEN insert_delivery_run_sheet(n)
                                          ELSE insert_opshop_collection(n)

\* _classify_module: a marker decides alone whether there is a copy already.
conflicting(n, module) ==
    IF marked(n, module) # {}
    THEN \E s \in marked(n, module) : ~same_key(s, summaries[n].of)
    ELSE \E s \in snapshots(module) : same_key(s, summaries[n].of)

to_migrate(module) == {n \in with_status("SAVED") : rows_of(n, module) # {}}

candidates(module) == {n \in to_migrate(module) : marked(n, module) = {}}

\* _build_preflight_report and _raise_for_preflight_blocks: nothing blocks.
preflight_clean ==
    /\ with_status("GENERATED") = {}
    /\ \A module \in Modules :
           \A n \in to_migrate(module) : ~conflicting(n, module)

applied(module) ==
    snapshots(module) \cup {copy(n, module) : n \in candidates(module)}

\* The key of the table and, where it exists, the unique index over the
\* Delivery Date and the driver.
keys_unique(S) ==
    \A s, t \in S :
        (/\ s.driver_id = t.driver_id
         /\ Indexed \/ s.dispatch_date = t.dispatch_date) => s = t

\* One transaction that examines the database again before it writes.  The
\* runbook has the application stopped; the tool itself does not ask.
Migrate ==
    /\ mode = "stopped"
    /\ preflight_clean
    /\ \A module \in Modules : keys_unique(applied(module))
    /\ sheets' = applied("delivery")
    /\ collections' = applied("opshop")
    /\ UNCHANGED <<mode, orders, assignments, summaries, calls>>

------------------------------------------------------------------------------
(* The workspaces and the process. *)

sheets_of(d) == {s \in sheets : s.driver_id = d}

WorkspaceAssign(date, o, d) ==
    /\ mode # "stopped"
    /\ ensure_ready("delivery")
    /\ orders[o] = "ACTIVE"
    /\ ~reserved(o)
    /\ sheets_of(d) = {}
    /\ \A a \in order_assignments(o) : sheets_of(a.driver_id) = {}
    /\ upsert_assignment(date, o, d)
    /\ UNCHANGED <<mode, orders, summaries, sheets, collections, calls>>

assigned_to(d) ==
    {o \in Orders : /\ orders[o] = "ACTIVE"
                    /\ \E a \in order_assignments(o) : a.driver_id = d}

GenerateRunSheet(date, d) ==
    /\ mode # "stopped"
    /\ ensure_ready("delivery")
    /\ sheets_of(d) = {}
    /\ assigned_to(d) # {}
    /\ \A o \in assigned_to(d) : AtMostOne(order_assignments(o))
    /\ sheets' = sheets \cup
           {[legacy_summary_id |-> None, status |-> "GENERATED",
             dispatch_date |-> date, driver_id |-> d, rows |-> assigned_to(d)]}
    /\ UNCHANGED <<mode, orders, assignments, summaries, collections, calls>>

CancelRunSheet(s) ==
    /\ mode # "stopped"
    /\ ensure_ready("delivery")
    /\ s.status = "GENERATED"
    /\ sheets' = sheets \ {s}
    /\ UNCHANGED <<mode, orders, assignments, summaries, collections, calls>>

\* A process reads the flag once, when it starts.
Start(m) ==
    /\ mode = "stopped"
    /\ mode' = m
    /\ UNCHANGED <<data, calls>>

Stop ==
    /\ mode # "stopped"
    /\ mode' = "stopped"
    /\ calls' = [c \in Clients |-> NoCall]
    /\ UNCHANGED data

------------------------------------------------------------------------------
LegacyRequests(c) ==
    \/ \E of \in Requests, status \in {"GENERATED", "SAVED"} :
           CheckCreate(c, of, status)
    \/ \E n \in SummaryIds : CheckSave(c, n) \/ CheckCancel(c, n)
    \/ WriteGenerated(c) \/ WriteSaved(c) \/ FailCreate(c)
    \/ WriteSave(c)
    \/ WriteCancel(c) \/ FailCancel(c)

Next ==
    \/ \E c \in Clients : LegacyRequests(c)
    \/ \E o \in Orders, date \in DispatchDates :
           \/ \E d \in Drivers : \/ AssignTask(date, o, d)
                                 \/ WorkspaceAssign(date, o, d)
           \/ UnassignTask(date, o)
    \/ \E o \in Orders : CancelOrder(o)
    \/ Migrate
    \/ \E date \in DispatchDates, d \in Drivers : GenerateRunSheet(date, d)
    \/ \E s \in sheets : CancelRunSheet(s)
    \/ \E m \in {"current", "legacy"} : Start(m)
    \/ Stop

Spec == Init /\ [][Next]_vars

------------------------------------------------------------------------------
(* What the cutover promises. *)

\* An open gate means that every saved summary has been copied with exactly
\* its rows: the gate compares only row counts.
GateMeansCopied ==
    \A module \in Modules :
        ensure_ready(module) =>
            \A n \in to_migrate(module) : copy(n, module) \in snapshots(module)

\* A saved summary is erased only by a request that was under way before it
\* was saved: it read a GENERATED summary under the number, to cancel or to
\* replace it.
OnlyLateCallsErase ==
    [][\A n \in with_status("SAVED") :
           summaries'[n] # summaries[n] =>
               \E c \in Clients :
                   /\ calls[c] # NoCall /\ calls'[c] = NoCall
                   /\ \/ /\ calls[c].op = "cancel" /\ calls[c].id = n
                         /\ calls[c].read.status = "GENERATED"
                      \/ n \in calls[c].generated]_vars
=============================================================================
