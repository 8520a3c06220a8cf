------------------------ MODULE DatabaseMaintenance -------------------------
(***************************************************************************)
(* The life of one database file: the start-up that creates or upgrades    *)
(* it, and the tools that repair it beside the running application: the    *)
(* repair of duplicated assignments by a decision file, the creation of    *)
(* the unique indexes, and the backfill of pickups cleared after a Final   *)
(* Summary was saved.                                                      *)
(*                                                                         *)
(* Each tool reads first and writes later, in one transaction; between the *)
(* two the application may write, unless somebody has stopped it, and the  *)
(* tool may die.  Start-up commits twice: executescript commits the        *)
(* tables, and everything after it is one transaction, opened by the first *)
(* UPDATE of the column migration.                                         *)
(*                                                                         *)
(* Every writer of manual_dispatch_assignments is here, except the reset   *)
(* of demo data, which empties the table.  Of a pickup task only its       *)
(* status and driver are kept, of an assignment its key and driver, of an  *)
(* order nothing but its id: a request may name any.  Locks of saved       *)
(* summaries, sheets and collections are left out; they only refuse.  Row  *)
(* hashes are the rows.  A definition marked "Fault" is the one after it   *)
(* with a likely mistake.                                                  *)
(***************************************************************************)
EXTENDS Integers, FiniteSets

CONSTANTS
    Pickups, Orders,    \* task ids, by task type
    Drivers,
    LastDate,           \* dispatch dates are 1..LastDate
    SavedRows,          \* OP SHOP rows of SAVED Final Summaries, one Delivery Date
    Summaries,          \* what a GENERATED legacy summary may hold
    None                \* SQL NULL

Dates == 1..LastDate
Tasks == Pickups \cup Orders

Assignment == [task_id : Tasks, dispatch_date : Dates, driver_id : Drivers]

ASSUME MaintenanceDateAssumption == LastDate \in Nat
ASSUME SavedRowsAssumption ==
    SavedRows \subseteq [task_id : Pickups, dispatch_date : Dates,
                         driver_id : Drivers]
ASSUME SummariesAssumption ==
    Summaries \subseteq [dispatch_date : Dates, driver_id : Drivers,
                         orders : SUBSET Orders]

ASSUME MaintenanceNullAssumption == None \notin Drivers
ASSUME TaskTypeAssumption == Pickups \cap Orders = {}

VARIABLES
    schema,         \* what the file holds
    indexed,        \* whether the unique indexes exist
    born,           \* history: how the file came to be
    app,            \* the application process
    fresh,          \* its local is_fresh_database
    cancellation,   \* the legacy summary that a request being served has read
    pickups,        \* opshop_pickup_tasks
    assignments,    \* manual_dispatch_assignments
    decision,       \* the decision file of the repair tool
    repair,         \* the repair tool's apply
    findings        \* what a backfill has found and not yet applied

file == <<schema, indexed, born>>
process == <<app, fresh, cancellation>>
rows == <<pickups, assignments>>
tools == <<decision, repair, findings>>
vars == <<schema, indexed, born, app, fresh, cancellation, pickups,
          assignments, decision, repair, findings>>

Pickup == [status : {"ACTIVE", "ASSIGNED", "CANCELLED"},
           driver_id : Drivers \cup {None}]

NoDecision == [made |-> FALSE]

key_unique(S) ==
    \A a, b \in S : (/\ a.task_id = b.task_id
                     /\ a.dispatch_date = b.dispatch_date) => a = b

\* A task has a driver exactly when it is ASSIGNED; the table has one row per
\* task and dispatch date.
TypeOK ==
    /\ schema \in {"absent", "old", "current"}
    /\ indexed \in BOOLEAN
    /\ born \in {"fresh", "old", "interrupted"}
    /\ app \in {"stopped", "connected", "created", "running"}
    /\ fresh \in BOOLEAN
    /\ cancellation \in Summaries \cup {None}
    /\ pickups \in [Pickups -> Pickup]
    /\ \A t \in Pickups : pickups[t].status = "ASSIGNED" <=>
                              pickups[t].driver_id # None
    /\ assignments \subseteq Assignment /\ key_unique(assignments)
    /\ decision # NoDecision => decision.assignments \subseteq Assignment
    /\ repair \in {"idle", "backed_up"}
    /\ findings = None \/ findings \subseteq SavedRows

\* A new file, or one that an older version has left: it kept one assignment
\* per task and dispatch date, and tasks could lose theirs.
Init ==
    /\ \/ /\ schema = "absent" /\ born = "fresh"
          /\ pickups = [t \in Pickups |-> [status |-> "ACTIVE",
                                           driver_id |-> None]]
          /\ assignments = {}
       \/ /\ schema = "old" /\ born = "old"
          /\ pickups \in [Pickups -> Pickup]
          /\ \A t \in Pickups : pickups[t].status = "ASSIGNED" <=>
                                    pickups[t].driver_id # None
          /\ assignments \in SUBSET Assignment
          /\ key_unique(assignments)
    /\ indexed = FALSE
    /\ app = "stopped" /\ fresh = FALSE /\ cancellation = None
    /\ decision = NoDecision /\ repair = "idle" /\ findings = None

rows_of(S, t) == {a \in S : a.task_id = t}

one_row_per_task(S) == \A a, b \in S : a.task_id = b.task_id => a = b

------------------------------------------------------------------------------
(* Start-up. *)

\* The file is fresh when it has no table manual_orders.
Connect ==
    /\ app = "stopped"
    /\ app' = "connected"
    /\ fresh' = (schema = "absent")
    /\ UNCHANGED <<file, cancellation, rows, tools>>

\* executescript: the tables, committed.
CreateTables ==
    /\ app = "connected"
    /\ app' = "created"
    /\ schema' = IF schema = "absent" THEN "old" ELSE schema
    /\ UNCHANGED <<indexed, born, fresh, cancellation, rows, tools>>

\* Fault: existing files are indexed, fresh ones are not.
ensure_columns_stale ==
    /\ app = "created"
    /\ app' = "running"
    /\ schema' = "current"
    /\ indexed' = (indexed \/ (~fresh /\ one_row_per_task(assignments)))
    /\ UNCHANGED <<born, fresh, cancellation, rows, tools>>

\* _ensure_manual_dispatch_columns and the indexes, one commit; a unique
\* index cannot be created over duplicates.
ensure_manual_dispatch_columns ==
    /\ app = "created"
    /\ fresh => one_row_per_task(assignments)
    /\ app' = "running"
    /\ schema' = "current"
    /\ indexed' = (indexed \/ fresh)
    /\ UNCHANGED <<born, fresh, cancellation, rows, tools>>

\* The process ends, and a request with it.  What start-up had committed stays.
Stop ==
    /\ app # "stopped"
    /\ app' = "stopped"
    /\ born' = IF app = "created" /\ fresh THEN "interrupted" ELSE born
    /\ cancellation' = None
    /\ UNCHANGED <<schema, indexed, fresh, rows, tools>>

------------------------------------------------------------------------------
(* What the running application writes. *)

\* Fault: an assignment is looked up under the request's own date.
upsert_under_date(date, t, d) ==
    /\ one_row_per_task(rows_of(assignments, t))
    /\ assignments' =
           {a \in assignments : ~(a.task_id = t /\ a.dispatch_date = date)}
           \cup {[task_id |-> t, dispatch_date |-> date, driver_id |-> d]}
    /\ indexed => one_row_per_task(assignments')

\* The row of the task keeps its dispatch date; with two rows the request
\* fails.
upsert_assignment(date, t, d) ==
    /\ one_row_per_task(rows_of(assignments, t))
    /\ assignments' =
           IF rows_of(assignments, t) = {}
           THEN assignments \cup
                    {[task_id |-> t, dispatch_date |-> date, driver_id |-> d]}
           ELSE {[a EXCEPT !.driver_id = IF a.task_id = t THEN d ELSE @] :
                    a \in assignments}

\* remove_assignments_for_task fails, too, when there are two rows.
remove_assignments_for_task(t) ==
    /\ one_row_per_task(rows_of(assignments, t))
    /\ assignments' = assignments \ rows_of(assignments, t)

remove_assignment(date, t) ==
    assignments' = {a \in assignments :
                       ~(a.task_id = t /\ a.dispatch_date = date)}

\* A handler that gives a pickup task a status and a driver.
set_pickup(t, status, d) ==
    /\ app = "running"
    /\ pickups' = [pickups EXCEPT ![t] = [status |-> status, driver_id |-> d]]
    /\ UNCHANGED <<file, process, tools>>

\* assign_task, the lists and the workspace's batch.
AssignPickup(date, t, d) ==
    /\ pickups[t].status # "CANCELLED"
    /\ upsert_assignment(date, t, d)
    /\ set_pickup(t, "ASSIGNED", d)

\* A route group and a new pickup date: all rows go first, whatever the task
\* was.
ReplacePickup(date, t, d) ==
    /\ one_row_per_task(rows_of(assignments, t))
    /\ assignments' =
           (assignments \ rows_of(assignments, t)) \cup
           {[task_id |-> t, dispatch_date |-> date, driver_id |-> d]}
    /\ set_pickup(t, "ASSIGNED", d)

\* Fault: the task keeps its driver.
UnassignKeepsDriver(date, t) ==
    /\ remove_assignment(date, t)
    /\ set_pickup(t, "ACTIVE", pickups[t].driver_id)

\* unassign_task and the lists: only the row of the request's board goes; the
\* task is free all the same.
UnassignPickup(date, t) ==
    /\ remove_assignment(date, t)
    /\ set_pickup(t, "ACTIVE", None)

\* unassign_pickup of the workspace.
ReleasePickup(t) ==
    /\ pickups[t].status # "CANCELLED"
    /\ rows_of(assignments, t) # {}
    /\ remove_assignments_for_task(t)
    /\ set_pickup(t, "ACTIVE", None)

CancelPickup(t) ==
    /\ pickups[t].status # "CANCELLED"
    /\ remove_assignments_for_task(t)
    /\ set_pickup(t, "CANCELLED", None)

\* A handler that writes nothing of pickups.
order_handler ==
    app = "running" /\ UNCHANGED <<file, process, pickups, tools>>

\* assign_task and assign_order.
AssignOrder(date, o, d) == upsert_assignment(date, o, d) /\ order_handler

\* unassign_task; saving a legacy summary does the same to its orders, each
\* under the summary's board.
UnassignOrder(date, o) == remove_assignment(date, o) /\ order_handler

\* unassign_order and the closeout.
ReleaseOrder(o) == remove_assignments_for_task(o) /\ order_handler

\* cancel_generated_final_trip_summary reads before its transaction begins.
\* Summaries are generated from any active orders; which there are is open.
ReadCancel(of) ==
    /\ app = "running"
    /\ cancellation = None
    /\ cancellation' = of
    /\ UNCHANGED <<file, app, fresh, rows, tools>>

\* INSERT ... ON CONFLICT(dispatch_date, task_type, task_id): each order
\* returns under the summary's own board, wherever it has moved meanwhile.
returned(of) ==
    {a \in assignments : ~(/\ a.task_id \in of.orders
                           /\ a.dispatch_date = of.dispatch_date)}
    \cup {[task_id |-> o, dispatch_date |-> of.dispatch_date,
           driver_id |-> of.driver_id] : o \in of.orders}

end_cancel ==
    /\ cancellation # None
    /\ cancellation' = None
    /\ UNCHANGED <<file, app, fresh, pickups, tools>>

WriteCancel ==
    /\ end_cancel
    /\ assignments' = returned(cancellation)
    /\ indexed => one_row_per_task(assignments')

\* The unique index objects.
FailCancel ==
    /\ end_cancel
    /\ indexed /\ ~one_row_per_task(returned(cancellation))
    /\ UNCHANGED assignments

------------------------------------------------------------------------------
(* The repair of duplicated assignments. *)

duplicates(S) == {t \in Tasks : ~one_row_per_task(rows_of(S, t))}

\* _plan_group fails closed on what it cannot decide.
blocked_groups(db) == duplicates(db.assignments) \ Pickups

\* The earliest row is kept and follows the task's driver.
canonical(db, t) ==
    CHOOSE a \in rows_of(db.assignments, t) :
        \A b \in rows_of(db.assignments, t) : a.dispatch_date <= b.dispatch_date

plan_group(db, t) ==
    IF db.pickups[t].status = "ASSIGNED"
    THEN {[canonical(db, t) EXCEPT !.driver_id = db.pickups[t].driver_id]}
    ELSE {}

database == [pickups |-> pickups, assignments |-> assignments,
             indexed |-> indexed]

\* inspect_assignment_identity_conflicts: the decision file records the
\* database it was made from, and what it will do to it.  A file that
\* apply_assignment_identity_repair refuses whatever happens is not kept.
DryRun ==
    /\ schema # "absent"
    /\ repair = "idle"
    /\ decision' = IF /\ blocked_groups(database) = {}
                      /\ duplicates(assignments) # {}
                   THEN database ELSE NoDecision
    /\ UNCHANGED <<file, process, rows, repair, findings>>

plan_matches_current == decision = database

\* Everything up to the backup.
BeginRepair ==
    /\ decision # NoDecision
    /\ repair = "idle"
    /\ blocked_groups(decision) = {}
    /\ duplicates(decision.assignments) # {}
    /\ plan_matches_current
    /\ repair' = "backed_up"
    /\ UNCHANGED <<file, process, rows, decision, findings>>

apply_groups ==
    LET groups == duplicates(decision.assignments) IN
    {a \in assignments : a.task_id \notin groups} \cup
    UNION {plan_group(decision, t) : t \in groups}

\* Fault: the plan is not compared again under the lock.
apply_unlocked ==
    /\ repair = "backed_up"
    /\ assignments' = apply_groups
    /\ repair' = "idle"
    /\ UNCHANGED <<file, process, pickups, decision, findings>>

\* The transaction compares the plan once more.
ApplyRepair ==
    /\ repair = "backed_up"
    /\ plan_matches_current
    /\ assignments' = apply_groups
    /\ repair' = "idle"
    /\ UNCHANGED <<file, process, pickups, decision, findings>>

\* The plan no longer matches, or the tool dies.
AbandonRepair ==
    /\ repair = "backed_up"
    /\ repair' = "idle"
    /\ UNCHANGED <<file, process, rows, decision, findings>>

\* migrate_database_invariants audits under its lock and never deletes rows.
CreateIndexes ==
    /\ schema # "absent"
    /\ duplicates(assignments) = {}
    /\ indexed' = TRUE
    /\ UNCHANGED <<schema, born, process, rows, tools>>

------------------------------------------------------------------------------
(* The backfill of saved pickups. *)

\* The same pickup in saved summaries of different drivers.
duplicate_saved_conflict(t) ==
    \E r, s \in SavedRows : /\ r.task_id = t /\ s.task_id = t
                            /\ r.driver_id # s.driver_id

row_under(r) == {a \in assignments : /\ a.task_id = r.task_id
                                     /\ a.dispatch_date = r.dispatch_date}

is_still_safe_to_repair(r) ==
    /\ pickups[r.task_id].status \in {"ACTIVE", "ASSIGNED"}
    /\ pickups[r.task_id].driver_id \in {None, r.driver_id}
    /\ \A a \in row_under(r) : a.driver_id = r.driver_id

\* The tool also compares the task's dispatch date with the summary's, and
\* this module keeps none: `misdated' are the rows for which they differ.
already_ok(r, misdated) ==
    /\ pickups[r.task_id].status = "ASSIGNED"
    /\ r \notin misdated
    /\ row_under(r) # {}

classify_candidate(r, misdated) ==
    /\ ~duplicate_saved_conflict(r.task_id)
    /\ is_still_safe_to_repair(r)
    /\ ~already_ok(r, misdated)

AuditBackfill(misdated) ==
    /\ schema # "absent"
    /\ findings = None
    /\ findings' = {r \in SavedRows : classify_candidate(r, misdated)}
    /\ UNCHANGED <<file, process, rows, decision, repair>>

safe_findings == {r \in findings : is_still_safe_to_repair(r)}

\* Each finding that is still safe gives its task and the row of its own
\* board back; a unique index that objects undoes them all.
ApplyBackfill ==
    /\ findings # None
    /\ pickups' = [t \in Pickups |->
           IF \E r \in safe_findings : r.task_id = t
           THEN [status |-> "ASSIGNED",
                 driver_id |-> (CHOOSE r \in safe_findings :
                                    r.task_id = t).driver_id]
           ELSE pickups[t]]
    /\ assignments' = {a \in assignments :
                          \A r \in safe_findings : a \notin row_under(r)}
                      \cup safe_findings
    /\ indexed => one_row_per_task(assignments')
    /\ findings' = None
    /\ UNCHANGED <<file, process, decision, repair>>

\* A dry run, a failed transaction, or the tool dies.
AbandonBackfill ==
    /\ findings # None
    /\ findings' = None
    /\ UNCHANGED <<file, process, rows, decision, repair>>

------------------------------------------------------------------------------
StartUp == Connect \/ CreateTables \/ ensure_manual_dispatch_columns \/ Stop

PickupRequest(t) ==
    \/ CancelPickup(t)
    \/ ReleasePickup(t)
    \/ \E date \in Dates :
        \/ UnassignPickup(date, t)
        \/ \E d \in Drivers : AssignPickup(date, t, d) \/ ReplacePickup(date, t, d)

OrderRequest(o) ==
    \/ ReleaseOrder(o)
    \/ \E date \in Dates : \/ UnassignOrder(date, o)
                           \/ \E d \in Drivers : AssignOrder(date, o, d)

CancelRequest == (\E of \in Summaries : ReadCancel(of)) \/ WriteCancel \/ FailCancel

Application ==
    \/ \E t \in Pickups : PickupRequest(t)
    \/ \E o \in Orders : OrderRequest(o)
    \/ CancelRequest

MaintenanceTools ==
    \/ DryRun \/ BeginRepair \/ ApplyRepair \/ AbandonRepair
    \/ CreateIndexes
    \/ \E misdated \in SUBSET SavedRows : AuditBackfill(misdated)
    \/ ApplyBackfill \/ AbandonBackfill

Next == StartUp \/ Application \/ MaintenanceTools

Spec == Init /\ [][Next]_vars

------------------------------------------------------------------------------
(* What start-up and the tools promise. *)

\* docs: "Fresh databases receive the indexes during initialization."  A file
\* whose first start-up died between its two commits is the exception: it is
\* never fresh again, and nothing in the application notices.
FreshDatabasesIndexed ==
    (app = "running" /\ born = "fresh") => indexed

\* However long ago its plan was made, a repair leaves every task with the
\* driver the task has now: one row, of the earliest date, when it is
\* ASSIGNED, none otherwise; and it touches no task that had one row.
RepairFollowsTasks ==
    [][repair = "backed_up" /\ assignments' # assignments /\ repair' = "idle" =>
           \A t \in Tasks :
               IF t \notin duplicates(assignments)
               THEN rows_of(assignments', t) = rows_of(assignments, t)
               ELSE IF pickups[t].status = "ASSIGNED"
               THEN \E a \in rows_of(assignments, t) :
                        /\ \A b \in rows_of(assignments, t) :
                               a.dispatch_date <= b.dispatch_date
                        /\ rows_of(assignments', t) =
                               {[a EXCEPT !.driver_id = pickups[t].driver_id]}
               ELSE rows_of(assignments', t) = {}]_vars

\* A task gets a second row only in a file without the indexes, and only from
\* the two writers that look for a row under the board of a summary instead of
\* any row of the task: a backfill, at a pickup it has found, and the
\* cancellation of a legacy summary, at an order that has moved to another
\* board since the summary was generated.
OnlySummariesDuplicate ==
    [][\A t \in duplicates(assignments') \ duplicates(assignments) :
           /\ ~indexed
           /\ \/ /\ findings # None /\ findings' = None
                 /\ \E r \in findings : r.task_id = t
              \/ /\ cancellation # None /\ cancellation' = None
                 /\ t \in cancellation.orders
                 /\ \E a \in rows_of(assignments, t) :
                        a.dispatch_date # cancellation.dispatch_date]_vars
=============================================================================
