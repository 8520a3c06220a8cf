-------------------------- MODULE OpshopCollections --------------------------
(***************************************************************************)
(* The OP SHOP half of the dispatch board: pickup tasks, their assignments *)
(* and the Pickup Collections that capture them.  As in DeliveryDispatch   *)
(* an action is a complete request that succeeds.  Two exceptions follow   *)
(* the code: reading a board creates the regular tasks of its week one by  *)
(* one, each with a commit of its own, and creating a task may fail after  *)
(* it has restored a cancelled one.                                        *)
(*                                                                         *)
(* Two generations of routes write these tables.  The routes of the        *)
(* workspace ask for Pickup Collections; the older task and list routes    *)
(* ask only for legacy final summaries, of which there are none here.      *)
(*                                                                         *)
(* Drivers are not deleted and schedules stay active.  A definition marked *)
(* "Fault" is the one after it with a likely mistake.                      *)
(***************************************************************************)
EXTENDS Integers, FiniteSets

CONSTANTS
    Regular,        \* schedules with run_type REGULAR
    OnCall,         \* schedules with run_type ON_CALL
    Countryside,    \* those of OnCall that are members of the route group
    Drivers,        \* values of manual_drivers.driver_id
    CollectionIds,  \* values of opshop_pickup_collections.collection_id
    LastDate,       \* dates are the days 1..LastDate; day 1 is a Monday
    DispatchDates,  \* the Dispatch Dates that requests are made under
    CreationDates,  \* the dates for which tasks of a schedule are created
    Due,            \* the dates on which a regular schedule is due
    DefaultDriver,  \* default_driver_id of a schedule
    MaxBatch,       \* assignments in one request
    None            \* SQL NULL

Dates == 1..LastDate
NoDate == 0
Schedules == Regular \cup OnCall

\* _generated_task_id: a task is named after its schedule and the date it was
\* created for, and keeps the name when its pickup date changes.
TaskIds == {id \in Schedules \X Dates : id[2] \in CreationDates[id[1]]}

ASSUME OpshopDateAssumption ==
    /\ LastDate \in Nat /\ MaxBatch \in Nat
    /\ DispatchDates \subseteq Dates
ASSUME ScheduleAssumption ==
    /\ Regular \cap OnCall = {}
    /\ Countryside \subseteq OnCall
    /\ CreationDates \in [Schedules -> SUBSET Dates]
    /\ \A s \in Countryside : CreationDates[s] = Dates
    /\ Due \in [Regular -> SUBSET Dates]
    /\ \A s \in Regular : Due[s] \subseteq CreationDates[s]
    /\ DefaultDriver \in [Schedules -> Drivers \cup {None}]
ASSUME OpshopNullAssumption == None \notin Drivers

VARIABLES
    tasks,          \* opshop_pickup_tasks, one row per id
    assignments,    \* manual_dispatch_assignments, task_type OPSHOP_PICKUP
    collections     \* opshop_pickup_collections and their rows

vars == <<tasks, assignments, collections>>

Task == [status : {"ACTIVE", "ASSIGNED", "CANCELLED"},
         pickup_date : Dates, driver_id : Drivers \cup {None}]

NoTask == [status |-> "ABSENT", pickup_date |-> NoDate, driver_id |-> None]

Assignment == [task_id : TaskIds, dispatch_date : Dates, driver_id : Drivers]

Collection == [status : {"GENERATED", "SAVED"}, pickup_date : Dates,
               driver_id : Drivers, pickups : SUBSET TaskIds]

NoCollection == [status |-> "ABSENT", pickup_date |-> NoDate,
                 driver_id |-> None, pickups |-> {}]

\* Rows have the shape of the schema; a task has a driver exactly when its
\* status is ASSIGNED.
TypeOK ==
    /\ tasks \in [TaskIds -> Task \cup {NoTask}]
    /\ assignments \subseteq Assignment
    /\ collections \in [CollectionIds -> Collection \cup {NoCollection}]
    /\ \A id \in TaskIds :
          tasks[id].status = "ASSIGNED" <=> tasks[id].driver_id # None

-----------------------------------------------------------------------------
(* Queries of the repository and the locks derived from collections. *)

Stored(k) == collections[k].status # "ABSENT"

\* The task of a schedule and pickup date, in any status.
slot(table, s, date) ==
    {id \in TaskIds : id[1] = s /\ table[id].pickup_date = date}

list_assignments_for_task(id) == {a \in assignments : a.task_id = id}

\* Fault: a saved collection no longer occupies its driver/date.
generated_collection_for_driver(date, d) ==
    {k \in CollectionIds : /\ collections[k].status = "GENERATED"
                           /\ collections[k].pickup_date = date
                           /\ collections[k].driver_id = d}

get_opshop_pickup_collection_for_driver(date, d) ==
    {k \in CollectionIds : /\ Stored(k)
                           /\ collections[k].pickup_date = date
                           /\ collections[k].driver_id = d}

ensure_opshop_pickup_collection_key_mutable(date, d) ==
    get_opshop_pickup_collection_for_driver(date, d) = {}

\* Fault: a pickup is reserved only until its collection is saved.
ensure_opshop_pickup_not_generated(id) ==
    \A k \in CollectionIds : collections[k].status = "GENERATED" =>
                                 id \notin collections[k].pickups

ensure_opshop_pickup_not_reserved(id) ==
    \A k \in CollectionIds : id \notin collections[k].pickups

\* Fault: pickups of a saved collection can be collected again.
collectable_again(date, d) ==
    {id \in TaskIds :
        /\ tasks[id] = [status |-> "ASSIGNED", pickup_date |-> date, driver_id |-> d]
        /\ \E a \in assignments : a.task_id = id /\ a.driver_id = d
        /\ ensure_opshop_pickup_not_generated(id)}

\* Fault: what counts is the assignment, not the state of the task.
collectable_by_assignment(date, d) ==
    {id \in TaskIds :
        /\ tasks[id].pickup_date = date
        /\ \E a \in assignments : a.task_id = id /\ a.driver_id = d
        /\ ensure_opshop_pickup_not_reserved(id)}

list_collectable_opshop_pickup_board_items(date, d) ==
    {id \in TaskIds :
        /\ tasks[id] = [status |-> "ASSIGNED", pickup_date |-> date, driver_id |-> d]
        /\ \E a \in assignments : a.task_id = id /\ a.driver_id = d
        /\ ensure_opshop_pickup_not_reserved(id)}

-----------------------------------------------------------------------------
(* Rows as the writes of the repository leave them. *)

\* A task that is new, restored or reassigned; NULL leaves it unassigned.
task_row(date, d) ==
    [status |-> IF d = None THEN "ACTIVE" ELSE "ASSIGNED",
     pickup_date |-> date, driver_id |-> d]

\* Fault: under another Dispatch Date the task gets a second row.
assignment_rows_of_date(id, dispatch_date, d) ==
    IF d = None THEN {}
    ELSE {a \in list_assignments_for_task(id) : a.dispatch_date # dispatch_date}
         \cup {[task_id |-> id, dispatch_date |-> dispatch_date, driver_id |-> d]}

\* The assignment of a task to d: an existing row keeps its Dispatch Date.
assignment_rows(id, dispatch_date, d) ==
    LET existing == list_assignments_for_task(id)
        origins == IF existing = {} THEN {dispatch_date}
                   ELSE {a.dispatch_date : a \in existing}
    IN IF d = None THEN {}
       ELSE {[task_id |-> id, dispatch_date |-> origin, driver_id |-> d] :
                origin \in origins}

\* Rows of these tasks are replaced by the given ones.
with_rows(ids, rows) ==
    {a \in assignments : a.task_id \notin ids} \cup rows

Tables(t, a) == [tasks |-> t, assignments |-> a]

Commit(tables) ==
    /\ tasks' = tables.tasks
    /\ assignments' = tables.assignments
    /\ UNCHANGED collections

-----------------------------------------------------------------------------
(* The regular tasks of the week around a Dispatch Date. *)

weekday(date) == (date - 1) % 7

regular_pickup_week_window(dispatch_date) ==
    LET monday == dispatch_date - weekday(dispatch_date) IN
    IF weekday(dispatch_date) <= 3 THEN monday..(monday + 4)
    ELSE IF weekday(dispatch_date) = 4 THEN dispatch_date..(dispatch_date + 7)
    ELSE (monday + 7)..(monday + 11)

\* The tasks to insert: schedules due on a date of the window for which no
\* task is stored, whatever its status.
missing_tasks(table, dispatch_date) ==
    {id \in TaskIds :
        /\ id[1] \in Regular
        /\ id[2] \in regular_pickup_week_window(dispatch_date)
        /\ id[2] \in Due[id[1]]
        /\ slot(table, id[1], id[2]) = {}}

\* Inserting fails on the primary key when a task of that name has moved to
\* another date.
can_ensure(table, dispatch_date) ==
    \A id \in missing_tasks(table, dispatch_date) :
        table[id].status = "ABSENT"

\* A default driver whose driver/date is locked is left out.
default_driver(id) ==
    IF /\ DefaultDriver[id[1]] # None
       /\ ensure_opshop_pickup_collection_key_mutable(id[2], DefaultDriver[id[1]])
    THEN DefaultDriver[id[1]] ELSE None

default_rows(ids) ==
    {[task_id |-> id, dispatch_date |-> id[2], driver_id |-> default_driver(id)] :
        id \in {i \in ids : default_driver(i) # None}}

\* The tables after the loop has inserted all missing tasks.
ensured(tables, dispatch_date) ==
    LET new == missing_tasks(tables.tasks, dispatch_date) IN
    Tables([id \in TaskIds |-> IF id \in new THEN task_row(id[2], default_driver(id))
                               ELSE tables.tasks[id]],
           tables.assignments \cup default_rows(new))

\* A board is read: one round of the loop.  The reader stops at the first
\* task that cannot be inserted, and keeps those inserted before.
EnsureRegularTask(id) ==
    /\ \E dispatch_date \in DispatchDates : id \in missing_tasks(tasks, dispatch_date)
    /\ tasks[id].status = "ABSENT"
    /\ Commit(Tables([tasks EXCEPT ![id] = task_row(id[2], default_driver(id))],
                     assignments \cup default_rows({id})))

-----------------------------------------------------------------------------
(* Transactional routes of the workspace. *)

mutable_pickup(id) ==
    /\ tasks[id].status \in {"ACTIVE", "ASSIGNED"}
    /\ ensure_opshop_pickup_not_reserved(id)

ensure_current_assignment_mutable(id) ==
    \A a \in list_assignments_for_task(id) :
        ensure_opshop_pickup_collection_key_mutable(tasks[id].pickup_date,
                                                    a.driver_id)

\* Assignments of one request: a driver, or NULL, for each of its tasks.
Batches == UNION {[ids -> Drivers \cup {None}] :
                     ids \in {S \in SUBSET TaskIds :
                                 S # {} /\ Cardinality(S) <= MaxBatch}}

reassigned_tasks(changes) ==
    [id \in TaskIds |-> IF id \in DOMAIN changes
                        THEN task_row(tasks[id].pickup_date, changes[id])
                        ELSE tasks[id]]

apply_opshop_pickup_assignment_batch(changes, dispatch_date) ==
    Tables(reassigned_tasks(changes),
           with_rows(DOMAIN changes,
                     UNION {assignment_rows(id, dispatch_date, changes[id]) :
                               id \in DOMAIN changes}))

mutable_change(id, d) ==
    /\ mutable_pickup(id)
    /\ ensure_current_assignment_mutable(id)
    /\ d = None => list_assignments_for_task(id) # {}
    /\ d # None => ensure_opshop_pickup_collection_key_mutable(
                       tasks[id].pickup_date, d)

\* unassign_pickup is the batch of one task and NULL.  A request without
\* Dispatch Date takes the date of its first task, and is answered with the
\* Trip Summary if its tasks have one pickup date.  Any other answer is a
\* board, read within the transaction.
ApplyAssignments(changes, requested_date) ==
    /\ \A id \in DOMAIN changes : mutable_change(id, changes[id])
    /\ \E first \in DOMAIN changes :
        LET dispatch_date == IF requested_date # NoDate THEN requested_date
                             ELSE tasks[first].pickup_date
            applied == apply_opshop_pickup_assignment_batch(changes, dispatch_date)
        IN IF /\ requested_date = NoDate
              /\ \A id \in DOMAIN changes :
                    tasks[id].pickup_date = tasks[first].pickup_date
           THEN Commit(applied)
           ELSE /\ can_ensure(applied.tasks, dispatch_date)
                /\ Commit(ensured(applied, dispatch_date))

\* The task of a route group member on a date, new or existing.
route_group_task(s, date) ==
    IF slot(tasks, s, date) = {} THEN <<s, date>>
    ELSE CHOOSE id \in slot(tasks, s, date) : TRUE

assigned_route_group(ids, dispatch_date, date, d) ==
    Tables([id \in TaskIds |-> IF id \in ids THEN task_row(date, d) ELSE tasks[id]],
           with_rows(ids, {[task_id |-> id, dispatch_date |-> dispatch_date,
                            driver_id |-> d] : id \in ids}))

\* A new task is upserted: one of that name that has moved is taken back.
AssignRouteGroup(dispatch_date, date, d) ==
    LET applied == assigned_route_group(
                       {route_group_task(s, date) : s \in Countryside},
                       dispatch_date, date, d)
    IN /\ Countryside # {}
       /\ ensure_opshop_pickup_collection_key_mutable(date, d)
       /\ \A s \in Countryside : \A id \in slot(tasks, s, date) :
              /\ ensure_opshop_pickup_not_reserved(id)
              /\ ensure_current_assignment_mutable(id)
       /\ can_ensure(applied.tasks, dispatch_date)
       /\ Commit(ensured(applied, dispatch_date))

-----------------------------------------------------------------------------
(* Task routes.  They are several statements, here executed alone. *)

\* A task can be created if its name is free, restored if it was cancelled.
creatable(s, date) ==
    \/ /\ slot(tasks, s, date) = {}
       /\ date \in CreationDates[s]
       /\ tasks[<<s, date>>].status = "ABSENT"
    \/ \E id \in slot(tasks, s, date) : tasks[id].status = "CANCELLED"

\* With a driver, requested or default, the task is assigned as well.  That a
\* collection reserves it is noticed after it was restored, and the request
\* fails then.
CreatePickupTask(s, date, requested_driver, requested_date) ==
    LET id == route_group_task(s, date)
        d == IF requested_driver # None THEN requested_driver ELSE DefaultDriver[s]
        dispatch_date == IF requested_date # NoDate THEN requested_date ELSE date
    IN /\ d # None => ensure_opshop_pickup_collection_key_mutable(date, d)
       /\ creatable(s, date)
       /\ IF d = None \/ ~ensure_opshop_pickup_not_reserved(id)
          THEN Commit(Tables([tasks EXCEPT ![id] = task_row(date, None)], assignments))
          ELSE Commit(Tables([tasks EXCEPT ![id] = task_row(date, d)],
                             with_rows({id}, assignment_rows(id, dispatch_date, d))))

\* A new pickup date; other edits change nothing of the model.  Only on-call
\* tasks move while assigned, and their assignment is made again.
UpdatePickupTask(id, date, requested_date) ==
    LET task == tasks[id]
        dispatch_date == IF requested_date # NoDate THEN requested_date
                         ELSE task.pickup_date
    IN /\ task.status \in {"ACTIVE", "ASSIGNED"}
       /\ date # task.pickup_date
       /\ task.status = "ASSIGNED" => id[1] \in OnCall
       /\ slot(tasks, id[1], date) = {}
       /\ Commit(Tables([tasks EXCEPT ![id].pickup_date = date],
                        IF task.status = "ACTIVE" THEN assignments
                        ELSE with_rows({id}, {[task_id |-> id,
                                               dispatch_date |-> dispatch_date,
                                               driver_id |-> task.driver_id]})))

\* Fault: the cancelled task keeps its driver.
DeletePickupTaskOnly(id) ==
    /\ tasks[id].status \in {"ACTIVE", "ASSIGNED"}
    /\ Commit(Tables([tasks EXCEPT ![id].status = "CANCELLED"],
                     with_rows({id}, {})))

DeletePickupTask(id) ==
    /\ tasks[id].status \in {"ACTIVE", "ASSIGNED"}
    /\ Commit(Tables([tasks EXCEPT ![id].status = "CANCELLED", ![id].driver_id = None],
                     with_rows({id}, {})))

-----------------------------------------------------------------------------
(* The older list routes, transactional as well. *)

\* What one of the three lists lets through; the rest of a batch is skipped.
listed(kind, id, dispatch_date) ==
    /\ tasks[id].status \in {"ACTIVE", "ASSIGNED"}
    /\ tasks[id].pickup_date >= dispatch_date
    /\ CASE kind = "weekly" ->
              /\ id[1] \in Regular
              /\ tasks[id].pickup_date \in regular_pickup_week_window(dispatch_date)
         [] kind = "oncall" -> id[1] \in OnCall \ Countryside
         [] kind = "countryside" -> id[1] \in Countryside

\* Unassigning removes the assignment made under the same Dispatch Date.
remaining_rows(id, dispatch_date, d) ==
    IF d = None
    THEN {a \in list_assignments_for_task(id) : a.dispatch_date # dispatch_date}
    ELSE assignment_rows(id, dispatch_date, d)

ApplyListAssignments(kind, changes, dispatch_date) ==
    /\ \A id \in DOMAIN changes : listed(kind, id, dispatch_date)
    /\ Commit(Tables(reassigned_tasks(changes),
                     with_rows(DOMAIN changes,
                               UNION {remaining_rows(id, dispatch_date, changes[id]) :
                                         id \in DOMAIN changes})))

\* A new task is inserted, which fails if its name is taken.
AssignRouteGroupPickups(dispatch_date, date, d) ==
    /\ Countryside # {}
    /\ \A s \in Countryside : slot(tasks, s, date) = {} =>
           tasks[<<s, date>>].status = "ABSENT"
    /\ Commit(assigned_route_group({route_group_task(s, date) : s \in Countryside},
                                   dispatch_date, date, d))

-----------------------------------------------------------------------------
(* Pickup Collections. *)

CreateGenerated(k, date, d) ==
    LET pickups == list_collectable_opshop_pickup_board_items(date, d) IN
    /\ ~Stored(k)
    /\ get_opshop_pickup_collection_for_driver(date, d) = {}
    /\ pickups # {}
    /\ collections' = [collections EXCEPT
           ![k] = [status |-> "GENERATED", pickup_date |-> date,
                   driver_id |-> d, pickups |-> pickups]]
    /\ UNCHANGED <<tasks, assignments>>

SaveGenerated(k) ==
    /\ collections[k].status = "GENERATED"
    /\ collections' = [collections EXCEPT ![k].status = "SAVED"]
    /\ UNCHANGED <<tasks, assignments>>

CancelGenerated(k) ==
    /\ collections[k].status = "GENERATED"
    /\ collections' = [collections EXCEPT ![k] = NoCollection]
    /\ UNCHANGED <<tasks, assignments>>

-----------------------------------------------------------------------------

Init ==
    /\ tasks = [id \in TaskIds |-> NoTask]
    /\ assignments = {}
    /\ collections = [k \in CollectionIds |-> NoCollection]

WorkspaceRoutes ==
    \/ \E changes \in Batches, date \in DispatchDates \cup {NoDate} :
          ApplyAssignments(changes, date)
    \/ \E dispatch_date \in DispatchDates, date \in Dates, d \in Drivers :
          AssignRouteGroup(dispatch_date, date, d)

TaskRoutes ==
    \/ \E s \in Schedules, date \in Dates, d \in Drivers \cup {None},
          dispatch_date \in DispatchDates \cup {NoDate} :
          CreatePickupTask(s, date, d, dispatch_date)
    \/ \E id \in TaskIds, date \in Dates, dispatch_date \in DispatchDates \cup {NoDate} :
          UpdatePickupTask(id, date, dispatch_date)
    \/ \E id \in TaskIds : DeletePickupTask(id)

ListRoutes ==
    \/ \E kind \in {"weekly", "oncall", "countryside"}, changes \in Batches,
          dispatch_date \in DispatchDates :
          ApplyListAssignments(kind, changes, dispatch_date)
    \/ \E dispatch_date \in DispatchDates, date \in Dates, d \in Drivers :
          AssignRouteGroupPickups(dispatch_date, date, d)

CollectionRoutes ==
    \E k \in CollectionIds :
        \/ \E date \in Dates, d \in Drivers : CreateGenerated(k, date, d)
        \/ SaveGenerated(k)
        \/ CancelGenerated(k)

Next ==
    \/ \E id \in TaskIds : EnsureRegularTask(id)
    \/ WorkspaceRoutes
    \/ TaskRoutes
    \/ ListRoutes
    \/ CollectionRoutes

Spec == Init /\ [][Next]_vars

-----------------------------------------------------------------------------
(* Properties. *)

\* A driver has one collection per pickup date, under whatever Dispatch Dates
\* the requests came.
OneCollectionPerDriverDate ==
    \A k, m \in CollectionIds :
        /\ Stored(k) /\ Stored(m)
        /\ collections[k].pickup_date = collections[m].pickup_date
        /\ collections[k].driver_id = collections[m].driver_id
        => k = m

\* No pickup is on two collections, even when its task has been moved,
\* cancelled, restored or reassigned since one of them captured it.
CollectedOnce ==
    \A k, m \in CollectionIds :
        collections[k].pickups \cap collections[m].pickups # {} => k = m

\* An assigned task is assigned in both tables, and to the same driver; a
\* task would be missing from generation otherwise.
AssignedInBothTables ==
    \A id \in TaskIds : tasks[id].status = "ASSIGNED" =>
        \E a \in assignments :
            list_assignments_for_task(id) = {a} /\ a.driver_id = tasks[id].driver_id

\* README "GENERATED Pickup Collections reserve the captured OP SHOP tasks":
\* what was captured is still assigned to the driver and date of the
\* collection.  The code violates it.
CapturedPickupsIntact ==
    \A k \in CollectionIds : \A id \in collections[k].pickups :
        tasks[id] = task_row(collections[k].pickup_date, collections[k].driver_id)

\* Only the routes that do not ask for collections spoil what one captured,
\* and AssignRouteGroup when it takes back a task that has moved.
OnlyUncheckedRoutesSpoil ==
    [][CapturedPickupsIntact /\ ~CapturedPickupsIntact' =>
          \/ ListRoutes
          \/ \E id \in TaskIds : tasks[id] # tasks'[id] /\
                \/ DeletePickupTask(id)
                \/ tasks[id].pickup_date # tasks'[id].pickup_date]_vars

\* The board of every Dispatch Date can be read.  The code violates it.
BoardsOpen == \A dispatch_date \in DispatchDates : can_ensure(tasks, dispatch_date)
=============================================================================
