----------------------- MODULE OpshopCollectionsProofs -----------------------
(***************************************************************************)
(* Proofs about OpshopCollections, for every set of schedules, drivers and *)
(* collections.  The routes write the two tables of tasks together: a set  *)
(* of tasks gets new rows, and the assignments of just these tasks are     *)
(* replaced.  The invariant is a conjunction over single tasks, so that it *)
(* need only be checked for the tasks of that set (WriteRows).             *)
(***************************************************************************)
EXTENDS OpshopCollections, TLAPS

-----------------------------------------------------------------------------
(* The inductive invariant. *)

\* A row of opshop_pickup_tasks, or none.
RowOK(row) ==
    /\ row \in Task \cup {NoTask}
    /\ row.status = "ASSIGNED" <=> row.driver_id # None

TaskTableOK(t) ==
    /\ t \in [TaskIds -> Task \cup {NoTask}]
    /\ \A id \in TaskIds : RowOK(t[id])

\* A schedule has one task per pickup date, whatever the status.
SlotsOK(t) ==
    \A id, other \in TaskIds :
        /\ id[1] = other[1]
        /\ t[id].pickup_date = t[other].pickup_date
        /\ t[id].pickup_date # NoDate
        => id = other

\* The assignments of one task: at most one; the one of its driver when it
\* is assigned; none when it was cancelled or does not exist.  A task that is
\* active may keep one, because a list route unassigns only what was assigned
\* under the same Dispatch Date.
RowsOf(id, row, a) ==
    /\ \A x, y \in a : x.task_id = id /\ y.task_id = id => x = y
    /\ row.status = "ASSIGNED" =>
           \E x \in a : x.task_id = id /\ x.driver_id = row.driver_id
    /\ row.status \in {"ABSENT", "CANCELLED"} => \A x \in a : x.task_id # id

Good(t, a) ==
    /\ TaskTableOK(t)
    /\ a \subseteq Assignment
    /\ SlotsOK(t)
    /\ \A id \in TaskIds : RowsOf(id, t[id], a)

CollectionsOK ==
    /\ collections \in [CollectionIds -> Collection \cup {NoCollection}]
    /\ OneCollectionPerDriverDate

\* What the task routes keep, what the collection routes keep, and what they
\* keep together.
BoardInv ==
    /\ Good(tasks, assignments)
    /\ CollectionsOK
    /\ CollectedOnce

-----------------------------------------------------------------------------
(* Rows and tasks. *)

LEMMA TaskIdType ==
    ASSUME NEW id \in TaskIds
    PROVE  /\ id[1] \in Schedules /\ id[2] \in Dates
           /\ id[2] \in CreationDates[id[1]]
           /\ id = <<id[1], id[2]>>
  BY DEF TaskIds

LEMMA DatesArePositive == NoDate \notin Dates
  BY OpshopDateAssumption DEF NoDate, Dates

LEMMA NewTaskRow ==
    ASSUME NEW date \in Dates, NEW d \in Drivers \cup {None}
    PROVE  /\ task_row(date, d) \in Task
           /\ RowOK(task_row(date, d))
           /\ task_row(date, d).pickup_date = date
           /\ task_row(date, d).driver_id = d
           /\ task_row(date, d).status = IF d = None THEN "ACTIVE" ELSE "ASSIGNED"
  BY DEF task_row, RowOK, Task

\* A task that is not absent has a pickup date and a row of the schema.
LEMMA StoredRow ==
    ASSUME NEW row, RowOK(row), row.status # "ABSENT"
    PROVE  /\ row \in Task /\ row.pickup_date \in Dates
           /\ row.driver_id \in Drivers \cup {None}
           /\ row.status \in {"ACTIVE", "ASSIGNED", "CANCELLED"}
  BY DEF RowOK, Task, NoTask

\* The assignments of other tasks.
kept(a, ids) == {x \in a : x.task_id \notin ids}

\* The tables after the tasks of ids were written with the rows of table t2,
\* and their assignments replaced by R.
LEMMA WriteRows ==
    ASSUME NEW t, NEW a, Good(t, a),
           NEW ids \in SUBSET TaskIds,
           NEW t2, t2 = [id \in TaskIds |-> t2[id]],
           \A id \in TaskIds \ ids : t2[id] = t[id],
           NEW R, R \subseteq Assignment,
           \A x \in R : x.task_id \in ids,
           \A id \in ids : RowOK(t2[id]),
           \A id \in ids : RowsOf(id, t2[id], R),
           SlotsOK(t2)
    PROVE  Good(t2, kept(a, ids) \cup R)
  <1> DEFINE a2 == kept(a, ids) \cup R
  <1>1. a2 \subseteq Assignment
    BY DEF Good, kept
  <1>3. TaskTableOK(t2)
    <2>1. \A id \in TaskIds : RowOK(t2[id])
      BY DEF Good, TaskTableOK
    <2>2. \A id \in TaskIds : t2[id] \in Task \cup {NoTask}
      BY <2>1 DEF RowOK
    <2> QED BY <2>1, <2>2 DEF TaskTableOK
  <1>4. ASSUME NEW id \in TaskIds PROVE RowsOf(id, t2[id], a2)
    <2>1. CASE id \in ids
      <3>1. \A x : x \in a2 /\ x.task_id = id <=> x \in R /\ x.task_id = id
        BY <2>1 DEF kept
      <3>2. RowsOf(id, t2[id], R)
        BY <2>1
      <3> QED BY <3>1, <3>2 DEF RowsOf
    <2>2. CASE id \notin ids
      <3>1. \A x : x \in a2 /\ x.task_id = id <=> x \in a /\ x.task_id = id
        BY <2>2 DEF kept
      <3>2. RowsOf(id, t[id], a) /\ t2[id] = t[id]
        BY <2>2 DEF Good
      <3> QED BY <3>1, <3>2 DEF RowsOf
    <2> QED BY <2>1, <2>2
  <1> QED BY <1>1, <1>3, <1>4 DEF Good

\* The assignment of a task to a driver is one row, whether there was one
\* before or not.
LEMMA AssignmentRows ==
    ASSUME Good(tasks, assignments),
           NEW id \in TaskIds, NEW dispatch_date \in Dates,
           NEW d \in Drivers \cup {None}
    PROVE  LET rows == assignment_rows(id, dispatch_date, d) IN
           /\ rows \subseteq Assignment
           /\ \A x \in rows : x.task_id = id /\ x.driver_id = d
           /\ \A x, y \in rows : x = y
           /\ d # None => rows # {}
           /\ d = None => rows = {}
  <1> DEFINE existing == list_assignments_for_task(id)
             origins == IF existing = {} THEN {dispatch_date}
                        ELSE {a.dispatch_date : a \in existing}
  <1>1. existing \subseteq Assignment /\ \A x, y \in existing : x = y
    BY DEF list_assignments_for_task, Good, RowsOf
  <1>2. \A x \in existing : x.dispatch_date \in Dates
    BY <1>1 DEF Assignment
  <1> HIDE DEF existing
  <1>3. origins \subseteq Dates /\ origins # {} /\ \A x, y \in origins : x = y
    BY <1>1, <1>2
  <1> HIDE DEF origins
  <1>4. assignment_rows(id, dispatch_date, d) =
            IF d = None THEN {}
            ELSE {[task_id |-> id, dispatch_date |-> origin, driver_id |-> d] :
                     origin \in origins}
    BY DEF assignment_rows, existing, origins
  <1>5. CASE d = None
    BY <1>4, <1>5
  <1>6. CASE d # None
    <2> DEFINE row(origin) == [task_id |-> id, dispatch_date |-> origin,
                               driver_id |-> d]
               rows == assignment_rows(id, dispatch_date, d)
    <2>1. rows = {row(origin) : origin \in origins}
      BY <1>4, <1>6
    <2>2. \A origin \in origins : /\ row(origin) \in Assignment
                                  /\ row(origin).task_id = id
                                  /\ row(origin).driver_id = d
      BY <1>3, <1>6 DEF Assignment
    <2> HIDE DEF row, rows
    <2>3. \A x, y \in rows : x = y
      BY <2>1, <1>3
    <2>4. rows # {}
      BY <2>1, <1>3
    <2> QED BY <2>1, <2>2, <2>3, <2>4, <1>6 DEF rows
  <1> QED BY <1>5, <1>6

\* One task of its slot is written without changing its pickup date.
LEMMA SlotsKept ==
    ASSUME NEW t, NEW t2, SlotsOK(t),
           \A id \in TaskIds : t2[id].pickup_date = t[id].pickup_date
    PROVE  SlotsOK(t2)
  BY DEF SlotsOK

\* One task of a date for which its schedule has no other.
LEMMA SlotTaken ==
    ASSUME NEW t, NEW t2, SlotsOK(t), NEW id \in TaskIds, NEW date,
           t2[id].pickup_date = date,
           \A o \in TaskIds : o # id => t2[o].pickup_date = t[o].pickup_date,
           slot(t, id[1], date) \subseteq {id}
    PROVE  SlotsOK(t2)
  BY DEF SlotsOK, slot

-----------------------------------------------------------------------------
(* The regular tasks of a week. *)

LEMMA DefaultDriverType ==
    ASSUME NEW id \in TaskIds PROVE default_driver(id) \in Drivers \cup {None}
  BY ScheduleAssumption, TaskIdType DEF default_driver

\* Inserting absent tasks, each alone in its slot, keeps the invariant.
LEMMA Inserted ==
    ASSUME NEW t, NEW a, Good(t, a), NEW new \in SUBSET TaskIds,
           \A id \in new : t[id].status = "ABSENT" /\ slot(t, id[1], id[2]) = {},
           NEW t2,
           t2 = [id \in TaskIds |-> IF id \in new THEN task_row(id[2], default_driver(id))
                                    ELSE t[id]]
    PROVE  Good(t2, a \cup default_rows(new))
  <1> DEFINE R == default_rows(new)
  <1>1. \A x \in R : /\ x \in Assignment /\ x.task_id \in new
                     /\ default_driver(x.task_id) # None
                     /\ x = [task_id |-> x.task_id, dispatch_date |-> x.task_id[2],
                             driver_id |-> default_driver(x.task_id)]
    BY DefaultDriverType, TaskIdType DEF default_rows, Assignment
  <1>2. \A id \in new : default_driver(id) # None =>
            [task_id |-> id, dispatch_date |-> id[2],
             driver_id |-> default_driver(id)] \in R
    BY DEF default_rows
  <1>3. \A id \in new : /\ t2[id] = task_row(id[2], default_driver(id))
                        /\ RowOK(t2[id])
                        /\ t2[id].pickup_date = id[2]
                        /\ t2[id].driver_id = default_driver(id)
                        /\ t2[id].status = IF default_driver(id) = None
                                           THEN "ACTIVE" ELSE "ASSIGNED"
    BY NewTaskRow, DefaultDriverType, TaskIdType
  <1>4. \A id \in TaskIds : id \notin new => t2[id] = t[id]
    OBVIOUS
  <1> HIDE DEF R
  <1>5. ASSUME NEW id \in new PROVE RowsOf(id, t2[id], R)
    <2>1. \A x, y \in R : x.task_id = id /\ y.task_id = id => x = y
      BY <1>1
    <2>2. t2[id].status = "ASSIGNED" =>
              \E x \in R : x.task_id = id /\ x.driver_id = t2[id].driver_id
      <3> DEFINE row == [task_id |-> id, dispatch_date |-> id[2],
                         driver_id |-> default_driver(id)]
      <3>1. row.task_id = id /\ row.driver_id = default_driver(id)
        OBVIOUS
      <3>2. default_driver(id) # None => row \in R
        BY <1>2
      <3> HIDE DEF row
      <3> QED BY <1>3, <3>1, <3>2
    <2>3. t2[id].status \notin {"ABSENT", "CANCELLED"}
      BY <1>3
    <2> QED BY <2>1, <2>2, <2>3 DEF RowsOf
  <1>6. SlotsOK(t2)
    <2> SUFFICES ASSUME NEW id \in TaskIds, NEW other \in TaskIds,
                        id[1] = other[1],
                        t2[id].pickup_date = t2[other].pickup_date,
                        t2[id].pickup_date # NoDate
                 PROVE  id = other
      BY DEF SlotsOK
    <2>1. CASE id \in new /\ other \in new
      BY <2>1, <1>3, TaskIdType
    <2>2. CASE id \in new /\ other \notin new
      <3>1. other \in slot(t, id[1], id[2])
        BY <2>2, <1>3, <1>4 DEF slot
      <3> QED BY <3>1, <2>2
    <2>3. CASE id \notin new /\ other \in new
      <3>1. id \in slot(t, other[1], other[2])
        BY <2>3, <1>3, <1>4 DEF slot
      <3> QED BY <3>1, <2>3
    <2>4. CASE id \notin new /\ other \notin new
      BY <2>4, <1>4 DEF Good, SlotsOK
    <2> QED BY <2>1, <2>2, <2>3, <2>4
  <1>7. a = kept(a, new)
    BY DEF Good, RowsOf, kept
  <1>8. t2 = [id \in TaskIds |-> t2[id]] /\ \A id \in TaskIds \ new : t2[id] = t[id]
    BY <1>4
  <1>9. R \subseteq Assignment /\ \A x \in R : x.task_id \in new
    BY <1>1
  <1>10. Good(t2, kept(a, new) \cup R)
    <2>1. /\ \A id \in new : RowOK(t2[id])
          /\ \A id \in new : RowsOf(id, t2[id], R)
      BY <1>3, <1>5
    <2> HIDE DEF R
    <2> QED BY <2>1, <1>6, <1>8, <1>9, WriteRows
  <1> QED BY <1>7, <1>10 DEF R

\* Reading a board inserts what is missing.
LEMMA Ensured ==
    ASSUME NEW tables, Good(tables.tasks, tables.assignments),
           NEW dispatch_date, can_ensure(tables.tasks, dispatch_date)
    PROVE  Good(ensured(tables, dispatch_date).tasks,
                ensured(tables, dispatch_date).assignments)
  <1> DEFINE new == missing_tasks(tables.tasks, dispatch_date)
             t2 == [id \in TaskIds |-> IF id \in new THEN task_row(id[2], default_driver(id))
                                       ELSE tables.tasks[id]]
  <1>1. new \in SUBSET TaskIds
    BY DEF missing_tasks
  <1>2. \A id \in new : /\ tables.tasks[id].status = "ABSENT"
                        /\ slot(tables.tasks, id[1], id[2]) = {}
    BY DEF can_ensure, missing_tasks
  <1>3. /\ ensured(tables, dispatch_date).tasks = t2
        /\ ensured(tables, dispatch_date).assignments =
               tables.assignments \cup default_rows(new)
    BY DEF ensured, Tables
  <1> HIDE DEF new
  <1>4. Good(t2, tables.assignments \cup default_rows(new))
    BY <1>1, <1>2, Inserted
  <1> QED BY <1>3, <1>4

LEMMA EnsureGood ==
    ASSUME Good(tasks, assignments), NEW id \in TaskIds, EnsureRegularTask(id)
    PROVE  Good(tasks, assignments)'
  <1> DEFINE t2 == [i \in TaskIds |-> IF i \in {id} THEN task_row(i[2], default_driver(i))
                                      ELSE tasks[i]]
  <1>1. tasks[id].status = "ABSENT" /\ slot(tasks, id[1], id[2]) = {}
    BY DEF EnsureRegularTask, missing_tasks
  <1>2. /\ tasks' = [tasks EXCEPT ![id] = task_row(id[2], default_driver(id))]
        /\ assignments' = assignments \cup default_rows({id})
    BY DEF EnsureRegularTask, Commit, Tables
  <1>3. tasks' = t2
    BY <1>2 DEF Good, TaskTableOK
  <1>4. {id} \in SUBSET TaskIds
    OBVIOUS
  <1> HIDE DEF t2
  <1>5. Good(t2, assignments \cup default_rows({id}))
    BY <1>1, <1>4, Inserted DEF t2
  <1>6. Good(tasks', assignments')
    BY <1>2, <1>3, <1>5
  <1> QED BY <1>6

-----------------------------------------------------------------------------
(* The routes that assign. *)

\* New drivers, or none, for tasks that may be assigned.  What is left of the
\* assignments of a task follows the new driver.
LEMMA Reassigned ==
    ASSUME Good(tasks, assignments),
           NEW ids \in SUBSET TaskIds, NEW changes \in [ids -> Drivers \cup {None}],
           \A id \in ids : tasks[id].status \in {"ACTIVE", "ASSIGNED"},
           NEW rows \in [ids -> SUBSET Assignment],
           \A id \in ids : /\ \A x \in rows[id] : x.task_id = id
                           /\ \A x, y \in rows[id] : x = y
                           /\ changes[id] # None =>
                                 \E x \in rows[id] : x.driver_id = changes[id]
    PROVE  Good(reassigned_tasks(changes), 
                kept(assignments, ids) \cup UNION {rows[id] : id \in ids})
  <1> DEFINE t2 == reassigned_tasks(changes)
             R == UNION {rows[id] : id \in ids}
  <1>1. DOMAIN changes = ids
    OBVIOUS
  <1>2. t2 = [id \in TaskIds |-> IF id \in ids
                                 THEN task_row(tasks[id].pickup_date, changes[id])
                                 ELSE tasks[id]]
    BY <1>1 DEF reassigned_tasks
  <1>3. \A id \in ids : tasks[id].pickup_date \in Dates /\ changes[id] \in Drivers \cup {None}
    BY StoredRow DEF Good, TaskTableOK
  <1>4. \A id \in ids :
            /\ RowOK(t2[id])
            /\ t2[id].pickup_date = tasks[id].pickup_date
            /\ t2[id].driver_id = changes[id]
            /\ t2[id].status = IF changes[id] = None THEN "ACTIVE" ELSE "ASSIGNED"
    BY <1>2, <1>3, NewTaskRow
  <1>5. t2 = [id \in TaskIds |-> t2[id]] /\ \A id \in TaskIds \ ids : t2[id] = tasks[id]
    BY <1>2
  <1> HIDE DEF t2
  <1>6. \A x : x \in R <=> \E id \in ids : x \in rows[id]
    OBVIOUS
  <1> HIDE DEF R
  <1>7. R \subseteq Assignment /\ \A x \in R : x.task_id \in ids
    BY <1>6
  <1>8. ASSUME NEW id \in ids PROVE RowsOf(id, t2[id], R)
    <2>1. \A x : x \in R /\ x.task_id = id <=> x \in rows[id]
      BY <1>6
    <2>2. \A x, y \in R : x.task_id = id /\ y.task_id = id => x = y
      BY <2>1
    <2>3. changes[id] # None => \E x \in R : x.task_id = id /\ x.driver_id = changes[id]
      BY <2>1
    <2> QED BY <1>4, <2>2, <2>3 DEF RowsOf
  <1>9. SlotsOK(t2)
    <2>1. \A id \in TaskIds : t2[id].pickup_date = tasks[id].pickup_date
      BY <1>4, <1>5
    <2> QED BY <2>1, SlotsKept DEF Good
  <1>10. \A id \in ids : RowOK(t2[id])
    BY <1>4
  <1>11. \A id \in ids : RowsOf(id, t2[id], R)
    BY <1>8
  <1>12. Good(t2, kept(assignments, ids) \cup R)
    BY <1>5, <1>7, <1>9, <1>10, <1>11, WriteRows
  <1> QED BY <1>12 DEF t2, R

LEMMA BatchType ==
    ASSUME NEW changes \in Batches
    PROVE  /\ DOMAIN changes \in SUBSET TaskIds /\ DOMAIN changes # {}
           /\ changes \in [DOMAIN changes -> Drivers \cup {None}]
  BY DEF Batches

LEMMA BatchRows ==
    ASSUME Good(tasks, assignments), NEW changes \in Batches,
           NEW dispatch_date \in Dates,
           \A id \in DOMAIN changes : tasks[id].status \in {"ACTIVE", "ASSIGNED"}
    PROVE  LET applied == apply_opshop_pickup_assignment_batch(changes, dispatch_date)
           IN Good(applied.tasks, applied.assignments)
  <1> DEFINE rows == [id \in DOMAIN changes |-> assignment_rows(id, dispatch_date, changes[id])]
             applied == apply_opshop_pickup_assignment_batch(changes, dispatch_date)
             ids == DOMAIN changes
  <1>1. /\ applied.tasks = reassigned_tasks(changes)
        /\ applied.assignments = kept(assignments, ids) \cup UNION {rows[id] : id \in ids}
    <2>1. \A id \in ids : rows[id] = assignment_rows(id, dispatch_date, changes[id])
      OBVIOUS
    <2> HIDE DEF rows
    <2> QED BY <2>1 DEF apply_opshop_pickup_assignment_batch, Tables, with_rows, kept
  <1>2. /\ ids \in SUBSET TaskIds
        /\ changes \in [ids -> Drivers \cup {None}]
    BY BatchType
  <1>3. \A id \in ids : /\ rows[id] \subseteq Assignment
                        /\ \A x \in rows[id] : x.task_id = id
                        /\ \A x, y \in rows[id] : x = y
                        /\ changes[id] # None =>
                              \E x \in rows[id] : x.driver_id = changes[id]
    <2> TAKE id \in ids
    <2>1. changes[id] \in Drivers \cup {None} /\ id \in TaskIds
      BY <1>2
    <2> QED BY <2>1, AssignmentRows
  <1>20. rows \in [ids -> SUBSET Assignment]
    BY <1>3
  <1>21. \A id \in ids : tasks[id].status \in {"ACTIVE", "ASSIGNED"}
    OBVIOUS
  <1>4. Good(reassigned_tasks(changes),
             kept(assignments, ids) \cup UNION {rows[id] : id \in ids})
    <2> HIDE DEF rows
    <2> QED BY <1>2, <1>3, <1>20, <1>21, Reassigned
  <1> QED BY <1>1, <1>4

LEMMA ApplyGood ==
    ASSUME Good(tasks, assignments), NEW changes \in Batches,
           NEW date \in DispatchDates \cup {NoDate}, ApplyAssignments(changes, date)
    PROVE  Good(tasks, assignments)'
  <1>1. \A id \in DOMAIN changes : tasks[id].status \in {"ACTIVE", "ASSIGNED"}
    BY DEF ApplyAssignments, mutable_change, mutable_pickup
  <1>2. PICK first \in DOMAIN changes :
            LET dispatch_date == IF date # NoDate THEN date
                                 ELSE tasks[first].pickup_date
                applied == apply_opshop_pickup_assignment_batch(changes, dispatch_date)
            IN \/ Commit(applied)
               \/ /\ can_ensure(applied.tasks, dispatch_date)
                  /\ Commit(ensured(applied, dispatch_date))
    BY DEF ApplyAssignments
  <1> DEFINE dispatch_date == IF date # NoDate THEN date ELSE tasks[first].pickup_date
             applied == apply_opshop_pickup_assignment_batch(changes, dispatch_date)
  <1>3. dispatch_date \in Dates
    <2>1. tasks[first].pickup_date \in Dates
      BY <1>1, BatchType, StoredRow DEF Good, TaskTableOK
    <2> QED BY <2>1, OpshopDateAssumption
  <1>4. \/ Commit(applied)
        \/ /\ can_ensure(applied.tasks, dispatch_date)
           /\ Commit(ensured(applied, dispatch_date))
    BY <1>2
  <1> HIDE DEF dispatch_date
  <1>5. Good(applied.tasks, applied.assignments)
    BY <1>1, <1>3, BatchRows
  <1> HIDE DEF applied
  <1>6. CASE Commit(applied)
    <2>1. Good(tasks', assignments')
      BY <1>5, <1>6 DEF Commit
    <2> QED BY <2>1
  <1>7. CASE /\ can_ensure(applied.tasks, dispatch_date)
             /\ Commit(ensured(applied, dispatch_date))
    <2>1. Good(ensured(applied, dispatch_date).tasks,
               ensured(applied, dispatch_date).assignments)
      BY <1>5, <1>7, Ensured
    <2>2. Good(tasks', assignments')
      BY <2>1, <1>7 DEF Commit
    <2> QED BY <2>2
  <1> QED BY <1>4, <1>6, <1>7

LEMMA ListGood ==
    ASSUME Good(tasks, assignments), NEW kind, NEW changes \in Batches,
           NEW dispatch_date \in DispatchDates,
           ApplyListAssignments(kind, changes, dispatch_date)
    PROVE  Good(tasks, assignments)'
  <1> DEFINE rows == [id \in DOMAIN changes |-> remaining_rows(id, dispatch_date, changes[id])]
             ids == DOMAIN changes
  <1>1. /\ tasks' = reassigned_tasks(changes)
        /\ assignments' = kept(assignments, ids) \cup UNION {rows[id] : id \in ids}
    <2>1. \A id \in ids : rows[id] = remaining_rows(id, dispatch_date, changes[id])
      OBVIOUS
    <2> HIDE DEF rows
    <2> QED BY <2>1 DEF ApplyListAssignments, Commit, Tables, with_rows, kept
  <1>2. \A id \in ids : tasks[id].status \in {"ACTIVE", "ASSIGNED"}
    BY DEF ApplyListAssignments, listed
  <1>3. /\ ids \in SUBSET TaskIds
        /\ changes \in [ids -> Drivers \cup {None}]
        /\ dispatch_date \in Dates
    BY BatchType, OpshopDateAssumption
  <1>4. \A id \in ids : /\ rows[id] \subseteq Assignment
                        /\ \A x \in rows[id] : x.task_id = id
                        /\ \A x, y \in rows[id] : x = y
                        /\ changes[id] # None =>
                              \E x \in rows[id] : x.driver_id = changes[id]
    <2> TAKE id \in ids
    <2>1. changes[id] \in Drivers \cup {None} /\ id \in TaskIds
      BY <1>3
    <2>2. CASE changes[id] # None
      <3>1. rows[id] = assignment_rows(id, dispatch_date, changes[id])
        BY <2>2 DEF remaining_rows
      <3> HIDE DEF rows
      <3> QED BY <3>1, <2>1, <2>2, <1>3, AssignmentRows
    <2>3. CASE changes[id] = None
      <3>1. rows[id] = {a \in list_assignments_for_task(id) :
                           a.dispatch_date # dispatch_date}
        BY <2>3 DEF remaining_rows
      <3> HIDE DEF rows
      <3> QED BY <3>1, <2>1, <2>3 DEF list_assignments_for_task, Good, RowsOf
    <2> QED BY <2>2, <2>3
  <1>20. rows \in [ids -> SUBSET Assignment]
    BY <1>4
  <1>5. Good(reassigned_tasks(changes),
             kept(assignments, ids) \cup UNION {rows[id] : id \in ids})
    <2> HIDE DEF rows
    <2> QED BY <1>2, <1>3, <1>4, <1>20, Reassigned
  <1>6. Good(tasks', assignments')
    BY <1>1, <1>5
  <1> QED BY <1>6

\* The task of a schedule and date is the only one of its slot, or a new one.
LEMMA RouteGroupTask ==
    ASSUME Good(tasks, assignments), NEW s \in Schedules, NEW date \in Dates,
           slot(tasks, s, date) = {} => date \in CreationDates[s]
    PROVE  /\ route_group_task(s, date) \in TaskIds
           /\ route_group_task(s, date)[1] = s
           /\ slot(tasks, s, date) \subseteq {route_group_task(s, date)}
  <1> DEFINE id == route_group_task(s, date)
  <1>1. CASE slot(tasks, s, date) = {}
    <2>1. id = <<s, date>> /\ id \in TaskIds
      BY <1>1 DEF route_group_task, TaskIds
    <2> QED BY <1>1, <2>1
  <1>2. CASE slot(tasks, s, date) # {}
    <2>1. id \in slot(tasks, s, date)
      BY <1>2 DEF route_group_task
    <2>2. id \in TaskIds /\ id[1] = s /\ tasks[id].pickup_date = date
      BY <2>1 DEF slot
    <2>3. \A other \in slot(tasks, s, date) : other = id
      BY <2>2, DatesArePositive DEF slot, Good, SlotsOK
    <2> QED BY <2>2, <2>3
  <1> QED BY <1>1, <1>2

LEMMA RouteGroupGood ==
    ASSUME Good(tasks, assignments), NEW dispatch_date \in Dates,
           NEW date \in Dates, NEW d \in Drivers
    PROVE  LET applied == assigned_route_group(
                              {route_group_task(s, date) : s \in Countryside},
                              dispatch_date, date, d)
           IN Good(applied.tasks, applied.assignments)
  <1> DEFINE ids == {route_group_task(s, date) : s \in Countryside}
             applied == assigned_route_group(ids, dispatch_date, date, d)
             t2 == applied.tasks
             row(id) == [task_id |-> id, dispatch_date |-> dispatch_date,
                         driver_id |-> d]
             R == {row(id) : id \in ids}
  <1>1. \A s \in Countryside :
            /\ route_group_task(s, date) \in TaskIds
            /\ route_group_task(s, date)[1] = s
            /\ slot(tasks, s, date) \subseteq {route_group_task(s, date)}
    BY RouteGroupTask, ScheduleAssumption DEF Schedules
  <1>2. /\ t2 = [id \in TaskIds |-> IF id \in ids THEN task_row(date, d) ELSE tasks[id]]
        /\ applied.assignments = kept(assignments, ids) \cup R
    BY DEF assigned_route_group, Tables, with_rows, kept
  <1>3. /\ ids \in SUBSET TaskIds
        /\ \A id \in ids : /\ id = route_group_task(id[1], date)
                           /\ slot(tasks, id[1], date) \subseteq {id}
    BY <1>1
  <1>4. \A id \in ids : /\ row(id) \in Assignment
                        /\ row(id).task_id = id /\ row(id).driver_id = d
    BY <1>3 DEF Assignment
  <1> HIDE DEF applied, ids, row
  <1>5. /\ R \subseteq Assignment
        /\ \A x \in R : x.task_id \in ids /\ x = row(x.task_id)
        /\ \A id \in ids : row(id) \in R
    BY <1>4
  <1>6. \A id \in ids : /\ t2[id] = task_row(date, d)
                        /\ RowOK(t2[id])
                        /\ t2[id].pickup_date = date
                        /\ t2[id].driver_id = d
                        /\ t2[id].status = "ASSIGNED"
    BY <1>2, <1>3, NewTaskRow, OpshopNullAssumption
  <1>7. t2 = [id \in TaskIds |-> t2[id]] /\ \A id \in TaskIds \ ids : t2[id] = tasks[id]
    BY <1>2
  <1> HIDE DEF R
  <1>8. \A id \in ids : RowsOf(id, t2[id], R)
    BY <1>4, <1>5, <1>6 DEF RowsOf
  <1> HIDE DEF t2
  <1>9. SlotsOK(t2)
    <2> SUFFICES ASSUME NEW id \in TaskIds, NEW other \in TaskIds,
                        id[1] = other[1],
                        t2[id].pickup_date = t2[other].pickup_date,
                        t2[id].pickup_date # NoDate
                 PROVE  id = other
      BY DEF SlotsOK
    <2>1. CASE id \in ids /\ other \in ids
      BY <2>1, <1>3
    <2>2. CASE id \in ids /\ other \notin ids
      <3>1. other \in slot(tasks, id[1], date)
        BY <2>2, <1>6, <1>7 DEF slot
      <3> QED BY <3>1, <2>2, <1>3
    <2>3. CASE id \notin ids /\ other \in ids
      <3>1. id \in slot(tasks, other[1], date)
        BY <2>3, <1>6, <1>7 DEF slot
      <3> QED BY <3>1, <2>3, <1>3
    <2>4. CASE id \notin ids /\ other \notin ids
      BY <2>4, <1>7 DEF Good, SlotsOK
    <2> QED BY <2>1, <2>2, <2>3, <2>4
  <1>10. \A id \in ids : RowOK(t2[id])
    BY <1>6
  <1>11. R \subseteq Assignment /\ \A x \in R : x.task_id \in ids
    BY <1>5
  <1>12. Good(t2, kept(assignments, ids) \cup R)
    BY <1>3, <1>7, <1>8, <1>9, <1>10, <1>11, WriteRows
  <1>13. Good(applied.tasks, applied.assignments)
    BY <1>12, <1>2 DEF t2
  <1> QED BY <1>13 DEF applied, ids

LEMMA AssignRouteGroupGood ==
    ASSUME Good(tasks, assignments), NEW dispatch_date \in DispatchDates,
           NEW date \in Dates, NEW d \in Drivers,
           AssignRouteGroup(dispatch_date, date, d)
    PROVE  Good(tasks, assignments)'
  <1> DEFINE applied == assigned_route_group(
                            {route_group_task(s, date) : s \in Countryside},
                            dispatch_date, date, d)
             all == ensured(applied, dispatch_date)
  <1>1. can_ensure(applied.tasks, dispatch_date) /\ Commit(all)
    BY DEF AssignRouteGroup
  <1>2. Good(applied.tasks, applied.assignments)
    BY RouteGroupGood, OpshopDateAssumption
  <1> HIDE DEF applied
  <1>3. Good(all.tasks, all.assignments)
    BY <1>1, <1>2, Ensured
  <1> HIDE DEF all
  <1>4. Good(tasks', assignments')
    BY <1>1, <1>3 DEF Commit
  <1> QED BY <1>4

LEMMA AssignRouteGroupPickupsGood ==
    ASSUME Good(tasks, assignments), NEW dispatch_date \in DispatchDates,
           NEW date \in Dates, NEW d \in Drivers,
           AssignRouteGroupPickups(dispatch_date, date, d)
    PROVE  Good(tasks, assignments)'
  <1> DEFINE applied == assigned_route_group(
                            {route_group_task(s, date) : s \in Countryside},
                            dispatch_date, date, d)
  <1>1. Commit(applied)
    BY DEF AssignRouteGroupPickups
  <1>2. Good(applied.tasks, applied.assignments)
    BY RouteGroupGood, OpshopDateAssumption
  <1> HIDE DEF applied
  <1>3. Good(tasks', assignments')
    BY <1>1, <1>2 DEF Commit
  <1> QED BY <1>3

-----------------------------------------------------------------------------
(* The routes that write one task. *)

LEMMA WriteOne ==
    ASSUME Good(tasks, assignments), NEW id \in TaskIds, NEW row,
           tasks' = [tasks EXCEPT ![id] = row],
           RowOK(row),
           \/ row.pickup_date = tasks[id].pickup_date
           \/ slot(tasks, id[1], row.pickup_date) \subseteq {id},
           NEW R, R \subseteq Assignment, \A x \in R : x.task_id = id,
           RowsOf(id, row, R),
           assignments' = kept(assignments, {id}) \cup R
    PROVE  Good(tasks, assignments)'
  <1>1. tasks'[id] = row /\ \A i \in TaskIds \ {id} : tasks'[i] = tasks[i]
    BY DEF Good, TaskTableOK
  <1>2. tasks' = [i \in TaskIds |-> tasks'[i]]
    BY DEF Good, TaskTableOK
  <1>3. SlotsOK(tasks')
    <2>1. CASE row.pickup_date = tasks[id].pickup_date
      <3>1. \A i \in TaskIds : tasks'[i].pickup_date = tasks[i].pickup_date
        BY <1>1, <2>1
      <3> QED BY <3>1, SlotsKept DEF Good
    <2>2. CASE slot(tasks, id[1], row.pickup_date) \subseteq {id}
      BY <1>1, <2>2, SlotTaken DEF Good
    <2> QED BY <2>1, <2>2
  <1>4. \A i \in {id} : RowOK(tasks'[i]) /\ RowsOf(i, tasks'[i], R)
    BY <1>1
  <1>5. {id} \in SUBSET TaskIds /\ \A x \in R : x.task_id \in {id}
    OBVIOUS
  <1> DEFINE t2 == tasks'
  <1>6. /\ t2 = [i \in TaskIds |-> t2[i]]
        /\ \A i \in TaskIds \ {id} : t2[i] = tasks[i]
        /\ SlotsOK(t2)
        /\ \A i \in {id} : RowOK(t2[i])
        /\ \A i \in {id} : RowsOf(i, t2[i], R)
    BY <1>1, <1>2, <1>3, <1>4
  <1>7. tasks' = t2
    OBVIOUS
  <1> HIDE DEF t2
  <1>8. Good(t2, kept(assignments, {id}) \cup R)
    BY <1>5, <1>6, WriteRows
  <1>9. Good(tasks', assignments')
    BY <1>7, <1>8
  <1> QED BY <1>9

\* The assignments of one task, as rows to write back.
LEMMA OwnRows ==
    ASSUME Good(tasks, assignments), NEW id \in TaskIds
    PROVE  /\ list_assignments_for_task(id) \subseteq Assignment
           /\ \A x \in list_assignments_for_task(id) : x.task_id = id
           /\ \A x, y \in list_assignments_for_task(id) : x = y
           /\ assignments = kept(assignments, {id}) \cup list_assignments_for_task(id)
           /\ tasks[id].status \in {"ABSENT", "CANCELLED"} =>
                 list_assignments_for_task(id) = {}
  BY DEF list_assignments_for_task, Good, RowsOf, kept

\* What a task is when CreatePickupTask writes it.
LEMMA Created ==
    ASSUME Good(tasks, assignments), NEW s \in Schedules, NEW date \in Dates,
           creatable(s, date)
    PROVE  /\ route_group_task(s, date) \in TaskIds
           /\ route_group_task(s, date)[1] = s
           /\ slot(tasks, s, date) \subseteq {route_group_task(s, date)}
           /\ tasks[route_group_task(s, date)].status \in {"ABSENT", "CANCELLED"}
  <1>1. slot(tasks, s, date) = {} => date \in CreationDates[s]
    BY DEF creatable
  <1>2. /\ route_group_task(s, date) \in TaskIds
        /\ route_group_task(s, date)[1] = s
        /\ slot(tasks, s, date) \subseteq {route_group_task(s, date)}
    BY <1>1, RouteGroupTask
  <1>3. CASE slot(tasks, s, date) = {}
    BY <1>2, <1>3 DEF creatable, route_group_task
  <1>4. CASE slot(tasks, s, date) # {}
    BY <1>2, <1>4 DEF creatable
  <1> QED BY <1>2, <1>3, <1>4

LEMMA CreateGood ==
    ASSUME Good(tasks, assignments), NEW s \in Schedules, NEW date \in Dates,
           NEW requested_driver \in Drivers \cup {None},
           NEW requested_date \in DispatchDates \cup {NoDate},
           CreatePickupTask(s, date, requested_driver, requested_date)
    PROVE  Good(tasks, assignments)'
  <1> DEFINE id == route_group_task(s, date)
             d == IF requested_driver # None THEN requested_driver ELSE DefaultDriver[s]
             dispatch_date == IF requested_date # NoDate THEN requested_date ELSE date
             rows == assignment_rows(id, dispatch_date, d)
  <1>1. /\ creatable(s, date)
        /\ \/ Commit(Tables([tasks EXCEPT ![id] = task_row(date, None)], assignments))
           \/ /\ d # None
              /\ Commit(Tables([tasks EXCEPT ![id] = task_row(date, d)],
                               with_rows({id}, rows)))
    BY DEF CreatePickupTask
  <1>2. d \in Drivers \cup {None} /\ dispatch_date \in Dates
    BY ScheduleAssumption, OpshopDateAssumption
  <1>3. /\ id \in TaskIds /\ id[1] = s
        /\ slot(tasks, id[1], date) \subseteq {id}
        /\ tasks[id].status \in {"ABSENT", "CANCELLED"}
    BY <1>1, Created
  <1> HIDE DEF id, d, dispatch_date
  <1>4. CASE Commit(Tables([tasks EXCEPT ![id] = task_row(date, None)], assignments))
    <2> DEFINE row == task_row(date, None)
    <2>1. tasks' = [tasks EXCEPT ![id] = row] /\ assignments' = assignments
      BY <1>4 DEF Commit, Tables
    <2>2. RowOK(row) /\ row.pickup_date = date /\ row.status = "ACTIVE"
      BY NewTaskRow
    <2> HIDE DEF row
    <2>3. RowsOf(id, row, list_assignments_for_task(id))
      BY <1>3, <2>2, OwnRows DEF RowsOf
    <2> QED BY <1>3, <2>1, <2>2, <2>3, OwnRows, WriteOne
  <1>5. CASE /\ d # None
             /\ Commit(Tables([tasks EXCEPT ![id] = task_row(date, d)],
                              with_rows({id}, rows)))
    <2> DEFINE row == task_row(date, d)
    <2>1. /\ tasks' = [tasks EXCEPT ![id] = row]
          /\ assignments' = kept(assignments, {id}) \cup rows
      BY <1>5 DEF Commit, Tables, with_rows, kept
    <2>2. RowOK(row) /\ row.pickup_date = date /\ row.status = "ASSIGNED"
          /\ row.driver_id = d
      BY <1>2, <1>5, NewTaskRow
    <2>3. /\ rows \subseteq Assignment
          /\ \A x \in rows : x.task_id = id /\ x.driver_id = d
          /\ \A x, y \in rows : x = y
          /\ rows # {}
      BY <1>2, <1>3, <1>5, AssignmentRows
    <2> HIDE DEF row, rows
    <2>4. RowsOf(id, row, rows)
      BY <2>2, <2>3 DEF RowsOf
    <2> QED BY <1>3, <2>1, <2>2, <2>3, <2>4, WriteOne
  <1> QED BY <1>1, <1>4, <1>5

LEMMA UpdateGood ==
    ASSUME Good(tasks, assignments), NEW id \in TaskIds, NEW date \in Dates,
           NEW requested_date \in DispatchDates \cup {NoDate},
           UpdatePickupTask(id, date, requested_date)
    PROVE  Good(tasks, assignments)'
  <1> DEFINE task == tasks[id]
             row == [task EXCEPT !.pickup_date = date]
             dispatch_date == IF requested_date # NoDate THEN requested_date
                              ELSE task.pickup_date
             new == [task_id |-> id, dispatch_date |-> dispatch_date,
                     driver_id |-> task.driver_id]
  <1>1. /\ task.status \in {"ACTIVE", "ASSIGNED"}
        /\ slot(tasks, id[1], date) = {}
        /\ tasks' = [tasks EXCEPT ![id].pickup_date = date]
        /\ assignments' = IF task.status = "ACTIVE" THEN assignments
                          ELSE kept(assignments, {id}) \cup {new}
    BY DEF UpdatePickupTask, Commit, Tables, with_rows, kept
  <1>2. /\ task \in Task /\ RowOK(task) /\ task.pickup_date \in Dates
        /\ tasks' = [tasks EXCEPT ![id] = row]
    BY <1>1, StoredRow DEF Good, TaskTableOK
  <1>3. /\ RowOK(row) /\ row.pickup_date = date
        /\ row.status = task.status /\ row.driver_id = task.driver_id
    BY <1>2 DEF RowOK, Task
  <1>4. dispatch_date \in Dates
    BY <1>2, OpshopDateAssumption
  <1> HIDE DEF row, dispatch_date
  <1>5. CASE task.status = "ACTIVE"
    <2>1. assignments' = kept(assignments, {id}) \cup list_assignments_for_task(id)
      BY <1>1, <1>5, OwnRows
    <2>2. RowsOf(id, row, list_assignments_for_task(id))
      BY <1>3, <1>5, OwnRows DEF RowsOf
    <2> QED BY <1>1, <1>2, <1>3, <2>1, <2>2, OwnRows, WriteOne
  <1>6. CASE task.status = "ASSIGNED"
    <2>1. /\ new \in Assignment
          /\ new.task_id = id /\ new.driver_id = task.driver_id
      BY <1>2, <1>4, <1>6 DEF Assignment, RowOK, Task
    <2>2. assignments' = kept(assignments, {id}) \cup {new}
      BY <1>1, <1>6
    <2> HIDE DEF new
    <2>3. RowsOf(id, row, {new})
      BY <1>3, <1>6, <2>1 DEF RowsOf
    <2> DEFINE R == {new}
    <2>4. /\ R \subseteq Assignment /\ \A x \in R : x.task_id = id
          /\ RowsOf(id, row, R)
          /\ assignments' = kept(assignments, {id}) \cup R
      BY <2>1, <2>2, <2>3
    <2> HIDE DEF R
    <2> QED BY <1>1, <1>2, <1>3, <2>4, WriteOne
  <1> QED BY <1>1, <1>5, <1>6

LEMMA DeleteGood ==
    ASSUME Good(tasks, assignments), NEW id \in TaskIds, DeletePickupTask(id)
    PROVE  Good(tasks, assignments)'
  <1> DEFINE task == tasks[id]
             row == [task EXCEPT !.status = "CANCELLED", !.driver_id = None]
  <1>1. /\ task.status \in {"ACTIVE", "ASSIGNED"}
        /\ tasks' = [tasks EXCEPT ![id].status = "CANCELLED", ![id].driver_id = None]
        /\ assignments' = kept(assignments, {id}) \cup {}
    BY DEF DeletePickupTask, Commit, Tables, with_rows, kept
  <1>2. /\ task \in Task
        /\ tasks' = [tasks EXCEPT ![id] = row]
    BY <1>1, StoredRow DEF Good, TaskTableOK
  <1>3. /\ RowOK(row) /\ row.pickup_date = task.pickup_date
        /\ row.status = "CANCELLED"
    BY <1>2 DEF RowOK, Task
  <1> HIDE DEF row
  <1> DEFINE R == {}
  <1>4. /\ R \subseteq Assignment /\ \A x \in R : x.task_id = id
        /\ RowsOf(id, row, R)
        /\ assignments' = kept(assignments, {id}) \cup R
    BY <1>1, <1>3 DEF RowsOf
  <1> HIDE DEF R
  <1> QED BY <1>2, <1>3, <1>4, WriteOne

-----------------------------------------------------------------------------
(* The collections, and the invariant. *)

LEMMA CollectableIsAssigned ==
    ASSUME NEW date, NEW d,
           NEW id \in list_collectable_opshop_pickup_board_items(date, d)
    PROVE  /\ id \in TaskIds
           /\ tasks[id] = [status |-> "ASSIGNED", pickup_date |-> date, driver_id |-> d]
           /\ \A k \in CollectionIds : id \notin collections[k].pickups
  BY DEF list_collectable_opshop_pickup_board_items, ensure_opshop_pickup_not_reserved

LEMMA CreateGeneratedKeeps ==
    ASSUME BoardInv, NEW k \in CollectionIds, NEW date \in Dates, NEW d \in Drivers,
           CreateGenerated(k, date, d)
    PROVE  CollectionsOK' /\ CollectedOnce'
  <1> DEFINE pickups == list_collectable_opshop_pickup_board_items(date, d)
             new == [status |-> "GENERATED", pickup_date |-> date,
                     driver_id |-> d, pickups |-> pickups]
  <1>1. /\ collections' = [collections EXCEPT ![k] = new]
        /\ get_opshop_pickup_collection_for_driver(date, d) = {}
    BY DEF CreateGenerated
  <1>2. /\ pickups \subseteq TaskIds
        /\ \A m \in CollectionIds : pickups \cap collections[m].pickups = {}
    BY CollectableIsAssigned
  <1> HIDE DEF pickups
  <1>3. /\ new \in Collection
        /\ new.pickup_date = date /\ new.driver_id = d /\ new.pickups = pickups
    BY <1>2 DEF Collection
  <1> HIDE DEF new
  <1>4. /\ collections'[k] = new
        /\ \A m \in CollectionIds : m # k => collections'[m] = collections[m]
    BY <1>1 DEF BoardInv, CollectionsOK
  <1>5. collections' \in [CollectionIds -> Collection \cup {NoCollection}]
    BY <1>1, <1>3 DEF BoardInv, CollectionsOK
  <1>6. OneCollectionPerDriverDate'
    BY <1>1, <1>3, <1>4 DEF BoardInv, CollectionsOK, OneCollectionPerDriverDate, Stored,
                            get_opshop_pickup_collection_for_driver
  <1>7. CollectedOnce'
    BY <1>2, <1>3, <1>4 DEF BoardInv, CollectedOnce
  <1> QED BY <1>5, <1>6, <1>7 DEF CollectionsOK

LEMMA SaveGeneratedKeeps ==
    ASSUME BoardInv, NEW k \in CollectionIds, SaveGenerated(k)
    PROVE  CollectionsOK' /\ CollectedOnce'
  <1> DEFINE new == [collections[k] EXCEPT !.status = "SAVED"]
  <1>1. /\ collections[k].status = "GENERATED"
        /\ collections' = [collections EXCEPT ![k] = new]
        /\ collections \in [CollectionIds -> Collection \cup {NoCollection}]
    BY DEF SaveGenerated, BoardInv, CollectionsOK
  <1>2. collections[k] \in Collection
    BY <1>1 DEF NoCollection
  <1>3. /\ new \in Collection
        /\ new.pickup_date = collections[k].pickup_date
        /\ new.driver_id = collections[k].driver_id
        /\ new.pickups = collections[k].pickups
    BY <1>2 DEF Collection
  <1> HIDE DEF new
  <1>4. /\ collections' \in [CollectionIds -> Collection \cup {NoCollection}]
        /\ collections'[k] = new
        /\ \A m \in CollectionIds : m # k => collections'[m] = collections[m]
    BY <1>1, <1>3
  <1>5. OneCollectionPerDriverDate'
    BY <1>1, <1>3, <1>4 DEF BoardInv, CollectionsOK, OneCollectionPerDriverDate, Stored
  <1>6. CollectedOnce'
    BY <1>3, <1>4 DEF BoardInv, CollectedOnce
  <1> QED BY <1>4, <1>5, <1>6 DEF CollectionsOK

LEMMA CancelGeneratedKeeps ==
    ASSUME BoardInv, NEW k \in CollectionIds, CancelGenerated(k)
    PROVE  CollectionsOK' /\ CollectedOnce'
  <1>1. /\ collections' = [collections EXCEPT ![k] = NoCollection]
        /\ collections \in [CollectionIds -> Collection \cup {NoCollection}]
    BY DEF CancelGenerated, BoardInv, CollectionsOK
  <1>2. /\ collections' \in [CollectionIds -> Collection \cup {NoCollection}]
        /\ collections'[k] = NoCollection
        /\ \A m \in CollectionIds : m # k => collections'[m] = collections[m]
    BY <1>1
  <1>3. OneCollectionPerDriverDate'
    BY <1>2 DEF BoardInv, CollectionsOK, OneCollectionPerDriverDate, Stored, NoCollection
  <1>4. CollectedOnce'
    BY <1>2 DEF BoardInv, CollectedOnce, NoCollection
  <1> QED BY <1>2, <1>3, <1>4 DEF CollectionsOK

\* The routes that write tasks leave the collections alone.
TaskStep ==
    \/ \E id \in TaskIds : EnsureRegularTask(id)
    \/ WorkspaceRoutes
    \/ TaskRoutes
    \/ ListRoutes

LEMMA TaskStepGood ==
    ASSUME Good(tasks, assignments), TaskStep
    PROVE  Good(tasks, assignments)'
  <1>1. CASE \E id \in TaskIds : EnsureRegularTask(id)
    BY <1>1, EnsureGood
  <1>2. CASE WorkspaceRoutes
    BY <1>2, ApplyGood, AssignRouteGroupGood DEF WorkspaceRoutes
  <1>3. CASE TaskRoutes
    BY <1>3, CreateGood, UpdateGood, DeleteGood DEF TaskRoutes
  <1>4. CASE ListRoutes
    BY <1>4, ListGood, AssignRouteGroupPickupsGood DEF ListRoutes
  <1> QED BY <1>1, <1>2, <1>3, <1>4 DEF TaskStep

LEMMA TaskStepCollections ==
    ASSUME TaskStep PROVE UNCHANGED collections
  <1>1. CASE \E id \in TaskIds : EnsureRegularTask(id)
    BY <1>1 DEF EnsureRegularTask, Commit
  <1>2. CASE WorkspaceRoutes
    BY <1>2 DEF WorkspaceRoutes, ApplyAssignments, AssignRouteGroup, Commit
  <1>3. CASE TaskRoutes
    <2>1. ASSUME NEW s, NEW date, NEW d, NEW dd, CreatePickupTask(s, date, d, dd)
          PROVE  \E tables : Commit(tables)
      BY <2>1 DEF CreatePickupTask
    <2>2. ASSUME NEW id, NEW date, NEW dd, UpdatePickupTask(id, date, dd)
          PROVE  \E tables : Commit(tables)
      BY <2>2 DEF UpdatePickupTask
    <2>3. ASSUME NEW id, DeletePickupTask(id)
          PROVE  \E tables : Commit(tables)
      BY <2>3 DEF DeletePickupTask
    <2> QED BY <1>3, <2>1, <2>2, <2>3 DEF TaskRoutes, Commit
  <1>4. CASE ListRoutes
    BY <1>4 DEF ListRoutes, ApplyListAssignments, AssignRouteGroupPickups, Commit
  <1> QED BY <1>1, <1>2, <1>3, <1>4 DEF TaskStep

LEMMA InitBoard == Init => BoardInv
  <1> SUFFICES ASSUME Init PROVE BoardInv
    OBVIOUS
  <1>1. \A id \in TaskIds : RowOK(tasks[id]) /\ tasks[id] = NoTask
    BY DEF Init, RowOK, NoTask
  <1>2. TaskTableOK(tasks)
    BY <1>1 DEF TaskTableOK, Init
  <1>3. SlotsOK(tasks)
    BY <1>1 DEF SlotsOK, NoTask
  <1>4. \A id \in TaskIds : RowsOf(id, tasks[id], assignments)
    BY <1>1 DEF RowsOf, NoTask, Init
  <1>5. assignments \subseteq Assignment
    BY DEF Init
  <1>6. CollectionsOK /\ CollectedOnce
    BY DEF Init, CollectionsOK, OneCollectionPerDriverDate, Stored, NoCollection,
           CollectedOnce
  <1> QED BY <1>2, <1>3, <1>4, <1>5, <1>6 DEF BoardInv, Good

LEMMA StepBoard == BoardInv /\ [Next]_vars => BoardInv'
  <1> SUFFICES ASSUME BoardInv, [Next]_vars PROVE BoardInv'
    OBVIOUS
  <1>1. CASE TaskStep
    <2>1. Good(tasks, assignments)'
      BY <1>1, TaskStepGood DEF BoardInv
    <2>2. UNCHANGED collections
      BY <1>1, TaskStepCollections
    <2> QED BY <2>1, <2>2 DEF BoardInv, CollectionsOK, OneCollectionPerDriverDate,
                              Stored, CollectedOnce
  <1>2. CASE CollectionRoutes
    <2>1. UNCHANGED <<tasks, assignments>>
      BY <1>2 DEF CollectionRoutes, CreateGenerated, SaveGenerated, CancelGenerated
    <2>2. CollectionsOK' /\ CollectedOnce'
      BY <1>2, CreateGeneratedKeeps, SaveGeneratedKeeps, CancelGeneratedKeeps
      DEF CollectionRoutes
    <2> QED BY <2>1, <2>2 DEF BoardInv
  <1>3. CASE UNCHANGED vars
    BY <1>3 DEF vars, BoardInv, CollectionsOK, OneCollectionPerDriverDate,
                Stored, CollectedOnce
  <1> QED BY <1>1, <1>2, <1>3 DEF Next, TaskStep

LEMMA BoardInvariant == Spec => []BoardInv
  BY InitBoard, StepBoard, PTL DEF Spec

\* The rows of the three tables have the shape of the schema, and a task has a
\* driver exactly when it is assigned.
THEOREM OpshopTypeCorrect == Spec => []TypeOK
  <1>1. BoardInv => TypeOK
    BY DEF BoardInv, Good, TaskTableOK, RowOK, CollectionsOK, TypeOK
  <1> QED BY <1>1, BoardInvariant, PTL

\* A driver never has two collections for a pickup date, whatever Dispatch
\* Dates the requests were made under.
THEOREM OneCollection == Spec => []OneCollectionPerDriverDate
  <1>1. BoardInv => OneCollectionPerDriverDate
    BY DEF BoardInv, CollectionsOK
  <1> QED BY <1>1, BoardInvariant, PTL

\* No pickup is ever on two collections.
THEOREM PickupsCollectedOnce == Spec => []CollectedOnce
  <1>1. BoardInv => CollectedOnce
    BY DEF BoardInv
  <1> QED BY <1>1, BoardInvariant, PTL

\* The two tables that say who collects a pickup agree.
THEOREM TablesAgree == Spec => []AssignedInBothTables
  <1>1. ASSUME BoardInv, NEW id \in TaskIds, tasks[id].status = "ASSIGNED"
        PROVE  \E a \in assignments : /\ list_assignments_for_task(id) = {a}
                                      /\ a.driver_id = tasks[id].driver_id
    <2>1. RowsOf(id, tasks[id], assignments)
      BY <1>1 DEF BoardInv, Good
    <2>2. PICK a \in assignments : a.task_id = id /\ a.driver_id = tasks[id].driver_id
      BY <2>1, <1>1 DEF RowsOf
    <2>3. list_assignments_for_task(id) = {a}
      BY <2>1, <2>2 DEF RowsOf, list_assignments_for_task
    <2> QED BY <2>2, <2>3
  <1>2. BoardInv => AssignedInBothTables
    BY <1>1 DEF AssignedInBothTables
  <1> QED BY <1>2, BoardInvariant, PTL

-----------------------------------------------------------------------------
(* What a collection captured. *)

Captured(id) == \E k \in CollectionIds : id \in collections[k].pickups

LEMMA CapturedIsAssigned ==
    ASSUME BoardInv, CapturedPickupsIntact, NEW id, Captured(id)
    PROVE  id \in TaskIds /\ tasks[id].status = "ASSIGNED"
  <1>1. PICK k \in CollectionIds : id \in collections[k].pickups
    BY DEF Captured
  <1>2. collections[k] \in Collection
    BY <1>1 DEF BoardInv, CollectionsOK, NoCollection
  <1>3. /\ id \in TaskIds
        /\ collections[k].driver_id \in Drivers
        /\ collections[k].pickup_date \in Dates
    BY <1>1, <1>2 DEF Collection
  <1>4. tasks[id] = task_row(collections[k].pickup_date, collections[k].driver_id)
    BY <1>1 DEF CapturedPickupsIntact
  <1> QED BY <1>3, <1>4, NewTaskRow, OpshopNullAssumption

LEMMA CapturedUntouched ==
    ASSUME CapturedPickupsIntact, UNCHANGED collections,
           \A id : Captured(id) => tasks'[id] = tasks[id]
    PROVE  CapturedPickupsIntact'
  BY DEF CapturedPickupsIntact, Captured

\* The step gives the task another pickup date.
MovedTask(id) == tasks[id].pickup_date # tasks'[id].pickup_date

Spoils ==
    \/ ListRoutes
    \/ \E id \in TaskIds : tasks[id] # tasks'[id] /\ (DeletePickupTask(id) \/ MovedTask(id))

LEMMA EnsureSpares ==
    ASSUME BoardInv, CapturedPickupsIntact, NEW id \in TaskIds, EnsureRegularTask(id)
    PROVE  CapturedPickupsIntact'
  <1>1. /\ tasks[id].status = "ABSENT" /\ UNCHANGED collections
        /\ tasks' = [tasks EXCEPT ![id] = task_row(id[2], default_driver(id))]
    BY DEF EnsureRegularTask, Commit, Tables
  <1>2. \A i : Captured(i) => i # id /\ i \in TaskIds
    BY <1>1, CapturedIsAssigned
  <1>3. \A i \in TaskIds : i # id => tasks'[i] = tasks[i]
    BY <1>1 DEF BoardInv, Good, TaskTableOK
  <1> QED BY <1>1, <1>2, <1>3, CapturedUntouched

\* Reading a board after a write leaves the tasks alone that are not absent.
LEMMA EnsuredSpares ==
    ASSUME NEW tables, NEW dispatch_date, can_ensure(tables.tasks, dispatch_date),
           NEW id \in TaskIds, tables.tasks[id].status # "ABSENT"
    PROVE  ensured(tables, dispatch_date).tasks[id] = tables.tasks[id]
  BY DEF ensured, Tables, can_ensure

LEMMA ApplySpares ==
    ASSUME BoardInv, CapturedPickupsIntact, NEW changes \in Batches,
           NEW date \in DispatchDates \cup {NoDate}, ApplyAssignments(changes, date)
    PROVE  CapturedPickupsIntact'
  <1>1. PICK dispatch_date :
            LET applied == apply_opshop_pickup_assignment_batch(changes, dispatch_date)
            IN \/ Commit(applied)
               \/ /\ can_ensure(applied.tasks, dispatch_date)
                  /\ Commit(ensured(applied, dispatch_date))
    BY DEF ApplyAssignments
  <1> DEFINE applied == apply_opshop_pickup_assignment_batch(changes, dispatch_date)
  <1>2. applied.tasks = reassigned_tasks(changes)
    BY DEF apply_opshop_pickup_assignment_batch, Tables
  <1>3. ASSUME NEW id, Captured(id)
        PROVE  /\ id \in TaskIds /\ tasks[id].status = "ASSIGNED"
               /\ applied.tasks[id] = tasks[id]
    <2>1. id \in TaskIds /\ tasks[id].status = "ASSIGNED"
      BY <1>3, CapturedIsAssigned
    <2>2. id \notin DOMAIN changes
      BY <1>3 DEF ApplyAssignments, mutable_change, mutable_pickup,
                  ensure_opshop_pickup_not_reserved, Captured
    <2> QED BY <2>1, <2>2, <1>2 DEF reassigned_tasks
  <1>4. \/ Commit(applied)
        \/ /\ can_ensure(applied.tasks, dispatch_date)
           /\ Commit(ensured(applied, dispatch_date))
    BY <1>1
  <1> HIDE DEF applied
  <1>5. ASSUME NEW id, Captured(id) PROVE tasks'[id] = tasks[id]
    BY <1>3, <1>4, <1>5, EnsuredSpares DEF Commit
  <1>6. UNCHANGED collections
    BY <1>4 DEF Commit
  <1> QED BY <1>5, <1>6, CapturedUntouched

LEMMA RouteGroupSpares ==
    ASSUME BoardInv, CapturedPickupsIntact, NEW dispatch_date \in DispatchDates,
           NEW date \in Dates, NEW d \in Drivers,
           AssignRouteGroup(dispatch_date, date, d)
    PROVE  CapturedPickupsIntact' \/ Spoils
  <1> DEFINE ids == {route_group_task(s, date) : s \in Countryside}
             applied == assigned_route_group(ids, dispatch_date, date, d)
  <1>1. /\ can_ensure(applied.tasks, dispatch_date)
        /\ Commit(ensured(applied, dispatch_date))
        /\ \A s \in Countryside : \A id \in slot(tasks, s, date) :
               ensure_opshop_pickup_not_reserved(id)
    BY DEF AssignRouteGroup
  <1>2. \A id \in TaskIds : applied.tasks[id] = IF id \in ids THEN task_row(date, d)
                                                ELSE tasks[id]
    BY DEF assigned_route_group, Tables
  <1>3. \A id \in ids : id \notin slot(tasks, id[1], date) \/ ~Captured(id)
    <2> SUFFICES ASSUME NEW s \in Countryside,
                        route_group_task(s, date) \in
                            slot(tasks, route_group_task(s, date)[1], date)
                 PROVE  ~Captured(route_group_task(s, date))
      OBVIOUS
    <2>1. route_group_task(s, date)[1] = s
      BY RouteGroupTask, ScheduleAssumption DEF BoardInv, Schedules
    <2> QED BY <2>1, <1>1 DEF ensure_opshop_pickup_not_reserved, Captured
  <1> HIDE DEF applied, ids
  <1>4. CASE \A id \in ids : ~Captured(id)
    <2>1. ASSUME NEW id, Captured(id) PROVE tasks'[id] = tasks[id]
      <3>1. id \in TaskIds /\ tasks[id].status = "ASSIGNED"
        BY <2>1, CapturedIsAssigned
      <3>2. applied.tasks[id] = tasks[id]
        BY <2>1, <3>1, <1>2, <1>4
      <3> QED BY <3>1, <3>2, <1>1, EnsuredSpares DEF Commit
    <2> QED BY <2>1, <1>1, CapturedUntouched DEF Commit
  <1>5. CASE \E id \in ids : Captured(id)
    <2>1. PICK id \in ids : Captured(id)
      BY <1>5
    <2>2. id \in TaskIds
      BY <2>1, CapturedIsAssigned
    <2>3. tasks[id].pickup_date # date
      BY <2>1, <2>2, <1>3 DEF slot
    <2>4. applied.tasks[id] = task_row(date, d)
      BY <2>1, <2>2, <1>2
    <2>5. tasks'[id] = task_row(date, d)
      BY <2>2, <2>4, <1>1, EnsuredSpares, NewTaskRow DEF Commit
    <2>6. MovedTask(id)
      BY <2>3, <2>5, NewTaskRow DEF MovedTask
    <2> QED BY <2>2, <2>6 DEF Spoils, MovedTask
  <1> QED BY <1>4, <1>5

LEMMA CreateSpares ==
    ASSUME BoardInv, CapturedPickupsIntact, NEW s \in Schedules, NEW date \in Dates,
           NEW d, NEW requested_date, CreatePickupTask(s, date, d, requested_date)
    PROVE  CapturedPickupsIntact'
  <1> DEFINE id == route_group_task(s, date)
  <1>1. /\ creatable(s, date) /\ UNCHANGED collections
        /\ \E row : tasks' = [tasks EXCEPT ![id] = row]
    <2>1. /\ creatable(s, date)
          /\ \E row, a : Commit(Tables([tasks EXCEPT ![id] = row], a))
      BY DEF CreatePickupTask
    <2> QED BY <2>1 DEF Commit, Tables
  <1>2. tasks[id].status # "ASSIGNED"
    BY <1>1, Created DEF BoardInv
  <1> HIDE DEF id
  <1>3. \A i : Captured(i) => i # id /\ i \in TaskIds
    BY <1>2, CapturedIsAssigned
  <1>4. \A i \in TaskIds : i # id => tasks'[i] = tasks[i]
    BY <1>1 DEF BoardInv, Good, TaskTableOK
  <1> QED BY <1>1, <1>3, <1>4, CapturedUntouched

LEMMA UpdateMoves ==
    ASSUME BoardInv, NEW id \in TaskIds, NEW date, NEW requested_date,
           UpdatePickupTask(id, date, requested_date)
    PROVE  MovedTask(id)
  <1>1. /\ date # tasks[id].pickup_date
        /\ tasks[id].status \in {"ACTIVE", "ASSIGNED"}
        /\ tasks' = [tasks EXCEPT ![id].pickup_date = date]
    BY DEF UpdatePickupTask, Commit, Tables
  <1>2. tasks[id] \in Task
    BY <1>1, StoredRow DEF BoardInv, Good, TaskTableOK
  <1>3. tasks'[id] = [tasks[id] EXCEPT !.pickup_date = date]
    BY <1>1 DEF BoardInv, Good, TaskTableOK
  <1> QED BY <1>1, <1>2, <1>3 DEF MovedTask, Task

LEMMA DeleteChanges ==
    ASSUME BoardInv, NEW id \in TaskIds, DeletePickupTask(id)
    PROVE  tasks[id] # tasks'[id]
  <1>1. /\ tasks[id].status \in {"ACTIVE", "ASSIGNED"}
        /\ tasks' = [tasks EXCEPT ![id].status = "CANCELLED", ![id].driver_id = None]
    BY DEF DeletePickupTask, Commit, Tables
  <1>2. tasks[id] \in Task
    BY <1>1, StoredRow DEF BoardInv, Good, TaskTableOK
  <1>3. tasks'[id].status = "CANCELLED"
    BY <1>1, <1>2 DEF BoardInv, Good, TaskTableOK, Task
  <1> QED BY <1>1, <1>3

LEMMA CollectionsSpare ==
    ASSUME BoardInv, CapturedPickupsIntact, CollectionRoutes
    PROVE  CapturedPickupsIntact'
  <1>1. PICK k \in CollectionIds :
            \/ \E date \in Dates, d \in Drivers : CreateGenerated(k, date, d)
            \/ SaveGenerated(k)
            \/ CancelGenerated(k)
    BY DEF CollectionRoutes
  <1>2. collections \in [CollectionIds -> Collection \cup {NoCollection}]
    BY DEF BoardInv, CollectionsOK
  <1>3. ASSUME NEW date \in Dates, NEW d \in Drivers, CreateGenerated(k, date, d)
        PROVE  CapturedPickupsIntact'
    <2> DEFINE pickups == list_collectable_opshop_pickup_board_items(date, d)
               new == [status |-> "GENERATED", pickup_date |-> date,
                       driver_id |-> d, pickups |-> pickups]
    <2>1. collections' = [collections EXCEPT ![k] = new] /\ UNCHANGED tasks
      BY <1>3 DEF CreateGenerated
    <2>2. \A id \in pickups : tasks[id] = task_row(date, d)
      BY CollectableIsAssigned, OpshopNullAssumption DEF task_row
    <2> HIDE DEF pickups
    <2>3. new.pickup_date = date /\ new.driver_id = d /\ new.pickups = pickups
      OBVIOUS
    <2> HIDE DEF new
    <2>4. /\ collections'[k] = new
          /\ \A m \in CollectionIds : m # k => collections'[m] = collections[m]
      BY <2>1, <1>2
    <2> QED BY <2>1, <2>2, <2>3, <2>4 DEF CapturedPickupsIntact
  <1>4. CASE SaveGenerated(k)
    <2> DEFINE new == [collections[k] EXCEPT !.status = "SAVED"]
    <2>1. collections' = [collections EXCEPT ![k] = new] /\ UNCHANGED tasks
          /\ collections[k].status = "GENERATED"
      BY <1>4, <1>2 DEF SaveGenerated
    <2>2. collections[k] \in Collection
      BY <2>1, <1>2 DEF NoCollection
    <2>3. /\ new.pickup_date = collections[k].pickup_date
          /\ new.driver_id = collections[k].driver_id
          /\ new.pickups = collections[k].pickups
      BY <2>2 DEF Collection
    <2> HIDE DEF new
    <2>4. /\ collections'[k] = new
          /\ \A m \in CollectionIds : m # k => collections'[m] = collections[m]
      BY <2>1, <1>2
    <2> QED BY <2>1, <2>3, <2>4 DEF CapturedPickupsIntact
  <1>5. CASE CancelGenerated(k)
    <2>1. collections' = [collections EXCEPT ![k] = NoCollection] /\ UNCHANGED tasks
      BY <1>5 DEF CancelGenerated
    <2>2. /\ collections'[k].pickups = {}
          /\ \A m \in CollectionIds : m # k => collections'[m] = collections[m]
      BY <2>1, <1>2 DEF NoCollection
    <2> QED BY <2>1, <2>2 DEF CapturedPickupsIntact
  <1> QED BY <1>1, <1>3, <1>4, <1>5

LEMMA StepSpares ==
    ASSUME BoardInv, CapturedPickupsIntact, [Next]_vars
    PROVE  CapturedPickupsIntact' \/ Spoils
  <1>1. CASE \E id \in TaskIds : EnsureRegularTask(id)
    BY <1>1, EnsureSpares
  <1>2. CASE WorkspaceRoutes
    BY <1>2, ApplySpares, RouteGroupSpares DEF WorkspaceRoutes
  <1>3. CASE TaskRoutes
    <2>1. ASSUME NEW id \in TaskIds, MovedTask(id) PROVE Spoils
      BY <2>1 DEF Spoils, MovedTask
    <2>2. ASSUME NEW id \in TaskIds, DeletePickupTask(id) PROVE Spoils
      BY <2>2, DeleteChanges DEF Spoils
    <2> QED BY <1>3, <2>1, <2>2, CreateSpares, UpdateMoves DEF TaskRoutes
  <1>4. CASE ListRoutes
    BY <1>4 DEF Spoils
  <1>5. CASE CollectionRoutes
    BY <1>5, CollectionsSpare
  <1>6. CASE UNCHANGED vars
    BY <1>6, CapturedUntouched DEF vars
  <1> QED BY <1>1, <1>2, <1>3, <1>4, <1>5, <1>6 DEF Next

\* What a collection captured stays as it was, except when a list route, a
\* deletion or a change of the pickup date does away with it: the routes that
\* ask for collections really protect them.
THEOREM CheckedRoutesSpare == Spec => OnlyUncheckedRoutesSpoil
  <1>1. BoardInv /\ [Next]_vars =>
            [CapturedPickupsIntact /\ ~CapturedPickupsIntact' =>
                \/ ListRoutes
                \/ \E id \in TaskIds : tasks[id] # tasks'[id] /\
                      \/ DeletePickupTask(id)
                      \/ tasks[id].pickup_date # tasks'[id].pickup_date]_vars
    BY StepSpares DEF Spoils, MovedTask
  <1> QED BY <1>1, BoardInvariant, PTL DEF Spec, OnlyUncheckedRoutesSpoil
=============================================================================
