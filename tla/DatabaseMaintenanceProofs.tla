---------------------- MODULE DatabaseMaintenanceProofs ----------------------
(***************************************************************************)
(* Proofs about DatabaseMaintenance, for any tasks, drivers, dates and     *)
(* saved rows.  Start-up is followed through its two commits; a repair is  *)
(* right because the transaction compares the whole database with the one  *)
(* the plan was made from, and because nobody makes another plan while one *)
(* is being applied.                                                       *)
(***************************************************************************)
EXTENDS DatabaseMaintenance, WellFoundedInduction, TLAPS

-----------------------------------------------------------------------------
(* The inductive invariant. *)

\* A file that was created fresh has its indexes as soon as it has tables,
\* except between the two commits of its first start-up.
FreshInv ==
    /\ app = "connected" => (fresh <=> schema = "absent")
    /\ app \in {"created", "running"} => schema # "absent"
    /\ (born = "fresh" /\ schema # "absent") => indexed \/ (app = "created" /\ fresh)

\* What was checked when a plan or a finding was made is still true of it.
PlanInv ==
    /\ repair = "backed_up" => blocked_groups(decision) = {}
    /\ findings # None => \A r \in findings : ~duplicate_saved_conflict(r.task_id)

MaintenanceInv == TypeOK /\ FreshInv /\ PlanInv

-----------------------------------------------------------------------------
(* Rows. *)

\* Rows of a task have an earliest one.
LEMMA EarliestRow ==
  ASSUME NEW R \in SUBSET Assignment, R # {}
  PROVE  \E a \in R : \A b \in R : a.dispatch_date <= b.dispatch_date
<1> DEFINE dates == {a.dispatch_date : a \in R}
           less == {ss \in Nat \X Nat : ss[1] < ss[2]}
<1>1. \A a \in R : a.dispatch_date \in Nat
  BY MaintenanceDateAssumption DEF Assignment, Dates
<1>2. dates \subseteq Nat /\ dates # {}
  BY <1>1
<1>3. PICK n \in dates : \A k \in dates : ~(<<k, n>> \in less)
  <2>1. IsWellFoundedOn(less, Nat)
    BY NatLessThanWellFounded DEF OpToRel
  <2> HIDE DEF dates, less
  <2> QED
    BY <1>2, <2>1, WFMin
<1>4. \A k \in dates : ~(k < n)
  BY <1>2, <1>3
<1>5. PICK a \in R : a.dispatch_date = n
  OBVIOUS
<1>6. ASSUME NEW b \in R PROVE a.dispatch_date <= b.dispatch_date
  <2>1. b.dispatch_date \in dates
    OBVIOUS
  <2> QED
    BY <1>1, <1>4, <1>5, <2>1
<1> QED
  BY <1>6

LEMMA CanonicalRow ==
  ASSUME TypeOK, NEW t \in duplicates(assignments)
  PROVE  /\ canonical(database, t) \in rows_of(assignments, t)
         /\ \A b \in rows_of(assignments, t) :
                canonical(database, t).dispatch_date <= b.dispatch_date
<1>1. rows_of(assignments, t) \in SUBSET Assignment
  BY DEF TypeOK, rows_of
<1>2. rows_of(assignments, t) # {}
  BY DEF duplicates, one_row_per_task
<1>3. \E a \in rows_of(assignments, t) :
         \A b \in rows_of(assignments, t) : a.dispatch_date <= b.dispatch_date
  BY <1>1, <1>2, EarliestRow
<1>4. database.assignments = assignments
  BY DEF database
<1> QED
  BY <1>3, <1>4 DEF canonical

\* The row that the plan leaves of a group has the group's task.
LEMMA PlannedRow ==
  ASSUME TypeOK, NEW t \in duplicates(assignments), NEW a \in plan_group(database, t)
  PROVE  /\ a = [canonical(database, t) EXCEPT !.driver_id = pickups[t].driver_id]
         /\ a.task_id = t
         /\ a.dispatch_date \in Dates
         /\ a.driver_id = pickups[t].driver_id
         /\ pickups[t].status = "ASSIGNED"
<1>1. database.pickups = pickups
  BY DEF database
<1>2. canonical(database, t) \in Assignment /\ canonical(database, t).task_id = t
  BY CanonicalRow DEF rows_of, TypeOK
<1>3. /\ pickups[t].status = "ASSIGNED"
      /\ a = [canonical(database, t) EXCEPT !.driver_id = pickups[t].driver_id]
  BY <1>1 DEF plan_group
<1> HIDE DEF canonical
<1> QED
  BY <1>2, <1>3 DEF Assignment

\* What applying a plan leaves of each task.
LEMMA AppliedRows ==
  ASSUME TypeOK, decision = database, NEW t \in Tasks
  PROVE  rows_of(apply_groups, t) =
            IF t \in duplicates(assignments) THEN plan_group(database, t)
                                             ELSE rows_of(assignments, t)
<1>1. decision.assignments = assignments
  BY DEF database
<1>2. apply_groups = {a \in assignments : a.task_id \notin duplicates(assignments)}
                        \cup UNION {plan_group(database, u) : u \in duplicates(assignments)}
  BY <1>1 DEF apply_groups
<1>3. \A u \in duplicates(assignments) : \A a \in plan_group(database, u) : a.task_id = u
  BY PlannedRow
<1> HIDE DEF apply_groups
<1> QED
  BY <1>2, <1>3 DEF rows_of

-----------------------------------------------------------------------------
(* The shape of the rows. *)

\* Steps that leave the rows of the tables alone.
LEMMA SameRowsType ==
  ASSUME TypeOK, UNCHANGED rows,
         schema' \in {"absent", "old", "current"},
         indexed' \in BOOLEAN,
         born' \in {"fresh", "old", "interrupted"},
         app' \in {"stopped", "connected", "created", "running"},
         fresh' \in BOOLEAN,
         cancellation' \in Summaries \cup {None},
         decision' \in {decision, database, NoDecision},
         repair' \in {"idle", "backed_up"},
         findings' = findings \/ findings' = None \/ findings' \subseteq SavedRows
  PROVE  TypeOK'
<1>1. /\ pickups' \in [Pickups -> Pickup]
      /\ \A t \in Pickups : pickups'[t].status = "ASSIGNED" <=>
                                pickups'[t].driver_id # None
      /\ assignments' \subseteq Assignment
  BY DEF TypeOK, rows
<1>2. key_unique(assignments)'
  BY DEF TypeOK, rows, key_unique
<1>3. decision' # NoDecision => decision'.assignments \subseteq Assignment
  BY DEF TypeOK, database
<1>4. findings' = None \/ findings' \subseteq SavedRows
  BY DEF TypeOK
<1> QED
  BY <1>1, <1>2, <1>3, <1>4 DEF TypeOK

\* Steps that write rows, and nothing of the file or the start-up.
LEMMA WrittenRowsType ==
  ASSUME TypeOK, UNCHANGED <<file, app, fresh, decision>>,
         cancellation' \in Summaries \cup {None},
         repair' \in {"idle", "backed_up"},
         findings' = findings \/ findings' = None,
         pickups' \in [Pickups -> Pickup],
         \A t \in Pickups : pickups'[t].status = "ASSIGNED" <=>
                                pickups'[t].driver_id # None,
         assignments' \subseteq Assignment,
         key_unique(assignments')
  PROVE  TypeOK'
  BY DEF TypeOK, file, key_unique

LEMMA StartUpType == TypeOK /\ StartUp => TypeOK'
<1> SUFFICES ASSUME TypeOK, StartUp PROVE TypeOK'
  OBVIOUS
<1>1. /\ UNCHANGED <<rows, tools>>
      /\ schema' \in {"absent", "old", "current"}
      /\ indexed' \in BOOLEAN
      /\ born' \in {"fresh", "old", "interrupted"}
      /\ app' \in {"stopped", "connected", "created", "running"}
      /\ fresh' \in BOOLEAN
      /\ cancellation' \in Summaries \cup {None}
  BY DEF TypeOK, StartUp, Connect, CreateTables, ensure_manual_dispatch_columns,
         Stop, file
<1>2. UNCHANGED <<decision, repair, findings>>
  BY <1>1 DEF tools
<1> QED
  BY <1>1, <1>2, SameRowsType DEF TypeOK

\* Only rows of the table's shape have tasks with several rows.
LEMMA TwoRows ==
  ASSUME NEW S, NEW t \in Tasks
  PROVE  t \in duplicates(S) <=>
            \E a, b \in S : a.task_id = t /\ b.task_id = t /\ a # b
  BY DEF duplicates, rows_of, one_row_per_task

\* The upsert updates the row of the task or gives it its first.
LEMMA UpsertType ==
  ASSUME TypeOK, NEW date \in Dates, NEW t \in Tasks, NEW d \in Drivers,
         upsert_assignment(date, t, d)
  PROVE  /\ assignments' \subseteq Assignment
         /\ key_unique(assignments')
         /\ duplicates(assignments') \subseteq duplicates(assignments)
<1>1. assignments \subseteq Assignment /\ key_unique(assignments)
  BY DEF TypeOK
<1>2. CASE rows_of(assignments, t) = {}
  <2> DEFINE new == [task_id |-> t, dispatch_date |-> date, driver_id |-> d]
  <2>1. assignments' = assignments \cup {new}
    BY <1>2 DEF upsert_assignment
  <2>2. \A a \in assignments : a.task_id # new.task_id
    BY <1>2 DEF rows_of
  <2>3. new \in Assignment
    BY DEF Assignment
  <2> HIDE DEF new
  <2>4. ASSUME NEW u \in duplicates(assignments') PROVE u \in duplicates(assignments)
    <3>1. u \in Tasks
      BY <2>4 DEF duplicates
    <3> QED
      BY <2>1, <2>2, <2>4, <3>1, TwoRows
  <2> QED
    BY <1>1, <2>1, <2>2, <2>3, <2>4 DEF key_unique
<1>3. CASE rows_of(assignments, t) # {}
  <2> DEFINE moved(a) == [a EXCEPT !.driver_id = IF a.task_id = t THEN d ELSE @]
  <2>1. assignments' = {moved(a) : a \in assignments}
    BY <1>3 DEF upsert_assignment
  <2>2. ASSUME NEW a \in assignments
        PROVE  /\ moved(a) \in Assignment
               /\ moved(a).task_id = a.task_id
               /\ moved(a).dispatch_date = a.dispatch_date
    <3>1. a \in Assignment
      BY <1>1
    <3> QED
      BY <3>1 DEF Assignment
  <2> HIDE DEF moved
  <2>3. ASSUME NEW u \in duplicates(assignments') PROVE u \in duplicates(assignments)
    <3>1. u \in Tasks
      BY <2>3 DEF duplicates
    <3> QED
      BY <2>1, <2>2, <2>3, <3>1, TwoRows
  <2> QED
    BY <1>1, <2>1, <2>2, <2>3 DEF key_unique
<1> QED
  BY <1>2, <1>3

\* Writers that replace all rows of a task leave it one.
LEMMA ReplacedType ==
  ASSUME TypeOK, NEW new \in Assignment,
         assignments' = (assignments \ rows_of(assignments, new.task_id)) \cup {new}
  PROVE  /\ assignments' \subseteq Assignment
         /\ key_unique(assignments')
         /\ duplicates(assignments') \subseteq duplicates(assignments)
<1>1. assignments \subseteq Assignment /\ key_unique(assignments)
  BY DEF TypeOK
<1>2. \A a \in assignments' : a = new \/ (a \in assignments /\ a.task_id # new.task_id)
  BY DEF rows_of
<1>3. ASSUME NEW u \in duplicates(assignments') PROVE u \in duplicates(assignments)
  <2>1. u \in Tasks
    BY <1>3 DEF duplicates
  <2> QED
    BY <1>2, <1>3, <2>1, TwoRows
<1> QED
  BY <1>1, <1>2, <1>3 DEF key_unique

LEMMA RemovedType ==
  ASSUME TypeOK, assignments' \subseteq assignments
  PROVE  /\ assignments' \subseteq Assignment
         /\ key_unique(assignments')
         /\ duplicates(assignments') \subseteq duplicates(assignments)
<1>1. ASSUME NEW u \in duplicates(assignments') PROVE u \in duplicates(assignments)
  <2>1. u \in Tasks
    BY <1>1 DEF duplicates
  <2> QED
    BY <1>1, <2>1, TwoRows
<1> QED
  BY <1>1 DEF TypeOK, key_unique

\* A cancellation replaces the rows of its own board.
LEMMA ReturnedType ==
  ASSUME TypeOK, NEW of \in Summaries
  PROVE  returned(of) \subseteq Assignment /\ key_unique(returned(of))
<1> DEFINE back(o) == [task_id |-> o, dispatch_date |-> of.dispatch_date,
                       driver_id |-> of.driver_id]
           kept == {a \in assignments : ~(/\ a.task_id \in of.orders
                                          /\ a.dispatch_date = of.dispatch_date)}
<1>1. /\ of.dispatch_date \in Dates /\ of.driver_id \in Drivers
      /\ of.orders \subseteq Tasks
  BY SummariesAssumption DEF Tasks
<1>2. ASSUME NEW o \in of.orders
      PROVE  /\ back(o) \in Assignment /\ back(o).task_id = o
             /\ back(o).dispatch_date = of.dispatch_date
  BY <1>1 DEF Assignment
<1>3. returned(of) = kept \cup {back(o) : o \in of.orders}
  BY DEF returned
<1>4. kept \subseteq Assignment /\ key_unique(kept)
  BY DEF TypeOK, key_unique
<1>5. \A a \in kept : ~(a.task_id \in of.orders /\ a.dispatch_date = of.dispatch_date)
  OBVIOUS
<1> HIDE DEF back, kept
<1> QED
  BY <1>2, <1>3, <1>4, <1>5 DEF key_unique

LEMMA ApplicationKeeps == Application => UNCHANGED <<file, app, fresh, tools>>
<1>1. ASSUME NEW t \in Pickups, PickupRequest(t) PROVE UNCHANGED <<file, app, fresh, tools>>
  BY <1>1 DEF PickupRequest, CancelPickup, ReleasePickup, UnassignPickup,
              AssignPickup, ReplacePickup, set_pickup, process
<1>2. ASSUME NEW o \in Orders, OrderRequest(o) PROVE UNCHANGED <<file, app, fresh, tools>>
  BY <1>2 DEF OrderRequest, ReleaseOrder, UnassignOrder, AssignOrder,
              order_handler, process
<1>3. ASSUME CancelRequest PROVE UNCHANGED <<file, app, fresh, tools>>
  BY <1>3 DEF CancelRequest, ReadCancel, WriteCancel, FailCancel, end_cancel
<1> QED
  BY <1>1, <1>2, <1>3 DEF Application

\* What the requests for single tasks do to the rows.
LEMMA PickupRows ==
  ASSUME TypeOK, NEW t \in Pickups, PickupRequest(t)
  PROVE  /\ assignments' \subseteq Assignment
         /\ key_unique(assignments')
         /\ duplicates(assignments') \subseteq duplicates(assignments)
<1>1. t \in Tasks
  BY DEF Tasks
<1>2. CASE CancelPickup(t) \/ ReleasePickup(t) \/ \E date \in Dates : UnassignPickup(date, t)
  <2>1. assignments' \subseteq assignments
    BY <1>2 DEF CancelPickup, ReleasePickup, UnassignPickup,
                remove_assignment, remove_assignments_for_task
  <2> QED
    BY <2>1, RemovedType
<1>3. ASSUME NEW date \in Dates, NEW d \in Drivers, AssignPickup(date, t, d)
      PROVE  /\ assignments' \subseteq Assignment
             /\ key_unique(assignments')
             /\ duplicates(assignments') \subseteq duplicates(assignments)
  BY <1>1, <1>3, UpsertType DEF AssignPickup
<1>4. ASSUME NEW date \in Dates, NEW d \in Drivers, ReplacePickup(date, t, d)
      PROVE  /\ assignments' \subseteq Assignment
             /\ key_unique(assignments')
             /\ duplicates(assignments') \subseteq duplicates(assignments)
  <2> DEFINE new == [task_id |-> t, dispatch_date |-> date, driver_id |-> d]
  <2>1. new \in Assignment /\ new.task_id = t
    BY <1>1 DEF Assignment
  <2>2. assignments' = (assignments \ rows_of(assignments, new.task_id)) \cup {new}
    BY <1>4 DEF ReplacePickup
  <2> HIDE DEF new
  <2> QED
    BY <2>1, <2>2, ReplacedType
<1> QED
  BY <1>2, <1>3, <1>4 DEF PickupRequest

LEMMA OrderRows ==
  ASSUME TypeOK, NEW o \in Orders, OrderRequest(o)
  PROVE  /\ assignments' \subseteq Assignment
         /\ key_unique(assignments')
         /\ duplicates(assignments') \subseteq duplicates(assignments)
<1>1. o \in Tasks
  BY DEF Tasks
<1>2. CASE ReleaseOrder(o) \/ \E date \in Dates : UnassignOrder(date, o)
  <2>1. assignments' \subseteq assignments
    BY <1>2 DEF ReleaseOrder, UnassignOrder, remove_assignment,
                remove_assignments_for_task
  <2> QED
    BY <2>1, RemovedType
<1>3. ASSUME NEW date \in Dates, NEW d \in Drivers, AssignOrder(date, o, d)
      PROVE  /\ assignments' \subseteq Assignment
             /\ key_unique(assignments')
             /\ duplicates(assignments') \subseteq duplicates(assignments)
  BY <1>1, <1>3, UpsertType DEF AssignOrder
<1> QED
  BY <1>2, <1>3 DEF OrderRequest

LEMMA ApplicationType == TypeOK /\ Application => TypeOK'
<1> SUFFICES ASSUME TypeOK, Application PROVE TypeOK'
  OBVIOUS
<1>1. /\ UNCHANGED <<file, app, fresh, decision>>
      /\ repair' \in {"idle", "backed_up"}
      /\ findings' = findings
  BY ApplicationKeeps DEF tools, TypeOK
<1>2. ASSUME NEW t \in Pickups, PickupRequest(t) PROVE TypeOK'
  <2>1. PICK status \in {"ACTIVE", "ASSIGNED", "CANCELLED"}, d \in Drivers \cup {None} :
            /\ pickups' = [pickups EXCEPT ![t] = [status |-> status, driver_id |-> d]]
            /\ status = "ASSIGNED" <=> d # None
    BY <1>2, MaintenanceNullAssumption
       DEF PickupRequest, CancelPickup, ReleasePickup, UnassignPickup,
           AssignPickup, ReplacePickup, set_pickup
  <2>2. [status |-> status, driver_id |-> d] \in Pickup
    BY DEF Pickup
  <2>3. /\ pickups' \in [Pickups -> Pickup]
        /\ \A p \in Pickups : pickups'[p].status = "ASSIGNED" <=>
                                  pickups'[p].driver_id # None
    BY <2>1, <2>2 DEF TypeOK
  <2>4. cancellation' = cancellation
    BY <1>2 DEF PickupRequest, CancelPickup, ReleasePickup, UnassignPickup,
                AssignPickup, ReplacePickup, set_pickup, process
  <2>5. assignments' \subseteq Assignment /\ key_unique(assignments')
    BY <1>2, PickupRows
  <2>6. cancellation' \in Summaries \cup {None}
    BY <2>4 DEF TypeOK
  <2> QED
    BY <1>1, <2>3, <2>5, <2>6, WrittenRowsType
<1>3. ASSUME UNCHANGED pickups, cancellation' \in Summaries \cup {None},
             assignments' \subseteq Assignment, key_unique(assignments')
      PROVE  TypeOK'
  <2>1. /\ pickups' \in [Pickups -> Pickup]
        /\ \A t \in Pickups : pickups'[t].status = "ASSIGNED" <=>
                                  pickups'[t].driver_id # None
    BY <1>3 DEF TypeOK
  <2> QED
    BY <1>1, <1>3, <2>1, WrittenRowsType
<1>4. ASSUME NEW o \in Orders, OrderRequest(o) PROVE TypeOK'
  <2>1. UNCHANGED <<pickups, cancellation>>
    BY <1>4 DEF OrderRequest, ReleaseOrder, UnassignOrder, AssignOrder,
                order_handler, process
  <2>2. cancellation' \in Summaries \cup {None}
    BY <2>1 DEF TypeOK
  <2> QED
    BY <1>3, <1>4, <2>1, <2>2, OrderRows
<1>5. ASSUME NEW of \in Summaries, ReadCancel(of) PROVE TypeOK'
  BY <1>3, <1>5 DEF ReadCancel, rows, TypeOK
<1>6. CASE WriteCancel
  <2>1. cancellation \in Summaries /\ assignments' = returned(cancellation)
    BY <1>6 DEF WriteCancel, end_cancel, TypeOK
  <2>2. UNCHANGED pickups /\ cancellation' = None
    BY <1>6 DEF WriteCancel, end_cancel
  <2> QED
    BY <1>3, <2>1, <2>2, ReturnedType
<1>7. CASE FailCancel
  BY <1>3, <1>7 DEF FailCancel, end_cancel, TypeOK
<1> QED
  BY <1>2, <1>4, <1>5, <1>6, <1>7 DEF Application, CancelRequest

\* A repair leaves each task the row its plan leaves it.
LEMMA RepairType ==
  ASSUME TypeOK, PlanInv, ApplyRepair
  PROVE  TypeOK'
<1>1. decision = database /\ assignments' = apply_groups
  BY DEF ApplyRepair, plan_matches_current
<1>2. duplicates(assignments) \subseteq Pickups
  <2>1. decision.assignments = assignments
    BY <1>1 DEF database
  <2> QED
    BY <2>1 DEF ApplyRepair, PlanInv, blocked_groups
<1>3. ASSUME NEW a \in assignments'
      PROVE  /\ a \in Assignment
             /\ \/ a \in assignments /\ a.task_id \notin duplicates(assignments)
                \/ /\ a.task_id \in duplicates(assignments)
                   /\ a = [canonical(database, a.task_id)
                              EXCEPT !.driver_id = pickups[a.task_id].driver_id]
  <2>1. decision.assignments = assignments
    BY <1>1 DEF database
  <2>2. CASE a \in assignments /\ a.task_id \notin duplicates(assignments)
    BY <2>2 DEF TypeOK
  <2>3. ASSUME NEW t \in duplicates(assignments), a \in plan_group(database, t)
        PROVE  /\ a \in Assignment
               /\ a.task_id = t
               /\ a = [canonical(database, t) EXCEPT !.driver_id = pickups[t].driver_id]
    <3>1. /\ a = [canonical(database, t) EXCEPT !.driver_id = pickups[t].driver_id]
          /\ a.task_id = t /\ a.dispatch_date \in Dates
          /\ a.driver_id = pickups[t].driver_id /\ pickups[t].status = "ASSIGNED"
      BY <2>3, PlannedRow
    <3>2. pickups[t].driver_id \in Drivers
      BY <1>2, <3>1 DEF TypeOK, Pickup
    <3>3. canonical(database, t) \in Assignment
      BY CanonicalRow DEF TypeOK, rows_of
    <3> HIDE DEF canonical
    <3> QED
      BY <3>1, <3>2, <3>3 DEF Assignment
  <2> QED
    BY <1>1, <1>3, <2>1, <2>2, <2>3 DEF apply_groups
<1>4. key_unique(assignments')
  BY <1>3 DEF TypeOK, key_unique
<1>5. /\ UNCHANGED <<file, app, fresh, pickups, decision, findings>>
      /\ repair' = "idle" /\ cancellation' \in Summaries \cup {None}
  BY DEF ApplyRepair, process, TypeOK
<1>6. /\ pickups' \in [Pickups -> Pickup]
      /\ \A t \in Pickups : pickups'[t].status = "ASSIGNED" <=>
                                pickups'[t].driver_id # None
  BY <1>5 DEF TypeOK
<1> QED
  BY <1>3, <1>4, <1>5, <1>6, WrittenRowsType

\* Findings with one key are one finding: a pickup in the summaries of
\* several drivers is not repaired.
LEMMA BackfillType ==
  ASSUME TypeOK, PlanInv, ApplyBackfill
  PROVE  TypeOK'
<1>1. safe_findings \subseteq SavedRows /\ safe_findings \subseteq findings
  BY DEF safe_findings, TypeOK, ApplyBackfill
<1>2. \A r \in safe_findings :
          /\ r \in Assignment /\ r.task_id \in Pickups /\ r.driver_id \in Drivers
  BY <1>1, SavedRowsAssumption DEF Assignment, Tasks
<1>3. ASSUME NEW r \in safe_findings, NEW s \in safe_findings,
             r.task_id = s.task_id, r.dispatch_date = s.dispatch_date
      PROVE  r = s
  <2>1. ~duplicate_saved_conflict(r.task_id)
    BY <1>1 DEF PlanInv, ApplyBackfill
  <2>2. r.driver_id = s.driver_id
    BY <1>1, <1>3, <2>1 DEF duplicate_saved_conflict
  <2> QED
    BY <1>2, <1>3, <2>2 DEF Assignment
<1>4. assignments' = {a \in assignments : \A r \in safe_findings : a \notin row_under(r)}
                        \cup safe_findings
  BY DEF ApplyBackfill
<1>5. assignments' \subseteq Assignment
  BY <1>2, <1>4 DEF TypeOK
<1>6. ASSUME NEW a \in assignments', NEW b \in assignments',
             a.task_id = b.task_id, a.dispatch_date = b.dispatch_date
      PROVE  a = b
  <2>1. CASE a \in safe_findings /\ b \in safe_findings
    BY <1>3, <1>6, <2>1
  <2>2. CASE a \notin safe_findings /\ b \notin safe_findings
    BY <1>4, <1>6, <2>2 DEF TypeOK, key_unique
  <2>3. ASSUME NEW x \in assignments, NEW r \in safe_findings, x \notin row_under(r)
        PROVE  ~(x.task_id = r.task_id /\ x.dispatch_date = r.dispatch_date)
    BY <2>3 DEF row_under
  <2> QED
    BY <1>4, <1>6, <2>1, <2>2, <2>3
<1>7. ASSUME NEW t \in Pickups
      PROVE  /\ pickups'[t] \in Pickup
             /\ pickups'[t].status = "ASSIGNED" <=> pickups'[t].driver_id # None
  <2>1. CASE \E r \in safe_findings : r.task_id = t
    <3> DEFINE found == CHOOSE r \in safe_findings : r.task_id = t
    <3>1. found.driver_id \in Drivers
      BY <1>2, <2>1
    <3>2. pickups'[t] = [status |-> "ASSIGNED", driver_id |-> found.driver_id]
      BY <2>1 DEF ApplyBackfill
    <3> HIDE DEF found
    <3> QED
      BY <3>1, <3>2, MaintenanceNullAssumption DEF Pickup
  <2>2. CASE ~\E r \in safe_findings : r.task_id = t
    <3>1. pickups'[t] = pickups[t]
      BY <2>2 DEF ApplyBackfill
    <3> QED
      BY <3>1 DEF TypeOK
  <2> QED
    BY <2>1, <2>2
<1>8. pickups' \in [Pickups -> Pickup]
  <2>1. pickups' = [t \in Pickups |-> pickups'[t]]
    BY DEF ApplyBackfill
  <2> QED
    BY <1>7, <2>1
<1>9. /\ UNCHANGED <<file, app, fresh, decision>>
      /\ repair' \in {"idle", "backed_up"}
      /\ findings' = None /\ cancellation' \in Summaries \cup {None}
  BY DEF ApplyBackfill, process, TypeOK
<1>10. key_unique(assignments')
  BY <1>6 DEF key_unique
<1> QED
  BY <1>5, <1>7, <1>8, <1>9, <1>10, WrittenRowsType

LEMMA ToolsType == TypeOK /\ PlanInv /\ MaintenanceTools => TypeOK'
<1> SUFFICES ASSUME TypeOK, PlanInv, MaintenanceTools PROVE TypeOK'
  OBVIOUS
<1>1. CASE DryRun \/ BeginRepair \/ AbandonRepair \/ CreateIndexes \/ AbandonBackfill
              \/ \E misdated \in SUBSET SavedRows : AuditBackfill(misdated)
  <2>1. /\ UNCHANGED rows
        /\ schema' = schema /\ born' = born /\ app' = app /\ fresh' = fresh
        /\ cancellation' \in Summaries \cup {None}
        /\ indexed' \in BOOLEAN
        /\ decision' \in {decision, database, NoDecision}
        /\ repair' \in {"idle", "backed_up"}
        /\ findings' = findings \/ findings' = None \/ findings' \subseteq SavedRows
    BY <1>1 DEF DryRun, BeginRepair, AbandonRepair, CreateIndexes, AuditBackfill,
                AbandonBackfill, TypeOK, file, process, tools
  <2> QED
    BY <2>1, SameRowsType DEF TypeOK
<1> QED
  BY <1>1, RepairType, BackfillType DEF MaintenanceTools

-----------------------------------------------------------------------------
(* Start-up, plans and findings. *)

LEMMA StepFresh == TypeOK /\ FreshInv /\ [Next]_vars => FreshInv'
<1> SUFFICES ASSUME TypeOK, FreshInv, [Next]_vars PROVE FreshInv'
  OBVIOUS
<1>1. CASE Connect
  BY <1>1 DEF Connect, FreshInv, file
<1>2. CASE CreateTables
  BY <1>2 DEF CreateTables, FreshInv
<1>3. CASE ensure_manual_dispatch_columns
  BY <1>3 DEF ensure_manual_dispatch_columns, FreshInv, TypeOK
<1>4. CASE Stop
  BY <1>4 DEF Stop, FreshInv, TypeOK
<1>5. CASE /\ UNCHANGED <<schema, born, app, fresh>>
           /\ indexed' = indexed \/ indexed' = TRUE
  BY <1>5 DEF FreshInv, TypeOK
<1>6. CASE Application
  BY <1>5, <1>6, ApplicationKeeps DEF file
<1>7. CASE MaintenanceTools
  BY <1>5, <1>7 DEF MaintenanceTools, DryRun, BeginRepair, ApplyRepair,
                    AbandonRepair, CreateIndexes, AuditBackfill, ApplyBackfill,
                    AbandonBackfill, file, process
<1>8. CASE UNCHANGED vars
  BY <1>5, <1>8 DEF vars
<1> QED
  BY <1>1, <1>2, <1>3, <1>4, <1>6, <1>7, <1>8 DEF Next, StartUp

LEMMA StepPlan == PlanInv /\ [Next]_vars => PlanInv'
<1> SUFFICES ASSUME PlanInv, [Next]_vars PROVE PlanInv'
  OBVIOUS
<1>1. ASSUME \/ UNCHANGED <<decision, repair>>
             \/ repair' # "backed_up"
             \/ decision' = decision /\ blocked_groups(decision) = {}
      PROVE  repair' = "backed_up" => blocked_groups(decision)' = {}
  BY <1>1 DEF PlanInv, blocked_groups
<1>2. ASSUME \/ UNCHANGED findings
             \/ findings' = None
             \/ \E misdated \in SUBSET SavedRows : AuditBackfill(misdated)
      PROVE  findings' # None =>
                 \A r \in findings' : ~duplicate_saved_conflict(r.task_id)
  BY <1>2 DEF PlanInv, AuditBackfill, classify_candidate
<1>3. CASE UNCHANGED tools
  BY <1>1, <1>2, <1>3 DEF PlanInv, tools, duplicate_saved_conflict
<1>4. CASE MaintenanceTools
  <2>1. \/ UNCHANGED <<decision, repair>>
        \/ repair' # "backed_up"
        \/ decision' = decision /\ blocked_groups(decision) = {}
    BY <1>4 DEF MaintenanceTools, DryRun, BeginRepair, ApplyRepair, AbandonRepair,
                CreateIndexes, AuditBackfill, ApplyBackfill, AbandonBackfill, tools
  <2>2. \/ UNCHANGED findings
        \/ findings' = None
        \/ \E misdated \in SUBSET SavedRows : AuditBackfill(misdated)
    BY <1>4 DEF MaintenanceTools, DryRun, BeginRepair, ApplyRepair, AbandonRepair,
                CreateIndexes, ApplyBackfill, AbandonBackfill, tools
  <2> QED
    BY <1>1, <1>2, <2>1, <2>2 DEF PlanInv, duplicate_saved_conflict
<1> QED
  BY <1>3, <1>4, ApplicationKeeps
     DEF Next, StartUp, Connect, CreateTables, ensure_manual_dispatch_columns,
         Stop, vars, tools

LEMMA InitMaintenanceInv == Init => MaintenanceInv
<1> SUFFICES ASSUME Init PROVE MaintenanceInv
  OBVIOUS
<1>1. TypeOK
  <2>1. /\ schema \in {"absent", "old", "current"}
        /\ indexed \in BOOLEAN
        /\ born \in {"fresh", "old", "interrupted"}
        /\ app \in {"stopped", "connected", "created", "running"}
        /\ fresh \in BOOLEAN
        /\ decision = NoDecision /\ repair \in {"idle", "backed_up"}
        /\ findings = None /\ cancellation = None
    BY DEF Init
  <2>2. /\ pickups \in [Pickups -> Pickup]
        /\ \A t \in Pickups : pickups[t].status = "ASSIGNED" <=>
                                  pickups[t].driver_id # None
    <3>1. [status |-> "ACTIVE", driver_id |-> None] \in Pickup
      BY DEF Pickup
    <3> QED
      BY <3>1 DEF Init
  <2>3. assignments \subseteq Assignment /\ key_unique(assignments)
    BY DEF Init, key_unique
  <2> QED
    BY <2>1, <2>2, <2>3 DEF TypeOK
<1>2. FreshInv /\ PlanInv
  BY DEF Init, FreshInv, PlanInv
<1> QED
  BY <1>1, <1>2 DEF MaintenanceInv

LEMMA StepMaintenanceInv == MaintenanceInv /\ [Next]_vars => MaintenanceInv'
<1> SUFFICES ASSUME TypeOK, FreshInv, PlanInv, [Next]_vars PROVE MaintenanceInv'
  BY DEF MaintenanceInv
<1>1. CASE UNCHANGED vars
  <2>1. UNCHANGED rows /\ UNCHANGED <<schema, indexed, born, app, fresh,
                                      cancellation, decision, repair, findings>>
    BY <1>1 DEF vars, rows
  <2>2. TypeOK'
    BY <2>1, SameRowsType DEF TypeOK
  <2> QED
    BY <2>2, StepFresh, StepPlan DEF MaintenanceInv
<1> QED
  BY <1>1, StartUpType, ApplicationType, ToolsType, StepFresh, StepPlan
     DEF Next, MaintenanceInv

LEMMA MaintenanceInvariant == Spec => []MaintenanceInv
  BY InitMaintenanceInv, StepMaintenanceInv, PTL DEF Spec

\* Start-up, requests and tools leave a task with a driver exactly when it is
\* assigned, and one row per task and dispatch date, however they interleave.
THEOREM MaintenanceTypeCorrect == Spec => []TypeOK
<1>1. MaintenanceInv => TypeOK
  BY DEF MaintenanceInv
<1> QED
  BY <1>1, MaintenanceInvariant, PTL

\* The application never runs on a file that was created fresh and has no
\* unique indexes, unless its first start-up died between its commits.
THEOREM FreshFilesIndexed == Spec => []FreshDatabasesIndexed
<1>1. MaintenanceInv => FreshDatabasesIndexed
  BY DEF MaintenanceInv, FreshInv, FreshDatabasesIndexed
<1> QED
  BY <1>1, MaintenanceInvariant, PTL

-----------------------------------------------------------------------------
(* What a repair does, and what brings duplicates back. *)

Repairs ==
  repair = "backed_up" /\ assignments' # assignments /\ repair' = "idle" =>
      \A t \in Tasks :
          IF t \notin duplicates(assignments)
          THEN rows_of(assignments', t) = rows_of(assignments, t)
          ELSE IF pickups[t].status = "ASSIGNED"
          THEN \E a \in rows_of(assignments, t) :
                   /\ \A b \in rows_of(assignments, t) :
                          a.dispatch_date <= b.dispatch_date
                   /\ rows_of(assignments', t) =
                          {[a EXCEPT !.driver_id = pickups[t].driver_id]}
          ELSE rows_of(assignments', t) = {}

LEMMA ApplyFollows ==
  ASSUME TypeOK, ApplyRepair, NEW t \in Tasks
  PROVE  IF t \notin duplicates(assignments)
         THEN rows_of(assignments', t) = rows_of(assignments, t)
         ELSE IF pickups[t].status = "ASSIGNED"
         THEN \E a \in rows_of(assignments, t) :
                  /\ \A b \in rows_of(assignments, t) :
                         a.dispatch_date <= b.dispatch_date
                  /\ rows_of(assignments', t) =
                         {[a EXCEPT !.driver_id = pickups[t].driver_id]}
         ELSE rows_of(assignments', t) = {}
<1>1. decision = database /\ assignments' = apply_groups
  BY DEF ApplyRepair, plan_matches_current
<1>2. CASE t \notin duplicates(assignments)
  BY <1>1, <1>2, AppliedRows
<1>3. CASE t \in duplicates(assignments)
  <2>1. rows_of(assignments', t) = plan_group(database, t)
    BY <1>1, <1>3, AppliedRows
  <2>2. database.pickups = pickups
    BY DEF database
  <2>3. CASE pickups[t].status = "ASSIGNED"
    <3>1. rows_of(assignments', t) =
            {[canonical(database, t) EXCEPT !.driver_id = pickups[t].driver_id]}
      BY <2>1, <2>2, <2>3 DEF plan_group
    <3> HIDE DEF canonical
    <3> QED
      BY <1>3, <2>3, <3>1, CanonicalRow
  <2>4. CASE pickups[t].status # "ASSIGNED"
    BY <1>3, <2>1, <2>2, <2>4 DEF plan_group
  <2> QED
    BY <2>3, <2>4
<1> QED
  BY <1>2, <1>3

LEMMA StepRepairs ==
  ASSUME TypeOK, [Next]_vars
  PROVE  Repairs
<1>1. CASE ApplyRepair
  BY <1>1, ApplyFollows DEF Repairs
<1>2. CASE UNCHANGED assignments \/ UNCHANGED repair
  BY <1>2 DEF Repairs
<1> QED
  BY <1>1, <1>2, ApplicationKeeps
     DEF Next, StartUp, MaintenanceTools, Connect, CreateTables,
         ensure_manual_dispatch_columns, Stop, DryRun, BeginRepair,
         AbandonRepair, CreateIndexes, AuditBackfill, ApplyBackfill,
         AbandonBackfill, vars, tools, rows

\* However long ago its plan was made, a repair leaves every task with the
\* driver it has now, and touches no task that had one row.
THEOREM RepairsFollow == Spec => RepairFollowsTasks
<1>1. MaintenanceInv /\ [Next]_vars => [Repairs]_vars
  BY StepRepairs DEF MaintenanceInv
<1> QED
  BY <1>1, MaintenanceInvariant, PTL DEF Spec, RepairFollowsTasks, Repairs

Duplicated(t) ==
  /\ ~indexed
  /\ \/ /\ findings # None /\ findings' = None
        /\ \E r \in findings : r.task_id = t
     \/ /\ cancellation # None /\ cancellation' = None
        /\ t \in cancellation.orders
        /\ \E a \in rows_of(assignments, t) :
               a.dispatch_date # cancellation.dispatch_date

LEMMA BackfillDuplicates ==
  ASSUME TypeOK, ApplyBackfill, NEW t \in duplicates(assignments') \ duplicates(assignments)
  PROVE  Duplicated(t)
<1>1. t \in Tasks
  BY DEF duplicates
<1>2. PICK a \in assignments', b \in assignments' :
          a.task_id = t /\ b.task_id = t /\ a # b
  BY <1>1, TwoRows
<1>3. ~(a \in assignments /\ b \in assignments)
  BY <1>1, <1>2, TwoRows
<1>4. PICK r \in safe_findings : r.task_id = t
  BY <1>2, <1>3 DEF ApplyBackfill
<1>5. ~indexed
  BY <1>2 DEF ApplyBackfill, one_row_per_task
<1> QED
  BY <1>4, <1>5 DEF ApplyBackfill, Duplicated, safe_findings

LEMMA CancelDuplicates ==
  ASSUME TypeOK, WriteCancel, NEW t \in duplicates(assignments') \ duplicates(assignments)
  PROVE  Duplicated(t)
<1> DEFINE of == cancellation
           back(o) == [task_id |-> o, dispatch_date |-> of.dispatch_date,
                       driver_id |-> of.driver_id]
<1>1. t \in Tasks
  BY DEF duplicates
<1>2. PICK a \in assignments', b \in assignments' :
          a.task_id = t /\ b.task_id = t /\ a # b
  BY <1>1, TwoRows
<1>3. ~(a \in assignments /\ b \in assignments)
  BY <1>1, <1>2, TwoRows
<1>4. \A o \in of.orders : back(o).task_id = o
  OBVIOUS
<1>5. assignments' =
          {x \in assignments : ~(/\ x.task_id \in of.orders
                                 /\ x.dispatch_date = of.dispatch_date)}
          \cup {back(o) : o \in of.orders}
  BY DEF WriteCancel, returned
<1> HIDE DEF back
<1>6. t \in of.orders
  BY <1>2, <1>3, <1>4, <1>5
<1>7. \E x \in assignments : x.task_id = t /\ x.dispatch_date # of.dispatch_date
  BY <1>2, <1>4, <1>5, <1>6
<1>8. ~indexed
  BY <1>2 DEF WriteCancel, one_row_per_task
<1> QED
  BY <1>6, <1>7, <1>8 DEF WriteCancel, end_cancel, Duplicated, rows_of

LEMMA StepDuplicates ==
  ASSUME TypeOK, PlanInv, [Next]_vars,
         NEW t \in duplicates(assignments') \ duplicates(assignments)
  PROVE  Duplicated(t)
<1>1. t \in Tasks
  BY DEF duplicates
<1>2. CASE UNCHANGED assignments
  BY <1>2
<1>3. CASE ApplyRepair
  <2>1. decision = database /\ assignments' = apply_groups
    BY <1>3 DEF ApplyRepair, plan_matches_current
  <2>2. rows_of(assignments', t) = rows_of(assignments, t)
    BY <1>1, <2>1, AppliedRows
  <2> QED
    BY <1>1, <2>2 DEF duplicates
<1>4. CASE Application
  <2>1. ASSUME NEW p \in Pickups, PickupRequest(p) PROVE FALSE
    BY <2>1, PickupRows
  <2>2. ASSUME NEW o \in Orders, OrderRequest(o) PROVE FALSE
    BY <2>2, OrderRows
  <2>3. CASE CancelRequest
    BY <1>2, <2>3, CancelDuplicates DEF CancelRequest, ReadCancel, FailCancel, rows
  <2> QED
    BY <1>4, <2>1, <2>2, <2>3 DEF Application
<1> QED
  BY <1>2, <1>3, <1>4, BackfillDuplicates
     DEF Next, StartUp, MaintenanceTools, Connect, CreateTables,
         ensure_manual_dispatch_columns, Stop, DryRun, BeginRepair,
         AbandonRepair, CreateIndexes, AuditBackfill, AbandonBackfill, vars, rows

\* No request, repair or start-up ever gives a task a second row; a backfill
\* and the cancellation of a legacy summary do so only without the indexes,
\* and only at a task they name themselves.
THEOREM SummariesDuplicate == Spec => OnlySummariesDuplicate
<1>1. MaintenanceInv /\ [Next]_vars =>
        [\A t \in duplicates(assignments') \ duplicates(assignments) : Duplicated(t)]_vars
  BY StepDuplicates DEF MaintenanceInv
<1> QED
  BY <1>1, MaintenanceInvariant, PTL DEF Spec, OnlySummariesDuplicate, Duplicated
=============================================================================
