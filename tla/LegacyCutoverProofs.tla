------------------------- MODULE LegacyCutoverProofs -------------------------
(***************************************************************************)
(* Proofs about LegacyCutover, for any number of summaries and of requests *)
(* in flight, and with or without the unique indexes.  A saved summary can *)
(* be erased only by a call that read a GENERATED one under its number     *)
(* (a threat).  The tool copies while no process runs, when there is no    *)
(* call; and afterwards no call can become a threat to what was copied.    *)
(* So the copies stay true, and counting their rows is enough for the gate.*)
(***************************************************************************)
EXTENDS LegacyCutover, FiniteSetTheorems, WellFoundedInduction, TLAPS

-----------------------------------------------------------------------------
(* The inductive invariant. *)

Threat(call, n) ==
    \/ call.op = "cancel" /\ call.id = n
    \/ n \in call.generated

\* Only a GENERATED summary is read to be cancelled, and there are no calls
\* while no process runs.
CallInv ==
    /\ \A c \in Clients : calls[c].op = "cancel" => calls[c].read.status = "GENERATED"
    /\ mode = "stopped" => \A c \in Clients : calls[c] = NoCall

\* A copy is the copy of a saved summary, which no call threatens.
CopyInv ==
    \A module \in Modules : \A s \in snapshots(module) : \A n \in SummaryIds :
        s.legacy_summary_id = n =>
            /\ summaries[n].status = "SAVED"
            /\ s = copy(n, module)
            /\ \A c \in Clients : ~Threat(calls[c], n)

CutoverInv == TypeOK /\ CallInv /\ CopyInv

-----------------------------------------------------------------------------
(* Summaries and their numbers. *)

\* MAX + 1 exists: it is the smallest number above all that are taken.
LEMMA NextNumber ==
    ASSUME NEW present \in SUBSET SummaryIds
    PROVE  create_final_trip_summary_id(present) \in 1..(MaxSummaries + 1)
  <1> DEFINE above == {n \in Nat : n >= 1 /\ \A m \in present : m < n}
  <1>1. MaxSummaries \in Nat /\ SummaryIds = 1..MaxSummaries
    BY LegacyBoundAssumption DEF SummaryIds
  <1>2. MaxSummaries + 1 \in above
    BY <1>1
  <1> DEFINE less == {ss \in Nat \X Nat : ss[1] < ss[2]}
  <1>3. PICK n \in above : \A k \in above : ~(<<k, n>> \in less)
    <2>1. above \subseteq Nat /\ above # {}
      BY <1>2
    <2>2. IsWellFoundedOn(less, Nat)
      BY NatLessThanWellFounded DEF OpToRel
    <2> HIDE DEF above, less
    <2> QED BY <2>1, <2>2, WFMin
  <1>4. \A k \in above : ~(k < n)
    BY <1>3
  <1>5. n <= MaxSummaries + 1
    BY <1>1, <1>2, <1>4
  <1>6. n = 1 \/ n - 1 \in present
    <2> SUFFICES ASSUME n # 1, n - 1 \notin present PROVE FALSE
      OBVIOUS
    <2>1. n - 1 \in Nat /\ n - 1 >= 1
      OBVIOUS
    <2>2. \A m \in present : m < n - 1
      BY <1>1
    <2>3. n - 1 \in above
      BY <2>1, <2>2
    <2> QED BY <2>3, <1>4
  <1>7. /\ n \in 1..(MaxSummaries + 1)
        /\ \A m \in present : m < n
        /\ n = 1 \/ n - 1 \in present
    BY <1>1, <1>5, <1>6
  <1> QED BY <1>7 DEF create_final_trip_summary_id

LEMMA StoredSummary ==
    ASSUME TypeOK, NEW n \in SummaryIds, summaries[n].status # "ABSENT"
    PROVE  summaries[n] \in Summary
  BY DEF TypeOK, Absent

LEMMA StoredIds ==
    /\ stored \in SUBSET SummaryIds
    /\ \A n \in SummaryIds : summaries[n].status \in {"GENERATED", "SAVED"} <=> n \in stored
  BY DEF stored, with_status

LEMMA CallType ==
    ASSUME TypeOK, NEW c \in Clients, calls[c].op # "none"
    PROVE  /\ calls[c] \in Call
           /\ calls[c].read \in Summary
           /\ calls[c].read.of \in Contents
           /\ calls[c].id \in 1..(MaxSummaries + 1)
           /\ calls[c].generated \in SUBSET SummaryIds
  <1>1. calls[c] \in Call
    BY DEF TypeOK, NoCall
  <1> QED BY <1>1 DEF Call, Summary

-----------------------------------------------------------------------------
(* The shape of the rows. *)

LEMMA UpsertType ==
    ASSUME TypeOK, NEW date \in DispatchDates, NEW o \in Orders, NEW d \in Drivers,
           upsert_assignment(date, o, d)
    PROVE  assignments' \subseteq Assignment
  <1> DEFINE origin == IF order_assignments(o) = {} THEN date
                       ELSE (CHOOSE a \in order_assignments(o) : TRUE).dispatch_date
             new == [task_id |-> o, driver_id |-> d, dispatch_date |-> origin]
  <1>1. order_assignments(o) \subseteq Assignment /\ assignments \subseteq Assignment
    BY DEF TypeOK, order_assignments
  <1>2. origin \in DispatchDates
    <2>1. CASE order_assignments(o) = {}
      BY <2>1
    <2>2. CASE order_assignments(o) # {}
      <3>1. (CHOOSE a \in order_assignments(o) : TRUE) \in Assignment
        BY <2>2, <1>1
      <3> QED BY <2>2, <3>1 DEF Assignment
    <2> QED BY <2>1, <2>2
  <1>3. assignments' = (assignments \ order_assignments(o)) \cup {new}
    BY DEF upsert_assignment
  <1> HIDE DEF origin
  <1>4. new \in Assignment
    BY <1>2 DEF Assignment
  <1> QED BY <1>1, <1>3, <1>4

LEMMA BeginType ==
    ASSUME TypeOK, NEW c \in Clients, NEW call \in Call, begin_call(c, call)
    PROVE  TypeOK'
  BY DEF begin_call, data, TypeOK

LEMMA CheckType ==
    ASSUME TypeOK, NEW c \in Clients,
           \/ \E of \in Requests, status \in {"GENERATED", "SAVED"} :
                  CheckCreate(c, of, status)
           \/ \E n \in SummaryIds : CheckSave(c, n) \/ CheckCancel(c, n)
    PROVE  TypeOK'
  <1>1. ASSUME NEW of \in Requests, NEW status \in {"GENERATED", "SAVED"},
               CheckCreate(c, of, status)
        PROVE  TypeOK'
    <2> DEFINE call == [op |-> "create", id |-> create_final_trip_summary_id(stored),
                        read |-> [status |-> status, of |-> of],
                        generated |-> generated_for_driver(of)]
    <2>1. create_final_trip_summary_id(stored) \in 1..(MaxSummaries + 1)
      BY NextNumber, StoredIds
    <2>2. generated_for_driver(of) \in SUBSET SummaryIds
      BY DEF generated_for_driver, with_status
    <2>3. [status |-> status, of |-> of] \in Summary
      BY RequestAssumption DEF Summary
    <2>4. call \in Call
      BY <2>1, <2>2, <2>3 DEF Call
    <2>5. begin_call(c, call)
      BY <1>1 DEF CheckCreate
    <2> QED BY <2>4, <2>5, BeginType
  <1>2. ASSUME NEW n \in SummaryIds, NEW op \in {"save", "cancel"},
               summaries[n].status = "GENERATED",
               begin_call(c, [op |-> op, id |-> n, read |-> summaries[n],
                              generated |-> {}])
        PROVE  TypeOK'
    <2>1. n \in 1..(MaxSummaries + 1)
      BY LegacyBoundAssumption DEF SummaryIds
    <2>2. summaries[n] \in Summary
      BY <1>2, StoredSummary
    <2>3. [op |-> op, id |-> n, read |-> summaries[n], generated |-> {}] \in Call
      BY <2>1, <2>2 DEF Call
    <2> QED BY <2>3, <1>2, BeginType
  <1>3. ASSUME NEW n \in SummaryIds, CheckSave(c, n) PROVE TypeOK'
    BY <1>2, <1>3 DEF CheckSave
  <1>4. ASSUME NEW n \in SummaryIds, CheckCancel(c, n) PROVE TypeOK'
    BY <1>2, <1>4 DEF CheckCancel
  <1> QED BY <1>1, <1>3, <1>4

\* What a write leaves of the tables, and the end of its call.
LEMMA EndType ==
    ASSUME TypeOK, NEW c, end_call(c),
           orders' \in [Orders -> {"ACTIVE", "FINALIZED", "CANCELLED"}],
           assignments' \subseteq Assignment,
           summaries' \in [SummaryIds -> Summary \cup {Absent}]
    PROVE  TypeOK'
  BY DEF end_call, TypeOK

LEMMA InsertType ==
    ASSUME TypeOK, NEW c \in Clients, calls[c].op = "create",
           insert_final_trip_summary_snapshot(calls[c])
    PROVE  summaries' \in [SummaryIds -> Summary \cup {Absent}]
  <1>1. calls[c].read \in Summary
    BY CallType
  <1>2. \A m \in SummaryIds : summaries[m] \in Summary \cup {Absent}
    BY DEF TypeOK
  <1> DEFINE row(m) == CASE m = number(calls[c]) -> calls[c].read
                         [] m # number(calls[c]) /\ m \in kept(calls[c]) -> summaries[m]
                         [] OTHER -> Absent
  <1>3. \A m \in SummaryIds : row(m) \in Summary \cup {Absent}
    BY <1>1, <1>2
  <1>4. summaries' = [m \in SummaryIds |-> row(m)]
    BY DEF insert_final_trip_summary_snapshot
  <1> HIDE DEF row
  <1> QED BY <1>3, <1>4

LEMMA FinalizeType ==
    ASSUME TypeOK, NEW captured, NEW date, finalize(captured, date)
    PROVE  /\ orders' \in [Orders -> {"ACTIVE", "FINALIZED", "CANCELLED"}]
           /\ assignments' \subseteq Assignment
  BY DEF finalize, TypeOK

LEMMA WriteType ==
    ASSUME TypeOK, NEW c \in Clients,
           \/ WriteGenerated(c) \/ WriteSaved(c) \/ FailCreate(c)
           \/ WriteSave(c) \/ WriteCancel(c) \/ FailCancel(c)
    PROVE  TypeOK'
  <1>1. CASE WriteGenerated(c)
    <2>1. summaries' \in [SummaryIds -> Summary \cup {Absent}]
      BY <1>1, InsertType DEF WriteGenerated
    <2>2. /\ orders' \in [Orders -> {"ACTIVE", "FINALIZED", "CANCELLED"}]
          /\ assignments' \subseteq Assignment
      BY <1>1 DEF WriteGenerated, TypeOK
    <2> QED BY <1>1, <2>1, <2>2, EndType DEF WriteGenerated
  <1>2. CASE WriteSaved(c)
    <2>1. summaries' \in [SummaryIds -> Summary \cup {Absent}]
      BY <1>2, InsertType DEF WriteSaved
    <2> QED BY <1>2, <2>1, FinalizeType, EndType DEF WriteSaved
  <1>3. CASE FailCreate(c) \/ FailCancel(c)
    <2>1. end_call(c) /\ UNCHANGED <<orders, assignments, summaries>>
      BY <1>3 DEF FailCreate, FailCancel
    <2> QED BY <2>1, EndType DEF TypeOK
  <1>4. CASE WriteSave(c)
    <2> DEFINE n == calls[c].id
    <2>1. CASE n \in stored
      <3>1. /\ summaries' = [summaries EXCEPT ![n].status = "SAVED"]
            /\ finalize(summaries[n].of.orders, calls[c].read.of.dispatch_date)
            /\ end_call(c)
        BY <1>4, <2>1 DEF WriteSave
      <3>2. n \in SummaryIds /\ summaries[n] \in Summary
        BY <2>1, StoredSummary DEF stored, with_status
      <3>3. [summaries[n] EXCEPT !.status = "SAVED"] \in Summary
        BY <3>2 DEF Summary
      <3>4. summaries' \in [SummaryIds -> Summary \cup {Absent}]
        BY <3>1, <3>2, <3>3 DEF TypeOK
      <3> QED BY <3>1, <3>4, FinalizeType, EndType
    <2>2. CASE n \notin stored
      <3>1. end_call(c) /\ UNCHANGED <<orders, assignments, summaries>>
        BY <1>4, <2>2 DEF WriteSave
      <3> QED BY <3>1, EndType DEF TypeOK
    <2> QED BY <2>1, <2>2
  <1>5. CASE WriteCancel(c)
    <2> DEFINE of == calls[c].read.of
    <2>1. /\ end_call(c)
          /\ orders' = [o \in Orders |-> IF o \in of.orders /\ orders[o] # "CANCELLED"
                                         THEN "ACTIVE" ELSE orders[o]]
          /\ assignments' = returned(of)
          /\ summaries' = [summaries EXCEPT ![calls[c].id] = Absent]
          /\ of \in Contents
      BY <1>5, CallType DEF WriteCancel
    <2> HIDE DEF of
    <2>2. returned(of) \subseteq Assignment
      <3>1. \A o \in of.orders :
                [task_id |-> o, dispatch_date |-> of.dispatch_date,
                 driver_id |-> of.driver_id] \in Assignment
        BY <2>1 DEF Contents, Assignment
      <3> QED BY <3>1 DEF returned, TypeOK
    <2>3. orders' \in [Orders -> {"ACTIVE", "FINALIZED", "CANCELLED"}]
      BY <2>1 DEF TypeOK
    <2>4. summaries' \in [SummaryIds -> Summary \cup {Absent}]
      BY <2>1 DEF TypeOK
    <2> QED BY <2>1, <2>2, <2>3, <2>4, EndType
  <1> QED BY <1>1, <1>2, <1>3, <1>4, <1>5

LEMMA CopyType ==
    ASSUME TypeOK, NEW n \in SummaryIds, summaries[n].status = "SAVED"
    PROVE  /\ insert_delivery_run_sheet(n) \in Snapshot(Orders)
           /\ insert_opshop_collection(n) \in Snapshot(Pickups)
  <1>1. summaries[n].of \in Contents
    BY StoredSummary DEF Summary
  <1> QED BY <1>1 DEF insert_delivery_run_sheet, insert_opshop_collection, copied,
                      Snapshot, Contents

LEMMA MigrateType ==
    ASSUME TypeOK, Migrate PROVE TypeOK'
  <1>1. \A module \in Modules : \A n \in candidates(module) :
            n \in SummaryIds /\ summaries[n].status = "SAVED"
    BY DEF candidates, to_migrate, with_status
  <1>2. sheets' \subseteq Snapshot(Orders)
    <2>1. sheets' = sheets \cup {insert_delivery_run_sheet(n) : n \in candidates("delivery")}
      BY DEF Migrate, applied, snapshots, copy
    <2>2. \A n \in candidates("delivery") : insert_delivery_run_sheet(n) \in Snapshot(Orders)
      BY <1>1, CopyType DEF Modules
    <2> QED BY <2>1, <2>2 DEF TypeOK
  <1>3. collections' \subseteq Snapshot(Pickups)
    <2>1. collections' = collections \cup
              {insert_opshop_collection(n) : n \in candidates("opshop")}
      BY DEF Migrate, applied, snapshots, copy
    <2>2. \A n \in candidates("opshop") : insert_opshop_collection(n) \in Snapshot(Pickups)
      BY <1>1, CopyType DEF Modules
    <2> QED BY <2>1, <2>2 DEF TypeOK
  <1> QED BY <1>2, <1>3 DEF Migrate, TypeOK

\* The steps of the board, of the workspaces and of the process.
OtherStep ==
    \/ \E o \in Orders, date \in DispatchDates :
           \/ \E d \in Drivers : \/ AssignTask(date, o, d)
                                 \/ WorkspaceAssign(date, o, d)
           \/ UnassignTask(date, o)
    \/ \E o \in Orders : CancelOrder(o)
    \/ \E date \in DispatchDates, d \in Drivers : GenerateRunSheet(date, d)
    \/ \E s \in sheets : CancelRunSheet(s)
    \/ \E m \in {"current", "legacy"} : Start(m)
    \/ Stop

LEMMA OtherType ==
    ASSUME TypeOK, OtherStep PROVE TypeOK'
  <1>1. ASSUME NEW o \in Orders, NEW date \in DispatchDates, NEW d \in Drivers,
               AssignTask(date, o, d) \/ WorkspaceAssign(date, o, d)
        PROVE  TypeOK'
    <2>1. upsert_assignment(date, o, d)
      BY <1>1 DEF AssignTask, WorkspaceAssign
    <2>2. UNCHANGED <<mode, orders, summaries, sheets, collections, calls>>
      BY <1>1 DEF AssignTask, WorkspaceAssign
    <2> QED BY <2>1, <2>2, UpsertType DEF TypeOK
  <1>2. ASSUME NEW o \in Orders, NEW date \in DispatchDates, UnassignTask(date, o)
        PROVE  TypeOK'
    BY <1>2 DEF UnassignTask, TypeOK
  <1>3. ASSUME NEW o \in Orders, CancelOrder(o) PROVE TypeOK'
    BY <1>3 DEF CancelOrder, TypeOK
  <1>4. ASSUME NEW date \in DispatchDates, NEW d \in Drivers, GenerateRunSheet(date, d)
        PROVE  TypeOK'
    <2> DEFINE new == [legacy_summary_id |-> None, status |-> "GENERATED",
                       dispatch_date |-> date, driver_id |-> d, rows |-> assigned_to(d)]
    <2>1. new \in Snapshot(Orders)
      BY DEF Snapshot, assigned_to
    <2>2. sheets' = sheets \cup {new}
      BY <1>4 DEF GenerateRunSheet
    <2> HIDE DEF new
    <2> QED BY <1>4, <2>1, <2>2 DEF GenerateRunSheet, TypeOK
  <1>5. ASSUME NEW s \in sheets, CancelRunSheet(s) PROVE TypeOK'
    BY <1>5 DEF CancelRunSheet, TypeOK
  <1>6. ASSUME NEW m \in {"current", "legacy"}, Start(m) PROVE TypeOK'
    BY <1>6 DEF Start, data, TypeOK
  <1>7. CASE Stop
    BY <1>7 DEF Stop, data, TypeOK
  <1> QED BY <1>1, <1>2, <1>3, <1>4, <1>5, <1>6, <1>7 DEF OtherStep

LEMMA StepType ==
    ASSUME TypeOK, [Next]_vars PROVE TypeOK'
  <1>1. ASSUME NEW c \in Clients, LegacyRequests(c) PROVE TypeOK'
    BY <1>1, CheckType, WriteType DEF LegacyRequests
  <1>2. CASE Migrate
    BY <1>2, MigrateType
  <1>3. CASE OtherStep
    BY <1>3, OtherType
  <1>4. CASE UNCHANGED vars
    BY <1>4 DEF vars, TypeOK
  <1> QED BY <1>1, <1>2, <1>3, <1>4 DEF Next, OtherStep

-----------------------------------------------------------------------------
(* What happens to a saved summary. *)

LEMMA InsertKeeps ==
    ASSUME NEW call, NEW n \in SummaryIds, n \in kept(call),
           insert_final_trip_summary_snapshot(call)
    PROVE  summaries'[n] = summaries[n]
  <1>1. number(call) # n
    BY DEF insert_final_trip_summary_snapshot
  <1> QED BY <1>1 DEF insert_final_trip_summary_snapshot

\* A request leaves a saved summary as it is, or ends a call that threatened
\* it.
LEMMA RequestKeeps ==
    ASSUME TypeOK, NEW c \in Clients, LegacyRequests(c),
           NEW n \in SummaryIds, summaries[n].status = "SAVED"
    PROVE  \/ summaries'[n] = summaries[n]
           \/ calls[c] # NoCall /\ calls'[c] = NoCall /\ Threat(calls[c], n)
  <1>1. n \in stored
    BY StoredIds
  <1>2. ASSUME end_call(c) PROVE calls'[c] = NoCall
    BY <1>2 DEF end_call, TypeOK
  <1>3. CASE \/ \E of \in Requests, status \in {"GENERATED", "SAVED"} :
                    CheckCreate(c, of, status)
             \/ \E m \in SummaryIds : CheckSave(c, m) \/ CheckCancel(c, m)
    BY <1>3 DEF CheckCreate, CheckSave, CheckCancel, begin_call, data
  <1>4. CASE WriteGenerated(c) \/ WriteSaved(c)
    <2>1. /\ insert_final_trip_summary_snapshot(calls[c])
          /\ calls'[c] = NoCall /\ calls[c].op = "create"
      BY <1>2, <1>4 DEF WriteGenerated, WriteSaved
    <2>2. CASE n \in calls[c].generated
      BY <2>1, <2>2 DEF Threat, NoCall
    <2>3. CASE n \notin calls[c].generated
      BY <1>1, <2>1, <2>3, InsertKeeps DEF kept
    <2> QED BY <2>2, <2>3
  <1>5. CASE FailCreate(c) \/ FailCancel(c)
    BY <1>5 DEF FailCreate, FailCancel
  <1>6. CASE WriteSave(c)
    <2> DEFINE m == calls[c].id
    <2>1. CASE m \in stored
      <3>1. summaries' = [summaries EXCEPT ![m].status = "SAVED"]
        BY <1>6, <2>1 DEF WriteSave
      <3>2. summaries[n] \in Summary
        BY StoredSummary
      <3>3. [summaries[n] EXCEPT !.status = "SAVED"] = summaries[n]
        BY <3>2 DEF Summary
      <3> QED BY <3>1, <3>3 DEF TypeOK
    <2>2. CASE m \notin stored
      BY <1>6, <2>2 DEF WriteSave
    <2> QED BY <2>1, <2>2
  <1>7. CASE WriteCancel(c)
    <2>1. /\ summaries' = [summaries EXCEPT ![calls[c].id] = Absent]
          /\ calls'[c] = NoCall /\ calls[c].op = "cancel"
      BY <1>2, <1>7 DEF WriteCancel
    <2>2. CASE calls[c].id = n
      BY <2>1, <2>2 DEF Threat, NoCall
    <2>3. CASE calls[c].id # n
      BY <2>1, <2>3 DEF TypeOK
    <2> QED BY <2>2, <2>3
  <1> QED BY <1>3, <1>4, <1>5, <1>6, <1>7 DEF LegacyRequests

LEMMA OthersKeep ==
    ASSUME OtherStep \/ Migrate \/ UNCHANGED vars
    PROVE  UNCHANGED summaries
  BY DEF OtherStep, Migrate, vars, data, AssignTask, WorkspaceAssign, UnassignTask,
         CancelOrder, GenerateRunSheet, CancelRunSheet, Start, Stop

LEMMA NextSplit ==
    ASSUME [Next]_vars
    PROVE  \/ \E c \in Clients : LegacyRequests(c)
           \/ Migrate
           \/ OtherStep
           \/ UNCHANGED vars
  BY DEF Next, OtherStep

-----------------------------------------------------------------------------
(* The calls. *)

LEMMA RequestCalls ==
    ASSUME CutoverInv, NEW c \in Clients, LegacyRequests(c)
    PROVE  /\ CallInv'
           /\ UNCHANGED <<sheets, collections>>
           /\ \A e \in Clients : \A n \in SummaryIds :
                  /\ summaries[n].status = "SAVED"
                  /\ ~Threat(calls[e], n)
                  => ~Threat(calls'[e], n)
  <1>1. ASSUME NEW call, begin_call(c, call),
               call.op = "cancel" => call.read.status = "GENERATED",
               \A n \in SummaryIds : summaries[n].status = "SAVED" => ~Threat(call, n)
        PROVE  /\ CallInv'
               /\ UNCHANGED <<sheets, collections>>
               /\ \A e \in Clients : \A n \in SummaryIds :
                      /\ summaries[n].status = "SAVED"
                      /\ ~Threat(calls[e], n)
                      => ~Threat(calls'[e], n)
    <2>1. /\ mode = "legacy" /\ mode' = mode
          /\ calls'[c] = call
          /\ \A e \in Clients : e # c => calls'[e] = calls[e]
          /\ UNCHANGED <<sheets, collections>>
      BY <1>1 DEF begin_call, data, CutoverInv, TypeOK
    <2> QED BY <1>1, <2>1 DEF CutoverInv, CallInv
  <1>2. ASSUME NEW of, NEW status, CheckCreate(c, of, status)
        PROVE  \E call : /\ begin_call(c, call)
                         /\ call.op = "cancel" => call.read.status = "GENERATED"
                         /\ \A n \in SummaryIds :
                                summaries[n].status = "SAVED" => ~Threat(call, n)
    <2> DEFINE call == [op |-> "create", id |-> create_final_trip_summary_id(stored),
                        read |-> [status |-> status, of |-> of],
                        generated |-> generated_for_driver(of)]
    <2>1. begin_call(c, call)
      BY <1>2 DEF CheckCreate
    <2>2. call.op = "create" /\ call.generated = generated_for_driver(of)
      OBVIOUS
    <2>3. \A n \in generated_for_driver(of) : summaries[n].status = "GENERATED"
      BY DEF generated_for_driver, with_status
    <2> HIDE DEF call
    <2> QED BY <2>1, <2>2, <2>3 DEF Threat
  <1>3. ASSUME NEW m \in SummaryIds, CheckSave(c, m) \/ CheckCancel(c, m)
        PROVE  \E call : /\ begin_call(c, call)
                         /\ call.op = "cancel" => call.read.status = "GENERATED"
                         /\ \A n \in SummaryIds :
                                summaries[n].status = "SAVED" => ~Threat(call, n)
    <2> DEFINE call(op) == [op |-> op, id |-> m, read |-> summaries[m],
                            generated |-> {}]
    <2>1. /\ summaries[m].status = "GENERATED"
          /\ begin_call(c, call("save")) \/ begin_call(c, call("cancel"))
      BY <1>3 DEF CheckSave, CheckCancel
    <2>2. \A op : /\ call(op).id = m /\ call(op).read = summaries[m]
                  /\ call(op).generated = {}
      OBVIOUS
    <2> HIDE DEF call
    <2> QED BY <2>1, <2>2 DEF Threat
  <1>4. ASSUME end_call(c)
        PROVE  /\ CallInv'
               /\ UNCHANGED <<sheets, collections>>
               /\ \A e \in Clients : \A n \in SummaryIds :
                      /\ summaries[n].status = "SAVED"
                      /\ ~Threat(calls[e], n)
                      => ~Threat(calls'[e], n)
    <2>1. /\ mode' = mode
          /\ calls'[c] = NoCall
          /\ \A e \in Clients : e # c => calls'[e] = calls[e]
          /\ UNCHANGED <<sheets, collections>>
      BY <1>4 DEF end_call, CutoverInv, TypeOK
    <2>2. NoCall.op = "none" /\ NoCall.generated = {}
      BY DEF NoCall
    <2> QED BY <2>1, <2>2 DEF CutoverInv, CallInv, Threat
  <1>5. \/ \E call : /\ begin_call(c, call)
                     /\ call.op = "cancel" => call.read.status = "GENERATED"
                     /\ \A n \in SummaryIds :
                            summaries[n].status = "SAVED" => ~Threat(call, n)
        \/ end_call(c)
    BY <1>2, <1>3 DEF LegacyRequests, WriteGenerated, WriteSaved, FailCreate,
                      WriteSave, WriteCancel, FailCancel
  <1> QED BY <1>1, <1>4, <1>5

\* Every other step keeps the calls, or drops them all.
LEMMA OtherCalls ==
    ASSUME CutoverInv, Migrate \/ OtherStep \/ UNCHANGED vars
    PROVE  /\ CallInv'
           /\ calls' = calls \/ calls' = [c \in Clients |-> NoCall]
  <1>1. CASE Stop
    <2>1. calls' = [c \in Clients |-> NoCall]
      BY <1>1 DEF Stop
    <2>2. \A c \in Clients : calls'[c] = NoCall
      BY <2>1
    <2>3. NoCall.op = "none"
      BY DEF NoCall
    <2> QED BY <2>1, <2>2, <2>3 DEF CallInv
  <1>2. CASE \E m \in {"current", "legacy"} : Start(m)
    <2>1. calls' = calls /\ mode' # "stopped"
      BY <1>2 DEF Start
    <2> QED BY <2>1 DEF CallInv, CutoverInv
  <1>3. CASE ~Stop /\ ~(\E m \in {"current", "legacy"} : Start(m))
    <2>1. calls' = calls /\ mode' = mode
      BY <1>3 DEF OtherStep, Migrate, vars, AssignTask, WorkspaceAssign, UnassignTask,
                  CancelOrder, GenerateRunSheet, CancelRunSheet
    <2> QED BY <2>1 DEF CallInv, CutoverInv
  <1> QED BY <1>1, <1>2, <1>3

-----------------------------------------------------------------------------
(* The copies. *)

\* A copy that is there stays right as long as its summary and the threats to
\* it do not change.
LEMMA CopiesKept ==
    ASSUME CutoverInv,
           \A n \in SummaryIds : summaries[n].status = "SAVED" =>
               \/ summaries'[n] = summaries[n]
               \/ \E c \in Clients : Threat(calls[c], n),
           \A e \in Clients : \A n \in SummaryIds :
               /\ summaries[n].status = "SAVED"
               /\ ~Threat(calls[e], n)
               => ~Threat(calls'[e], n),
           NEW module \in Modules, NEW s \in snapshots(module),
           NEW n \in SummaryIds, s.legacy_summary_id = n
    PROVE  /\ summaries'[n].status = "SAVED"
           /\ s = copy(n, module)'
           /\ \A c \in Clients : ~Threat(calls'[c], n)
  <1>1. /\ summaries[n].status = "SAVED"
        /\ s = copy(n, module)
        /\ \A c \in Clients : ~Threat(calls[c], n)
    BY DEF CutoverInv, CopyInv
  <1>2. summaries'[n] = summaries[n]
    BY <1>1
  <1>3. copy(n, module)' = copy(n, module)
    BY <1>2 DEF copy, insert_delivery_run_sheet, insert_opshop_collection, copied
  <1> QED BY <1>1, <1>2, <1>3

LEMMA NewCopies ==
    ASSUME CutoverInv, Migrate, NEW module \in Modules
    PROVE  snapshots(module)' = snapshots(module) \cup
                                    {copy(n, module) : n \in candidates(module)}
  <1>1. module = "delivery" \/ module = "opshop"
    BY DEF Modules
  <1> QED BY <1>1 DEF Migrate, snapshots, applied

LEMMA CopyMark ==
    ASSUME NEW module, NEW n PROVE copy(n, module).legacy_summary_id = n
  BY DEF copy, insert_delivery_run_sheet, insert_opshop_collection, copied

LEMMA MigrateCopies ==
    ASSUME CutoverInv, Migrate PROVE CopyInv'
  <1>1. UNCHANGED <<summaries, calls>> /\ mode = "stopped"
    BY DEF Migrate
  <1>2. SUFFICES ASSUME NEW module \in Modules, NEW s \in snapshots(module)',
                        NEW n \in SummaryIds, s.legacy_summary_id = n
                 PROVE  /\ summaries'[n].status = "SAVED"
                        /\ s = copy(n, module)'
                        /\ \A c \in Clients : ~Threat(calls'[c], n)
    BY DEF CopyInv
  <1>3. CASE s \in snapshots(module)
    BY <1>1, <1>2, <1>3, CopiesKept
  <1>4. CASE s \notin snapshots(module)
    <2>1. PICK m \in candidates(module) : s = copy(m, module)
      BY <1>2, <1>4, NewCopies
    <2>2. m = n
      BY <1>2, <2>1, CopyMark
    <2>3. summaries[n].status = "SAVED"
      BY <2>1, <2>2 DEF candidates, to_migrate, with_status
    <2>4. \A c \in Clients : calls[c] = NoCall
      BY <1>1 DEF CutoverInv, CallInv
    <2>5. \A c \in Clients : ~Threat(calls[c], n)
      BY <2>4 DEF Threat, NoCall
    <2>6. copy(n, module)' = copy(n, module)
      BY <1>1 DEF copy, insert_delivery_run_sheet, insert_opshop_collection, copied
    <2> QED BY <1>1, <2>1, <2>2, <2>3, <2>5, <2>6
  <1> QED BY <1>3, <1>4

\* The workspaces generate sheets without a mark, which are no copies.
LEMMA OtherSnapshots ==
    ASSUME CutoverInv, OtherStep \/ UNCHANGED vars,
           NEW module \in Modules, NEW s \in snapshots(module)',
           NEW n \in SummaryIds, s.legacy_summary_id = n
    PROVE  s \in snapshots(module)
  <1>1. ASSUME NEW date, NEW d, GenerateRunSheet(date, d)
        PROVE  s \in snapshots(module)
    <2> DEFINE new == [legacy_summary_id |-> None, status |-> "GENERATED",
                       dispatch_date |-> date, driver_id |-> d, rows |-> assigned_to(d)]
    <2>1. sheets' = sheets \cup {new} /\ UNCHANGED collections
      BY <1>1 DEF GenerateRunSheet
    <2>2. new.legacy_summary_id # n
      BY LegacyNullAssumption
    <2> HIDE DEF new
    <2> QED BY <2>1, <2>2 DEF snapshots
  <1>2. ASSUME NEW t, CancelRunSheet(t) PROVE s \in snapshots(module)
    BY <1>2 DEF CancelRunSheet, snapshots
  <1>3. CASE UNCHANGED <<sheets, collections>>
    BY <1>3 DEF snapshots
  <1> QED BY <1>1, <1>2, <1>3 DEF OtherStep, vars, data, AssignTask, WorkspaceAssign,
                                  UnassignTask, CancelOrder, Start, Stop

LEMMA OtherCopies ==
    ASSUME CutoverInv, OtherStep \/ UNCHANGED vars PROVE CopyInv'
  <1>1. UNCHANGED summaries
    BY OthersKeep
  <1>2. calls' = calls \/ calls' = [c \in Clients |-> NoCall]
    BY OtherCalls
  <1>3. \A e \in Clients : \A n \in SummaryIds :
            ~Threat(calls[e], n) => ~Threat(calls'[e], n)
    BY <1>2 DEF Threat, NoCall
  <1>4. SUFFICES ASSUME NEW module \in Modules, NEW s \in snapshots(module)',
                        NEW n \in SummaryIds, s.legacy_summary_id = n
                 PROVE  /\ summaries'[n].status = "SAVED"
                        /\ s = copy(n, module)'
                        /\ \A c \in Clients : ~Threat(calls'[c], n)
    BY DEF CopyInv
  <1>5. s \in snapshots(module)
    BY <1>4, OtherSnapshots
  <1> QED BY <1>1, <1>3, <1>4, <1>5, CopiesKept

LEMMA RequestCopies ==
    ASSUME CutoverInv, NEW c \in Clients, LegacyRequests(c) PROVE CopyInv'
  <1>1. \A n \in SummaryIds : summaries[n].status = "SAVED" =>
            summaries'[n] = summaries[n] \/ Threat(calls[c], n)
    BY RequestKeeps DEF CutoverInv
  <1>2. SUFFICES ASSUME NEW module \in Modules, NEW s \in snapshots(module)',
                        NEW n \in SummaryIds, s.legacy_summary_id = n
                 PROVE  /\ summaries'[n].status = "SAVED"
                        /\ s = copy(n, module)'
                        /\ \A e \in Clients : ~Threat(calls'[e], n)
    BY DEF CopyInv
  <1>3. s \in snapshots(module)
    BY <1>2, RequestCalls DEF snapshots
  <1> QED BY <1>1, <1>2, <1>3, RequestCalls, CopiesKept

-----------------------------------------------------------------------------

LEMMA InitCutover == Init => CutoverInv
  <1> SUFFICES ASSUME Init PROVE CutoverInv
    OBVIOUS
  <1>1. TypeOK
    BY DEF Init, TypeOK
  <1>2. CallInv
    BY DEF Init, CallInv, NoCall
  <1>3. CopyInv
    BY DEF Init, CopyInv, snapshots
  <1> QED BY <1>1, <1>2, <1>3 DEF CutoverInv

LEMMA StepCutover == CutoverInv /\ [Next]_vars => CutoverInv'
  <1> SUFFICES ASSUME CutoverInv, [Next]_vars PROVE CutoverInv'
    OBVIOUS
  <1>1. TypeOK'
    BY StepType DEF CutoverInv
  <1>2. CASE \E c \in Clients : LegacyRequests(c)
    BY <1>1, <1>2, RequestCalls, RequestCopies DEF CutoverInv
  <1>3. CASE Migrate
    BY <1>1, <1>3, OtherCalls, MigrateCopies DEF CutoverInv
  <1>4. CASE OtherStep \/ UNCHANGED vars
    BY <1>1, <1>4, OtherCalls, OtherCopies DEF CutoverInv
  <1> QED BY <1>2, <1>3, <1>4, NextSplit

LEMMA CutoverInvariant == Spec => []CutoverInv
  BY InitCutover, StepCutover, PTL DEF Spec

\* The rows of the legacy tables, of the copies and of the calls in flight have
\* the shape of the schema; a new summary always finds a number.
THEOREM LegacyTypeCorrect == Spec => []TypeOK
  <1>1. CutoverInv => TypeOK
    BY DEF CutoverInv
  <1> QED BY <1>1, CutoverInvariant, PTL

\* While the gate of a workspace is open, every saved summary has been copied
\* with exactly its rows.
THEOREM OpenGateMeansCopied == Spec => []GateMeansCopied
  <1>1. ASSUME CutoverInv, NEW module \in Modules, ensure_ready(module),
               NEW n \in to_migrate(module)
        PROVE  copy(n, module) \in snapshots(module)
    <2>1. n \in SummaryIds /\ n \in with_status("SAVED") /\ rows_of(n, module) # {}
      BY <1>1 DEF to_migrate, with_status
    <2>2. Cardinality(valid_markers(n, module)) = 1
      BY <1>1, <2>1 DEF ensure_ready, unmigrated
    <2>3. valid_markers(n, module) # {}
      BY <2>2, FS_EmptySet
    <2>4. PICK s \in snapshots(module) : s.legacy_summary_id = n
      BY <2>3 DEF valid_markers, marked
    <2>5. s = copy(n, module)
      BY <1>1, <2>1, <2>4 DEF CutoverInv, CopyInv
    <2> QED BY <2>4, <2>5
  <1>2. CutoverInv => GateMeansCopied
    BY <1>1 DEF GateMeansCopied
  <1> QED BY <1>2, CutoverInvariant, PTL

\* A saved summary is erased only by the end of a call that had read a
\* GENERATED summary under its number.
THEOREM SavedSurvives == Spec => OnlyLateCallsErase
  <1>1. ASSUME CutoverInv, [Next]_vars, NEW n \in with_status("SAVED"),
               summaries'[n] # summaries[n]
        PROVE  \E c \in Clients :
                   /\ calls[c] # NoCall /\ calls'[c] = NoCall
                   /\ \/ /\ calls[c].op = "cancel" /\ calls[c].id = n
                         /\ calls[c].read.status = "GENERATED"
                      \/ n \in calls[c].generated
    <2>1. n \in SummaryIds /\ summaries[n].status = "SAVED"
      BY DEF with_status
    <2>2. PICK c \in Clients : LegacyRequests(c)
      BY <1>1, NextSplit, OthersKeep
    <2>3. calls[c] # NoCall /\ calls'[c] = NoCall /\ Threat(calls[c], n)
      BY <1>1, <2>1, <2>2, RequestKeeps DEF CutoverInv
    <2> QED BY <1>1, <2>3 DEF Threat, CutoverInv, CallInv
  <1>2. CutoverInv /\ [Next]_vars =>
            [\A n \in with_status("SAVED") :
                 summaries'[n] # summaries[n] =>
                     \E c \in Clients :
                         /\ calls[c] # NoCall /\ calls'[c] = NoCall
                         /\ \/ /\ calls[c].op = "cancel" /\ calls[c].id = n
                               /\ calls[c].read.status = "GENERATED"
                            \/ n \in calls[c].generated]_vars
    BY <1>1
  <1> QED BY <1>2, CutoverInvariant, PTL DEF Spec, OnlyLateCallsErase
=============================================================================
