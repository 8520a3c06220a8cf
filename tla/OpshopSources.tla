---------------------------- MODULE OpshopSources ----------------------------
(***************************************************************************)
(* The OP SHOP locations, templates and countryside groups, and who writes *)
(* them: the office, the four workbook importers, the tool that merges     *)
(* duplicate locations and the tool that gives templates their drivers.    *)
(*                                                                         *)
(* Every writer identifies a row in its own way.  The office, the On Call, *)
(* Countryside and Sheet1 importers compare an OP SHOP's spelling; the     *)
(* Regular importer and the merge compare what coarse leaves of it.  An id *)
(* is a hash of the writer's key, so a key stands for its id, and a write  *)
(* under the id of another row replaces that row (ON CONFLICT).            *)
(*                                                                         *)
(* All templates are of one run day and all pickups of one date.  The      *)
(* Regular importer and the merge are single transactions.  The other      *)
(* importers commit row by row; the office and the other tools may act     *)
(* between two rows.  A definition marked "Fault" is the one after it with *)
(* a likely mistake.                                                       *)
(***************************************************************************)
EXTENDS Naturals, FiniteSets

CONSTANTS
    Spellings,      \* name, suburb and address of an OP SHOP as typed
    coarse,         \* the spelling without punctuation, "road" as "rd"
    Groups,         \* countryside route groups
    Frequencies,    \* pickup frequency and time window
    Forms,          \* templates the office may enter
    RegularBooks, OncallBooks, RouteBooks, Sheet1Books,  \* workbooks: rows
    MaxChanges,     \* bound on office requests and tool runs
    None            \* SQL NULL, or no row

\* What list a template is on: run type, pickup category and route group.
Lists == {"REGULAR", "ON_CALL"} \cup Groups

Form == [spelling : Spellings, list : Lists, frequency : Frequencies]

\* An active row of a workbook; assigned: it names a driver.
Row == [spelling : Spellings, list : Lists, frequency : Frequencies,
        assigned : BOOLEAN]

ASSUME CoarseAssumption ==
    /\ coarse \in [Spellings -> Spellings]
    /\ \A s \in Spellings : coarse[coarse[s]] = coarse[s]
ASSUME ListAssumption == {"REGULAR", "ON_CALL"} \cap Groups = {}
ASSUME FormAssumption == Forms \subseteq Form /\ MaxChanges \in Nat
ASSUME BookAssumption ==
    /\ \A book \in RegularBooks \cup OncallBooks \cup RouteBooks
                                \cup Sheet1Books : book \subseteq Row
    /\ \A book \in RegularBooks : \A r \in book : r.list = "REGULAR"
    /\ \A book \in OncallBooks : \A r \in book : r.list = "ON_CALL"
    /\ \A book \in RouteBooks : \A r \in book : r.list \in Groups
    /\ \A book \in Sheet1Books : \A r \in book : r.list \notin Groups
    /\ \A book \in RegularBooks : IsFiniteSet(book)

VARIABLES
    locations,      \* opshop_locations: spelling of each location id
    groups,         \* opshop_countryside_route_groups
    schedules,      \* opshop_pickup_schedules: the templates, by id
    tasks,          \* opshop_pickup_tasks of the date, by template
    import,         \* the row by row import that is running
    changes         \* requests and runs so far, for the bound only

vars == <<locations, groups, schedules, tasks, import, changes>>

\* The keys that are hashed to schedule ids.
form_key(l, list, frequency) == <<"form", l, list, frequency>>
route_key(l, g, frequency) == <<"route", l, g, frequency>>
slot_key(l) == <<"slot", l, "REGULAR", None>>

ScheduleIds ==
    ({"form"} \X Spellings \X Lists \X Frequencies)
        \cup ({"route"} \X Spellings \X Groups \X Frequencies)
        \cup ({"slot"} \X Spellings \X {"REGULAR"} \X {None})

Markers == {None, "WORKBOOK_IMPORT", "WORKBOOK_IMPORT_COUNTRYSIDE"}

\* marker is review_reason; alias: default_driver_alias is set.
Schedule == [opshop_id : Spellings, list : Lists, frequency : Frequencies,
             active : BOOLEAN, marker : Markers, alias : BOOLEAN]

Group == [active : BOOLEAN, marker : Markers]

Task == [opshop_id : Spellings, open : BOOLEAN]

NoImport == [tool |-> "none", rows |-> {}, left |-> {}, seen |-> {},
             groups |-> {}, written |-> {}]

Import == [tool : {"oncall", "routes", "sheet1"}, rows : SUBSET Row,
           left : SUBSET Row, seen : SUBSET Spellings,
           groups : SUBSET Groups, written : SUBSET ScheduleIds]

\* NULL is none of the values a column holds.
ASSUME NoneAssumption ==
    None \notin Spellings \cup Group \cup Schedule \cup Task

stored == {i \in ScheduleIds : schedules[i] # None}

TypeOK ==
    /\ locations \in [Spellings -> Spellings \cup {None}]
    /\ groups \in [Groups -> Group \cup {None}]
    /\ schedules \in [ScheduleIds -> Schedule \cup {None}]
    /\ tasks \in [ScheduleIds -> Task \cup {None}]
    /\ import \in Import \cup {NoImport}
    /\ changes \in 0..MaxChanges
    \* idx_opshop_locations_dedupe_key and the foreign keys
    /\ \A l, m \in Spellings : locations[l] = locations[m] =>
           l = m \/ locations[l] = None
    /\ \A i \in stored : locations[schedules[i].opshop_id] # None
    /\ \A i \in ScheduleIds : tasks[i] # None =>
           i \in stored /\ locations[tasks[i].opshop_id] # None

Init ==
    /\ locations = [l \in Spellings |-> None]
    /\ groups = [g \in Groups |-> None]
    /\ schedules = [i \in ScheduleIds |-> None]
    /\ tasks = [i \in ScheduleIds |-> None]
    /\ import = NoImport
    /\ changes = 0

next_change == changes < MaxChanges /\ changes' = changes + 1

run_type(list) == IF list = "REGULAR" THEN "REGULAR" ELSE "ON_CALL"

spelled(s) == {l \in Spellings : locations[l] = s}

shop(l) == coarse[locations[l]]

location_named(s) == {l \in Spellings : locations[l] # None /\ shop(l) = coarse[s]}

upsert_opshop_location(l, s) == locations' = [locations EXCEPT ![l] = s]

upsert_opshop_pickup_schedule(i, schedule) ==
    schedules' = [schedules EXCEPT ![i] = schedule]

put_on_hold(ids) ==
    [i \in ScheduleIds |->
        IF i \in ids THEN [schedules[i] EXCEPT !.active = FALSE]
        ELSE schedules[i]]

------------------------------------------------------------------------------
(* The office: OpShopTemplateService.  Every write is a commit. *)

active_group(list) ==
    list \in Groups => groups[list] # None /\ groups[list].active

\* The location of that spelling, or the id the spelling hashes to.
find_location(s) == IF spelled(s) # {} THEN CHOOSE l \in spelled(s) : TRUE ELSE s

\* A template with the same key, which may be on hold; the first one by id.
find_schedule(l, list, frequency) ==
    LET same == {i \in stored : /\ schedules[i].opshop_id = l
                                /\ schedules[i].list = list
                                /\ schedules[i].frequency = frequency}
    IN  IF same # {} THEN same ELSE {form_key(l, list, frequency)}

office_schedule(l, form) ==
    [opshop_id |-> l, list |-> form.list, frequency |-> form.frequency,
     active |-> TRUE, marker |-> None, alias |-> FALSE]

upsert_active_template(form, i) ==
    LET l == find_location(form.spelling)
    IN  /\ active_group(form.list)
        /\ i \in find_schedule(l, form.list, form.frequency)
        /\ upsert_opshop_location(l, form.spelling)

CreateTemplate(form) ==
    /\ next_change
    /\ \E i \in ScheduleIds :
           /\ upsert_active_template(form, i)
           /\ upsert_opshop_pickup_schedule(
                  i, office_schedule(find_location(form.spelling), form))
    /\ UNCHANGED <<groups, tasks, import>>

\* The default driver is validated after the location was saved.
CreateRefused(form) ==
    /\ next_change
    /\ active_group(form.list)
    /\ upsert_opshop_location(find_location(form.spelling), form.spelling)
    /\ UNCHANGED <<groups, schedules, tasks, import>>

\* With another key the edit is saved as another template, and the edited
\* one goes on hold; its pickups stay with it.
replace_template(old, form) ==
    \E i \in ScheduleIds :
        /\ upsert_active_template(form, i)
        /\ schedules' = [put_on_hold({old}) EXCEPT
               ![i] = office_schedule(find_location(form.spelling), form)]

UpdateTemplate(old, form) ==
    /\ next_change
    /\ old \in stored
    /\ replace_template(old, form)
    /\ UNCHANGED <<groups, tasks, import>>

DisableTemplate(i) ==
    /\ next_change
    /\ i \in stored
    /\ schedules' = put_on_hold({i})
    /\ UNCHANGED <<locations, groups, tasks, import>>

has_active_pickup_tasks(i) == tasks[i] # None /\ tasks[i].open

countryside_schedule(i) == i \in stored /\ schedules[i].list \in Groups

RemoveMembership(i) ==
    /\ next_change
    /\ countryside_schedule(i) /\ ~has_active_pickup_tasks(i)
    /\ schedules' = put_on_hold({i})
    /\ UNCHANGED <<locations, groups, tasks, import>>

MoveMembership(i, g) ==
    /\ next_change
    /\ countryside_schedule(i) /\ schedules[i].list # g
    /\ replace_template(i, [spelling |-> locations[schedules[i].opshop_id],
                            list |-> g, frequency |-> schedules[i].frequency])
    /\ UNCHANGED <<groups, tasks, import>>

upsert_route_group(g, group) == groups' = [groups EXCEPT ![g] = group]

CreateGroup(g) ==
    /\ next_change
    /\ upsert_route_group(g, [active |-> TRUE, marker |->
           IF groups[g] = None THEN None ELSE groups[g].marker])
    /\ UNCHANGED <<locations, schedules, tasks, import>>

UpdateGroup(g, active) ==
    /\ next_change
    /\ groups[g] # None
    /\ upsert_route_group(g, [groups[g] EXCEPT !.active = active])
    /\ UNCHANGED <<locations, schedules, tasks, import>>

DisableGroup(g) ==
    /\ next_change
    /\ groups[g] # None
    /\ \A i \in stored : schedules[i].list = g => ~has_active_pickup_tasks(i)
    /\ upsert_route_group(g, [groups[g] EXCEPT !.active = FALSE])
    /\ UNCHANGED <<locations, schedules, tasks, import>>

------------------------------------------------------------------------------
(* Pickups of the date: one per template. *)

new_task(i) == [opshop_id |-> schedules[i].opshop_id, open |-> TRUE]

\* For each location with Regular templates, a pickup of the first of them,
\* unless one of them has a pickup already.
GenerateRegular(i) ==
    /\ next_change
    /\ i \in stored /\ schedules[i].active /\ schedules[i].list = "REGULAR"
    /\ \A j \in stored :
           /\ schedules[j].active /\ schedules[j].list = "REGULAR"
           /\ schedules[j].opshop_id = schedules[i].opshop_id
           => tasks[j] = None
    /\ tasks' = [tasks EXCEPT ![i] = new_task(i)]
    /\ UNCHANGED <<locations, groups, schedules, import>>

\* A cancelled pickup comes back as it was, at the location it had.
CreatePickup(i) ==
    /\ next_change
    /\ i \in stored /\ schedules[i].active
    /\ ~has_active_pickup_tasks(i)
    /\ tasks' = [tasks EXCEPT ![i] =
           IF tasks[i] = None THEN new_task(i) ELSE [@ EXCEPT !.open = TRUE]]
    /\ UNCHANGED <<locations, groups, schedules, import>>

CancelPickup(i) ==
    /\ next_change
    /\ has_active_pickup_tasks(i)
    /\ tasks' = [tasks EXCEPT ![i].open = FALSE]
    /\ UNCHANGED <<locations, groups, schedules, import>>

------------------------------------------------------------------------------
(* The Regular importer: one transaction, refused when it is in doubt. *)

\* Rows carry the id of the spelling they are normalized to.
regular_location(r) ==
    IF location_named(r.spelling) = {} THEN coarse[r.spelling]
    ELSE CHOOSE l \in location_named(r.spelling) : TRUE

regular_slot(r) ==
    {i \in stored : /\ schedules[i].list = "REGULAR"
                    /\ shop(schedules[i].opshop_id) = coarse[r.spelling]}

active_among(ids) == {i \in ids : schedules[i].active}

regular_schedule(r) ==
    LET slot == regular_slot(r)
    IN  IF slot = {} THEN slot_key(coarse[r.spelling])
        ELSE IF Cardinality(slot) = 1 THEN CHOOSE i \in slot : TRUE
        ELSE CHOOSE i \in active_among(slot) : TRUE

\* Fault: several active templates of a slot pass.
preflight_any_active(book) ==
    /\ \A r, other \in book : coarse[r.spelling] = coarse[other.spelling] =>
           r = other
    /\ \A r \in book :
           /\ Cardinality(location_named(r.spelling)) <= 1
           /\ \/ Cardinality(regular_slot(r)) <= 1
              \/ active_among(regular_slot(r)) # {}
           /\ regular_slot(r) = {} =>
                  slot_key(regular_location(r)) \notin stored

preflight_regular_import(book) ==
    /\ \A r, other \in book : coarse[r.spelling] = coarse[other.spelling] =>
           r = other
    /\ \A r \in book :
           /\ Cardinality(location_named(r.spelling)) <= 1
           /\ \/ Cardinality(regular_slot(r)) <= 1
              \/ Cardinality(active_among(regular_slot(r))) = 1
           /\ regular_slot(r) = {} =>
                  slot_key(regular_location(r)) \notin stored

\* Templates of an earlier workbook, and those with a driver from one.
missing_regular(imported) ==
    {i \in stored \ imported :
        /\ schedules[i].list = "REGULAR" /\ schedules[i].active
        /\ schedules[i].marker = "WORKBOOK_IMPORT" \/ schedules[i].alias}

imported_schedule(l, r, marker) ==
    [opshop_id |-> l, list |-> r.list, frequency |-> r.frequency,
     active |-> TRUE, marker |-> marker, alias |-> r.assigned]

RegularImport(book) ==
    /\ next_change
    /\ preflight_regular_import(book)
    /\ locations' = [l \in Spellings |->
           IF \E r \in book : regular_location(r) = l
           THEN (CHOOSE r \in book : regular_location(r) = l).spelling
           ELSE locations[l]]
    /\ LET imported == {regular_schedule(r) : r \in book}
       IN  schedules' = [i \in ScheduleIds |->
               IF i \in imported
               THEN LET r == CHOOSE r \in book : regular_schedule(r) = i
                    IN  imported_schedule(regular_location(r), r,
                                          "WORKBOOK_IMPORT")
               ELSE put_on_hold(missing_regular(imported))[i]]
    /\ UNCHANGED <<groups, tasks, import>>

------------------------------------------------------------------------------
(* The importers that commit row by row. *)

StartImport(tool, book) ==
    /\ next_change
    /\ import = NoImport
    /\ import' = [NoImport EXCEPT !.tool = tool, !.rows = book, !.left = book]
    /\ UNCHANGED <<locations, groups, schedules, tasks>>

\* The location whose id the spelling hashes to, else the one so spelled.
import_location(s) ==
    IF locations[s] = None /\ spelled(s) # {}
    THEN CHOOSE l \in spelled(s) : TRUE ELSE s

\* Only the first row of a spelling is matched; the others keep their own
\* id, and fail on the foreign key when no location has it.
location_of(r) ==
    IF r.spelling \in import.seen THEN r.spelling ELSE import_location(r.spelling)

import_key(l, r) ==
    IF import.tool = "routes" THEN route_key(l, r.list, r.frequency)
    ELSE form_key(l, r.list, r.frequency)

\* On Call and Sheet1 compare the run type only, not the route group.
same_list(list, r) ==
    IF import.tool = "routes" THEN list = r.list
    ELSE run_type(list) = run_type(r.list)

\* The row under the id of the key, whatever is there now; else a template
\* with the same attributes; else a new one, under the id of the row.
import_schedule(l, r) ==
    LET same == {i \in stored : /\ schedules[i].opshop_id = l
                                /\ same_list(schedules[i].list, r)
                                /\ schedules[i].frequency = r.frequency}
    IN  IF import_key(l, r) \in stored THEN {import_key(l, r)}
        ELSE IF same # {} THEN same
        ELSE IF import.tool = "routes" THEN {import_key(l, r)}
        ELSE {import_key(r.spelling, r)}

written_schedule(l, r) ==
    CASE import.tool = "oncall" -> imported_schedule(l, r, "WORKBOOK_IMPORT")
      [] import.tool = "routes" ->
             imported_schedule(l, r, "WORKBOOK_IMPORT_COUNTRYSIDE")
      [] import.tool = "sheet1" ->
             [imported_schedule(l, r, None) EXCEPT !.alias = FALSE]

\* The group of a row is saved once in an import.
import_group(r) ==
    IF import.tool = "routes" /\ r.list \notin import.groups
    THEN upsert_route_group(r.list, [active |-> TRUE,
                            marker |-> "WORKBOOK_IMPORT_COUNTRYSIDE"])
    ELSE UNCHANGED groups

ImportRow(r) ==
    LET l == location_of(r)
        first == r.spelling \notin import.seen
    IN  /\ r \in import.left
        /\ import_group(r)
        /\ IF first THEN upsert_opshop_location(l, r.spelling)
           ELSE locations[l] # None /\ UNCHANGED locations
        /\ \E i \in import_schedule(l, r) :
               /\ upsert_opshop_pickup_schedule(i, written_schedule(l, r))
               /\ import' = [import EXCEPT
                      !.left = @ \ {r}, !.seen = @ \cup {r.spelling},
                      !.groups = @ \cup ({r.list} \cap Groups),
                      !.written = @ \cup {i}]
        /\ UNCHANGED <<tasks, changes>>

\* A row that fails, or a crash: what was written stays.
StopImport ==
    /\ import # NoImport
    /\ import' = NoImport
    /\ UNCHANGED <<locations, groups, schedules, tasks, changes>>

missing_oncall ==
    {i \in stored \ import.written :
        /\ run_type(schedules[i].list) = "ON_CALL" /\ schedules[i].active
        /\ schedules[i].marker = "WORKBOOK_IMPORT" \/ schedules[i].alias}

\* With no row imported the statement is malformed and the tool fails.
FinishOncall ==
    /\ import.tool = "oncall" /\ import.left = {} /\ import.written # {}
    /\ schedules' = put_on_hold(missing_oncall)
    /\ import' = NoImport
    /\ UNCHANGED <<locations, groups, tasks, changes>>

missing_routes ==
    {i \in stored \ import.written :
        /\ schedules[i].list \in Groups /\ schedules[i].active
        /\ schedules[i].marker = "WORKBOOK_IMPORT_COUNTRYSIDE"}

missing_groups ==
    {g \in Groups \ import.groups :
        groups[g] # None /\ groups[g].marker = "WORKBOOK_IMPORT_COUNTRYSIDE"}

FinishRoutes ==
    /\ import.tool = "routes" /\ import.left = {}
    /\ schedules' = put_on_hold(missing_routes)
    /\ groups' = [g \in Groups |->
           IF g \in missing_groups THEN [groups[g] EXCEPT !.active = FALSE]
           ELSE groups[g]]
    /\ import' = NoImport
    /\ UNCHANGED <<locations, tasks, changes>>

FinishSheet1 ==
    /\ import.tool = "sheet1" /\ import.left = {}
    /\ import' = NoImport
    /\ UNCHANGED <<locations, groups, schedules, tasks, changes>>

------------------------------------------------------------------------------
(* The merge of duplicate locations and the backfill of drivers. *)

\* Run day, run type and pickup category; the route group does not count.
slot(i) == IF schedules[i].list \in Groups THEN "COUNTRYSIDE"
           ELSE schedules[i].list

slots_at(l) == {slot(i) : i \in {j \in stored : schedules[j].opshop_id = l}}

\* Fault: the normalized keys are not compared.
can_merge_any(canonical, duplicate) ==
    /\ canonical # duplicate
    /\ locations[canonical] # None /\ locations[duplicate] # None
    /\ slots_at(canonical) \cap slots_at(duplicate) = {}

can_merge(canonical, duplicate) ==
    /\ canonical # duplicate
    /\ locations[canonical] # None /\ locations[duplicate] # None
    /\ shop(canonical) = shop(duplicate)
    /\ slots_at(canonical) \cap slots_at(duplicate) = {}

\* Fault: the pickups are not moved.
MergeTemplatesOnly(canonical, duplicate) ==
    /\ next_change
    /\ can_merge(canonical, duplicate)
    /\ schedules' = [i \in ScheduleIds |->
           IF i \in stored /\ schedules[i].opshop_id = duplicate
           THEN [schedules[i] EXCEPT !.opshop_id = canonical]
           ELSE schedules[i]]
    /\ locations' = [locations EXCEPT ![duplicate] = None]
    /\ UNCHANGED <<groups, tasks, import>>

MergeLocations(canonical, duplicate) ==
    /\ next_change
    /\ can_merge(canonical, duplicate)
    /\ schedules' = [i \in ScheduleIds |->
           IF i \in stored /\ schedules[i].opshop_id = duplicate
           THEN [schedules[i] EXCEPT !.opshop_id = canonical]
           ELSE schedules[i]]
    /\ tasks' = [i \in ScheduleIds |->
           IF tasks[i] # None /\ tasks[i].opshop_id = duplicate
           THEN [tasks[i] EXCEPT !.opshop_id = canonical]
           ELSE tasks[i]]
    /\ locations' = [locations EXCEPT ![duplicate] = None]
    /\ UNCHANGED <<groups, import>>

\* Active templates outside the routes that a workbook row identifies.
identified(r) ==
    {i \in stored : /\ schedules[i].active /\ schedules[i].list = r.list
                    /\ shop(schedules[i].opshop_id) = coarse[r.spelling]}

\* Templates whose driver is already right are left alone, and a run that
\* is cut short has written the first ones.
BackfillDrivers(book) ==
    /\ next_change
    /\ \A r \in book : r.assigned /\ Cardinality(identified(r)) <= 1
    /\ \A r, other \in book :
           r = other \/ identified(r) \cap identified(other) = {}
    /\ \E ids \in SUBSET UNION {identified(r) : r \in book} :
           schedules' = [i \in ScheduleIds |->
               IF i \in ids THEN [schedules[i] EXCEPT !.alias = TRUE]
               ELSE schedules[i]]
    /\ UNCHANGED <<locations, groups, tasks, import>>

------------------------------------------------------------------------------

Office ==
    \/ \E form \in Forms : CreateTemplate(form) \/ CreateRefused(form)
    \/ \E i \in ScheduleIds, form \in Forms : UpdateTemplate(i, form)
    \/ \E i \in ScheduleIds : DisableTemplate(i) \/ RemoveMembership(i)
    \/ \E i \in ScheduleIds, g \in Groups : MoveMembership(i, g)
    \/ \E g \in Groups : CreateGroup(g) \/ DisableGroup(g)
    \/ \E g \in Groups, active \in BOOLEAN : UpdateGroup(g, active)
    \/ \E i \in ScheduleIds :
           GenerateRegular(i) \/ CreatePickup(i) \/ CancelPickup(i)

ToolRun ==
    \/ \E book \in RegularBooks : RegularImport(book)
    \/ \E book \in OncallBooks : StartImport("oncall", book)
    \/ \E book \in RouteBooks : StartImport("routes", book)
    \/ \E book \in Sheet1Books : StartImport("sheet1", book)
    \/ \E l, m \in Spellings : MergeLocations(l, m)
    \/ \E book \in RegularBooks \cup OncallBooks : BackfillDrivers(book)

ImportStep ==
    \/ \E r \in import.left : ImportRow(r)
    \/ FinishOncall \/ FinishRoutes \/ FinishSheet1 \/ StopImport

Next == Office \/ ToolRun \/ ImportStep

Spec == Init /\ [][Next]_vars

------------------------------------------------------------------------------
(* Properties. *)

\* Two OP SHOPs are never mixed up: whatever respells, merges, edits and
\* imports happened, a location, each template and each pickup is still of
\* the OP SHOP that its id was made for.
ShopsStayApart ==
    /\ \A l \in Spellings : locations[l] # None => shop(l) = coarse[l]
    /\ \A i \in stored : coarse[schedules[i].opshop_id] = coarse[i[2]]
    /\ \A i \in ScheduleIds : tasks[i] # None =>
           coarse[tasks[i].opshop_id] = coarse[i[2]]

\* After a Regular import each OP SHOP of the workbook has exactly one
\* active Regular template, with the row's frequency: templates the office
\* made under other spellings or frequencies do not run beside it.
RegularBookIsTheList ==
    [][\A book \in RegularBooks : RegularImport(book) =>
        \A r \in book :
            {schedules'[i].frequency : i \in {j \in ScheduleIds :
                /\ schedules'[j] # None /\ schedules'[j].active
                /\ schedules'[j].list = "REGULAR"
                /\ coarse[locations'[schedules'[j].opshop_id]] =
                       coarse[r.spelling]}} = {r.frequency}]_vars
==============================================================================
