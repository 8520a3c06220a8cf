------------------------ MODULE OpshopSourcesProofs -------------------------
(***************************************************************************)
(* Proofs about OpshopSources, for any spellings, lists, groups and books. *)
(* The office, the importers and the merge find locations and templates by *)
(* text or by a hash of it and write them under ids of another text; the   *)
(* invariant says that whatever they find or write under an id is of the   *)
(* shop the id was made for.                                               *)
(***************************************************************************)
EXTENDS OpshopSources, FiniteSetTheorems, TLAPS

\* The stored locations.
located == {l \in Spellings : locations[l] # None}

\* No two locations have one spelling, and none was respelled to another shop.
LocationsOK ==
    /\ locations \in [Spellings -> Spellings \cup {None}]
    /\ \A l, m \in located : locations[l] = locations[m] => l = m
    /\ \A l \in located : shop(l) = coarse[l]

\* Of the locations of a shop at most one is spelled unlike its id.
OneRespelled ==
    \A l, m \in located :
        (coarse[l] = coarse[m] /\ locations[l] # l /\ locations[m] # m) => l = m

\* A template is at a location of the shop its id was made for.
SchedulesOK ==
    /\ schedules \in [ScheduleIds -> Schedule \cup {None}]
    /\ \A i \in stored : /\ schedules[i].opshop_id \in located
                         /\ coarse[schedules[i].opshop_id] = coarse[i[2]]

\* So is a pickup, and its template is there.
TasksOK ==
    /\ tasks \in [ScheduleIds -> Task \cup {None}]
    /\ \A i \in ScheduleIds : tasks[i] # None =>
           /\ i \in stored
           /\ tasks[i].opshop_id \in located
           /\ coarse[tasks[i].opshop_id] = coarse[i[2]]

\* The tables are finite, so that what the imports count has a number.
FewRows == IsFiniteSet(located) /\ IsFiniteSet(stored)

\* What an import has yet to write are rows of its book; routes have groups.
ImportOK ==
    /\ import \in Import \cup {NoImport}
    /\ import.tool = "routes" => \A r \in import.left : r.list \in Groups

\* Groups are rows or NULL, and changes are counted.
GroupsOK == groups \in [Groups -> Group \cup {None}] /\ changes \in 0..MaxChanges

\* The inductive invariant.
Inv == /\ LocationsOK /\ OneRespelled /\ SchedulesOK /\ TasksOK
       /\ FewRows /\ ImportOK /\ GroupsOK

-----------------------------------------------------------------------------
(* Keys. *)

\* An id of a template names a spelling.
LEMMA IdOfRow ==
    ASSUME NEW i \in ScheduleIds
    PROVE  i[2] \in Spellings
    BY DEF ScheduleIds

\* The ids that the tools and the form compute name the spelling they hash.
LEMMA KeyTypes ==
    ASSUME NEW l \in Spellings, NEW frequency \in Frequencies
    PROVE  /\ \A list \in Lists :
                 /\ form_key(l, list, frequency) \in ScheduleIds
                 /\ form_key(l, list, frequency)[2] = l
           /\ \A g \in Groups :
                 /\ route_key(l, g, frequency) \in ScheduleIds
                 /\ route_key(l, g, frequency)[2] = l
           /\ slot_key(l) \in ScheduleIds /\ slot_key(l)[2] = l
    BY DEF ScheduleIds, form_key, route_key, slot_key

\* The normalized key of a spelling is a spelling, its own key.
LEMMA CoarseTypes ==
    ASSUME NEW s \in Spellings
    PROVE  coarse[s] \in Spellings /\ coarse[coarse[s]] = coarse[s]
    BY CoarseAssumption

-----------------------------------------------------------------------------
(* Locations. *)

\* Where a location of the spelling s may be saved: it is there, or its own id
\* is free for it.
Home(l, s) ==
    \/ locations[l] = s
    \/ l = s /\ (locations[s] # None \/ spelled(s) = {})

\* Lookups find a location where the spelling may be saved.
LEMMA FoundAtHome ==
    ASSUME Inv, NEW s \in Spellings
    PROVE  /\ find_location(s) \in Spellings /\ Home(find_location(s), s)
           /\ import_location(s) \in Spellings /\ Home(import_location(s), s)
<1>1. spelled(s) # {} =>
          /\ (CHOOSE l \in spelled(s) : TRUE) \in Spellings
          /\ locations[CHOOSE l \in spelled(s) : TRUE] = s
    BY DEF spelled
<1>2. find_location(s) \in Spellings /\ Home(find_location(s), s)
    BY <1>1 DEF find_location, Home
<1>3. import_location(s) \in Spellings /\ Home(import_location(s), s)
    BY <1>1 DEF import_location, Home
<1> QED BY <1>2, <1>3

\* A home is of the same shop.
LEMMA HomeIsCoarse ==
    ASSUME Inv, NEW s \in Spellings, NEW l \in Spellings, Home(l, s)
    PROVE  coarse[l] = coarse[s]
<1>1. CASE l = s
    BY <1>1
<1>2. CASE locations[l] = s
    <2>1. l \in located
        BY <1>2, NoneAssumption DEF located
    <2> QED BY <1>2, <2>1 DEF Inv, LocationsOK, shop
<1> QED BY <1>1, <1>2 DEF Home

\* A location saved under its spelling or its id keeps the table in order.
LEMMA LocationSaved ==
    ASSUME Inv, NEW s \in Spellings, NEW l \in Spellings, Home(l, s),
           upsert_opshop_location(l, s)
    PROVE  /\ LocationsOK' /\ OneRespelled'
           /\ located' = located \cup {l}
           /\ locations'[l] = s
<1>1. /\ locations \in [Spellings -> Spellings \cup {None}]
      /\ locations' = [locations EXCEPT ![l] = s]
      /\ s # None
    BY NoneAssumption DEF Inv, LocationsOK, upsert_opshop_location
<1>2. /\ locations' \in [Spellings -> Spellings \cup {None}]
      /\ locations'[l] = s
      /\ \A m \in Spellings \ {l} : locations'[m] = locations[m]
    BY <1>1
<1>3. located' = located \cup {l} /\ located \subseteq Spellings
    BY <1>1, <1>2 DEF located
<1>4. coarse[l] = coarse[s]
    BY HomeIsCoarse
<1>5. \A m \in located' : shop(m)' = coarse[m]
    BY <1>2, <1>3, <1>4 DEF Inv, LocationsOK, shop
<1>6. ASSUME NEW m \in located, m # l, locations[m] = s
      PROVE  FALSE
    <2>1. CASE locations[l] = s
        <3>1. l \in located
            BY <1>1, <2>1 DEF located
        <3> QED BY <1>6, <2>1, <3>1 DEF Inv, LocationsOK
    <2>2. CASE l = s /\ spelled(s) = {}
        BY <1>6, <2>2 DEF spelled, located
    <2>3. CASE l = s /\ locations[s] # None /\ locations[l] # s
        <3>1. l \in located /\ locations[l] # l /\ locations[m] # m
            BY <1>6, <2>3 DEF located
        <3>2. coarse[m] = coarse[l]
            BY <1>4, <1>6 DEF Inv, LocationsOK, shop
        <3> QED BY <1>6, <3>1, <3>2 DEF Inv, OneRespelled
    <2> QED BY <2>1, <2>2, <2>3 DEF Home
<1>7. \A m, n \in located' : locations'[m] = locations'[n] => m = n
    BY <1>2, <1>3, <1>6 DEF Inv, LocationsOK
<1>8. OneRespelled'
    <2>1. ASSUME NEW m \in located', locations'[m] # m
          PROVE  m \in located /\ locations[m] # m
        <3>1. CASE m = l
            <4>1. s # l
                BY <1>2, <2>1, <3>1
            <4>2. locations[l] = s
                BY <4>1 DEF Home
            <4> QED BY <1>1, <3>1, <4>1, <4>2 DEF located
        <3>2. CASE m # l
            BY <1>2, <1>3, <2>1, <3>2 DEF located
        <3> QED BY <3>1, <3>2
    <2> SUFFICES ASSUME NEW m \in located', NEW n \in located',
                        coarse[m] = coarse[n], locations'[m] # m, locations'[n] # n
                 PROVE  m = n
        BY DEF OneRespelled
    <2> QED BY <2>1 DEF Inv, OneRespelled
<1> QED BY <1>2, <1>3, <1>5, <1>7, <1>8 DEF LocationsOK

-----------------------------------------------------------------------------
(* Templates. *)

\* A template, or none, that differs at most in its flags and its list.
Alike(new, old) ==
    IF old = None THEN new = None
    ELSE new \in Schedule /\ new.opshop_id = old.opshop_id

\* Putting templates on hold changes neither their location nor their ids.
LEMMA HoldAlike ==
    ASSUME SchedulesOK, NEW ids, ids \subseteq stored
    PROVE  /\ put_on_hold(ids) \in [ScheduleIds -> Schedule \cup {None}]
           /\ \A i \in ScheduleIds : Alike(put_on_hold(ids)[i], schedules[i])
<1>1. \A i \in ScheduleIds :
          /\ put_on_hold(ids)[i] = IF i \in ids
                THEN [schedules[i] EXCEPT !.active = FALSE] ELSE schedules[i]
          /\ schedules[i] \in Schedule \cup {None}
          /\ i \in ids => schedules[i] # None
    BY DEF put_on_hold, SchedulesOK, stored
<1>2. ASSUME NEW i \in ScheduleIds
      PROVE  /\ put_on_hold(ids)[i] \in Schedule \cup {None}
             /\ Alike(put_on_hold(ids)[i], schedules[i])
    <2>1. CASE i \in ids
        <3>1. schedules[i] \in Schedule
            BY <1>1, <2>1
        <3> QED BY <1>1, <2>1, <3>1 DEF Alike, Schedule
    <2>2. CASE i \notin ids
        BY <1>1, <2>2 DEF Alike
    <2> QED BY <2>1, <2>2
<1>3. DOMAIN put_on_hold(ids) = ScheduleIds
      /\ put_on_hold(ids) = [i \in ScheduleIds |-> put_on_hold(ids)[i]]
    BY DEF put_on_hold
<1> QED BY <1>2, <1>3

\* Templates that are written at a location of their OP SHOP, beside others
\* that stay alike, leave both tables in order.
LEMMA SchedulesWritten ==
    ASSUME Inv, NEW ids \in SUBSET ScheduleIds,
           schedules' \in [ScheduleIds -> Schedule \cup {None}],
           located \subseteq located',
           \A i \in ids : /\ schedules'[i] \in Schedule
                          /\ schedules'[i].opshop_id \in located'
                          /\ coarse[schedules'[i].opshop_id] = coarse[i[2]],
           \A i \in ScheduleIds \ ids : Alike(schedules'[i], schedules[i]),
           tasks' = tasks
    PROVE  SchedulesOK' /\ TasksOK' /\ stored' = stored \cup ids
<1>1. stored' = stored \cup ids
    BY NoneAssumption DEF stored, Alike
<1>2. \A i \in stored' : /\ schedules'[i].opshop_id \in located'
                         /\ coarse[schedules'[i].opshop_id] = coarse[i[2]]
    BY <1>1 DEF Inv, SchedulesOK, Alike, stored
<1>3. TasksOK'
    BY <1>1 DEF Inv, TasksOK
<1> QED BY <1>1, <1>2, <1>3 DEF SchedulesOK

\* A finite table with one more row is finite.
LEMMA OneMoreRow ==
    ASSUME NEW S, NEW x, IsFiniteSet(S)
    PROVE  IsFiniteSet(S \cup {x})
    BY FS_AddElement

\* One location is saved and one template written at it.
LEMMA TemplateSaved ==
    ASSUME Inv, NEW l \in Spellings, NEW s \in Spellings, Home(l, s),
           upsert_opshop_location(l, s),
           NEW i \in ScheduleIds, coarse[i[2]] = coarse[l],
           schedules' \in [ScheduleIds -> Schedule \cup {None}],
           schedules'[i] \in Schedule, schedules'[i].opshop_id = l,
           \A j \in ScheduleIds \ {i} : Alike(schedules'[j], schedules[j]),
           tasks' = tasks
    PROVE  /\ LocationsOK' /\ OneRespelled' /\ SchedulesOK' /\ TasksOK' /\ FewRows'
           /\ stored' = stored \cup {i}
<1>1. LocationsOK' /\ OneRespelled' /\ located' = located \cup {l}
    BY LocationSaved
<1>2. SchedulesOK' /\ TasksOK' /\ stored' = stored \cup {i}
    <2>1. {i} \in SUBSET ScheduleIds
        OBVIOUS
    <2>2. located \subseteq located' /\ l \in located'
        BY <1>1
    <2>3. \A j \in {i} : /\ schedules'[j] \in Schedule
                         /\ schedules'[j].opshop_id \in located'
                         /\ coarse[schedules'[j].opshop_id] = coarse[j[2]]
        BY <2>2
    <2> HIDE DEF Inv, SchedulesOK, TasksOK, stored, located
    <2> QED BY <2>1, <2>2, <2>3, SchedulesWritten
<1>3. FewRows'
    BY <1>1, <1>2, OneMoreRow DEF Inv, FewRows
<1> QED BY <1>1, <1>2, <1>3

\* Locations stay, and templates change at most their flags.
LEMMA TemplatesKept ==
    ASSUME Inv, locations' = locations,
           schedules' \in [ScheduleIds -> Schedule \cup {None}],
           \A j \in ScheduleIds : Alike(schedules'[j], schedules[j]),
           tasks' = tasks
    PROVE  /\ LocationsOK' /\ OneRespelled' /\ SchedulesOK' /\ TasksOK' /\ FewRows'
           /\ stored' = stored
<1>1. located' = located
    BY DEF located
<1>2. LocationsOK' /\ OneRespelled'
    BY <1>1 DEF Inv, LocationsOK, OneRespelled, shop
<1>3. SchedulesOK' /\ TasksOK' /\ stored' = stored \cup {}
    <2>1. {} \in SUBSET ScheduleIds /\ located \subseteq located'
        BY <1>1
    <2> HIDE DEF Inv, SchedulesOK, TasksOK, stored, located
    <2> QED BY <2>1, SchedulesWritten
<1> QED BY <1>1, <1>2, <1>3 DEF Inv, FewRows

\* A template that is left alone is alike.
LEMMA AlikeIsReflexive ==
    ASSUME SchedulesOK
    PROVE  \A j \in ScheduleIds : Alike(schedules[j], schedules[j])
    BY DEF SchedulesOK, Alike

\* Nothing of the tables of locations and templates changes.
LEMMA RowsKept ==
    ASSUME Inv, locations' = locations, schedules' = schedules
    PROVE  /\ LocationsOK' /\ OneRespelled' /\ SchedulesOK' /\ FewRows'
           /\ stored' = stored /\ located' = located
    BY DEF Inv, LocationsOK, OneRespelled, SchedulesOK, FewRows, stored,
           located, shop

-----------------------------------------------------------------------------
(* The office. *)

\* What the form writes is a template at its location.
LEMMA OfficeRow ==
    ASSUME NEW form \in Form, NEW l \in Spellings
    PROVE  /\ office_schedule(l, form) \in Schedule
           /\ office_schedule(l, form).opshop_id = l
    BY DEF office_schedule, Form, Schedule, Markers

\* The template that the form finds is of the shop of the location.
LEMMA FoundSchedule ==
    ASSUME Inv, NEW form \in Form, NEW l \in Spellings,
           NEW i \in find_schedule(l, form.list, form.frequency)
    PROVE  i \in ScheduleIds /\ coarse[i[2]] = coarse[l]
<1> DEFINE same == {j \in stored : /\ schedules[j].opshop_id = l
                                   /\ schedules[j].list = form.list
                                   /\ schedules[j].frequency = form.frequency}
<1>1. CASE i \in same
    BY <1>1 DEF Inv, SchedulesOK, stored
<1>2. CASE i = form_key(l, form.list, form.frequency)
    <2>1. form.list \in Lists /\ form.frequency \in Frequencies
        BY DEF Form
    <2> QED BY <1>2, <2>1, KeyTypes
<1> QED BY <1>1, <1>2 DEF find_schedule

\* The part of an action that saves one template.
LEMMA OfficeSaves ==
    ASSUME Inv, NEW form \in Form, NEW i \in ScheduleIds, NEW ids,
           ids \subseteq stored,
           upsert_active_template(form, i),
           schedules' = [put_on_hold(ids) EXCEPT
               ![i] = office_schedule(find_location(form.spelling), form)],
           tasks' = tasks
    PROVE  /\ LocationsOK' /\ OneRespelled' /\ SchedulesOK' /\ TasksOK' /\ FewRows'
<1> DEFINE l == find_location(form.spelling)
           sch == office_schedule(l, form)
<1>1. form.spelling \in Spellings /\ l \in Spellings /\ Home(l, form.spelling)
    BY FoundAtHome DEF Form
<1>2. /\ upsert_opshop_location(l, form.spelling)
      /\ i \in find_schedule(l, form.list, form.frequency)
    BY DEF upsert_active_template
<1>3. sch \in Schedule /\ sch.opshop_id = l
    BY <1>1, OfficeRow
<1>4. coarse[i[2]] = coarse[l]
    BY <1>1, <1>2, FoundSchedule
<1>5. /\ put_on_hold(ids) \in [ScheduleIds -> Schedule \cup {None}]
      /\ \A j \in ScheduleIds : Alike(put_on_hold(ids)[j], schedules[j])
    BY HoldAlike DEF Inv
<1> HIDE DEF l, sch
<1>6. schedules' = [put_on_hold(ids) EXCEPT ![i] = sch]
    BY DEF l, sch
<1> DEFINE base == put_on_hold(ids)
<1> HIDE DEF base
<1>7. /\ schedules' \in [ScheduleIds -> Schedule \cup {None}]
      /\ schedules'[i] = sch
      /\ \A j \in ScheduleIds \ {i} : schedules'[j] = base[j]
    BY <1>3, <1>5, <1>6 DEF base
<1>8. \A j \in ScheduleIds \ {i} : Alike(schedules'[j], schedules[j])
    BY <1>5, <1>7 DEF base
<1> QED BY <1>1, <1>2, <1>3, <1>4, <1>7, <1>8, TemplateSaved

\* A membership that moves is a form of the office.
LEMMA MembershipForm ==
    ASSUME Inv, NEW i \in stored, NEW g \in Groups
    PROVE  [spelling |-> locations[schedules[i].opshop_id],
            list |-> g, frequency |-> schedules[i].frequency] \in Form
<1>1. /\ schedules[i] \in Schedule
      /\ schedules[i].opshop_id \in located
    BY DEF Inv, SchedulesOK, stored
<1>2. locations[schedules[i].opshop_id] \in Spellings
    BY <1>1 DEF Inv, LocationsOK, located
<1> QED BY <1>1, <1>2 DEF Form, Lists, Schedule

\* Saving a group keeps the table of groups.
LEMMA GroupSaved ==
    ASSUME Inv, NEW g \in Groups, NEW group \in Group,
           upsert_route_group(g, group), changes' \in 0..MaxChanges
    PROVE  GroupsOK'
    BY DEF Inv, GroupsOK, upsert_route_group

\* The office keeps the invariant.
LEMMA OfficeInv ==
    ASSUME Inv, Office
    PROVE  Inv'
<1>1. ASSUME next_change PROVE changes' \in 0..MaxChanges
    BY <1>1, FormAssumption DEF next_change, Inv, GroupsOK
<1>2. ASSUME import' = import PROVE ImportOK'
    BY <1>2 DEF Inv, ImportOK
<1>3. ASSUME groups' = groups, changes' \in 0..MaxChanges PROVE GroupsOK'
    BY <1>3 DEF Inv, GroupsOK
<1>4. ASSUME NEW form \in Forms, CreateTemplate(form)
      PROVE  Inv'
    <2>1. PICK i \in ScheduleIds :
              /\ upsert_active_template(form, i)
              /\ upsert_opshop_pickup_schedule(
                     i, office_schedule(find_location(form.spelling), form))
        BY <1>4 DEF CreateTemplate
    <2>2. form \in Form /\ {} \subseteq stored
        BY FormAssumption
    <2>3. put_on_hold({}) = schedules
        BY DEF put_on_hold, Inv, SchedulesOK
    <2>4. schedules' = [put_on_hold({}) EXCEPT
               ![i] = office_schedule(find_location(form.spelling), form)]
        BY <2>1, <2>3 DEF upsert_opshop_pickup_schedule
    <2>5. next_change /\ UNCHANGED <<groups, tasks, import>>
        BY <1>4 DEF CreateTemplate
    <2>6. LocationsOK' /\ OneRespelled' /\ SchedulesOK' /\ TasksOK' /\ FewRows'
        BY <2>1, <2>2, <2>4, <2>5, OfficeSaves
    <2> QED BY <1>1, <1>2, <1>3, <2>5, <2>6 DEF Inv
<1>5. ASSUME NEW form \in Forms, CreateRefused(form)
      PROVE  Inv'
    <2> DEFINE l == find_location(form.spelling)
    <2>1. form.spelling \in Spellings /\ l \in Spellings /\ Home(l, form.spelling)
        BY FoundAtHome, FormAssumption DEF Form
    <2>2. next_change /\ upsert_opshop_location(l, form.spelling)
          /\ UNCHANGED <<groups, schedules, tasks, import>>
        BY <1>5 DEF CreateRefused
    <2> HIDE DEF l
    <2>3. LocationsOK' /\ OneRespelled' /\ located' = located \cup {l}
        BY <2>1, <2>2, LocationSaved
    <2>4. SchedulesOK' /\ TasksOK' /\ stored' = stored
        BY <2>2, <2>3 DEF Inv, SchedulesOK, TasksOK, stored
    <2>5. FewRows'
        BY <2>3, <2>4, OneMoreRow DEF Inv, FewRows
    <2> QED BY <1>1, <1>2, <1>3, <2>2, <2>3, <2>4, <2>5 DEF Inv
<1>6. ASSUME NEW old \in stored, NEW form \in Form, next_change,
             replace_template(old, form), UNCHANGED <<groups, tasks, import>>
      PROVE  Inv'
    <2>1. PICK i \in ScheduleIds :
              /\ upsert_active_template(form, i)
              /\ schedules' = [put_on_hold({old}) EXCEPT
                     ![i] = office_schedule(find_location(form.spelling), form)]
        BY <1>6 DEF replace_template
    <2>2. LocationsOK' /\ OneRespelled' /\ SchedulesOK' /\ TasksOK' /\ FewRows'
        BY <1>6, <2>1, OfficeSaves
    <2> QED BY <1>1, <1>2, <1>3, <1>6, <2>2 DEF Inv
<1>7. ASSUME NEW i \in ScheduleIds, NEW form \in Forms, UpdateTemplate(i, form)
      PROVE  Inv'
    BY <1>6, <1>7, FormAssumption DEF UpdateTemplate
<1>8. ASSUME NEW i \in ScheduleIds, NEW g \in Groups, MoveMembership(i, g)
      PROVE  Inv'
    <2>1. i \in stored
        BY <1>8 DEF MoveMembership, countryside_schedule
    <2> QED BY <1>6, <1>8, <2>1, MembershipForm DEF MoveMembership
<1>9. ASSUME NEW i \in stored, next_change, schedules' = put_on_hold({i}),
             UNCHANGED <<locations, groups, tasks, import>>
      PROVE  Inv'
    <2>1. {i} \subseteq stored
        OBVIOUS
    <2>2. /\ schedules' \in [ScheduleIds -> Schedule \cup {None}]
          /\ \A j \in ScheduleIds : Alike(schedules'[j], schedules[j])
        BY <1>9, <2>1, HoldAlike DEF Inv
    <2>3. LocationsOK' /\ OneRespelled' /\ SchedulesOK' /\ TasksOK' /\ FewRows'
        BY <1>9, <2>2, TemplatesKept
    <2> QED BY <1>1, <1>2, <1>3, <1>9, <2>3 DEF Inv
<1>10. ASSUME NEW i \in ScheduleIds, DisableTemplate(i) \/ RemoveMembership(i)
       PROVE  Inv'
    BY <1>9, <1>10 DEF DisableTemplate, RemoveMembership, countryside_schedule
<1>11. ASSUME NEW g \in Groups, NEW group \in Group, next_change,
              upsert_route_group(g, group),
              UNCHANGED <<locations, schedules, tasks, import>>
       PROVE  Inv'
    <2>1. TasksOK'
        BY <1>11, RowsKept DEF Inv, TasksOK
    <2> QED BY <1>1, <1>2, <1>11, <2>1, RowsKept, GroupSaved DEF Inv
<1>12. ASSUME NEW g \in Groups,
              CreateGroup(g) \/ DisableGroup(g)
                  \/ \E active \in BOOLEAN : UpdateGroup(g, active)
       PROVE  Inv'
    <2>1. groups[g] \in Group \cup {None}
        BY DEF Inv, GroupsOK
    <2>2. CASE CreateGroup(g)
        <3>1. [active |-> TRUE, marker |->
                  IF groups[g] = None THEN None ELSE groups[g].marker] \in Group
            BY <2>1 DEF Group, Markers
        <3> QED BY <1>11, <2>2, <3>1 DEF CreateGroup
    <2>3. CASE DisableGroup(g)
        <3>1. [groups[g] EXCEPT !.active = FALSE] \in Group
            BY <2>1, <2>3 DEF DisableGroup, Group
        <3> QED BY <1>11, <2>3, <3>1 DEF DisableGroup
    <2>4. CASE \E active \in BOOLEAN : UpdateGroup(g, active)
        <3>1. PICK active \in BOOLEAN : UpdateGroup(g, active)
            BY <2>4
        <3>2. [groups[g] EXCEPT !.active = active] \in Group
            BY <2>1, <3>1 DEF UpdateGroup, Group
        <3> QED BY <1>11, <3>1, <3>2 DEF UpdateGroup
    <2> QED BY <1>12, <2>2, <2>3, <2>4
<1>13. ASSUME NEW i \in ScheduleIds,
              GenerateRegular(i) \/ CreatePickup(i) \/ CancelPickup(i)
       PROVE  Inv'
    <2>1. next_change /\ UNCHANGED <<locations, groups, schedules, import>>
        BY <1>13 DEF GenerateRegular, CreatePickup, CancelPickup
    <2>2. PICK task \in Task :
              /\ tasks' = [tasks EXCEPT ![i] = task]
              /\ i \in stored
              /\ task.opshop_id \in located
              /\ coarse[task.opshop_id] = coarse[i[2]]
        <3>1. i \in stored => /\ new_task(i) \in Task
                              /\ new_task(i).opshop_id \in located
                              /\ coarse[new_task(i).opshop_id] = coarse[i[2]]
            <4> SUFFICES ASSUME i \in stored
                         PROVE  /\ new_task(i) \in Task
                                /\ new_task(i).opshop_id \in located
                                /\ coarse[new_task(i).opshop_id] = coarse[i[2]]
                OBVIOUS
            <4>1. schedules[i] \in Schedule
                BY DEF Inv, SchedulesOK, stored
            <4> QED BY <4>1 DEF new_task, Inv, SchedulesOK, Schedule, Task
        <3>2. tasks[i] # None =>
                  /\ tasks[i] \in Task /\ i \in stored
                  /\ \A open \in BOOLEAN :
                       /\ [tasks[i] EXCEPT !.open = open] \in Task
                       /\ [tasks[i] EXCEPT !.open = open].opshop_id = tasks[i].opshop_id
                  /\ tasks[i].opshop_id \in located
                  /\ coarse[tasks[i].opshop_id] = coarse[i[2]]
            BY DEF Inv, TasksOK, Task
        <3>3. CASE GenerateRegular(i)
            BY <3>1, <3>3 DEF GenerateRegular
        <3>4. CASE CreatePickup(i) /\ tasks[i] = None
            <4>1. tasks' = [tasks EXCEPT ![i] = new_task(i)] /\ i \in stored
                BY <3>4 DEF CreatePickup
            <4> QED BY <3>1, <4>1
        <3>5. CASE CreatePickup(i) /\ tasks[i] # None
            <4>1. tasks' = [tasks EXCEPT ![i] = [tasks[i] EXCEPT !.open = TRUE]]
                BY <3>5 DEF CreatePickup
            <4> QED BY <3>2, <3>5, <4>1
        <3>6. CASE CancelPickup(i)
            <4>1. /\ tasks' = [tasks EXCEPT ![i] = [tasks[i] EXCEPT !.open = FALSE]]
                  /\ tasks[i] # None
                BY <3>6 DEF CancelPickup, has_active_pickup_tasks
            <4> QED BY <3>2, <4>1
        <3> QED BY <1>13, <3>3, <3>4, <3>5, <3>6
    <2>3. TasksOK'
        BY <2>1, <2>2, RowsKept DEF Inv, TasksOK
    <2> QED BY <1>1, <1>2, <1>3, <2>1, <2>3, RowsKept DEF Inv
<1> QED BY <1>4, <1>5, <1>7, <1>8, <1>10, <1>12, <1>13 DEF Office

-----------------------------------------------------------------------------
(* The importers that commit row by row. *)

\* So does opening a book.
LEMMA StartImportInv ==
    ASSUME Inv, NEW tool \in {"oncall", "routes", "sheet1"}, NEW book,
           book \subseteq Row,
           tool = "routes" => \A r \in book : r.list \in Groups,
           StartImport(tool, book)
    PROVE  Inv'
<1>1. /\ changes' \in 0..MaxChanges
      /\ UNCHANGED <<locations, groups, schedules, tasks>>
      /\ import' = [NoImport EXCEPT !.tool = tool, !.rows = book, !.left = book]
    BY FormAssumption DEF StartImport, next_change, Inv, GroupsOK
<1>2. ImportOK'
    BY <1>1 DEF ImportOK, NoImport, Import
<1>3. TasksOK' /\ GroupsOK'
    BY <1>1, RowsKept DEF Inv, TasksOK, GroupsOK
<1> QED BY <1>1, <1>2, <1>3, RowsKept DEF Inv

\* The location a row is written at is there, and of the row's OP SHOP.
LEMMA RowLocation ==
    ASSUME Inv, import \in Import, NEW r \in import.left, ImportRow(r)
    PROVE  LET l == location_of(r) IN
           /\ r \in Row /\ l \in Spellings /\ coarse[l] = coarse[r.spelling]
           /\ \E s \in Spellings : Home(l, s) /\ upsert_opshop_location(l, s)
<1> DEFINE l == location_of(r)
<1>1. r \in Row /\ r.spelling \in Spellings
    BY DEF Import, Row
<1>2. CASE r.spelling \notin import.seen
    <2>1. l = import_location(r.spelling)
        BY <1>2 DEF location_of
    <2>2. l \in Spellings /\ Home(l, r.spelling)
        BY <1>1, <2>1, FoundAtHome
    <2>3. upsert_opshop_location(l, r.spelling)
        BY <1>2 DEF ImportRow
    <2> QED BY <1>1, <2>2, <2>3, HomeIsCoarse
<1>3. CASE r.spelling \in import.seen
    <2>1. l = r.spelling
        BY <1>3 DEF location_of
    <2>2. locations[l] # None /\ locations' = locations
        BY <1>3 DEF ImportRow
    <2> DEFINE s == locations[l]
    <2>3. s \in Spellings /\ Home(l, s) /\ upsert_opshop_location(l, s)
        BY <1>1, <2>1, <2>2
           DEF Inv, LocationsOK, Home, upsert_opshop_location
    <2> QED BY <1>1, <2>1, <2>3
<1> QED BY <1>2, <1>3

\* So does every row that an import commits, also between the edits of the
\* office.
LEMMA ImportRowInv ==
    ASSUME Inv, import \in Import, NEW r \in import.left, ImportRow(r)
    PROVE  Inv'
<1> DEFINE l == location_of(r)
<1>1. /\ r \in Row /\ l \in Spellings /\ coarse[l] = coarse[r.spelling]
      /\ r.spelling \in Spellings /\ r.list \in Lists
      /\ r.frequency \in Frequencies /\ r.assigned \in BOOLEAN
    BY RowLocation DEF Row
<1>2. PICK s \in Spellings : Home(l, s) /\ upsert_opshop_location(l, s)
    BY RowLocation
<1>3. PICK i \in import_schedule(l, r) :
          /\ upsert_opshop_pickup_schedule(i, written_schedule(l, r))
          /\ import' = [import EXCEPT
                 !.left = @ \ {r}, !.seen = @ \cup {r.spelling},
                 !.groups = @ \cup ({r.list} \cap Groups),
                 !.written = @ \cup {i}]
    BY DEF ImportRow
<1>4. import_group(r) /\ tasks' = tasks /\ changes' = changes
    BY DEF ImportRow
<1>5. import.tool = "routes" => r.list \in Groups
    BY DEF Inv, ImportOK
<1>6. import.tool \in {"oncall", "routes", "sheet1"}
    BY DEF Import
<1> HIDE DEF l
<1>7. i \in ScheduleIds /\ coarse[i[2]] = coarse[l]
    <2> DEFINE same == {j \in stored : /\ schedules[j].opshop_id = l
                                       /\ same_list(schedules[j].list, r)
                                       /\ schedules[j].frequency = r.frequency}
    <2>1. \A m \in {l, r.spelling} :
             /\ import_key(m, r) \in ScheduleIds
             /\ import_key(m, r)[2] = m
        BY <1>1, <1>5, KeyTypes DEF import_key
    <2>2. i \in same \/ i = import_key(l, r) \/ i = import_key(r.spelling, r)
        BY DEF import_schedule
    <2>3. CASE i \in same
        BY <2>3 DEF Inv, SchedulesOK, stored
    <2> QED BY <1>1, <2>1, <2>2, <2>3
<1>8. written_schedule(l, r) \in Schedule /\ written_schedule(l, r).opshop_id = l
    BY <1>1, <1>6 DEF written_schedule, imported_schedule, Schedule, Markers
<1> DEFINE sch == written_schedule(l, r)
<1> HIDE DEF sch
<1>9. schedules' = [schedules EXCEPT ![i] = sch] /\ sch \in Schedule
      /\ sch.opshop_id = l
    BY <1>3, <1>8 DEF upsert_opshop_pickup_schedule, sch
<1>10. /\ schedules' \in [ScheduleIds -> Schedule \cup {None}]
       /\ schedules'[i] = sch
       /\ \A j \in ScheduleIds \ {i} : Alike(schedules'[j], schedules[j])
    <2>1. schedules \in [ScheduleIds -> Schedule \cup {None}]
        BY DEF Inv, SchedulesOK
    <2>2. \A j \in ScheduleIds \ {i} : schedules'[j] = schedules[j]
        BY <1>9, <2>1
    <2> QED BY <1>7, <1>9, <2>1, <2>2, AlikeIsReflexive DEF Inv
<1>11. /\ LocationsOK' /\ OneRespelled' /\ SchedulesOK' /\ TasksOK' /\ FewRows'
    BY <1>1, <1>2, <1>4, <1>7, <1>9, <1>10, TemplateSaved
<1>12. ImportOK'
    BY <1>1, <1>3, <1>7 DEF Inv, ImportOK, Import
<1>13. GroupsOK'
    <2>1. [active |-> TRUE, marker |-> "WORKBOOK_IMPORT_COUNTRYSIDE"] \in Group
        BY DEF Group, Markers
    <2> QED BY <1>4, <1>5, <2>1
            DEF import_group, upsert_route_group, Inv, GroupsOK
<1> QED BY <1>11, <1>12, <1>13 DEF Inv

\* So does the end of an import, or its failure.
LEMMA ImportEndsInv ==
    ASSUME Inv, FinishOncall \/ FinishRoutes \/ FinishSheet1 \/ StopImport
    PROVE  Inv'
<1>1. /\ locations' = locations /\ tasks' = tasks /\ changes' = changes
      /\ import' = NoImport
    BY DEF FinishOncall, FinishRoutes, FinishSheet1, StopImport
<1>2. ImportOK'
    BY <1>1 DEF ImportOK, NoImport
<1>3. \/ schedules' = schedules
      \/ \E ids \in SUBSET stored : schedules' = put_on_hold(ids)
    <2>1. missing_oncall \in SUBSET stored /\ missing_routes \in SUBSET stored
        BY DEF missing_oncall, missing_routes
    <2> QED BY <2>1 DEF FinishOncall, FinishRoutes, FinishSheet1, StopImport
<1>4. LocationsOK' /\ OneRespelled' /\ SchedulesOK' /\ TasksOK' /\ FewRows'
    <2>1. CASE schedules' = schedules
        BY <1>1, <2>1, RowsKept DEF Inv, TasksOK
    <2>2. ASSUME NEW ids \in SUBSET stored, schedules' = put_on_hold(ids)
          PROVE  LocationsOK' /\ OneRespelled' /\ SchedulesOK' /\ TasksOK' /\ FewRows'
        <3>1. /\ schedules' \in [ScheduleIds -> Schedule \cup {None}]
              /\ \A j \in ScheduleIds : Alike(schedules'[j], schedules[j])
            BY <2>2, HoldAlike DEF Inv
        <3> QED BY <1>1, <3>1, TemplatesKept
    <2> QED BY <1>3, <2>1, <2>2
<1>5. GroupsOK'
    <2>1. CASE groups' = groups
        BY <1>1, <2>1 DEF Inv, GroupsOK
    <2>2. CASE groups' = [g \in Groups |->
                 IF g \in missing_groups THEN [groups[g] EXCEPT !.active = FALSE]
                 ELSE groups[g]]
        <3>1. \A g \in missing_groups : groups[g] \in Group
            BY DEF missing_groups, Inv, GroupsOK
        <3>2. \A g \in missing_groups : [groups[g] EXCEPT !.active = FALSE] \in Group
            BY <3>1 DEF Group
        <3> QED BY <1>1, <2>2, <3>2 DEF Inv, GroupsOK
    <2> QED BY <2>1, <2>2 DEF FinishOncall, FinishRoutes, FinishSheet1, StopImport
<1> QED BY <1>1, <1>2, <1>4, <1>5 DEF Inv

-----------------------------------------------------------------------------
(* The merge and the backfill. *)

\* So does a merge of two locations of one shop.
LEMMA MergeInv ==
    ASSUME Inv, NEW canonical \in Spellings, NEW duplicate \in Spellings,
           MergeLocations(canonical, duplicate)
    PROVE  Inv'
<1>1. /\ canonical # duplicate
      /\ canonical \in located /\ duplicate \in located
      /\ coarse[canonical] = coarse[duplicate]
    BY DEF MergeLocations, can_merge, located, Inv, LocationsOK
<1>2. /\ locations' = [locations EXCEPT ![duplicate] = None]
      /\ UNCHANGED <<groups, import>> /\ changes' \in 0..MaxChanges
    BY FormAssumption DEF MergeLocations, next_change, Inv, GroupsOK
<1>3. /\ locations' \in [Spellings -> Spellings \cup {None}]
      /\ located' = located \ {duplicate}
      /\ \A l \in located' : locations'[l] = locations[l]
    BY <1>2 DEF Inv, LocationsOK, located
<1>4. LocationsOK' /\ OneRespelled'
    BY <1>3 DEF Inv, LocationsOK, OneRespelled, shop
<1>5. /\ \A i \in ScheduleIds :
            /\ schedules'[i] = IF i \in stored /\ schedules[i].opshop_id = duplicate
                               THEN [schedules[i] EXCEPT !.opshop_id = canonical]
                               ELSE schedules[i]
            /\ schedules[i] \in Schedule \cup {None}
      /\ schedules' = [i \in ScheduleIds |-> schedules'[i]]
    BY DEF MergeLocations, Inv, SchedulesOK
<1>6. ASSUME NEW i \in ScheduleIds
      PROVE  /\ i \in stored =>
                   /\ schedules'[i] \in Schedule
                   /\ schedules'[i].opshop_id \in located'
                   /\ coarse[schedules'[i].opshop_id] = coarse[i[2]]
             /\ i \notin stored => schedules'[i] = None
    <2>1. CASE i \in stored /\ schedules[i].opshop_id = duplicate
        <3>1. schedules[i] \in Schedule
            BY <1>5, <2>1 DEF stored
        <3>2. /\ schedules'[i] \in Schedule
              /\ schedules'[i].opshop_id = canonical
            BY <1>5, <2>1, <3>1 DEF Schedule
        <3> QED BY <1>1, <1>3, <2>1, <3>2 DEF Inv, SchedulesOK
    <2>2. CASE i \in stored /\ schedules[i].opshop_id # duplicate
        BY <1>3, <1>5, <2>2 DEF Inv, SchedulesOK, stored
    <2>3. CASE i \notin stored
        BY <1>5, <2>3 DEF stored
    <2> QED BY <2>1, <2>2, <2>3
<1>7. stored' = stored
    BY <1>6, NoneAssumption DEF stored
<1>8. SchedulesOK'
    <2>1. schedules' \in [ScheduleIds -> Schedule \cup {None}]
        BY <1>5, <1>6
    <2> QED BY <1>6, <1>7, <2>1 DEF SchedulesOK, stored
<1>9. /\ \A i \in ScheduleIds :
            /\ tasks'[i] = IF tasks[i] # None /\ tasks[i].opshop_id = duplicate
                           THEN [tasks[i] EXCEPT !.opshop_id = canonical]
                           ELSE tasks[i]
            /\ tasks[i] \in Task \cup {None}
      /\ tasks' = [i \in ScheduleIds |-> tasks'[i]]
    BY DEF MergeLocations, Inv, TasksOK
<1>10. ASSUME NEW i \in ScheduleIds
       PROVE  /\ tasks'[i] \in Task \cup {None}
              /\ tasks'[i] # None => /\ i \in stored
                                     /\ tasks'[i].opshop_id \in located'
                                     /\ coarse[tasks'[i].opshop_id] = coarse[i[2]]
    <2>1. CASE tasks[i] # None /\ tasks[i].opshop_id = duplicate
        <3>1. tasks[i] \in Task
            BY <1>9, <2>1
        <3>2. tasks'[i] \in Task /\ tasks'[i].opshop_id = canonical
            BY <1>9, <2>1, <3>1 DEF Task
        <3> QED BY <1>1, <1>3, <2>1, <3>2 DEF Inv, TasksOK
    <2>2. CASE tasks[i] # None /\ tasks[i].opshop_id # duplicate
        BY <1>3, <1>9, <2>2 DEF Inv, TasksOK
    <2>3. CASE tasks[i] = None
        BY <1>9, <2>3
    <2> QED BY <2>1, <2>2, <2>3
<1>11. TasksOK'
    <2>1. tasks' \in [ScheduleIds -> Task \cup {None}]
        BY <1>9, <1>10
    <2> QED BY <1>7, <1>10, <2>1 DEF TasksOK
<1>12. FewRows'
    BY <1>3, <1>7, FS_Subset DEF Inv, FewRows
<1> QED BY <1>2, <1>4, <1>8, <1>11, <1>12 DEF Inv, ImportOK, GroupsOK

\* So does the backfill of drivers.
LEMMA BackfillInv ==
    ASSUME Inv, NEW book, BackfillDrivers(book)
    PROVE  Inv'
<1>1. PICK ids \in SUBSET UNION {identified(r) : r \in book} :
          schedules' = [i \in ScheduleIds |->
               IF i \in ids THEN [schedules[i] EXCEPT !.alias = TRUE]
               ELSE schedules[i]]
    BY DEF BackfillDrivers
<1>2. /\ UNCHANGED <<locations, groups, tasks, import>>
      /\ changes' \in 0..MaxChanges
    BY FormAssumption DEF BackfillDrivers, next_change, Inv, GroupsOK
<1>3. ids \subseteq stored
    BY DEF identified
<1>4. \A i \in ScheduleIds :
          /\ schedules[i] \in Schedule \cup {None}
          /\ i \in ids => schedules[i] # None
    BY <1>3 DEF Inv, SchedulesOK, stored
<1>5. ASSUME NEW i \in ScheduleIds
      PROVE  /\ schedules'[i] \in Schedule \cup {None}
             /\ Alike(schedules'[i], schedules[i])
    <2>1. CASE i \in ids
        <3>1. schedules[i] \in Schedule
            BY <1>4, <2>1
        <3>2. schedules'[i] = [schedules[i] EXCEPT !.alias = TRUE]
            BY <1>1, <2>1
        <3> QED BY <1>4, <2>1, <3>1, <3>2 DEF Alike, Schedule
    <2>2. CASE i \notin ids
        BY <1>1, <1>4, <2>2 DEF Alike
    <2> QED BY <2>1, <2>2
<1>6. schedules' \in [ScheduleIds -> Schedule \cup {None}]
    BY <1>1, <1>5
<1>7. LocationsOK' /\ OneRespelled' /\ SchedulesOK' /\ TasksOK' /\ FewRows'
    BY <1>2, <1>5, <1>6, TemplatesKept
<1> QED BY <1>2, <1>7 DEF Inv, ImportOK, GroupsOK

-----------------------------------------------------------------------------
(* The Regular importer. *)

\* Two elements of a set with at most one are the same.
LEMMA AtMostOne ==
    ASSUME NEW S, IsFiniteSet(S), Cardinality(S) <= 1, NEW x \in S, NEW y \in S
    PROVE  x = y
<1>1. Cardinality(S) \in Nat
    BY FS_CardinalityType
<1>2. Cardinality(S) # 0
    BY FS_EmptySet
<1>3. Cardinality(S) = 1
    BY <1>1, <1>2
<1>4. PICK z : S = {z}
    BY <1>3, FS_Singleton
<1> QED BY <1>4

\* What the preflight tells of a row: the rows of the workbook are of
\* different OP SHOPs, the row's location is the only one of its OP SHOP, and
\* its template the only one that may be active on the Regular list.
RowSettled(book, r) ==
    /\ r.spelling \in Spellings /\ r.frequency \in Frequencies
    /\ r.list = "REGULAR" /\ r.assigned \in BOOLEAN
    /\ regular_location(r) \in Spellings
    /\ coarse[regular_location(r)] = coarse[r.spelling]
    /\ regular_schedule(r) \in ScheduleIds
    /\ coarse[regular_schedule(r)[2]] = coarse[r.spelling]
    /\ \A m \in located : coarse[m] = coarse[r.spelling] => m = regular_location(r)
    /\ \A i \in stored :
           (/\ schedules[i].active /\ schedules[i].list = "REGULAR"
            /\ coarse[schedules[i].opshop_id] = coarse[r.spelling])
           => i = regular_schedule(r)
    /\ \A other \in book : coarse[r.spelling] = coarse[other.spelling] => r = other

\* The preflight leaves every row of the book one location and one template,
\* and none that another row writes.
LEMMA RowsSettled ==
    ASSUME Inv, NEW book \in RegularBooks, preflight_regular_import(book),
           NEW r \in book
    PROVE  RowSettled(book, r)
<1> DEFINE class == coarse[r.spelling]
           there == location_named(r.spelling)
           slotted == regular_slot(r)
           running == active_among(slotted)
<1>1. /\ r \in Row /\ r.list = "REGULAR"
      /\ r.spelling \in Spellings /\ r.frequency \in Frequencies
      /\ r.assigned \in BOOLEAN
    BY BookAssumption DEF Row
<1>2. class \in Spellings /\ coarse[class] = class
    BY <1>1, CoarseTypes
<1>3. /\ Cardinality(there) <= 1
      /\ Cardinality(slotted) <= 1 \/ Cardinality(running) = 1
      /\ \A other \in book : coarse[r.spelling] = coarse[other.spelling] => r = other
    BY DEF preflight_regular_import
<1>4. /\ there \subseteq located
      /\ \A m \in located : coarse[m] = class <=> m \in there
    BY DEF location_named, located, Inv, LocationsOK
<1>5. /\ slotted \subseteq stored /\ running \subseteq slotted
      /\ \A i \in slotted : coarse[i[2]] = class /\ i \in ScheduleIds
      /\ \A i \in stored :
             (/\ schedules[i].list = "REGULAR"
              /\ coarse[schedules[i].opshop_id] = class) <=> i \in slotted
      /\ \A i \in slotted : i \in running <=> schedules[i].active
    BY DEF regular_slot, active_among, Inv, SchedulesOK, LocationsOK, stored
<1>6. IsFiniteSet(there) /\ IsFiniteSet(slotted) /\ IsFiniteSet(running)
    <2>1. IsFiniteSet(there) /\ IsFiniteSet(slotted)
        BY <1>4, <1>5, FS_Subset DEF Inv, FewRows
    <2> QED BY <1>5, <2>1, FS_Subset
<1>7. regular_location(r) =
          IF there = {} THEN class ELSE CHOOSE l \in there : TRUE
    BY DEF regular_location
<1>8. regular_schedule(r) =
          IF slotted = {} THEN slot_key(class)
          ELSE IF Cardinality(slotted) = 1 THEN CHOOSE i \in slotted : TRUE
          ELSE CHOOSE i \in running : TRUE
    BY DEF regular_schedule
<1>9. slot_key(class) \in ScheduleIds /\ slot_key(class)[2] = class
    BY <1>2 DEF slot_key, ScheduleIds
<1> HIDE DEF there, slotted, running
<1>10. /\ regular_location(r) \in Spellings
       /\ coarse[regular_location(r)] = class
    <2>1. there # {} => (CHOOSE l \in there : TRUE) \in there
        OBVIOUS
    <2>2. located \subseteq Spellings
        BY DEF located
    <2> QED BY <1>2, <1>4, <1>7, <2>1, <2>2
<1>11. \A m \in located : coarse[m] = class => m = regular_location(r)
    <2> SUFFICES ASSUME NEW m \in there PROVE m = regular_location(r)
        BY <1>4
    <2>1. regular_location(r) \in there
        BY <1>7
    <2> QED BY <1>3, <1>6, <2>1, AtMostOne
<1>12. running # {} \/ Cardinality(slotted) <= 1
    <2>1. running = {} => Cardinality(running) = 0
        BY FS_EmptySet, Zenon
    <2> QED BY <1>3, <2>1
<1>13. Cardinality(slotted) <= 1 => slotted = {} \/ Cardinality(slotted) = 1
    BY <1>6, FS_CardinalityType, FS_EmptySet
<1>14. slotted # {} => regular_schedule(r) \in slotted
    BY <1>5, <1>8, <1>12, <1>13
<1>15. /\ regular_schedule(r) \in ScheduleIds
       /\ coarse[regular_schedule(r)[2]] = class
    BY <1>2, <1>5, <1>8, <1>9, <1>14
<1>16. ASSUME NEW i \in stored, schedules[i].active, schedules[i].list = "REGULAR",
              coarse[schedules[i].opshop_id] = class
       PROVE  i = regular_schedule(r)
    <2>1. i \in slotted /\ i \in running
        BY <1>5, <1>16
    <2>2. CASE Cardinality(slotted) <= 1
        BY <1>6, <1>14, <2>1, <2>2, AtMostOne
    <2>3. CASE ~(Cardinality(slotted) <= 1)
        <3>1. Cardinality(slotted) # 1
            BY <2>3
        <3>2. regular_schedule(r) \in running
            BY <1>8, <2>1, <3>1
        <3> QED BY <1>3, <1>6, <2>1, <2>3, <3>2, AtMostOne
    <2> QED BY <2>2, <2>3
<1> QED BY <1>1, <1>3, <1>10, <1>11, <1>15, <1>16 DEF RowSettled

\* The tables after the import, row by row.
LEMMA RegularRowsWritten ==
    ASSUME Inv, NEW book \in RegularBooks, RegularImport(book)
    PROVE  /\ \A r \in book :
                  /\ locations'[regular_location(r)] = r.spelling
                  /\ schedules'[regular_schedule(r)] =
                         imported_schedule(regular_location(r), r,
                                           "WORKBOOK_IMPORT")
           /\ \A l \in Spellings :
                  (\A r \in book : regular_location(r) # l)
                      => locations'[l] = locations[l]
           /\ \E ids \in SUBSET stored : \A i \in ScheduleIds :
                  (\A r \in book : regular_schedule(r) # i)
                      => schedules'[i] = put_on_hold(ids)[i]
           /\ locations' = [l \in Spellings |-> locations'[l]]
           /\ schedules' = [i \in ScheduleIds |-> schedules'[i]]
<1> DEFINE imported == {regular_schedule(r) : r \in book}
<1>1. \A r \in book : RowSettled(book, r)
    BY RowsSettled DEF RegularImport
<1>2. locations' = [l \in Spellings |->
           IF \E r \in book : regular_location(r) = l
           THEN (CHOOSE r \in book : regular_location(r) = l).spelling
           ELSE locations[l]]
    BY DEF RegularImport
<1>3. schedules' = [i \in ScheduleIds |->
           IF i \in imported
           THEN imported_schedule(
                    regular_location(CHOOSE r \in book : regular_schedule(r) = i),
                    CHOOSE r \in book : regular_schedule(r) = i, "WORKBOOK_IMPORT")
           ELSE put_on_hold(missing_regular(imported))[i]]
    BY DEF RegularImport
<1>4. missing_regular(imported) \in SUBSET stored
    BY DEF missing_regular
<1>5. ASSUME NEW r \in book
      PROVE  /\ locations'[regular_location(r)] = r.spelling
             /\ schedules'[regular_schedule(r)] =
                    imported_schedule(regular_location(r), r, "WORKBOOK_IMPORT")
    <2> DEFINE first == CHOOSE q \in book : regular_location(q) = regular_location(r)
               same == CHOOSE q \in book : regular_schedule(q) = regular_schedule(r)
    <2>1. first \in book /\ regular_location(first) = regular_location(r)
        OBVIOUS
    <2>2. same \in book /\ regular_schedule(same) = regular_schedule(r)
        OBVIOUS
    <2>3. regular_location(r) \in Spellings /\ regular_schedule(r) \in ScheduleIds
        BY <1>1 DEF RowSettled
    <2>4. /\ locations'[regular_location(r)] = first.spelling
          /\ schedules'[regular_schedule(r)] =
                 imported_schedule(regular_location(same), same, "WORKBOOK_IMPORT")
        BY <1>2, <1>3, <2>3
    <2> HIDE DEF first, same
    <2>5. first = r
        BY <1>1, <2>1 DEF RowSettled
    <2>6. same = r
        BY <1>1, <2>2 DEF RowSettled
    <2> QED BY <2>4, <2>5, <2>6
<1>6. \A l \in Spellings : (\A r \in book : regular_location(r) # l)
          => locations'[l] = locations[l]
    BY <1>2
<1>7. \A i \in ScheduleIds : (\A r \in book : regular_schedule(r) # i)
          => schedules'[i] = put_on_hold(missing_regular(imported))[i]
    BY <1>3
<1> QED BY <1>2, <1>3, <1>4, <1>5, <1>6, <1>7

\* So the Regular import keeps the invariant.
LEMMA RegularImportInv ==
    ASSUME Inv, NEW book \in RegularBooks, RegularImport(book)
    PROVE  Inv'
<1> DEFINE written == {regular_location(r) : r \in book}
           imported == {regular_schedule(r) : r \in book}
<1>1. ASSUME NEW r \in book PROVE RowSettled(book, r)
    BY RowsSettled DEF RegularImport
<1>2. /\ \A r \in book : locations'[regular_location(r)] = r.spelling
      /\ \A l \in Spellings : l \notin written => locations'[l] = locations[l]
      /\ locations' = [l \in Spellings |-> locations'[l]]
    BY RegularRowsWritten
<1>3. /\ \A r \in book : schedules'[regular_schedule(r)] =
             imported_schedule(regular_location(r), r, "WORKBOOK_IMPORT")
      /\ schedules' = [i \in ScheduleIds |-> schedules'[i]]
    BY RegularRowsWritten
<1>4. PICK ids \in SUBSET stored : \A i \in ScheduleIds :
          i \notin imported => schedules'[i] = put_on_hold(ids)[i]
    BY RegularRowsWritten
<1>5. /\ next_change /\ UNCHANGED <<groups, tasks, import>>
    BY DEF RegularImport
<1>6. /\ written \subseteq Spellings /\ imported \subseteq ScheduleIds
    BY <1>1 DEF RowSettled
<1>7. IsFiniteSet(written) /\ IsFiniteSet(imported)
    <2>1. IsFiniteSet(book)
        BY BookAssumption
    <2>2. /\ [r \in book |-> regular_location(r)] \in Surjection(book, written)
          /\ [r \in book |-> regular_schedule(r)] \in Surjection(book, imported)
        BY DEF Surjection
    <2> HIDE DEF written, imported
    <2> QED BY <2>1, <2>2, FS_Surjection
<1>8. /\ located \subseteq Spellings
      /\ locations \in [Spellings -> Spellings \cup {None}]
      /\ None \notin Spellings
    BY NoneAssumption DEF located, Inv, LocationsOK
<1>9. /\ \A r \in book : r.spelling \in Spellings
      /\ locations' \in [Spellings -> Spellings \cup {None}]
    <2>1. \A r \in book : r.spelling \in Spellings
        BY <1>1 DEF RowSettled
    <2>2. \A l \in Spellings : locations'[l] \in Spellings \cup {None}
        BY <1>2, <1>8, <2>1
    <2> QED BY <1>2, <2>1, <2>2
<1>10. located' = located \cup written
    BY <1>2, <1>6, <1>8, <1>9 DEF located
<1>11. \A l \in located' : shop(l)' = coarse[l]
    <2>1. ASSUME NEW l \in written PROVE shop(l)' = coarse[l]
        <3>1. PICK r \in book : l = regular_location(r)
            OBVIOUS
        <3> QED BY <1>1, <1>2, <3>1 DEF shop, RowSettled
    <2>2. ASSUME NEW l \in located, l \notin written PROVE shop(l)' = coarse[l]
        BY <1>2, <1>8, <2>2 DEF shop, Inv, LocationsOK
    <2> QED BY <1>10, <2>1, <2>2
<1>12. ASSUME NEW m \in written, NEW n \in located', coarse[m] = coarse[n]
       PROVE  m = n
    <2>1. PICK r \in book : m = regular_location(r)
        OBVIOUS
    <2>2. CASE n \in located
        BY <1>1, <1>12, <2>1, <2>2 DEF RowSettled
    <2>3. CASE n \in written
        <3>1. PICK q \in book : n = regular_location(q)
            BY <2>3
        <3>2. coarse[r.spelling] = coarse[q.spelling]
            BY <1>1, <1>12, <2>1, <3>1 DEF RowSettled
        <3>3. r = q
            BY <1>1, <3>2 DEF RowSettled
        <3> QED BY <2>1, <3>1, <3>3
    <2> QED BY <1>10, <2>2, <2>3
<1> HIDE DEF written, imported
<1>13. \A m, n \in located' : locations'[m] = locations'[n] => m = n
    <2> SUFFICES ASSUME NEW m \in located', NEW n \in located',
                        locations'[m] = locations'[n]
                 PROVE  m = n
        OBVIOUS
    <2>1. coarse[m] = coarse[n]
        BY <1>11 DEF shop
    <2>2. CASE m \in written \/ n \in written
        BY <1>12, <2>1, <2>2
    <2>3. CASE m \notin written /\ n \notin written
        BY <1>2, <1>8, <1>10, <2>3 DEF Inv, LocationsOK
    <2> QED BY <2>2, <2>3
<1>14. OneRespelled'
    <2> SUFFICES ASSUME NEW m \in located', NEW n \in located',
                        coarse[m] = coarse[n], locations'[m] # m, locations'[n] # n
                 PROVE  m = n
        BY DEF OneRespelled
    <2>1. CASE m \in written \/ n \in written
        BY <1>12, <2>1
    <2>2. CASE m \notin written /\ n \notin written
        BY <1>2, <1>8, <1>10, <2>2 DEF Inv, OneRespelled
    <2> QED BY <2>1, <2>2
<1>15. LocationsOK'
    BY <1>9, <1>11, <1>13 DEF LocationsOK
<1>16. \A i \in imported : /\ schedules'[i] \in Schedule
                           /\ schedules'[i].opshop_id \in located'
                           /\ coarse[schedules'[i].opshop_id] = coarse[i[2]]
    <2> SUFFICES ASSUME NEW r \in book
                 PROVE  LET i == regular_schedule(r) IN
                        /\ schedules'[i] \in Schedule
                        /\ schedules'[i].opshop_id \in located'
                        /\ coarse[schedules'[i].opshop_id] = coarse[i[2]]
        BY DEF imported
    <2>1. imported_schedule(regular_location(r), r, "WORKBOOK_IMPORT") \in Schedule
        BY <1>1 DEF imported_schedule, RowSettled, Schedule, Lists, Markers
    <2>2. imported_schedule(regular_location(r), r, "WORKBOOK_IMPORT").opshop_id
              = regular_location(r)
        BY DEF imported_schedule
    <2>3. regular_location(r) \in written
        BY DEF written
    <2> QED BY <1>1, <1>3, <1>10, <2>1, <2>2, <2>3 DEF RowSettled
<1>17. \A i \in ScheduleIds \ imported : /\ Alike(schedules'[i], schedules[i])
                                         /\ schedules'[i] \in Schedule \cup {None}
    BY <1>4, HoldAlike DEF Inv
<1>18. schedules' \in [ScheduleIds -> Schedule \cup {None}]
    BY <1>3, <1>16, <1>17
<1>19. SchedulesOK' /\ TasksOK' /\ stored' = stored \cup imported
    <2>1. imported \in SUBSET ScheduleIds /\ located \subseteq located'
        BY <1>6, <1>10
    <2>2. tasks' = tasks
        BY <1>5
    <2> HIDE DEF Inv, SchedulesOK, TasksOK, stored, located
    <2> QED BY <1>16, <1>17, <1>18, <2>1, <2>2, SchedulesWritten
<1>20. FewRows'
    BY <1>7, <1>10, <1>19, FS_Union DEF Inv, FewRows
<1>21. ImportOK' /\ GroupsOK'
    BY <1>5, FormAssumption DEF Inv, ImportOK, GroupsOK, next_change
<1> QED BY <1>14, <1>15, <1>19, <1>20, <1>21 DEF Inv

-----------------------------------------------------------------------------
(* The theorems. *)

\* Empty tables satisfy the invariant.
LEMMA InitInv ==
    Init => Inv
<1> SUFFICES ASSUME Init PROVE Inv
    OBVIOUS
<1>1. located = {} /\ stored = {}
    BY DEF Init, located, stored
<1>2. LocationsOK /\ OneRespelled
    BY <1>1 DEF Init, LocationsOK, OneRespelled
<1>3. SchedulesOK
    BY <1>1 DEF Init, SchedulesOK
<1>4. TasksOK
    BY DEF Init, TasksOK
<1>5. FewRows
    BY <1>1, FS_EmptySet DEF FewRows
<1>6. ImportOK
    BY DEF Init, ImportOK, NoImport
<1>7. GroupsOK
    BY FormAssumption DEF Init, GroupsOK
<1> QED BY <1>2, <1>3, <1>4, <1>5, <1>6, <1>7 DEF Inv

\* Every run of a tool keeps it.
LEMMA ToolRunInv ==
    ASSUME Inv, ToolRun
    PROVE  Inv'
<1>1. ASSUME NEW book \in OncallBooks, StartImport("oncall", book)
      PROVE  Inv'
    BY <1>1, BookAssumption, StartImportInv
<1>2. ASSUME NEW book \in RouteBooks, StartImport("routes", book)
      PROVE  Inv'
    BY <1>2, BookAssumption, StartImportInv
<1>3. ASSUME NEW book \in Sheet1Books, StartImport("sheet1", book)
      PROVE  Inv'
    BY <1>3, BookAssumption, StartImportInv
<1> QED BY <1>1, <1>2, <1>3, RegularImportInv, MergeInv, BackfillInv DEF ToolRun

\* Every step of an import keeps it.
LEMMA ImportStepInv ==
    ASSUME Inv, ImportStep
    PROVE  Inv'
<1>1. ASSUME NEW r \in import.left, ImportRow(r)
      PROVE  Inv'
    <2>1. import \in Import
        BY DEF Inv, ImportOK, NoImport
    <2> QED BY <1>1, <2>1, ImportRowInv
<1> QED BY <1>1, ImportEndsInv DEF ImportStep

\* A step that changes nothing keeps it.
LEMMA StutterInv ==
    ASSUME Inv, UNCHANGED vars
    PROVE  Inv'
<1>1. UNCHANGED <<locations, groups, schedules, tasks, import, changes>>
    BY DEF vars
<1>2. TasksOK' /\ ImportOK' /\ GroupsOK'
    BY <1>1, RowsKept DEF Inv, TasksOK, ImportOK, GroupsOK
<1> QED BY <1>1, <1>2, RowsKept DEF Inv

\* The inductive invariant: no two locations share a spelling, at most one
\* location of a shop is stored under another spelling, and templates and
\* pickups stay with the shop their ids were made for.
THEOREM SourcesInvariant == Spec => []Inv
<1>1. Inv /\ [Next]_vars => Inv'
    BY OfficeInv, ToolRunInv, ImportStepInv, StutterInv DEF Next
<1> QED BY InitInv, <1>1, PTL DEF Spec

\* Tables have their types in every state, and templates and pickups refer to
\* rows that exist.
THEOREM SourcesTypeCorrect == Spec => []TypeOK
<1>1. Inv => TypeOK
    <2> SUFFICES ASSUME Inv PROVE TypeOK
        OBVIOUS
    <2>1. /\ locations \in [Spellings -> Spellings \cup {None}]
          /\ groups \in [Groups -> Group \cup {None}]
          /\ schedules \in [ScheduleIds -> Schedule \cup {None}]
          /\ tasks \in [ScheduleIds -> Task \cup {None}]
          /\ import \in Import \cup {NoImport}
          /\ changes \in 0..MaxChanges
        BY DEF Inv, LocationsOK, SchedulesOK, TasksOK, ImportOK, GroupsOK
    <2>2. \A l, m \in Spellings : locations[l] = locations[m] =>
              l = m \/ locations[l] = None
        BY DEF Inv, LocationsOK, located
    <2>3. \A i \in stored : locations[schedules[i].opshop_id] # None
        BY DEF Inv, SchedulesOK, located
    <2>4. \A i \in ScheduleIds : tasks[i] # None =>
              i \in stored /\ locations[tasks[i].opshop_id] # None
        BY DEF Inv, TasksOK, located
    <2> QED BY <2>1, <2>2, <2>3, <2>4 DEF TypeOK
<1> QED BY SourcesInvariant, <1>1, PTL

\* Two OP SHOPs are never mixed up, whatever respells, merges, edits and
\* imports happened, also half-way through an import.
THEOREM SourcesStayApart == Spec => []ShopsStayApart
<1>1. Inv => ShopsStayApart
    BY DEF Inv, LocationsOK, SchedulesOK, TasksOK, located, ShopsStayApart
<1> QED BY SourcesInvariant, <1>1, PTL

\* The templates that run on the Regular list after an import.
LEMMA RegularListAfter ==
    ASSUME Inv, Inv', NEW book \in RegularBooks, RegularImport(book),
           NEW r \in book
    PROVE  {schedules'[i].frequency : i \in {j \in ScheduleIds :
                /\ schedules'[j] # None /\ schedules'[j].active
                /\ schedules'[j].list = "REGULAR"
                /\ coarse[locations'[schedules'[j].opshop_id]] =
                       coarse[r.spelling]}} = {r.frequency}
<1> DEFINE runs(j) == /\ schedules'[j] # None /\ schedules'[j].active
                      /\ schedules'[j].list = "REGULAR"
                      /\ coarse[locations'[schedules'[j].opshop_id]] =
                             coarse[r.spelling]
           home == regular_schedule(r)
<1>1. \A q \in book : RowSettled(book, q)
    BY RowsSettled DEF RegularImport
<1>2. /\ \A q \in book :
             /\ locations'[regular_location(q)] = q.spelling
             /\ schedules'[regular_schedule(q)] =
                    imported_schedule(regular_location(q), q, "WORKBOOK_IMPORT")
      /\ \E ids \in SUBSET stored : \A i \in ScheduleIds :
             (\A q \in book : regular_schedule(q) # i)
                 => schedules'[i] = put_on_hold(ids)[i]
    BY RegularRowsWritten
<1>3. /\ home \in ScheduleIds
      /\ schedules'[home].frequency = r.frequency
      /\ schedules'[home].active /\ schedules'[home].list = "REGULAR"
      /\ schedules'[home].opshop_id = regular_location(r)
    <2>1. home \in ScheduleIds /\ r.list = "REGULAR"
        BY <1>1 DEF RowSettled
    <2>2. schedules'[home] =
              imported_schedule(regular_location(r), r, "WORKBOOK_IMPORT")
        BY <1>2
    <2> HIDE DEF home
    <2> QED BY <2>1, <2>2 DEF imported_schedule
<1>4. runs(home)
    <2>1. schedules'[home] = imported_schedule(regular_location(r), r, "WORKBOOK_IMPORT")
        BY <1>2
    <2>2. schedules'[home] \in Schedule
        BY <1>1, <2>1 DEF imported_schedule, RowSettled, Schedule, Lists, Markers
    <2>3. schedules'[home] # None
        BY <2>2, NoneAssumption
    <2> QED BY <1>2, <1>3, <2>3
<1>5. ASSUME NEW j \in ScheduleIds, runs(j)
      PROVE  j = home
    <2>1. /\ schedules'[j].opshop_id \in located'
          /\ coarse[locations'[schedules'[j].opshop_id]] = coarse[schedules'[j].opshop_id]
        <3>1. SchedulesOK' /\ LocationsOK'
            BY DEF Inv
        <3>2. j \in stored'
            BY <1>5 DEF stored
        <3>3. schedules'[j].opshop_id \in located'
            BY <3>1, <3>2 DEF SchedulesOK
        <3> QED BY <3>1, <3>3 DEF LocationsOK, shop
    <2>2. coarse[schedules'[j].opshop_id] = coarse[r.spelling]
        BY <1>5, <2>1
    <2>3. CASE \E q \in book : regular_schedule(q) = j
        <3>1. PICK q \in book : regular_schedule(q) = j
            BY <2>3
        <3>2. schedules'[j].opshop_id = regular_location(q)
            <4>1. schedules'[j] =
                      imported_schedule(regular_location(q), q, "WORKBOOK_IMPORT")
                BY <1>2, <3>1
            <4> QED BY <4>1 DEF imported_schedule
        <3>3. coarse[q.spelling] = coarse[r.spelling]
            BY <1>1, <2>2, <3>2 DEF RowSettled
        <3>4. q = r
            BY <1>1, <3>3 DEF RowSettled
        <3> QED BY <3>1, <3>4
    <2>4. CASE \A q \in book : regular_schedule(q) # j
        <3>1. PICK ids \in SUBSET stored : schedules'[j] = put_on_hold(ids)[j]
            BY <1>2, <2>4
        <3>2. /\ schedules'[j] = IF j \in ids
                     THEN [schedules[j] EXCEPT !.active = FALSE] ELSE schedules[j]
              /\ schedules[j] \in Schedule \cup {None}
              /\ ids \subseteq stored
            BY <3>1 DEF put_on_hold, Inv, SchedulesOK
        <3>3. j \in ids => schedules[j] \in Schedule
            BY <3>2 DEF stored
        <3>4. j \notin ids
            BY <1>5, <3>2, <3>3 DEF Schedule
        <3>5. j \in stored /\ schedules[j].active /\ schedules[j].list = "REGULAR"
              /\ coarse[schedules[j].opshop_id] = coarse[r.spelling]
            BY <1>5, <2>2, <3>2, <3>4 DEF stored
        <3> QED BY <1>1, <3>5 DEF RowSettled
    <2> QED BY <2>3, <2>4
<1> HIDE DEF runs, home
<1>6. {j \in ScheduleIds : runs(j)} = {home}
    BY <1>3, <1>4, <1>5
<1>7. {schedules'[i].frequency : i \in {j \in ScheduleIds : runs(j)}} = {r.frequency}
    BY <1>3, <1>6
<1> QED BY <1>7 DEF runs

\* After a Regular import each OP SHOP of the workbook has exactly one active
\* Regular template, with the row's frequency: the preflight refuses any book
\* for which this could fail.
THEOREM SourcesRegularBook == Spec => RegularBookIsTheList
<1>1. Inv /\ Inv' /\ [Next]_vars =>
        [\A book \in RegularBooks : RegularImport(book) =>
            \A r \in book :
                {schedules'[i].frequency : i \in {j \in ScheduleIds :
                    /\ schedules'[j] # None /\ schedules'[j].active
                    /\ schedules'[j].list = "REGULAR"
                    /\ coarse[locations'[schedules'[j].opshop_id]] =
                           coarse[r.spelling]}} = {r.frequency}]_vars
    BY RegularListAfter
<1> QED BY SourcesInvariant, <1>1, PTL DEF Spec, RegularBookIsTheList
=============================================================================
