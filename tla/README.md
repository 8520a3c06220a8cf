# Manual Dispatch Board: TLA+ models

Manual Dispatch Board is a FastAPI / SQLite / vanilla JavaScript application with
which office staff assign delivery orders and OP SHOP pickups to drivers by hand.
This directory holds TLA+ modules of its core, the TLC configurations that check
them and the TLAPS proofs about them. Paths below are relative to the repository.

## 1. Inventory

| Component | State it keeps | Operations | Hard behaviour | What makes it correct | Module |
| --- | --- | --- | --- | --- | --- |
| Delivery orders (`order_service.py`, `order_repository_mixin.py`) | `manual_orders`: status ACTIVE / FINALIZED / CANCELLED, delivery date | create, edit, cancel | edit and cancel are several statements without a transaction | an order captured by a sheet is not changed; a delivered one does not come back | `DeliveryDispatch`, `DeliveryThreads` |
| Delivery workspace (`delivery_workspace_mutation_service.py`, `delivery_run_sheet_lock.py`) | `manual_dispatch_assignments`, `manual_driver_vehicle_assignments` | assign, unassign, select and clear a vehicle | locks derived from run sheets; identity of rows across Dispatch Dates | one assignment per order, one vehicle per driver and date, locks respected | `DeliveryDispatch` |
| Delivery run sheets (`delivery_run_sheet_service.py`, `snapshot_repository_mixin.py`) | `delivery_run_sheets`, `_rows`, `_outcomes` | generate, save, cancel, close out | a snapshot of live rows; closeout writes four tables; races between transitions | one sheet per driver and date, an order reserved by one sheet, closeout always possible, outcomes complete | `DeliveryDispatch` |
| Specification (`specification_service.py`) | `manual_drivers`, `manual_vehicles` (soft delete) | delete (create and edit left out) | delete checks and writes in separate statements | nothing deleted is in use | `DeliveryDispatch`, `DeliveryThreads` |
| Logbook and audit recorders (`application/*.py`, `audit/*.py`, `logbook_file_service.py`) | monthly text files | snapshot before, snapshot after, append entries | recorded after the commit, from reads outside it | entries tell what is stored, and continue each other | `DeliveryLogbook` |
| Vehicle autosave (`delivery-vehicle-queue.js`) | drafts, claims, errors, pending keys, queue entries, physical tails | choose a vehicle, process, retry, prune, clear | await points, page changes, writes that outlive their entry | one write at a time, cards come back, nothing chosen is lost silently | `DeliveryVehicleQueue` |
| Workspace routing and guards (`app.js`, `workspace-route-loaders.js`, `workspace-busy-actions.js`, ...) | route, dates, boards, request versions, loading flags | navigate, change a date, load a route, run a mutation, reset | answers out of order, late, or of an older account | a board shown is of the account, route and date shown; loading ends | `WorkspacePage` |
| Authentication (`auth-actions.js`, `auth_service.py`) | the session of a page; accounts | login, logout, 401 | late answers of an ended session | nothing of an ended session is shown | `WorkspacePage` (the page's part) |
| OP SHOP workspace and collections (`opshop_workspace_mutation_service.py`, `opshop_pickup_collection_service.py`) | `opshop_pickup_tasks`, assignments, `opshop_pickup_collections` | batch assign, unassign, assign a route group, generate, save, cancel | batches; two tables that say the same | one collection per driver and date, a task captured once | `OpshopCollections` |
| OP SHOP tasks and regular frequency (`opshop_pickup_service.py`) | `opshop_pickup_tasks` | ensure, create, move, cancel, assign from the lists, generate | tasks are created by reading a board; older routes do not ask for collections | one task per schedule and date, boards can be read | `OpshopCollections`, `OpshopSources` |
| OP SHOP templates, route groups and imports (`opshop_template_service.py`, `opshop_route_group_service.py`, `src/tools/import_*`) | `opshop_locations`, `opshop_pickup_schedules`, `opshop_countryside_route_groups` | office CRUD, four workbook imports, merge of duplicates, driver backfill | ids are hashes of what the writer typed; two ways of comparing names; imports that stop midway | two shops are never mixed up; after an import the list is the workbook's | `OpshopSources` |
| Legacy final summaries and cutover (`final_summary_service.py`, `workspace_migration_readiness_service.py`, `migrate_legacy_*.py`) | `final_trip_summaries`, the copies in the new histories | create, save, cancel, migrate, gate | calls read first and write later; numbers are given again | nothing saved is erased, gate closed until everything is copied | `LegacyCutover` |
| Legacy board (`assignment_service.py`) | the same assignments under its own Dispatch Date | assign and unassign tasks | as above | one row per task | `LegacyCutover`, `DatabaseMaintenance` |
| SQLite access and start-up (`sqlite/base.py`, `transaction.py`, `connection.py`, `invariants.py`) | schema, columns, unique indexes | create, upgrade, BEGIN IMMEDIATE | start-up commits twice | a transactional handler is atomic; a fresh file gets its indexes | `DeliveryThreads`, `DatabaseMaintenance` |
| Maintenance tools (`repair_assignment_identity_conflicts.py`, `migrate_database_invariants.py`, `backfill_opshop_final_summary_locks.py`) | the tables of the application, decision files | audit, dry run, apply, create indexes | plans made long before they are applied, beside a running application | a repair follows the present tasks; with the indexes no duplicates come back, without them only from two writers | `DatabaseMaintenance` |
| Renderers, Attache import, exporters, suburb distance, in-memory repository | - | parsing, output, lookup | none | see section 9 | - |

How they interact. The browser sends HTTP requests; FastAPI runs each synchronous
route on a thread of a pool; an application service checks that the workspace is
ready, calls one domain service and records an audit event. Handlers decorated with
`@immediate_transactional` run in one `BEGIN IMMEDIATE` transaction. In all others
each repository call opens a connection of its own and commits by itself. The tables
are the only state that requests share. The browser keeps boards it has read, and
protects itself against late answers by route, date, session and version checks.

## 2. Modules

| Module | Models | Checked by |
| --- | --- | --- |
| `DeliveryDispatch` | tables and handlers of the Delivery half, one action per request | `dispatch`, TLAPS |
| `OrderLifecycle` | abstract: what the workflow promises of every order | through `DeliveryRefinement` |
| `DeliveryRefinement` | the phase of an order computed from the tables; `ImplementsLifecycle` | `dispatch`, TLAPS |
| `DeliveryThreads` | the non-transactional handlers as statements among all other requests | `threads`, `race_edit_revive`, TLAPS |
| `DeliveryLogbook` | the Delivery handlers as read, transaction, read, entries | `logbook`, TLAPS |
| `DeliveryVehicleQueue` | the vehicle autosave of one browser | `vehicle_*`, TLAPS |
| `WorkspacePage` | session, routes, dates and late answers of one browser page | `page`, TLAPS |
| `OpshopCollections` | pickup tasks, their assignments and Pickup Collections | `opshop`, `opshop_board_blocked`, TLAPS |
| `OpshopSources` | locations, templates and groups, and everybody who writes them | `sources`, TLAPS |
| `LegacyCutover` | the legacy summaries, their migration and the gate | `legacy`, TLAPS |
| `DatabaseMaintenance` | start-up, upgrades, indexes and repair tools of one database file | `maintenance`, TLAPS |
| `DeliveryDispatchProofs` | theorems about `DeliveryDispatch` and `DeliveryRefinement` | TLAPS |
| `DeliveryVehicleQueueProofs` | theorems about `DeliveryVehicleQueue` | TLAPS |
| `DeliveryConcurrencyProofs` | theorems about `DeliveryThreads` and `DeliveryLogbook` | TLAPS |
| `OpshopCollectionsProofs`, `OpshopSourcesProofs`, `LegacyCutoverProofs`, `DatabaseMaintenanceProofs`, `WorkspacePageProofs` | theorems about the module of the name | TLAPS |
| `MC...` | extends a module, adds its symmetry set and its instance | TLC |

`DeliveryThreads` and `DeliveryLogbook` extend `DeliveryDispatch` and use its actions
unchanged; `DeliveryRefinement` instantiates `OrderLifecycle`. The other modules stand
alone: they share with these only tables that the modules' own actions write, and each
says in its first comment what of them it keeps.

### DeliveryDispatch

Each variable is a table and each action a complete request that succeeds; a rejected
request writes nothing and is no step. Guards are the checks of the application
service, the domain service and the repository, in that order. Rows keep only what
control depends on: an order is its status and its delivery date, a run sheet row the
order and trip it captured. Names, addresses, products, accounts and timestamps are
left out, and so is the comparison of them at closeout: they change by the same edits
as the date, which stands for all of them. `AtMostOne` in a guard stands for the
"identity conflict" errors the repository raises when it finds two rows where there
should be one. The legacy `final_trip_summaries` are taken to be empty and the
workspace to be ready (`_ensure_workspace_ready`), so that the deletion guard on
final-summary history never holds anything back. `StepwiseRequests` groups the four
handlers that are not atomic in the code; here they run alone, which is what a single
office user sees and what their own checks are written for.

### DeliveryThreads

Every handler that is not atomic becomes a program counter of a thread: a check, a
read or a write per step, with what the thread has read so far. The atomic requests
are the actions of `DeliveryDispatch`, unchanged. A process that dies is a thread
that takes no further step, so every prefix of a handler is covered.

### DeliveryRefinement and OrderLifecycle

`order_phase` derives one of six phases from order, assignment, reserving sheets and
outcomes. Closing a sheet is one abstract step for all of its orders, so a closeout
that delivered one order and forgot another would not be a step of `OrderLifecycle`.

### DeliveryLogbook

A call of the application facade reads the entity it is about to change, runs the
domain service, reads again and appends its entries one by one. `told` is what the
latest entry says of an order, of a driver's vehicle or of a sheet. `doubtful` collects
what the code cannot promise: entities whose entry was lost with the process or a failed
append, or whose call was overtaken between its reads. Outside it the logbook tells the
tables. Run sheet ids can be used again in the model; in the code they are UUIDs, so
entries about two sheets are never confused. Entries about failures, orders, drivers,
imports and exports, which say nothing of these tables, are left out.

### DeliveryVehicleQueue

One action is one event of the browser (a choice, a page change, an answer, a board)
with all promise reactions it causes, or one step of the server. `ui` holds drafts,
claims, of whose sequence numbers only the order is kept (`earlier`), errors, pending keys, queue entries and
per driver the chain of physical writes; a write is `current` as long as its entry is.
`rows` is the server's table, changed by writes and, with `OtherClients`, by another
browser. A board that was read travels in `reload`. `task_board` is
`state.deliveryBoard`, which belongs to the Task Pool but is what
`updateDeliveryVehicleSelection` consults. A conflict answer (409) takes the user to
the home page; so does the end of a session, which is the action `LeavePage`. On a 401
the code clears drafts, claims, errors and pending keys and keeps the queue entries until the
next route is loaded (`auth-actions.js:94`, `workspace-route-loaders.js:29`); the model drops
them at once, since an entry without a session is not current and its answer changes nothing. Not
modelled: the lock display of a card (a locked card is disabled; a write that meets a
lock gets a 409 here), drivers that are missing from a board.

### WorkspacePage

`page` is the state of one page (`state` in `app.js`) with the requests it waits for;
each request carries what the page captured when it was sent: session, route, dates,
version. `Serve` lets the server act, at any time, and `Receive` delivers the answer, at
any later time and in any order; an answer may be a success, a conflict, a 401, another
failure. A board is known by the account and date it was asked for and by the revision of
the tables it was read at, so that an older answer can be told from a newer one. A
navigation includes the `hashchange` event that follows it. The page starts with a
restored session. Left out: registration and password reset, the content of the migration
status, cookies, busy keys, the history, run sheet, collection and template routes, which
are guarded by the same functions, and the navigation after a generation.

### OpshopCollections

`tasks`, `assignments` and `collections` are the tables; a task is named by its schedule
and the date it was created for, because `_generated_task_id` is a function of the two,
and has besides a pickup date of its own. Two generations of routes write these tables:
`WorkspaceRoutes` ask for Pickup Collections, `TaskRoutes` and `ListRoutes` only for
legacy final summaries, of which there are none here. Answering a request with a board
creates the regular tasks of the week: within the transaction of an assignment
(`ensured`), or on its own one commit after the other (`EnsureRegularTask`). The one
request that fails halfway and leaves something behind, the creation of a task whose
assignment is refused, is an alternative of `CreatePickupTask`. The task routes, several
statements each, run alone here. Drivers, schedules and the membership of route groups
are fixed; there is one route group; `Due` stands for the frequency rules; `STANDARD`
schedules, which are in no weekly list, are left out.

The Dispatch Date of an assignment is kept because list routes unassign by it: a task
unassigned from a list under another Dispatch Date keeps its assignment row, and the
workspace routes take the row for the current assignment.

### OpshopSources

Every writer names a row by a hash of what it compares. A key therefore stands for the id
made from it, and writing under the id of another row replaces that row, as
`INSERT ... ON CONFLICT DO UPDATE` does. Two spellings of one shop have the same `coarse`
form, which is what the Regular importer and the merge compare; everybody else compares
spellings. The Regular importer and the merge are single transactions; the On Call,
Countryside and Sheet1 importers are a queue of rows, each a commit, that the office may
interleave with and that may stop (`StopImport`) or end with its deactivations. One run
day and one pickup date; addresses, time windows, hyphens in names, the row order within a
workbook, the two flags of a route group (merged into `active`), renaming of groups and
`source_marker` edits are abstracted; the driver backfill is one step over any subset of
its rows.

### LegacyCutover

The legacy handlers hold no transaction until their first write, so that a call is a
`Check` that reads and a `Write` that acts on what was read; `calls` holds what is in
flight. The number of a summary is the next free one, so a cancelled number is given
again. `ensure_ready` is the gate's comparison: a copy per saved summary with as many
rows. `Migrate` is the tool's one transaction. It runs with the application stopped,
because the runbook
(`docs/separate-delivery-and-opshop-workspaces-migration.md:16`, `:111`) demands it; the
tool does not ask. `Indexed` says whether the unique indexes exist; the run has them.

### DatabaseMaintenance

Start-up connects, commits the tables (`executescript`) and then, in a second commit, the
columns and indexes; the process may die at either. Each tool is a read and a later
write, between which the application goes on and the tool may die. `born` remembers how a
file came to be. The repair re-plans under its lock and applies only what a person
approved (`decision`); a plan that the application of it would refuse whatever happens (nothing
to do, or blocked groups) is not kept.

`Application` is every writer of `manual_dispatch_assignments` in the application:

| Action | Code | How it finds the row |
| --- | --- | --- |
| `AssignPickup`, `AssignOrder` | `assign_task`, the lists, `assign_order`, the batches | any row of the task; fails on two (`upsert_assignment`) |
| `ReplacePickup` | route groups, a new pickup date | removes all rows, then inserts |
| `ReleasePickup`, `CancelPickup`, `ReleaseOrder` | `unassign_pickup`, deletion, `unassign_order`, closeout | any row of the task; fails on two |
| `UnassignPickup`, `UnassignOrder` | `unassign_task`, the lists, saving a legacy summary | the row under the request's or summary's date |
| `ReadCancel`, `WriteCancel`, `FailCancel` | `cancel_generated_final_trip_summary` | inserts under the summary's own date, in conflict with that date only |

The cancellation reads its summary before its transaction and writes later, so `cancellation`
holds what it has read; `Summaries` is what a GENERATED summary may hold, and any of them may
be read at any time. Locks of saved summaries, sheets and collections, which only refuse, and
the status of an order are left out: a request may name any order. The reset of demo data
(`reset_demo_orders_phase14.py`), which empties the table, is left out. The backfill compares the
Dispatch Date of a task with that of its summary as well
(`backfill_opshop_final_summary_locks.py:405`), and tasks have no such date here:
`AuditBackfill` takes any set of rows as those for which they differ (`misdated`).

### Faults

A definition whose comment begins with "Fault" is a variant of the definition after it
with a likely mistake. Nothing uses it; PROJECT.json pairs it with the property that
notices it, and replacing the definition by it makes TLC report that property.

## 3. Runs

| Run | Instance | Result |
| --- | --- | --- |
| `dispatch` | 2 orders, drivers, vehicles, sheets, dates; one trip; requests with and without a Dispatch Date | type, `OneSheetPerDriverDate`, `OneAssignmentPerOrder`, `OneVehiclePerDriverDate`, `CapturedOrdersIntact`, `CapturedOnce`, `VehicleTargetFrozen`, `OutcomesCoverRows`, `OnlyEditsPassOpenSheets`, `ImplementsLifecycle` hold; 218 000 states |
| `threads` | 2 threads, 1 order, driver and vehicle, 2 sheets and dates | type, `OnlyLateStatementsBreak` hold; 281 000 states |
| `logbook` | 2 callers, 5 calls, 1 order, driver, vehicle and sheet, 2 trips and dates | type, `LogbookTellsTables`, `EntriesChain` hold; 1.6 million states |
| `vehicle_cards` | 2 cards, 1 vehicle, 2 writes per driver, another browser, fair | type, `ClaimsTakeTurns`, `OneWriteAtATime`, `PendingIffQueued`, `CardsComeBack` hold |
| `page` | 2 dates, 4 requests by the user, of which 1 may be unanswered when the user goes on, fair | type, `ScreenIsCurrent`, `LoadsNeverRegress`, `LateAnswersAreDropped`, `LoadingEnds` hold; 510 000 states |
| `opshop` | 1 regular schedule with a default driver, 1 schedule of the route group, 2 drivers, dates and collections, batches of 2 | type, `OneCollectionPerDriverDate`, `CollectedOnce`, `AssignedInBothTables`, `OnlyUncheckedRoutesSpoil` hold; 250 000 states |
| `sources` | 3 spellings, two of them of one shop, 2 groups and frequencies, 4 changes, small workbooks of each kind | type, `ShopsStayApart`, `RegularBookIsTheList` hold; 71 000 states |
| `legacy` | 2 orders, 1 pickup, 1 driver, 2 Dispatch Dates, 3 kinds of snapshot, 2 clients, 2 numbers | type, `GateMeansCopied`, `OnlyLateCallsErase` hold; 1.2 million states |
| `maintenance` | 1 pickup, 1 order, 2 drivers, 2 dates, saved rows of one pickup under two boards, a legacy summary of the order | type, `FreshDatabasesIndexed`, `RepairFollowsTasks`, `OnlySummariesDuplicate` hold; 673 000 states |
| `race_edit_revive` | 1 thread | `DeliveredStaysOut` violated: a delivered order is ACTIVE again |
| `vehicle_choice_unsaved` | 2 cards | `NoSilentDraft` violated: a choice neither saved nor marked |
| `opshop_board_blocked` | 1 driver, 1 collection | `BoardsOpen` violated: a regular task was moved, its board cannot be read |

What the passing runs say together. With requests that do not overtake each other the
Delivery half does what the README promises, and the transactional handlers keep doing
it whatever the others are up to: everything that goes wrong under concurrency goes
wrong in the last statement of an edit, a cancellation or a deletion
(`OnlyLateStatementsBreak`). In the OP SHOP half no pickup is collected twice whatever
the older routes do to it, but what a collection captured stays true only as far as they
leave it alone (`OnlyUncheckedRoutesSpoil`). The page never shows a board of another
account or date, drops what comes late, and finishes loading. The logbook is right about
everything that was neither lost nor overtaken. Whatever is imported, respelled and
merged, a template is never of another shop than its id says. An open workspace gate
means that everything was copied, and only a legacy call that was already under way can
erase a saved summary. Start-up indexes every file it creates in one go, a repair follows
what tasks say at the moment it is applied, and new duplicates come, in a file without the
indexes only, from the backfill and from the cancellation of a legacy summary.

### Properties with exceptions

Several properties name the exceptions the code forces on them, because without these TLC
refutes them: `OnlyEditsPassOpenSheets` (edits), `OnlyLateStatementsBreak`,
`OnlyUncheckedRoutesSpoil`, `OnlyLateCallsErase`, `OnlySummariesDuplicate` (whom to
blame), `FreshDatabasesIndexed` (an interrupted first start-up), `LateAnswersAreDropped`
(conflicts), `LoadingEnds` (a switch of the pickup type during a load),
`LoadsNeverRegress` (answers to assignments), `LogbookTellsTables` (lost and overtaken
entries). Each exception is a behaviour of the code that section 5 lists.

### Bounds

Two of a kind are what the properties can tell apart: two sheets or two orders that
collide, an order moved between two dates or drivers. Two dates suffice for a return
to the pool, which needs a later date. Sheet ids are not reused while stored; a cancelled
id may be used again, which only makes room. `threads` has one order because each property
of it is about one order, driver or vehicle, and two threads because its threads only meet
in the tables. `MaxWrites` bounds the writes of one driver that are not settled: two is
the least that lets a new write wait behind one that outlived the page. `logbook` has two
trips so that an order can be reassigned without a second driver; five calls are one more
than the life of a sheet takes (assign, generate, save, close). In `page`, `MaxRequests`
bounds what the user causes, four being a login, two visits and an action; `MaxWaiting`
lets one answer of a place that was left still be out, which is the least that can be late.
The OP SHOP runs have one Dispatch Date, a Monday, and besides it the pickup dates that
requests without one fall back on; two dates for a task to move between; `CreationDates`
keeps the regular schedule to one task, the route group schedule has two. `MaxBatch`
bounds the tasks of one request: two are enough to have different pickup dates. `sources`
has four changes: create or import, respell or merge, create again, import again, which is
what it takes for an id to meet the row of another spelling. `legacy` has two numbers, so
that one is given again while the other is in use, and two clients, so that each call can
be overtaken by one other. Symmetry is used for safety runs only, over sets whose
members are only compared. `CHECK_DEADLOCK FALSE` is said where nothing may be left to do:
all drivers deleted and all orders cancelled, or a bound on calls, requests or changes
used up.

## 4. Fairness

`vehicle_cards`: `WF` on the server's answer to a write and on its arrival, per driver. A
request is answered or fails (`fetch` settles), and the browser runs the reactions of a
settled promise. `page`: `WF` on `Answered`; every request the page waits for is answered
in the end, if only by a network error. The user, other browsers and boards are not fair.
The backend has no liveness of its own: it acts on requests.

## 5. Findings and known deviations

Three runs refute a statement of a document or a test; PROJECT.json quotes it.

* `race_edit_revive`: `update_order` checks, reads and writes in separate statements and
  writes back the status it read. A closeout in between delivered the order, which is
  ACTIVE again.
* `vehicle_choice_unsaved`: `updateDeliveryVehicleSelection` asks `state.deliveryBoard`
  where every other function of the queue asks `currentDeliveryBoard()`. Tests of the queue
  run with one board and do not see it. Clearing a vehicle that only the page's board
  lists is lost for the same reason: nothing is sent.
* `opshop_board_blocked`: a regular task that was moved keeps the name under which the task
  of its old date would be created, so that reading the board fails on the primary key.
  The tests move tasks, but read no board afterwards.

Other behaviours that differ from what the documents suggest were met while modelling.
They are in the models, as exceptions of the properties above or as noted, and have no run
of their own.

* An edit overtaken by a generation rewrites a captured order, which a second sheet may
  then capture too (`README.md:67`). A cancellation overtaken by an assignment leaves an
  assigned order cancelled (`docs/manual-dispatch-board-phase10a4-cancel-order.md:20`).
* An edit of the date moves an assigned order onto a date on which its driver's sheet is
  saved and open (`README.md:102`).
* Task and list routes delete and move pickups that a collection captured (`README.md:154`).
* Page: switching the pickup type during a load leaves the page loading until the next
  navigation or date change (`app.js:190-209`;
  `docs/opshop-workspace-smoke-test-checklist.md:104`); a late 409 of a page that was left
  shows home (`workspace-route-loaders.js:192`, checklist `:251`); the answer to an
  assignment and a load of the same board are not ordered; a late 401 ends a newer session.
* Logbook: entries are lost with a process that dies after the commit, and describe what a
  call read, not what it changed, when it was overtaken.
* OP SHOP sources: an On Call import looks up a template without its list and takes a
  countryside membership over (`import_oncall_opshop_pickups_to_db.py:372`,
  `docs/manual-dispatch-board-code-structure.md:139`); a second row of a spelling that
  was imported before keeps its own id and fails on a foreign key, leaving the import half
  done; an On Call import of no rows raises instead of holding the missing ones; the driver
  backfill gives templates of the office the mark by which a later import knows its own, and
  puts them on hold; after a merge, creating the removed spelling again takes a moved template back; a
  location listed twice makes the Regular import raise, a shared slot makes a merge refuse.
* Legacy: the gate compares row counts. It means the rows are equal (`GateMeansCopied`)
  only because the tool runs with the application stopped: with a legacy process beside it,
  a number could be given to another summary after it was copied. A dry run may report no
  blockers for a database on which the copy then fails on a unique index; without that
  index, two saved summaries of one driver under two Dispatch Dates become two run sheets
  of one driver and date, which the workspace then refuses to open.
* Start-up: a process that dies between the two commits of the first start-up leaves a file
  that is never fresh again and has no unique indexes
  (`docs/final-production-hardening-h5.md:41`).
* Duplicates: in a file without the unique indexes, the backfill of a pickup that has a row
  under another board, or of two findings of one pickup under two boards, inserts a second row;
  so does the cancellation of a legacy summary (`snapshot_repository_mixin.py:1408`) for an
  order that has been assigned under another board since the summary was generated, or while
  it was being cancelled. With the indexes both fail as a whole (`OnlySummariesDuplicate`).

## 6. Proofs

Eight modules prove every property of the passing runs but for liveness (`CardsComeBack`,
`LoadingEnds`), and two more, for all values of the constants that satisfy the assumptions of
the module in question: any orders, drivers, vehicles, sheets, dates, threads and callers; any
requests on the wire of a page, any cards and writes of an autosave; any schedules, collections and batches; any spellings, groups and finite workbooks; any number of
legacy summaries and requests in flight, with or without unique indexes; any tasks, saved
rows and legacy summaries.

| Module | Theorem | Statement |
| --- | --- | --- |
| `DeliveryDispatchProofs` | `TypeCorrect` | `Spec => []TypeOK` |
| | `OneSheet` | `Spec => []OneSheetPerDriverDate` |
| | `AssignedOnce` | `Spec => []OneAssignmentPerOrder` |
| | `Intact` | `Spec => []CapturedOrdersIntact` |
| | `Once` | `Spec => []CapturedOnce` |
| | `VehiclesUnshared` | `Spec => []OneVehiclePerDriverDate` |
| | `VehicleFrozen` | `Spec => []VehicleTargetFrozen` |
| | `OutcomesComplete` | `Spec => []OutcomesCoverRows` |
| | `DeliveredForGood` | `Spec => []DeliveredStaysOut` |
| | `LockedOrders` | `Spec => OnlyEditsPassOpenSheets` |
| | `Implements` | `Spec => ImplementsLifecycle` |
| `DeliveryVehicleQueueProofs` | `AutosaveTypeCorrect` | `Spec => []TypeOK` |
| | `AutosaveOneWrite` | `Spec => []OneWriteAtATime` |
| | `AutosavePending` | `Spec => []PendingIffQueued` |
| | `AutosaveTurns` | `Spec => []ClaimsTakeTurns` |
| `OpshopCollectionsProofs` | `OpshopTypeCorrect` | `Spec => []TypeOK` |
| | `OneCollection` | `Spec => []OneCollectionPerDriverDate` |
| | `PickupsCollectedOnce` | `Spec => []CollectedOnce` |
| | `TablesAgree` | `Spec => []AssignedInBothTables` |
| | `CheckedRoutesSpare` | `Spec => OnlyUncheckedRoutesSpoil` |
| `DeliveryConcurrencyProofs` | `ThreadsTypeCorrect` | `ThreadsSpec => []ThreadsTypeOK` |
| | `ThreadsKeepKeys` | `ThreadsSpec => [](OneSheetPerDriverDate /\ OneAssignmentPerOrder)` |
| | `LateStatementsOnly` | `ThreadsSpec => OnlyLateStatementsBreak` |
| | `LogbookTypeCorrect` | `LogbookSpec => []LogbookTypeOK` |
| | `LogbookIsTrue` | `LogbookSpec => []LogbookTellsTables` |
| | `LogbookChain` | `LogbookSpec => EntriesChain` |
| `WorkspacePageProofs` | `PageTypeCorrect` | `Spec => []PageTypeOK` |
| | `PageScreenIsCurrent` | `Spec => []ScreenIsCurrent` |
| | `PageLoadsNeverRegress` | `Spec => LoadsNeverRegress` |
| | `PageLateAnswersAreDropped` | `Spec => LateAnswersAreDropped` |
| `OpshopSourcesProofs` | `SourcesTypeCorrect` | `Spec => []TypeOK` |
| | `SourcesStayApart` | `Spec => []ShopsStayApart` |
| | `SourcesRegularBook` | `Spec => RegularBookIsTheList` |
| `LegacyCutoverProofs` | `LegacyTypeCorrect` | `Spec => []TypeOK` |
| | `OpenGateMeansCopied` | `Spec => []GateMeansCopied` |
| | `SavedSurvives` | `Spec => OnlyLateCallsErase` |
| `DatabaseMaintenanceProofs` | `MaintenanceTypeCorrect` | `Spec => []TypeOK` |
| | `FreshFilesIndexed` | `Spec => []FreshDatabasesIndexed` |
| | `RepairsFollow` | `Spec => RepairFollowsTasks` |
| | `SummariesDuplicate` | `Spec => OnlySummariesDuplicate` |

`OneSheetPerDriverDate`, `OneAssignmentPerOrder` and `OneVehiclePerDriverDate` are inductive
relative to `TypeOK`. `CapturedOrdersIntact` is not inductive by itself. Closing a sheet
removes the assignments of its orders, and this spoils no other sheet only because a
captured order is assigned to the driver, and has the date, of the sheet, and because no
other sheet has both; generation captures one row per order only because an order has one
assignment. The inductive invariant `ReservationInv` is therefore the conjunction of the
four, each of which is an invariant of the run `dispatch`. `CapturedOnce` follows from it.

`VehicleTargetFrozen` needs that a driver has one vehicle row per date, so that clearing or
selecting changes the row that was captured, and that every handler of vehicles asks for the
key. `OutcomesCoverRows` needs that only saved sheets are closed (`OnlySavedAreClosed`), since
a cancelled sheet takes its rows with it. What becomes of an order is `StatusInv`: assigned
orders are ACTIVE, an order is FINALIZED only by a delivery, and a delivered one is FINALIZED
or CANCELLED. Edits keep the status when they run alone, which is the one thing
`race_edit_revive` takes away: `DeliveredForGood` holds of `Spec` and not of `ThreadsSpec`.

`LockedOrders` goes by handler: assigning and unassigning ask for the lock of the sheet's key,
creating and cancelling concern orders nobody is assigned to, closing another sheet concerns
another key by `OneSheetPerDriverDate`, and the other handlers of sheets write no order.
`Implements` is a step simulation under `LifecycleInv`, the conjunction of the invariants
above: for each handler one lemma says of exactly which orders the phase changes (`Moved`),
and `StepImplements` names the abstract action. Saving, editing, vehicles and deletions are
invisible.

For the OP SHOP board the invariant is `BoardInv`. `AssignedInBothTables` says nothing of a
task that is not assigned, and is not inductive: a task that is cancelled, or that a board
creates, must have no assignment left, and no task may have two, or assigning it would write
one row per Dispatch Date. `RowsOf` states this per task. It allows an ACTIVE task one row,
since a list route unassigns only what was assigned under its Dispatch Date. `SlotsOK` (a
schedule has one task per pickup date) is needed because the routes look a task up by
schedule and date and write the one they find. All routes write tasks and assignments in the
same form, so that `WriteRows` reduces each to the tasks it writes. `OneCollectionPerDriverDate`
and `CollectedOnce` follow from what generation asks for. `CheckedRoutesSpare` says, for every
route that asks for collections, which captured tasks it could touch, and that these are none
(`EnsureSpares`, `ApplySpares`, `RouteGroupSpares`, `CreateSpares`, `CollectionsSpare`).

For the threads the invariant is `ThreadsInv`: the rows a request has read stay stored
(`Started`), the orders of outcomes too, and the two promises that only transactions could
break, one sheet per driver and date and one assignment per order, hold whatever is
interleaved (`ThreadsKeepKeys`). Given these, the lemmas about single requests apply to every
transaction, also in states in which another promise is already broken: closing keeps
delivered orders out because it asks for ACTIVE rows, creating because the id was never
stored, and assigning asks for drivers and vehicles that are not deleted. What is left are
the four writes at the end of a request, which repeat no check, and `LateStatementsOnly`
says which of them breaks what.

For the cutover a call threatens a summary if it read a GENERATED one under its number, to
cancel or to replace it. The tool copies only while no process runs, when there are no calls,
and `CopyInv` says that what was copied is saved and threatened by no call. It is kept because
a call that begins later reads GENERATED summaries only, and a SAVED one keeps its number. So
no copy goes stale, and to count rows is enough. That there is a next number is the existence
of a least element above those taken (`NextNumber`).

For the database file `FreshInv` follows start-up through its two commits: a fresh file with
tables is indexed, or between the commits of the process that created it. A repair is right
because its transaction compares the database with the plan (`AppliedRows`, `EarliestRow`) and
because no other plan is made while one is applied, so that its groups are still pickups
(`PlanInv`). Findings of a backfill with one key are one finding, since a pickup in the
summaries of several drivers is never a finding. `SummariesDuplicate` goes by
writer (`StepDuplicates`): requests about a pickup or an order either ask that the task has at
most one row or only take rows away (`PickupRows`, `OrderRows`), a repair leaves other tasks
alone, and the two that are left insert a row that was not there (`BackfillDuplicates`,
`CancelDuplicates`).

For the logbook the invariant is `LogbookInv`; TLC checked it on the run `logbook` before it
was proved. That the logbook tells the tables, or somebody will, is `Backed`: a call *speaks*
of an entity when it still has an entry to write about it and the entry will be written, or
leave it in doubt. An entry is skipped when nothing was there before and nothing is now, so
that what a call read before its transaction decides whether it speaks, and `Backed` needs to
know what that is worth. This is `Current` (what was read before is still there when the
transaction starts, unless another call came in between) and `Chained` (what was read is what
the logbook told, unless somebody speaks of it), from which the chain of entries follows. That
a transaction changes nothing but what its entries are about is `TransactionEntries`, one lemma
per handler of `DeliveryDispatch`.

For the page the invariant is `Inv`. An answer is compared with the session, the route, the
dates and the counter of the page, and each comparison has its conjunct: `Sessions` (boards are
of this session), `Counted` (a counter value belongs to one load, and none is of the future),
`ReadBy` (the newest load, once served, is not older than what a load brought) and `Dated`.
The last is what no comparison says when the board of Trip Summary is stored: the load is
counted, and the date controls are disabled while it runs, so that the newest load has the date
shown. `Fits` says that a number is free for each request, which bounds what answers may make
the page send. `Settled` lists what an answer leaves, for every kind of request and answer.

For the sources of pickups the invariant says which rows a lookup may find: no two locations
have one spelling and none is spelled like another shop (`LocationsOK`), so that a location is
saved at home (`Home`: where its spelling is, or under a free id); templates and pickups stay
with the shop of their ids (`SchedulesOK`, `TasksOK`). `ShopsStayApart` is part of it. It is
preserved by every row of every importer, so that it does not matter where an import stops or
which edits come in between. That of the locations of a shop one at most is spelled unlike its
id (`OneRespelled`) is needed where a spelling is written back to the id it hashes to although
the row there was respelled: no other row can have been given the spelling. `RowsSettled` says
what the preflight establishes for each row, which is why a book that it accepts becomes the
list.

For the vehicle autosave the invariant is `AutosaveInv`; TLC checked it with two and with three
cards before it was proved. All of it but types is `PageInv`, about the state of the page alone:
only the first write of a driver does not wait, and only the last one can be current
(`WritesWait`), so that a first write that is current is alone; an entry is that last write
(`EntryIsLast`); a claim is the draft of its card (`ClaimIsChosen`); and an entry that asks for
what its card claims has no earlier claim before it (`FirstClaimAsks`). None of the
three safety properties is inductive without them: two entries ask for one vehicle as soon as a claim is not
the draft that the loop sends, or a claim gets a place before one that is being saved. Each
operation of the queue has a lemma that it keeps `PageInv`, also while a write is being started
(the parameter `X`), and events are made of these. The retries are a recursive function of the
number of claims looked at; that it exists (`RetriedExists`), and that each of its values keeps
`PageInv` (`RetryInv`), is shown with a least number for which it fails. The order in which
claims are retried is not used: any of them may come first, and at most one of those for one
vehicle gets through.

Only model-checked: liveness under fairness (`CardsComeBack`, `LoadingEnds`), which is out of
the prover's reach.

## 7. Assumptions

`DateAssumption` (dates are the days 1..LastDate, clients send valid dates),
`TripAssumption` (trips are the supported ones), `NullAssumption` (NULL is no id),
`VehicleAssumption` (the empty option and the absence of a draft are no vehicles; there are
finitely many drivers),
`ScheduleAssumption` (regular and on-call schedules are different, a default driver is a
driver), `OpshopDateAssumption`, `OpshopNullAssumption`, `MaintenanceDateAssumption`,
`MaintenanceNullAssumption` and `LegacyNullAssumption` as above, `PageAssumption` (the default date is a date),
`CallsAssumption`, `EntityAssumption` (entries name the kind of what they are about), `LegacyBoundAssumption` (bounds are numbers), `CoarseAssumption` (a
coarse form is its own coarse form), `ListAssumption` (a group is no other list),
`NoneAssumption` (NULL is no value of a column), `FormAssumption`, `BookAssumption` (a workbook
has rows of its own kind, the Regular one finitely many),
`RequestAssumption`, `SavedRowsAssumption`, `SummariesAssumption` (inputs have the shape of their
tables), `TaskTypeAssumption` (the id of a pickup is no order's).

## 8. Plan

1. The OP SHOP task routes statement by statement, beside generation; the weight sheet,
   whose edit reads outside its transaction.
2. The cutover with the application running, once the tool asks for it to be stopped.
3. Connections that are borrowed, busy or closed, shown to implement atomic handlers.
4. History, run sheet, collection and template routes of the page; busy keys.

## 9. Not modelled

PDF parsing, Excel output, suburb distances, most of the rendering: pure functions of stored
data without state of their own. The in-memory repository is a test double. Passwords,
cookies and registration. Creation and editing of drivers and vehicles, which the other parts
do not read back.
