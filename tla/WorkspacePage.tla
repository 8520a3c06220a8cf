--------------------------- MODULE WorkspacePage ---------------------------
(***************************************************************************)
(* One browser page: the account session, the route, its dates, and the    *)
(* requests on the wire.  The server answers them in any order and however *)
(* late; the page must not show an answer to a question that it no longer  *)
(* asks.  Every request carries what the page captured when it was sent.   *)
(*                                                                         *)
(* JavaScript runs one event to the end, promise reactions included: an    *)
(* action is one event of the user, of the server or of the network.  The  *)
(* hashchange event that follows a navigation is part of it.               *)
(*                                                                         *)
(* Boards are known by the revision of the tables they were read at.  The  *)
(* page starts with a restored session; registration is left out.          *)
(***************************************************************************)
EXTENDS Naturals, FiniteSets

CONSTANTS
    Dates,          \* dates the staff works on
    DefaultDate,    \* the one a page opens with
    NoBoard,        \* null, a board that was not loaded
    MaxRequests,    \* bound on the requests the user causes
    MaxWaiting      \* bound on the answers not there when the user goes on

ASSUME PageAssumption == DefaultDate \in Dates /\ {MaxRequests, MaxWaiting} \subseteq Nat

VARIABLES
    page,           \* see Page; requests are the answers it waits for
    revision        \* server: how many writes the tables have seen

vars == <<page, revision>>

OPSHOP_TASK_POOL_ROUTE_VIEWS == {"opshop/task-pool/regular", "opshop/task-pool/oncall"}
DELIVERY_ROUTES == {"delivery/task-pool", "delivery/trip-summary"}
WORKSPACE_ROUTES == {"home"} \cup DELIVERY_ROUTES \cup OPSHOP_TASK_POOL_ROUTE_VIEWS
Boards == {"deliveryBoard", "deliveryTripSummaryBoard", "opshopBoard"}

\* Home, Delivery and OP SHOP each have a request counter and a loading flag.
Workspaces == {"home", "delivery", "opshop"}

getActiveWorkspace(route) ==
    CASE route \in DELIVERY_ROUTES -> "delivery"
      [] route \in OPSHOP_TASK_POOL_ROUTE_VIEWS -> "opshop"
      [] OTHER -> "home"

board_of(route) ==
    CASE route = "delivery/task-pool" -> "deliveryBoard"
      [] route = "delivery/trip-summary" -> "deliveryTripSummaryBoard"
      [] OTHER -> "opshopBoard"

\* The date a route shows: the Dispatch Date, on Trip Summary its own.
date_of(p, route) ==
    IF route = "delivery/trip-summary" THEN p.serviceDate ELSE p.dispatchDate

Kinds == {"login", "logout", "status", "guard_status", "load", "assign", "action"}
NotServed == 0       \* the tables start at revision 1

\* no only tells requests apart that are on the wire together.
Request == [no : Nat, kind : Kinds, session : Nat, route : WORKSPACE_ROUTES,
            dispatchDate : Dates, serviceDate : Dates, version : Nat,
            revision : Nat]
Board == [session : Nat, date : Dates, revision : Nat, by : {"load", "answer"}]
Page == [session : Nat, isLoggedIn : BOOLEAN, isAuthLoading : BOOLEAN,
         route : WORKSPACE_ROUTES, dispatchDate : Dates, serviceDate : Dates,
         boards : [Boards -> Board \cup {NoBoard}],
         loading : [Workspaces -> BOOLEAN], failed : [Workspaces -> BOOLEAN],
         versions : [Workspaces -> Nat], requests : SUBSET Request, asked : 0..MaxRequests,
         switched : BOOLEAN]  \* history: the pickup type, while it was loading

\* Without a session the page holds no board and no workspace is loading.
PageTypeOK ==
    /\ revision \in Nat
    /\ page \in Page
    /\ ~page.isLoggedIn =>
        /\ page.boards = [b \in Boards |-> NoBoard]
        /\ ~page.loading["delivery"] /\ ~page.loading["opshop"]

-----------------------------------------------------------------------------
(* Sending, and what is current. *)

unused(p) == CHOOSE n \in 0..(2 * MaxRequests) : \A r \in p.requests : r.no # n

send(p, kind, route, version) ==
    [p EXCEPT !.requests = @ \cup {[no |-> unused(p), kind |-> kind,
                  session |-> p.session, route |-> route,
                  dispatchDate |-> p.dispatchDate, serviceDate |-> p.serviceDate,
                  version |-> version, revision |-> NotServed]}]

\* Fault: an answer is judged by its route only.
isCurrent_route(p, r) == p.isLoggedIn /\ p.route = r.route

\* Fault: nobody counts the loads.
isCurrent_uncounted(p, r) ==
    p.isLoggedIn /\ p.session = r.session /\ p.route = r.route
    /\ p.dispatchDate = r.dispatchDate

\* Of a load: nothing was changed, and no load was sent, since.
isCurrent(p, r) ==
    /\ p.isLoggedIn
    /\ p.session = r.session
    /\ p.route = r.route
    /\ r.route # "home" => p.dispatchDate = r.dispatchDate
    /\ p.versions[getActiveWorkspace(r.route)] = r.version

\* Trip Summary asks for its own date where it stores the board.
isBoardCurrent(p, r) ==
    /\ isCurrent(p, r)
    /\ r.route = "delivery/trip-summary" => p.serviceDate = r.serviceDate

\* Of a mutation, which no counter knows.
isMutationCurrent(p, r) ==
    /\ p.isLoggedIn
    /\ p.session = r.session
    /\ p.route = r.route
    /\ date_of(p, r.route) = date_of(r, r.route)

loadWorkspaceRoute(p, route) ==
    LET w == getActiveWorkspace(route)
        version == p.versions[w] + 1
    IN  send([p EXCEPT !.versions[w] = version,
                       !.loading[w] = TRUE,
                       !.failed[w] = FALSE,
                       !.switched = @ /\ w # "opshop"],
             IF route = "home" THEN "status" ELSE "load", route, version)

\* A change of the pickup type alone keeps the board that is there.
activateWorkspaceRoute(p, route) ==
    IF /\ p.route \in OPSHOP_TASK_POOL_ROUTE_VIEWS
       /\ route \in OPSHOP_TASK_POOL_ROUTE_VIEWS
       /\ p.boards["opshopBoard"] # NoBoard
    THEN [p EXCEPT !.route = route, !.switched = @ \/ p.loading["opshop"]]
    ELSE loadWorkspaceRoute([p EXCEPT !.route = route], route)

-----------------------------------------------------------------------------
(* Sessions. *)

\* Fault: one board outlives its session.
clear_some_transient_state(p) ==
    [p EXCEPT !.boards = [@ EXCEPT !["deliveryBoard"] = NoBoard,
                                   !["opshopBoard"] = NoBoard],
              !.loading["delivery"] = FALSE, !.loading["opshop"] = FALSE,
              !.failed["delivery"] = FALSE, !.failed["opshop"] = FALSE]

clearAuthenticatedTransientState(p) ==
    [p EXCEPT !.boards = [b \in Boards |-> NoBoard],
              !.loading["delivery"] = FALSE, !.loading["opshop"] = FALSE,
              !.failed["delivery"] = FALSE, !.failed["opshop"] = FALSE]

invalidateAccountSession(p) ==
    clearAuthenticatedTransientState(
        [p EXCEPT !.session = @ + 1, !.isLoggedIn = FALSE])

\* The new session starts at home.
applyLoggedInAccount(p) ==
    activateWorkspaceRoute(
        [p EXCEPT !.session = @ + 1, !.isLoggedIn = TRUE], "home")

-----------------------------------------------------------------------------
(* The user. *)

\* Bounds.  What an answer makes the page send is not counted.
MayAsk == page.asked < MaxRequests /\ Cardinality(page.requests) <= MaxWaiting

ask == [page EXCEPT !.asked = @ + 1]

Content == LET w == getActiveWorkspace(page.route) IN
    /\ page.isLoggedIn
    /\ page.route # "home"
    /\ ~page.loading[w] /\ ~page.failed[w]
    /\ page.boards[board_of(page.route)] # NoBoard

Login ==
    /\ MayAsk
    /\ ~page.isLoggedIn
    /\ ~page.isAuthLoading
    /\ page' = send([ask EXCEPT !.isAuthLoading = TRUE], "login", page.route, 0)
    /\ UNCHANGED revision

Logout ==
    /\ MayAsk
    /\ page.isLoggedIn
    /\ page' = invalidateAccountSession(send(ask, "logout", page.route, 0))
    /\ UNCHANGED revision

Navigate(route) ==
    /\ MayAsk
    /\ page.isLoggedIn
    /\ route # page.route
    /\ page' = activateWorkspaceRoute(ask, route)
    /\ UNCHANGED revision

\* A link or the Back button without a session.
NavigateLoggedOut ==
    /\ ~page.isLoggedIn
    /\ page.route # "home"
    /\ page' = [page EXCEPT !.route = "home"]
    /\ UNCHANGED revision

\* The date controls of the task pools; disabled while loading.
UpdateDispatchDate(date) ==
    /\ MayAsk
    /\ page.isLoggedIn
    /\ page.route \in OPSHOP_TASK_POOL_ROUTE_VIEWS \cup {"delivery/task-pool"}
    /\ ~page.loading[getActiveWorkspace(page.route)]
    /\ date # page.dispatchDate
    /\ page' = loadWorkspaceRoute([ask EXCEPT !.dispatchDate = date], page.route)
    /\ UNCHANGED revision

UpdateServiceDate(date) ==
    /\ MayAsk
    /\ page.isLoggedIn
    /\ page.route = "delivery/trip-summary"
    /\ ~page.loading["delivery"]
    /\ date # page.serviceDate
    /\ page' = loadWorkspaceRoute([ask EXCEPT !.serviceDate = date], page.route)
    /\ UNCHANGED revision

\* A button of the page: an assignment is answered with a board, any other
\* action makes the page load its route again.
Mutate(kind) ==
    /\ MayAsk
    /\ Content
    /\ kind = "assign" => page.route \in DELIVERY_ROUTES
    /\ page' = send(ask, kind, page.route, 0)
    /\ UNCHANGED revision

-----------------------------------------------------------------------------
(* The server. *)

\* Requests that read or write tables are carried out before they are
\* answered.
Serve(r) ==
    /\ r.kind \in {"load", "assign", "action"}
    /\ r.revision = NotServed
    /\ revision' = IF r.kind = "load" THEN revision ELSE revision + 1
    /\ page' = [page EXCEPT !.requests =
                    (@ \ {r}) \cup {[r EXCEPT !.revision = revision']}]

\* What can arrive: refusals before, success after it was carried out, and a
\* broken connection always.
answers_of(r) ==
    CASE r.kind = "login" -> {"ok", "failed"}
      [] r.kind \in {"logout", "status", "guard_status"} ->
            {"ok", "failed", "unauthorized"}
      [] r.revision = NotServed -> {"failed", "conflict", "unauthorized"}
      [] OTHER -> {"ok", "failed"}

-----------------------------------------------------------------------------
(* The network.  p is the page without the request that is answered. *)

\* A conflict closes whatever is open and shows home, with its message.
loadMigrationStatusForHome(p) ==
    LET left == send([p EXCEPT !.route = "home",
                               !.loading = [w \in Workspaces |-> w = "home"]],
                     "guard_status", "home", 0)
    IN  IF p.isLoggedIn /\ p.route # "home"
        THEN activateWorkspaceRoute(left, "home") ELSE left

settle_login(p, r, answer) ==
    LET q == [p EXCEPT !.isAuthLoading = FALSE]
    IN  IF answer = "ok" /\ p.session = r.session
        THEN applyLoggedInAccount(q) ELSE q

settle_status(p, r, answer) ==
    LET q == IF answer = "unauthorized" THEN invalidateAccountSession(p) ELSE p
    IN  IF r.kind = "guard_status" \/ isCurrent(q, r)
        THEN [q EXCEPT !.loading["home"] = FALSE] ELSE q

\* Fault: an error is shown wherever the user has gone.
load_failed_anywhere(p, r) == LET w == getActiveWorkspace(r.route) IN
    [p EXCEPT !.failed[w] = TRUE, !.loading[w] = FALSE]

\* Fault: a load that fails leaves the page loading.
load_failed_unfinished(p, r) == LET w == getActiveWorkspace(r.route) IN
    IF isCurrent(p, r) THEN [p EXCEPT !.failed[w] = TRUE] ELSE p

load_failed(p, r) == LET w == getActiveWorkspace(r.route) IN
    IF isCurrent(p, r)
    THEN [p EXCEPT !.failed[w] = TRUE, !.loading[w] = FALSE] ELSE p

board_read(r, by) == [session |-> r.session, date |-> date_of(r, r.route),
                      revision |-> r.revision, by |-> by]

load_done(p, r) ==
    IF isCurrent(p, r)
    THEN [p EXCEPT !.loading[getActiveWorkspace(r.route)] = FALSE,
                   !.boards[board_of(r.route)] =
                       IF isBoardCurrent(p, r) THEN board_read(r, "load") ELSE @]
    ELSE p

\* A conflict is handled before anyone asks whether the load is current.
settle_load(p, r, answer) ==
    CASE answer = "unauthorized" -> invalidateAccountSession(p)
      [] answer = "conflict" -> loadMigrationStatusForHome(p)
      [] answer = "failed" -> load_failed(p, r)
      [] answer = "ok" -> load_done(p, r)

settle_mutation(p, r, answer) ==
    CASE answer = "unauthorized" -> invalidateAccountSession(p)
      [] answer = "conflict" -> loadMigrationStatusForHome(p)
      [] answer = "ok" /\ isMutationCurrent(p, r) ->
          IF r.kind = "action" THEN loadWorkspaceRoute(p, r.route)
          ELSE [p EXCEPT !.boards[board_of(r.route)] = board_read(r, "answer")]
      [] OTHER -> p

settle(p, r, answer) ==
    CASE r.kind = "load" -> settle_load(p, r, answer)
      [] r.kind \in {"assign", "action"} -> settle_mutation(p, r, answer)
      [] r.kind \in {"status", "guard_status"} -> settle_status(p, r, answer)
      [] r.kind = "login" -> settle_login(p, r, answer)
      [] r.kind = "logout" ->
          IF answer = "unauthorized" THEN invalidateAccountSession(p) ELSE p

Receive(r) ==
    /\ \E answer \in answers_of(r) :
        page' = settle([page EXCEPT !.requests = @ \ {r}], r, answer)
    /\ UNCHANGED revision

-----------------------------------------------------------------------------
Init ==
    /\ revision = 1
    /\ page = activateWorkspaceRoute(
            [session |-> 1, isLoggedIn |-> TRUE, isAuthLoading |-> FALSE,
             route |-> "home", dispatchDate |-> DefaultDate,
             serviceDate |-> DefaultDate,
             boards |-> [b \in Boards |-> NoBoard],
             loading |-> [w \in Workspaces |-> FALSE],
             failed |-> [w \in Workspaces |-> FALSE],
             versions |-> [w \in Workspaces |-> 0],
             requests |-> {}, asked |-> 0, switched |-> FALSE], "home")

User ==
    \/ Login
    \/ Logout
    \/ \E route \in WORKSPACE_ROUTES : Navigate(route)
    \/ NavigateLoggedOut
    \/ \E date \in Dates : UpdateDispatchDate(date) \/ UpdateServiceDate(date)
    \/ \E kind \in {"assign", "action"} : Mutate(kind)

Answered == \E r \in page.requests : Serve(r) \/ Receive(r)

Next == User \/ Answered

\* Every request is answered in the end, if only by a network error.
Spec == Init /\ [][Next]_vars /\ WF_vars(Answered)

-----------------------------------------------------------------------------
(* Properties. *)

\* What the page shows is of the account that is logged in and of the date
\* in its date control.
ScreenIsCurrent == Content =>
    LET board == page.boards[board_of(page.route)] IN
    /\ board.session = page.session
    /\ board.date = date_of(page, page.route)

\* A load never puts an older state of the tables over a newer one that
\* another load brought.  An answer to an assignment can: neither side
\* counts the other.
LoadsNeverRegress == [][\A b \in Boards :
    LET before == page.boards[b]  after == page'.boards[b] IN
    (before # NoBoard /\ after # NoBoard /\ after.revision < before.revision)
        => "answer" \in {before.by, after.by}]_vars

Screen == <<page.isLoggedIn, page.route, page.boards, page.loading, page.failed>>

\* A late answer to a load or an action changes nothing on the page, unless
\* it is a conflict, which always shows home, or the session has ended.
LateAnswersAreDropped == [][\A r \in page.requests :
    (/\ r \notin page'.requests
     /\ r.revision # NotServed
     /\ \/ r.kind = "load" /\ ~(r.version = page.versions[getActiveWorkspace(r.route)]
                               /\ r.session = page.session /\ r.route = page.route)
        \/ /\ r.kind \in {"assign", "action"}
           /\ r.session # page.session \/ r.route # page.route)
    => Screen' = Screen]_vars

\* A page that is loading comes out of it, unless the pickup type was
\* switched meanwhile: nobody is left then to end it.
LoadingEnds == \A w \in Workspaces :
    (/\ page.isLoggedIn /\ getActiveWorkspace(page.route) = w
     /\ page.loading[w] /\ ~page.switched)
    ~> ~(/\ page.isLoggedIn /\ getActiveWorkspace(page.route) = w
         /\ page.loading[w] /\ ~page.switched)
=============================================================================
