------------------------ MODULE DeliveryVehicleQueue ------------------------
(***************************************************************************)
(* Vehicle autosave on the Trip Summary page of one browser, for one       *)
(* delivery date.  Choosing a vehicle on a driver's card is a draft and a  *)
(* claim; a queue entry per driver sends it.  Leaving the page abandons    *)
(* the entries but not the requests on the wire, so per driver the writes  *)
(* also wait for each other ("physical tails").                            *)
(*                                                                         *)
(* JavaScript runs one event to the end, promise reactions included: an    *)
(* action is one event of the user, of the server or of the network.       *)
(***************************************************************************)
EXTENDS Naturals, Sequences, FiniteSets

CONSTANTS
    Drivers,        \* drivers with a card on the page
    Vehicles,       \* vehicles offered by it
    NoVehicle,      \* the empty option, and a driver without a row
    NoDraft,        \* a card on which nothing was chosen since it was saved
    MaxWrites,      \* bound on the writes of a driver that are not settled
    OtherClients    \* whether other browsers change the same date

ASSUME VehicleAssumption ==
    /\ NoVehicle \notin Vehicles
    /\ NoDraft \notin Vehicles \cup {NoVehicle}
    /\ IsFiniteSet(Drivers)
    /\ MaxWrites \in Nat \ {0}
    /\ OtherClients \in BOOLEAN

VARIABLES
    rows,           \* server: the vehicle of each driver on the date
    on_page,        \* delivery/trip-summary of this date is shown
    ui,             \* the state of the page, see Page
    task_board,     \* vehicles of the date in deliveryBoard, the Task Pool's
    reload          \* a board of the date on its way, or NoReload

vars == <<rows, on_page, ui, task_board, reload>>

Selection == Vehicles \cup {NoVehicle}
Board == [Drivers -> Selection]
NoReload == [d \in {} |-> NoVehicle]

\* One physical write: current unless the entry that made it was abandoned.
Write == [current : BOOLEAN, vehicle_id : Selection,
          answer : {"waiting", "sent", "done", "error", "conflict"}]

\* Each card claims one vehicle or none.  Of the sequence numbers of the claims
\* only their order is kept: <<c, d>> when c claimed before d.
Page == [board : Board,
         drafts : [Drivers -> Selection \cup {NoDraft}],
         claims : [Drivers -> Selection],
         earlier : SUBSET (Drivers \X Drivers),
         errors : SUBSET Drivers,
         pending : SUBSET Drivers,
         queues : SUBSET Drivers,
         tails : [Drivers -> Seq(Write)]]

Claimants(u) == {d \in Drivers : u.claims[d] # NoVehicle}

\* Every claim has a sequence number of its own.
ClaimsInOrder(u) ==
    /\ u.earlier \subseteq Claimants(u) \X Claimants(u)
    /\ \A c, d \in Claimants(u) :
          c # d => (<<c, d>> \in u.earlier <=> <<d, c>> \notin u.earlier)
    /\ \A c \in Drivers : <<c, c>> \notin u.earlier
    /\ \A b, c, d \in Drivers :
          <<b, c>> \in u.earlier /\ <<c, d>> \in u.earlier => <<b, d>> \in u.earlier

\* The variables have their types, and the claims of the page an order.
TypeOK ==
    /\ rows \in Board
    /\ on_page \in BOOLEAN
    /\ ui \in Page
    /\ ClaimsInOrder(ui)
    /\ task_board \in Board
    /\ reload \in Board \cup {NoReload}

\* Two drivers never share a vehicle on one date: the server refuses.
Exclusive(board) ==
    \A d, e \in Drivers : (d # e /\ board[d] = board[e]) => board[d] = NoVehicle

-----------------------------------------------------------------------------
(* Drafts, claims and conflicts. *)

\* Fault: only saved vehicles count, claims do not.
saved_conflicts(board, u, d, v) ==
    /\ v # NoVehicle
    /\ \E e \in Drivers \ {d} : board[e] = v

\* Another driver has the vehicle on the board, or claimed it first.
conflicts(board, u, d, v) ==
    /\ v # NoVehicle
    /\ \/ \E e \in Drivers \ {d} : board[e] = v
       \/ /\ board[d] # v
          /\ \E e \in Drivers \ {d} :
                /\ u.claims[e] = v
                /\ u.claims[d] = v => <<e, d>> \in u.earlier

removeDeliveryVehicleDraft(u, d) == [u EXCEPT !.drafts[d] = NoDraft]

removeDeliveryVehicleClaim(u, d) ==
    [u EXCEPT !.claims[d] = NoVehicle,
              !.earlier = {order \in @ : order[1] # d /\ order[2] # d}]

\* A claim of d behind all others.
ClaimLast(u, d, v) ==
    [u EXCEPT !.claims[d] = v,
              !.earlier = {order \in @ : order[1] # d /\ order[2] # d}
                            \cup {<<c, d>> : c \in Claimants(u) \ {d}}]

\* Fault: the empty option is claimed like a vehicle.
claim_any(u, d, v) == IF u.claims[d] = v THEN u ELSE ClaimLast(u, d, v)

\* A new choice goes behind all claims, the same choice keeps its place.
updateDeliveryVehicleClaim(u, d, v) ==
    IF v = NoVehicle THEN removeDeliveryVehicleClaim(u, d)
    ELSE IF u.claims[d] = v THEN u
    ELSE ClaimLast(u, d, v)

\* The choice is saved: no draft, claim or error is left of it.
Saved(u, d) ==
    [removeDeliveryVehicleClaim(removeDeliveryVehicleDraft(u, d), d)
        EXCEPT !.errors = @ \ {d}]

-----------------------------------------------------------------------------
(* Queue entries and physical writes. *)

\* Fault: the card of a failed or finished write stays busy.
SettleBusy(u, d) == [u EXCEPT !.queues = @ \ {d}, !.tails[d] = Tail(@)]

\* The current entry of d returns.  No write can be waiting behind it.
Settle(u, d) == [u EXCEPT !.queues = @ \ {d}, !.pending = @ \ {d},
                          !.tails[d] = Tail(@)]

\* One turn of the loop of d's entry, whose write is first in its tail.
processDeliveryVehicleQueue(u, d) ==
    LET v == u.drafts[d] IN
    IF v = NoDraft \/ conflicts(u.board, u, d, v) THEN Settle(u, d)
    ELSE IF v # NoVehicle /\ u.board[d] = v THEN Settle(Saved(u, d), d)
    ELSE [u EXCEPT !.tails[d][1] = [@ EXCEPT !.vehicle_id = v, !.answer = "sent"]]

\* Fault: the writes of d do not wait for each other.
enqueue_at_once(u, d) ==
    [u EXCEPT !.tails[d] =
        Append(@, [current |-> TRUE, vehicle_id |-> u.drafts[d], answer |-> "sent"])]

\* A write starts at once, or when the writes of d before it are settled.
enqueueDeliveryVehiclePhysicalWrite(u, d) ==
    LET w == [u EXCEPT !.tails[d] =
                 Append(@, [current |-> TRUE, vehicle_id |-> NoVehicle,
                            answer |-> "waiting"])]
    IN  IF Len(w.tails[d]) = 1 THEN processDeliveryVehicleQueue(w, d) ELSE w

queueDeliveryVehicleUpdate(u, d) ==
    IF d \in u.queues THEN u
    ELSE enqueueDeliveryVehiclePhysicalWrite(
             [u EXCEPT !.queues = @ \cup {d}, !.pending = @ \cup {d}], d)

\* The n-th claim that u had is queued if nothing stands against it in w.
RetryClaim(u, excluded, w, n) ==
    LET due == {c \in Claimants(u) :
                  /\ Cardinality({e \in Drivers : <<e, c>> \in u.earlier}) = n - 1
                  /\ c # excluded
                  /\ c \notin w.queues
                  /\ ~conflicts(w.board, w, c, u.claims[c])}
    IN  IF due = {} THEN w
        ELSE queueDeliveryVehicleUpdate(w, CHOOSE c \in due : TRUE)

\* The claims that nothing stands against any more are queued, oldest first.
retryAvailableDeliveryVehicleClaims(u, excluded) ==
    LET retried[n \in 0..Cardinality(Claimants(u))] ==
            IF n = 0 THEN u ELSE RetryClaim(u, excluded, retried[n - 1], n)
    IN  retried[Cardinality(Claimants(u))]

\* The first write is over, and those abandoned while they waited return at once.
AfterWrite(u, d) ==
    LET writes == u.tails[d]
        started == {i \in 2..Len(writes) : writes[i].current}
        next == CHOOSE i \in started : \A j \in started : i <= j
    IN  [u EXCEPT !.tails[d] =
            IF started = {} THEN <<>> ELSE SubSeq(writes, next, Len(writes))]

\* Fault: the current entry is not started.
NextWriteForgotten(u, d) == AfterWrite(u, d)

\* The write of an abandoned entry is over: the current entry that waits for it,
\* if there is one, starts.
NextWrite(u, d) ==
    LET w == AfterWrite(u, d)
    IN  IF w.tails[d] = <<>> THEN w ELSE processDeliveryVehicleQueue(w, d)

clearDeliveryVehicleTransientState(u) ==
    [u EXCEPT !.drafts = [d \in Drivers |-> NoDraft],
              !.claims = [d \in Drivers |-> NoVehicle], !.earlier = {},
              !.errors = {}, !.pending = {}, !.queues = {},
              !.tails = [d \in Drivers |->
                  [i \in DOMAIN u.tails[d] |->
                      [u.tails[d][i] EXCEPT !.current = FALSE]]]]

\* A new board: choices that it already shows are dropped, with the claims
\* that no longer match a choice.
pruneDeliveryVehicleDrafts(u, board) ==
    LET drafts == [d \in Drivers |->
            IF u.drafts[d] = board[d] /\ board[d] # NoVehicle
              THEN NoDraft ELSE u.drafts[d]]
        kept == {d \in Claimants(u) : drafts[d] = u.claims[d]}
    IN  [u EXCEPT !.board = board,
                  !.drafts = drafts,
                  !.claims = [d \in Drivers |-> IF d \in kept THEN @[d] ELSE NoVehicle],
                  !.earlier = @ \cap (kept \X kept),
                  !.pending = @ \cap u.queues]

-----------------------------------------------------------------------------
(* Events of the user. *)

shown(d) == IF ui.drafts[d] = NoDraft THEN ui.board[d] ELSE ui.drafts[d]

\* The select is disabled while the card is pending, and reports changes.
\* This event alone looks at the Task Pool's board.
updateDeliveryVehicleSelection(d, v) ==
    LET w == [updateDeliveryVehicleClaim([ui EXCEPT !.drafts[d] = v], d, v)
                 EXCEPT !.errors = @ \ {d}]
    IN  /\ on_page
        /\ d \notin ui.pending
        /\ v # shown(d)
        /\ Len(ui.tails[d]) < MaxWrites
        /\ ui' = IF conflicts(task_board, w, d, v) THEN w
                 ELSE IF /\ v = NoVehicle
                         /\ task_board[d] = NoVehicle
                         /\ d \notin w.queues
                         /\ w.tails[d] = <<>>
                   THEN retryAvailableDeliveryVehicleClaims(
                            removeDeliveryVehicleDraft(w, d), d)
                   ELSE queueDeliveryVehicleUpdate(w, d)
        /\ UNCHANGED <<rows, on_page, task_board, reload>>

\* Another route, another date, or the end of the session.  A 401 keeps the
\* queue entries until the next route is loaded, but none is current: without
\* a session their answers change nothing, as if they had gone at once.
LeavePage ==
    /\ on_page
    /\ on_page' = FALSE
    /\ ui' = clearDeliveryVehicleTransientState(ui)
    /\ UNCHANGED <<rows, task_board, reload>>

\* The Task Pool's board has the rows stored under its Dispatch Date, which
\* are some of the rows of this delivery date.
TaskPoolBoards ==
    {[d \in Drivers |-> IF d \in S THEN rows[d] ELSE NoVehicle] :
        S \in SUBSET Drivers}

\* The page is shown when its board has been read; before that the Task Pool
\* may have been visited.
ReturnToPage ==
    /\ ~on_page
    /\ reload # NoReload
    /\ on_page' = TRUE
    /\ ui' = pruneDeliveryVehicleDrafts(ui, reload)
    /\ reload' = NoReload
    /\ task_board' \in {task_board} \cup TaskPoolBoards
    /\ UNCHANGED rows

-----------------------------------------------------------------------------
(* Events of the server and of the network. *)

\* The server takes the request, refuses it, or reports that a run sheet
\* locks the driver (409); a request that succeeded may look like a failure.
ServerAnswers(d) ==
    LET v == Head(ui.tails[d]).vehicle_id
        taken == \E e \in Drivers \ {d} : rows[e] = v /\ v # NoVehicle
        Answer(a) == ui' = [ui EXCEPT !.tails[d][1].answer = a]
    IN  /\ ui.tails[d] # <<>>
        /\ Head(ui.tails[d]).answer = "sent"
        /\ \/ /\ ~taken
              /\ rows' = [rows EXCEPT ![d] = v]
              /\ Answer("done") \/ Answer("error")
           \/ /\ Answer("error") \/ Answer("conflict")
              /\ UNCHANGED rows
        /\ UNCHANGED <<on_page, task_board, reload>>

\* The entry goes on after its await.
Resume(u, d, write) ==
    IF write.answer = "done" THEN
        LET w == [u EXCEPT !.board[d] = write.vehicle_id] IN
        IF w.drafts[d] = write.vehicle_id
          THEN Settle(retryAvailableDeliveryVehicleClaims(Saved(w, d), d), d)
          ELSE processDeliveryVehicleQueue(w, d)
    ELSE IF u.drafts[d] = write.vehicle_id
      THEN Settle([u EXCEPT !.errors = @ \cup {d}], d)
      ELSE processDeliveryVehicleQueue(u, d)

\* A conflict sends the user to the home page, like a required migration.
AnswerArrives(d) ==
    LET write == Head(ui.tails[d]) IN
    /\ ui.tails[d] # <<>>
    /\ write.answer \in {"done", "error", "conflict"}
    /\ ui' = IF ~write.current THEN NextWrite(ui, d)
             ELSE IF write.answer = "conflict"
               THEN NextWrite(clearDeliveryVehicleTransientState(ui), d)
               ELSE Resume(ui, d, write)
    /\ on_page' = (on_page /\ ~(write.current /\ write.answer = "conflict"))
    /\ UNCHANGED <<rows, task_board, reload>>

\* The board of the date is read, to show the page or as the answer to
\* another change made on it.
ReadBoard ==
    /\ reload = NoReload
    /\ reload' = rows
    /\ UNCHANGED <<rows, on_page, ui, task_board>>

BoardArrives ==
    /\ reload # NoReload
    /\ ui' = IF on_page THEN pruneDeliveryVehicleDrafts(ui, reload) ELSE ui
    /\ reload' = NoReload
    /\ UNCHANGED <<rows, on_page, task_board>>

\* Another browser selects or clears the vehicle of a driver.
OtherClient(d, v) ==
    /\ OtherClients
    /\ v # rows[d]
    /\ \A e \in Drivers \ {d} : rows[e] = v => v = NoVehicle
    /\ rows' = [rows EXCEPT ![d] = v]
    /\ UNCHANGED <<on_page, ui, task_board, reload>>

-----------------------------------------------------------------------------

Init ==
    /\ rows \in {b \in Board : Exclusive(b)}
    /\ on_page = TRUE
    /\ task_board \in TaskPoolBoards
    /\ reload = NoReload
    /\ ui = [board |-> rows, drafts |-> [d \in Drivers |-> NoDraft],
             claims |-> [d \in Drivers |-> NoVehicle], earlier |-> {},
             errors |-> {}, pending |-> {}, queues |-> {},
             tails |-> [d \in Drivers |-> <<>>]]

UserEvent ==
    \/ \E d \in Drivers, v \in Selection : updateDeliveryVehicleSelection(d, v)
    \/ LeavePage
    \/ ReturnToPage

RequestEvent(d) == ServerAnswers(d) \/ AnswerArrives(d)

Next ==
    \/ UserEvent
    \/ \E d \in Drivers : RequestEvent(d)
    \/ ReadBoard
    \/ BoardArrives
    \/ \E d \in Drivers, v \in Selection : OtherClient(d, v)

Spec == Init /\ [][Next]_vars

\* Every request is answered or fails, and the browser runs its reaction.
FairSpec == Spec /\ \A d \in Drivers : WF_vars(RequestEvent(d))

-----------------------------------------------------------------------------

Unsettled(d) == {i \in DOMAIN ui.tails[d] : ui.tails[d][i].answer # "waiting"}

\* The server never works on two writes of one driver and date, even when the
\* page was left and returned to in between: a newer choice cannot be
\* overtaken by an older one.
OneWriteAtATime ==
    \A d \in Drivers : \A i, j \in Unsettled(d) : i = j

\* A card is disabled exactly while an entry of it is being carried out.
PendingIffQueued ==
    /\ ui.pending = ui.queues
    /\ \A d \in Drivers :
          d \in ui.queues <=> \E i \in DOMAIN ui.tails[d] : ui.tails[d][i].current

\* Of the cards that claim one vehicle only one asks the server for it; who
\* claimed it later waits.
ClaimsTakeTurns ==
    \A v \in Vehicles : \A d, e \in {c \in ui.queues :
            /\ ui.claims[c] = v
            /\ \E i \in DOMAIN ui.tails[c] :
                  /\ ui.tails[c][i].current
                  /\ ui.tails[c][i].answer = "sent"
                  /\ ui.tails[c][i].vehicle_id = v} : d = e

\* A card never stays disabled.
CardsComeBack == \A d \in Drivers : d \in ui.pending ~> d \notin ui.pending

\* Tests of the autosave (tests/test_workspace_frontend_shell.py:2540-2647):
\* the selector saves by itself, and a claim that is released is saved too.  So
\* a choice on a card is being saved, or is marked with the conflict or the
\* error that keeps it from being saved.  The code violates it.
NoSilentDraft ==
    \A d \in Drivers : ui.drafts[d] # NoDraft =>
        \/ d \in ui.pending
        \/ d \in ui.errors
        \/ conflicts(ui.board, ui, d, ui.drafts[d])
=============================================================================
