--------------------------- MODULE OrderLifecycle ---------------------------
(***************************************************************************)
(* What the Delivery workflow promises of every order, whatever tables it  *)
(* is stored in: it waits in a Task Pool, is assigned by hand, is captured *)
(* by a run sheet together with others, and leaves the sheet only when the *)
(* sheet as a whole is cancelled or closed out.  A delivered order and a   *)
(* cancelled one never come back.                                          *)
(***************************************************************************)
CONSTANT Orders

VARIABLE phase    \* ABSENT, POOL, ASSIGNED, CAPTURED, DELIVERED or CANCELLED

Init == phase = [o \in Orders |-> "ABSENT"]

Move(S, from, to) ==
    /\ \A o \in S : phase[o] = from
    /\ phase' = [o \in Orders |-> IF o \in S THEN to ELSE phase[o]]

Create(o)   == Move({o}, "ABSENT", "POOL")
Assign(o)   == Move({o}, "POOL", "ASSIGNED")
Unassign(o) == Move({o}, "ASSIGNED", "POOL")
Withdraw(o) == Move({o}, "POOL", "CANCELLED")

\* A run sheet captures assigned orders, and cancelling it gives them back
\* to the trips they were assigned to.
Capture(S) == Move(S, "ASSIGNED", "CAPTURED")
Release(S) == Move(S, "CAPTURED", "ASSIGNED")

\* Closing a sheet delivers some of its orders and returns the others.
CloseOut(S, D) ==
    /\ \A o \in S : phase[o] = "CAPTURED"
    /\ phase' = [o \in Orders |-> IF o \in D THEN "DELIVERED"
                                  ELSE IF o \in S THEN "POOL" ELSE phase[o]]

Next ==
    \/ \E o \in Orders : Create(o) \/ Assign(o) \/ Unassign(o) \/ Withdraw(o)
    \/ \E S \in SUBSET Orders :
        \/ Capture(S)
        \/ Release(S)
        \/ \E D \in SUBSET S : CloseOut(S, D)

Spec == Init /\ [][Next]_phase
=============================================================================
