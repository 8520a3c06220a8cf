------------------------ MODULE WorkspacePageProofs -------------------------
(***************************************************************************)
(* Proofs about WorkspacePage, for any number of requests, dates and late  *)
(* answers.  The session number, the route, the dates and the counter of a *)
(* workspace are what a page compares to drop an answer; the invariant     *)
(* says what each of them is worth: boards belong to the session, a        *)
(* counter tells the loads of its workspace apart and in order, and a      *)
(* board that is shown has the date of its route.                          *)
(***************************************************************************)
EXTENDS WorkspacePage, FiniteSetTheorems, TLAPS

\* Requests whose answer may make the page send two more.
Heavy == {"load", "assign", "action"}

\* Those of them that are on the wire.
heavy(p) == {r \in p.requests : r.kind \in Heavy}

\* How many numbers the requests on the wire, and what their answers will send,
\* can take.
weight(p) == Cardinality(p.requests) + Cardinality(heavy(p))

\* There is room for them among n numbers.
Fits(p, n) == IsFiniteSet(p.requests) /\ weight(p) <= n

\* Loads of boards on the wire.
loads(p) == {r \in p.requests : r.kind = "load"}

\* A load of the newest version of its workspace.
latest(p, r) == r.version = p.versions[getActiveWorkspace(r.route)]

\* The page has its type, and nothing is left of a session that ended.
Typed(p) ==
    /\ p \in Page
    /\ ~p.isLoggedIn =>
        /\ p.boards = [b \in Boards |-> NoBoard]
        /\ ~p.loading["delivery"] /\ ~p.loading["opshop"]

\* Boards are of the session that is logged in, and a login that is still out
\* belongs to a session that nobody logged in to.
Sessions(p) ==
    /\ \A b \in Boards : p.boards[b] # NoBoard => p.boards[b].session = p.session
    /\ \A r \in p.requests : r.kind = "login" =>
           /\ r.session <= p.session
           /\ r.session = p.session => ~p.isLoggedIn

\* The counter of a workspace tells its loads apart.
Counted(p) ==
    /\ \A r \in loads(p) :
           r.route # "home" /\ r.version <= p.versions[getActiveWorkspace(r.route)]
    /\ \A r, q \in loads(p) :
           (/\ getActiveWorkspace(q.route) = getActiveWorkspace(r.route)
            /\ q.version = r.version) => q = r

\* The newest load of Trip Summary asked for the date in its date control: no
\* counter and no guard says so, the controls are disabled while it loads.
Dated(p) == \A r \in loads(p) :
    r.route = "delivery/trip-summary" /\ latest(p, r) => r.serviceDate = p.serviceDate

\* Nothing shows tables of the future, and the newest load of a board, once
\* served, is not older than the board another load brought.
ReadBy(p, rev) ==
    /\ \A b \in Boards : p.boards[b] # NoBoard => p.boards[b].revision <= rev
    /\ \A r \in p.requests : r.revision <= rev
    /\ \A r \in loads(p) :
           LET board == p.boards[board_of(r.route)] IN
           r.revision # NotServed /\ latest(p, r) /\ board # NoBoard /\ board.by = "load"
               => board.revision <= r.revision

\* A board on the screen is of the date that the route shows.
Shown(p) == LET w == getActiveWorkspace(p.route) IN
    (/\ p.isLoggedIn /\ p.route # "home" /\ ~p.loading[w] /\ ~p.failed[w]
     /\ p.boards[board_of(p.route)] # NoBoard)
    => p.boards[board_of(p.route)].date = date_of(p, p.route)

\* What every answer leaves true, whatever the user did meanwhile.
Sound(p, rev) == Typed(p) /\ Sessions(p) /\ Counted(p) /\ ReadBy(p, rev)

\* The inductive invariant of the page.
Inv ==
    /\ revision \in Nat
    /\ Fits(page, 2 * page.asked + 1)
    /\ Sound(page, revision)
    /\ Dated(page)
    /\ Shown(page)

-----------------------------------------------------------------------------

\* Every route has a workspace and a board.
LEMMA RouteTypes ==
    ASSUME NEW route \in WORKSPACE_ROUTES
    PROVE  /\ getActiveWorkspace(route) \in Workspaces
           /\ board_of(route) \in Boards
           /\ getActiveWorkspace(route) = "home" <=> route = "home"
    BY DEF WORKSPACE_ROUTES, DELIVERY_ROUTES, OPSHOP_TASK_POOL_ROUTE_VIEWS,
           getActiveWorkspace, board_of, Workspaces, Boards

\* A number is free for the next request.
LEMMA UnusedIsFree ==
    ASSUME NEW p, Fits(p, 2 * MaxRequests)
    PROVE  unused(p) \in Nat
<1> DEFINE S == p.requests
           Numbers == {r.no : r \in S}
           N == 2 * MaxRequests
<1>0. MaxRequests \in Nat /\ N \in Nat
    BY PageAssumption
<1>1. IsFiniteSet(S) /\ IsFiniteSet(heavy(p)) /\ Cardinality(S) <= N
    <2>1. IsFiniteSet(S) /\ Cardinality(S) + Cardinality(heavy(p)) <= N
        BY DEF Fits, weight
    <2>2. IsFiniteSet(heavy(p))
        BY <2>1, FS_Subset DEF heavy
    <2>3. Cardinality(S) \in Nat /\ Cardinality(heavy(p)) \in Nat
        BY <2>1, <2>2, FS_CardinalityType
    <2> HIDE DEF S
    <2> QED BY <1>0, <2>1, <2>2, <2>3
<1>2. IsFiniteSet(Numbers) /\ Cardinality(Numbers) <= Cardinality(S)
    <2>1. [r \in S |-> r.no] \in Surjection(S, Numbers)
        BY DEF Surjection
    <2> HIDE DEF S, Numbers
    <2> QED BY <1>1, <2>1, FS_Surjection
<1>3. IsFiniteSet(0..N) /\ Cardinality(0..N) = N + 1
    BY <1>0, FS_Interval
<1>4. PICK n \in 0..N : n \notin Numbers
    <2> SUFFICES ASSUME 0..N \subseteq Numbers PROVE FALSE
        OBVIOUS
    <2>1. Cardinality(0..N) <= Cardinality(Numbers)
        BY <1>2, FS_Subset
    <2>2. Cardinality(Numbers) \in Nat /\ Cardinality(S) \in Nat
        BY <1>1, <1>2, FS_CardinalityType
    <2> HIDE DEF Numbers, S
    <2> QED BY <1>0, <1>1, <1>2, <1>3, <2>1, <2>2
<1>5. \A r \in S : r.no # n
    BY <1>4
<1>6. unused(p) \in 0..N
    BY <1>5 DEF unused
<1> QED BY <1>6, <1>0

\* Room for a weight is room for less.
LEMMA FitsMore ==
    ASSUME NEW p, NEW n \in Int, NEW m \in Int, n <= m, Fits(p, n)
    PROVE  Fits(p, m)
<1>1. IsFiniteSet(p.requests) /\ weight(p) <= n
    BY DEF Fits
<1>2. weight(p) \in Int
    <2>1. IsFiniteSet(heavy(p))
        BY <1>1, FS_Subset DEF heavy
    <2>2. Cardinality(p.requests) \in Nat /\ Cardinality(heavy(p)) \in Nat
        BY <1>1, <2>1, FS_CardinalityType
    <2> QED BY <2>2 DEF weight
<1> QED BY <1>1, <1>2 DEF Fits

\* What is sent carries what the page shows.
LEMMA SendProperties ==
    ASSUME NEW p \in Page, NEW kind \in Kinds, NEW route \in WORKSPACE_ROUTES,
           NEW version \in Nat, Fits(p, 2 * MaxRequests)
    PROVE  \E r \in Request :
              /\ r.kind = kind /\ r.session = p.session /\ r.route = route
              /\ r.dispatchDate = p.dispatchDate
              /\ r.serviceDate = p.serviceDate
              /\ r.version = version /\ r.revision = NotServed
              /\ send(p, kind, route, version)
                     = [p EXCEPT !.requests = @ \cup {r}]
<1> DEFINE r == [no |-> unused(p), kind |-> kind, session |-> p.session,
                 route |-> route, dispatchDate |-> p.dispatchDate,
                 serviceDate |-> p.serviceDate, version |-> version,
                 revision |-> NotServed]
<1>1. unused(p) \in Nat
    BY UnusedIsFree
<1>2. r \in Request
    BY <1>1 DEF Request, Page, NotServed
<1>3. send(p, kind, route, version) = [p EXCEPT !.requests = @ \cup {r}]
    BY DEF send
<1> QED BY <1>2, <1>3

\* A request weighs at most two.
LEMMA AddedWeight ==
    ASSUME NEW p \in Page, NEW q, NEW r \in Request, NEW n \in Int,
           Fits(p, n), q.requests = p.requests \cup {r}
    PROVE  /\ Fits(q, n + 2)
           /\ r.kind \notin Heavy => Fits(q, n + 1)
<1> DEFINE S == p.requests  H == heavy(p)
<1>1. IsFiniteSet(S) /\ IsFiniteSet(H) /\ Cardinality(S) + Cardinality(H) <= n
    <2>1. IsFiniteSet(S) /\ Cardinality(S) + Cardinality(H) <= n
        BY DEF Fits, weight
    <2>2. IsFiniteSet(H)
        BY <2>1, FS_Subset DEF heavy
    <2> QED BY <2>1, <2>2
<1>2. heavy(q) = IF r.kind \in Heavy THEN H \cup {r} ELSE H
    BY DEF heavy
<1> HIDE DEF S, H
<1>3. /\ IsFiniteSet(S \cup {r}) /\ IsFiniteSet(H \cup {r})
      /\ Cardinality(S \cup {r}) <= Cardinality(S) + 1
      /\ Cardinality(H \cup {r}) <= Cardinality(H) + 1
      /\ {Cardinality(S), Cardinality(H), Cardinality(S \cup {r}),
          Cardinality(H \cup {r})} \subseteq Nat
    <2>1. /\ IsFiniteSet(S \cup {r})
          /\ Cardinality(S \cup {r}) = IF r \in S THEN Cardinality(S)
                                       ELSE Cardinality(S) + 1
        BY <1>1, FS_AddElement
    <2>2. /\ IsFiniteSet(H \cup {r})
          /\ Cardinality(H \cup {r}) = IF r \in H THEN Cardinality(H)
                                       ELSE Cardinality(H) + 1
        BY <1>1, FS_AddElement
    <2>3. Cardinality(S) \in Nat /\ Cardinality(H) \in Nat
        BY <1>1, FS_CardinalityType
    <2> QED BY <2>1, <2>2, <2>3
<1>4. weight(q) = Cardinality(S \cup {r}) + Cardinality(heavy(q))
    BY DEF weight, S
<1>5. IsFiniteSet(q.requests)
    BY <1>3 DEF S
<1> QED
    <2>1. CASE r.kind \in Heavy
        BY <1>1, <1>2, <1>3, <1>4, <1>5, <2>1 DEF Fits
    <2>2. CASE r.kind \notin Heavy
        BY <1>1, <1>2, <1>3, <1>4, <1>5, <2>2 DEF Fits
    <2> QED BY <2>1, <2>2

\* Taking the answered request off makes room for what it causes.
LEMMA RemovedWeight ==
    ASSUME NEW p \in Page, NEW q, NEW r \in p.requests, NEW n \in Int,
           Fits(p, n), q.requests = p.requests \ {r}
    PROVE  /\ Fits(q, n - 1)
           /\ r.kind \in Heavy => Fits(q, n - 2)
<1> DEFINE S == p.requests  H == heavy(p)
<1>1. IsFiniteSet(S) /\ IsFiniteSet(H) /\ Cardinality(S) + Cardinality(H) <= n
    <2>1. IsFiniteSet(S) /\ Cardinality(S) + Cardinality(H) <= n
        BY DEF Fits, weight
    <2>2. IsFiniteSet(H)
        BY <2>1, FS_Subset DEF heavy
    <2> QED BY <2>1, <2>2
<1>2. /\ heavy(q) = IF r.kind \in Heavy THEN H \ {r} ELSE H
      /\ r \in S
      /\ r \in H <=> r.kind \in Heavy
    BY DEF heavy
<1> HIDE DEF S, H
<1>3. /\ IsFiniteSet(S \ {r}) /\ Cardinality(S \ {r}) = Cardinality(S) - 1
      /\ IsFiniteSet(H \ {r})
      /\ r \in H => Cardinality(H \ {r}) = Cardinality(H) - 1
      /\ {Cardinality(S), Cardinality(H)} \subseteq Nat
    <2>1. /\ IsFiniteSet(S \ {r})
          /\ Cardinality(S \ {r}) = IF r \in S THEN Cardinality(S) - 1
                                    ELSE Cardinality(S)
        BY <1>1, FS_RemoveElement
    <2>2. /\ IsFiniteSet(H \ {r})
          /\ Cardinality(H \ {r}) = IF r \in H THEN Cardinality(H) - 1
                                    ELSE Cardinality(H)
        BY <1>1, FS_RemoveElement
    <2>3. Cardinality(S) \in Nat /\ Cardinality(H) \in Nat
        BY <1>1, FS_CardinalityType
    <2> QED BY <1>2, <2>1, <2>2, <2>3
<1>4. weight(q) = Cardinality(S \ {r}) + Cardinality(heavy(q))
    BY DEF weight, S
<1>5. IsFiniteSet(q.requests)
    BY <1>3 DEF S
<1> QED
    <2>1. CASE r.kind \in Heavy
        BY <1>1, <1>2, <1>3, <1>4, <1>5, <2>1 DEF Fits
    <2>2. CASE r.kind \notin Heavy
        BY <1>1, <1>2, <1>3, <1>4, <1>5, <2>2 DEF Fits
    <2> QED BY <2>1, <2>2

-----------------------------------------------------------------------------
(* What the page's operators leave. *)

\* A request that is not a load leaves a sound page sound.
LEMMA SendSound ==
    ASSUME NEW p, NEW rev \in Nat, NEW n \in Int, NEW kind \in Kinds \ {"load"},
           NEW route \in WORKSPACE_ROUTES, NEW version \in Nat,
           Sound(p, rev), Fits(p, n), n <= 2 * MaxRequests,
           kind = "login" => ~p.isLoggedIn
    PROVE  LET q == send(p, kind, route, version) IN
           /\ Sound(q, rev)
           /\ Dated(p) => Dated(q)
           /\ Shown(p) => Shown(q)
           /\ Fits(q, n + 2)
           /\ kind \notin Heavy => Fits(q, n + 1)
           /\ q.boards = p.boards /\ q.asked = p.asked
           /\ p.requests \subseteq q.requests
<1> DEFINE q == send(p, kind, route, version)
<1>1. p \in Page
    BY DEF Sound, Typed
<1>2. Fits(p, 2 * MaxRequests)
    <2>1. 2 * MaxRequests \in Int
        BY PageAssumption
    <2> QED BY <2>1, FitsMore
<1>3. PICK r \in Request :
          /\ r.kind = kind /\ r.session = p.session /\ r.revision = NotServed
          /\ q = [p EXCEPT !.requests = @ \cup {r}]
    BY <1>1, <1>2, SendProperties
<1> HIDE DEF q
<1>4. /\ q \in Page /\ q.requests = p.requests \cup {r}
      /\ q.session = p.session /\ q.isLoggedIn = p.isLoggedIn
      /\ q.boards = p.boards /\ q.loading = p.loading /\ q.failed = p.failed
      /\ q.versions = p.versions /\ q.route = p.route
      /\ q.dispatchDate = p.dispatchDate /\ q.serviceDate = p.serviceDate
      /\ q.asked = p.asked
      /\ p.requests \subseteq q.requests
    BY <1>1, <1>3 DEF Page
<1>5. loads(q) = loads(p)
    BY <1>3, <1>4 DEF loads
<1>6. Typed(q)
    BY <1>4 DEF Sound, Typed
<1>7. Sessions(q)
    BY <1>1, <1>3, <1>4 DEF Sound, Sessions, Page
<1>8. Counted(q)
    BY <1>4, <1>5 DEF Sound, Counted
<1>9. ReadBy(q, rev)
    BY <1>3, <1>4, <1>5 DEF Sound, ReadBy, latest, NotServed
<1>10. Dated(p) => Dated(q)
    BY <1>4, <1>5 DEF Dated, latest
<1>11. Shown(p) => Shown(q)
    BY <1>4 DEF Shown, date_of
<1>12. Fits(q, n + 2) /\ (kind \notin Heavy => Fits(q, n + 1))
    BY <1>1, <1>3, <1>4, AddedWeight
<1> QED BY <1>4, <1>6, <1>7, <1>8, <1>9, <1>10, <1>11, <1>12 DEF Sound, q

\* A load is the only one of its number, and the page is loading.
LEMMA LoadSound ==
    ASSUME NEW p, NEW rev \in Nat, NEW n \in Int, NEW route \in WORKSPACE_ROUTES,
           Sound(p, rev), p.isLoggedIn, Fits(p, n), n <= 2 * MaxRequests
    PROVE  LET q == loadWorkspaceRoute(p, route) IN
           /\ Sound(q, rev)
           /\ Dated(p) \/ route \in DELIVERY_ROUTES => Dated(q)
           /\ route = p.route => Shown(q)
           /\ Fits(q, n + 2)
           /\ route = "home" => Fits(q, n + 1)
           /\ q.boards = p.boards /\ q.asked = p.asked
           /\ p.requests \subseteq q.requests
<1> DEFINE w == getActiveWorkspace(route)
           v == p.versions[w] + 1
           m == [p EXCEPT !.versions[w] = v, !.loading[w] = TRUE,
                          !.failed[w] = FALSE, !.switched = @ /\ w # "opshop"]
           kind == IF route = "home" THEN "status" ELSE "load"
           q == loadWorkspaceRoute(p, route)
<1>1. p \in Page /\ w \in Workspaces /\ v \in Nat /\ kind \in Kinds
    BY RouteTypes DEF Sound, Typed, Page, Kinds
<1>2. q = send(m, kind, route, v)
    BY DEF loadWorkspaceRoute
<1>3. /\ m \in Page /\ m.requests = p.requests
      /\ m.session = p.session /\ m.isLoggedIn = p.isLoggedIn
      /\ m.asked = p.asked
      /\ m.boards = p.boards /\ m.route = p.route
      /\ m.dispatchDate = p.dispatchDate /\ m.serviceDate = p.serviceDate
      /\ m.versions = [p.versions EXCEPT ![w] = v]
      /\ m.loading = [p.loading EXCEPT ![w] = TRUE]
    BY <1>1 DEF Page
<1> HIDE DEF m, kind, w, v, q
<1>4. Fits(m, n) /\ Fits(m, 2 * MaxRequests)
    <2>1. Fits(m, n)
        BY <1>3 DEF Fits, weight, heavy
    <2>2. 2 * MaxRequests \in Int
        BY PageAssumption
    <2> QED BY <2>1, <2>2, FitsMore
<1>5. PICK r \in Request :
          /\ r.kind = kind /\ r.session = m.session /\ r.route = route
          /\ r.serviceDate = m.serviceDate
          /\ r.version = v /\ r.revision = NotServed
          /\ q = [m EXCEPT !.requests = @ \cup {r}]
    BY <1>1, <1>2, <1>3, <1>4, SendProperties
<1>6. /\ q \in Page /\ q.requests = p.requests \cup {r}
      /\ q.session = p.session /\ q.isLoggedIn = p.isLoggedIn
      /\ q.boards = p.boards /\ q.route = p.route /\ q.asked = p.asked
      /\ p.requests \subseteq q.requests
      /\ q.dispatchDate = p.dispatchDate /\ q.serviceDate = p.serviceDate
      /\ q.versions = [p.versions EXCEPT ![w] = v]
      /\ q.loading = [p.loading EXCEPT ![w] = TRUE]
    BY <1>3, <1>5 DEF Page
<1>7. kind # "login" /\ (kind = "load" <=> route # "home")
      /\ (route = "home" => kind \notin Heavy)
    BY DEF kind, Heavy
<1>8. loads(q) = IF route = "home" THEN loads(p) ELSE loads(p) \cup {r}
    BY <1>5, <1>6, <1>7 DEF loads
<1>9. p.versions \in [Workspaces -> Nat] /\ \A x \in loads(p) : x \in Request
    BY <1>1 DEF Page, loads
<1>10. \A x \in loads(p) :
          /\ x.route \in WORKSPACE_ROUTES /\ x.version \in Nat
          /\ getActiveWorkspace(x.route) \in Workspaces
    BY <1>9, RouteTypes DEF Request
<1>11. v = p.versions[w] + 1 /\ w = getActiveWorkspace(route)
    BY DEF v, w
<1>12. \A x \in loads(p) : getActiveWorkspace(x.route) = w => x.version < v
    BY <1>1, <1>9, <1>10, <1>11 DEF Sound, Counted
<1>13. \A x \in loads(p) : latest(q, x) => latest(p, x)
    BY <1>1, <1>6, <1>9, <1>10, <1>12 DEF latest
<1>14. Typed(q)
    BY <1>6 DEF Sound, Typed
<1>15. Sessions(q)
    BY <1>1, <1>5, <1>6, <1>7 DEF Sound, Sessions, Page
<1>16. Counted(q)
    <2>1. \A x \in loads(p) : /\ x.route # "home"
                              /\ x.version <= q.versions[getActiveWorkspace(x.route)]
        BY <1>1, <1>6, <1>9, <1>10, <1>11 DEF Sound, Counted
    <2>2. q.versions[w] = v
        BY <1>1, <1>6, <1>9
    <2>3. \A x, y \in loads(q) :
             (/\ getActiveWorkspace(y.route) = getActiveWorkspace(x.route)
              /\ y.version = x.version) => y = x
        <3>1. \A x, y \in loads(p) :
             (/\ getActiveWorkspace(y.route) = getActiveWorkspace(x.route)
              /\ y.version = x.version) => y = x
            BY DEF Sound, Counted
        <3> QED BY <1>1, <1>5, <1>8, <1>10, <1>11, <1>12, <3>1
    <2>4. \A x \in loads(q) : /\ x.route # "home"
                              /\ x.version <= q.versions[getActiveWorkspace(x.route)]
        BY <1>1, <1>5, <1>8, <1>11, <2>1, <2>2
    <2> QED BY <2>3, <2>4 DEF Counted
<1>17. ReadBy(q, rev)
    <2>1. \A b \in Boards : q.boards[b] # NoBoard => q.boards[b].revision <= rev
        BY <1>6 DEF Sound, ReadBy
    <2>2. \A x \in q.requests : x.revision <= rev
        BY <1>5, <1>6 DEF Sound, ReadBy, NotServed
    <2>3. ASSUME NEW x \in loads(q), x.revision # NotServed, latest(q, x),
                 q.boards[board_of(x.route)] # NoBoard,
                 q.boards[board_of(x.route)].by = "load"
          PROVE  q.boards[board_of(x.route)].revision <= x.revision
        <3>1. x \in loads(p) /\ latest(p, x)
            BY <1>5, <1>8, <1>13, <2>3
        <3> QED BY <1>6, <2>3, <3>1 DEF Sound, ReadBy
    <2> QED BY <2>1, <2>2, <2>3 DEF ReadBy
<1>18. Dated(p) \/ route \in DELIVERY_ROUTES => Dated(q)
    <2> SUFFICES ASSUME Dated(p) \/ route \in DELIVERY_ROUTES,
                        NEW x \in loads(q), x.route = "delivery/trip-summary",
                        latest(q, x)
                 PROVE  x.serviceDate = q.serviceDate
        BY DEF Dated
    <2>1. CASE x = r
        BY <1>3, <1>5, <1>6, <2>1
    <2>2. CASE x \in loads(p) /\ Dated(p)
        BY <1>6, <1>13, <2>2 DEF Dated
    <2>3. CASE x \in loads(p) /\ route \in DELIVERY_ROUTES
        <3>1. getActiveWorkspace(x.route) = w
            BY <1>11, <2>3 DEF getActiveWorkspace, DELIVERY_ROUTES,
                              OPSHOP_TASK_POOL_ROUTE_VIEWS
        <3>2. x.version < v /\ x.version = q.versions[w]
            BY <1>12, <2>3, <3>1 DEF latest
        <3> QED BY <1>1, <1>6, <1>9, <1>10, <2>3, <3>2
    <2> QED BY <1>8, <2>1, <2>2, <2>3
<1>19. route = p.route => Shown(q)
    BY <1>1, <1>6, <1>11 DEF Shown, Page
<1>20. Fits(q, n + 2) /\ (route = "home" => Fits(q, n + 1))
    <2>1. m \in Page /\ Fits(m, n) /\ q.requests = m.requests \cup {r}
        BY <1>3, <1>4, <1>6
    <2>2. Fits(q, n + 2) /\ (r.kind \notin Heavy => Fits(q, n + 1))
        BY <2>1, AddedWeight
    <2> QED BY <1>5, <1>7, <2>2
<1> QED BY <1>6, <1>14, <1>15, <1>16, <1>17, <1>18, <1>19, <1>20 DEF Sound, q

\* Going to a route shows its board, or loads it.
LEMMA ActivateSound ==
    ASSUME NEW p, NEW rev \in Nat, NEW n \in Int, NEW route \in WORKSPACE_ROUTES,
           Sound(p, rev), Dated(p), p.isLoggedIn, Fits(p, n), n <= 2 * MaxRequests,
           Shown(p) \/ route = "home"
    PROVE  LET q == activateWorkspaceRoute(p, route) IN
           /\ Sound(q, rev) /\ Dated(q) /\ Shown(q)
           /\ Fits(q, n + 2)
           /\ route = "home" => Fits(q, n + 1)
           /\ q.boards = p.boards /\ q.asked = p.asked
           /\ p.requests \subseteq q.requests
<1> DEFINE q == activateWorkspaceRoute(p, route)
           m == [p EXCEPT !.route = route]
<1>1. p \in Page
    BY DEF Sound, Typed
<1>2. CASE /\ p.route \in OPSHOP_TASK_POOL_ROUTE_VIEWS
           /\ route \in OPSHOP_TASK_POOL_ROUTE_VIEWS
           /\ p.boards["opshopBoard"] # NoBoard
    <2>1. q = [p EXCEPT !.route = route, !.switched = @ \/ p.loading["opshop"]]
        BY <1>2 DEF activateWorkspaceRoute
    <2> HIDE DEF q
    <2>2. /\ q \in Page /\ q.requests = p.requests
          /\ q.session = p.session /\ q.isLoggedIn = p.isLoggedIn
          /\ q.asked = p.asked /\ q.boards = p.boards /\ q.loading = p.loading
          /\ p.requests \subseteq q.requests
          /\ q.failed = p.failed /\ q.versions = p.versions
          /\ q.dispatchDate = p.dispatchDate
          /\ q.serviceDate = p.serviceDate /\ q.route = route
        BY <1>1, <2>1 DEF Page
    <2>3. route # "home"
        BY <1>2 DEF OPSHOP_TASK_POOL_ROUTE_VIEWS
    <2>4. Sound(q, rev) /\ Dated(q)
        BY <2>2 DEF Sound, Typed, Sessions, Counted, ReadBy, loads, latest, Dated
    <2>5. Shown(q)
        BY <1>2, <2>2, <2>3 DEF Shown, date_of, board_of, getActiveWorkspace,
               OPSHOP_TASK_POOL_ROUTE_VIEWS, DELIVERY_ROUTES
    <2>6. Fits(q, n)
        BY <2>2 DEF Fits, weight, heavy
    <2>7. Fits(q, n + 2)
        <3>1. n + 2 \in Int /\ n <= n + 2
            OBVIOUS
        <3> QED BY <2>6, <3>1, FitsMore
    <2> QED BY <2>2, <2>3, <2>4, <2>5, <2>7 DEF q
<1>3. CASE ~(/\ p.route \in OPSHOP_TASK_POOL_ROUTE_VIEWS
             /\ route \in OPSHOP_TASK_POOL_ROUTE_VIEWS
             /\ p.boards["opshopBoard"] # NoBoard)
    <2>1. q = loadWorkspaceRoute(m, route)
        BY <1>3 DEF activateWorkspaceRoute
    <2>2. /\ m \in Page /\ m.requests = p.requests
          /\ m.session = p.session /\ m.isLoggedIn = p.isLoggedIn
          /\ m.asked = p.asked
      /\ m.asked = p.asked
          /\ m.boards = p.boards /\ m.loading = p.loading
          /\ m.versions = p.versions /\ m.serviceDate = p.serviceDate
          /\ m.route = route
        BY <1>1 DEF Page
    <2> HIDE DEF m, q
    <2>3. Sound(m, rev) /\ Dated(m) /\ Fits(m, n)
        BY <2>2 DEF Sound, Typed, Sessions, Counted, ReadBy, loads, latest,
                    Dated, Fits, weight, heavy
    <2>4. /\ Sound(q, rev) /\ Dated(q) /\ Shown(q)
          /\ Fits(q, n + 2) /\ (route = "home" => Fits(q, n + 1))
          /\ q.boards = m.boards /\ q.asked = m.asked
          /\ m.requests \subseteq q.requests
        BY <2>1, <2>2, <2>3, LoadSound
    <2> QED BY <2>2, <2>4 DEF q
<1> QED BY <1>2, <1>3

\* The end of a session leaves nothing of it on the page.
LEMMA InvalidateSound ==
    ASSUME NEW p, NEW rev \in Nat, NEW n \in Int,
           Sound(p, rev), Dated(p), Fits(p, n)
    PROVE  LET q == invalidateAccountSession(p) IN
           /\ Sound(q, rev) /\ Dated(q) /\ Shown(q) /\ Fits(q, n)
           /\ q.boards = [b \in Boards |-> NoBoard] /\ q.asked = p.asked
           /\ p.requests \subseteq q.requests
<1> DEFINE q == invalidateAccountSession(p)
<1>1. p \in Page
    BY DEF Sound, Typed
<1>2. /\ q \in Page /\ q.requests = p.requests /\ q.session = p.session + 1
      /\ ~q.isLoggedIn /\ q.boards = [b \in Boards |-> NoBoard]
      /\ ~q.loading["delivery"] /\ ~q.loading["opshop"]
      /\ q.versions = p.versions /\ q.serviceDate = p.serviceDate
      /\ q.asked = p.asked
      /\ p.requests \subseteq q.requests
    <2> DEFINE s == p.session + 1
               none == [b \in Boards |-> NoBoard]
               loading == [p.loading EXCEPT !["delivery"] = FALSE,
                                            !["opshop"] = FALSE]
               failed == [p.failed EXCEPT !["delivery"] = FALSE,
                                          !["opshop"] = FALSE]
    <2>1. /\ s \in Nat /\ none \in [Boards -> Board \cup {NoBoard}]
          /\ loading \in [Workspaces -> BOOLEAN]
          /\ failed \in [Workspaces -> BOOLEAN]
          /\ ~loading["delivery"] /\ ~loading["opshop"]
        <3>1. /\ p.session \in Nat /\ p.loading \in [Workspaces -> BOOLEAN]
              /\ p.failed \in [Workspaces -> BOOLEAN]
            BY <1>1 DEF Page
        <3>2. s \in Nat /\ none \in [Boards -> Board \cup {NoBoard}]
            BY <3>1
        <3>3. /\ loading \in [Workspaces -> BOOLEAN]
              /\ ~loading["delivery"] /\ ~loading["opshop"]
            BY <3>1 DEF Workspaces
        <3>4. failed \in [Workspaces -> BOOLEAN]
            BY <3>1 DEF Workspaces
        <3> QED BY <3>2, <3>3, <3>4
    <2>2. q = [p EXCEPT !.session = s, !.isLoggedIn = FALSE, !.boards = none,
                        !.loading = loading, !.failed = failed]
        BY <1>1 DEF invalidateAccountSession, clearAuthenticatedTransientState,
                    Page
    <2> HIDE DEF s, none, loading, failed, q
    <2>3. /\ q \in Page /\ q.requests = p.requests /\ q.session = s
          /\ ~q.isLoggedIn /\ q.boards = none /\ q.loading = loading
          /\ q.versions = p.versions /\ q.serviceDate = p.serviceDate
          /\ q.asked = p.asked
          /\ p.requests \subseteq q.requests
        BY <1>1, <2>1, <2>2 DEF Page
    <2> QED BY <2>1, <2>3 DEF s, none
<1> HIDE DEF q
<1>3. Typed(q) /\ Shown(q) /\ Fits(q, n)
    BY <1>2 DEF Typed, Shown, Fits, weight, heavy
<1>4. Sessions(q)
    BY <1>1, <1>2 DEF Sound, Sessions, Page, Request
<1>5. Counted(q) /\ Dated(q)
    BY <1>2 DEF Sound, Counted, Dated, loads, latest
<1>6. ReadBy(q, rev)
    <2>1. \A x \in loads(q) : x.route \in WORKSPACE_ROUTES
        BY <1>2 DEF loads, Page, Request
    <2>2. \A x \in loads(q) : q.boards[board_of(x.route)] = NoBoard
        BY <1>2, <2>1, RouteTypes
    <2> QED BY <1>2, <2>2 DEF Sound, ReadBy
<1> QED BY <1>2, <1>3, <1>4, <1>5, <1>6 DEF Sound, q

\* A new session starts at home, with nothing of the one before it.
LEMMA LoginSound ==
    ASSUME NEW p, NEW rev \in Nat, NEW n \in Int,
           Sound(p, rev), Dated(p), Fits(p, n), n <= 2 * MaxRequests,
           ~p.isLoggedIn
    PROVE  LET q == applyLoggedInAccount(p) IN
           /\ Sound(q, rev) /\ Dated(q) /\ Shown(q) /\ Fits(q, n + 1)
           /\ q.boards = p.boards /\ q.asked = p.asked
           /\ p.requests \subseteq q.requests
<1> DEFINE m == [p EXCEPT !.session = @ + 1, !.isLoggedIn = TRUE]
           q == activateWorkspaceRoute(m, "home")
<1>1. p \in Page /\ p.boards = [b \in Boards |-> NoBoard]
    BY DEF Sound, Typed
<1>2. /\ m \in Page /\ m.requests = p.requests /\ m.session = p.session + 1
      /\ m.isLoggedIn /\ m.boards = p.boards /\ m.loading = p.loading
      /\ m.versions = p.versions /\ m.serviceDate = p.serviceDate
      /\ m.asked = p.asked
    <2> DEFINE s == p.session + 1
    <2>1. s \in Nat /\ m = [p EXCEPT !.session = s, !.isLoggedIn = TRUE]
        BY <1>1 DEF Page
    <2> HIDE DEF s, m
    <2>2. /\ m \in Page /\ m.requests = p.requests /\ m.session = s
          /\ m.isLoggedIn /\ m.boards = p.boards /\ m.loading = p.loading
          /\ m.versions = p.versions /\ m.serviceDate = p.serviceDate
          /\ m.asked = p.asked
        BY <1>1, <2>1 DEF Page
    <2> QED BY <2>2 DEF s
<1> HIDE DEF m
<1>3. Typed(m) /\ Fits(m, n)
    BY <1>2 DEF Typed, Fits, weight, heavy
<1>4. Sessions(m)
    BY <1>1, <1>2 DEF Sound, Sessions, Page, Request
<1>5. Counted(m) /\ Dated(m) /\ ReadBy(m, rev)
    BY <1>2 DEF Sound, Counted, Dated, ReadBy, loads, latest
<1>6. Sound(m, rev) /\ "home" \in WORKSPACE_ROUTES
    BY <1>3, <1>4, <1>5 DEF Sound, WORKSPACE_ROUTES
<1>7. /\ Sound(q, rev) /\ Dated(q) /\ Shown(q) /\ Fits(q, n + 1)
      /\ q.boards = m.boards /\ q.asked = m.asked
      /\ m.requests \subseteq q.requests
    BY <1>2, <1>3, <1>5, <1>6, ActivateSound
<1> QED BY <1>2, <1>7 DEF applyLoggedInAccount, m

\* A conflict shows home, and sends at most two requests that read no tables.
LEMMA ConflictSound ==
    ASSUME NEW p, NEW rev \in Nat, NEW n \in Int,
           Sound(p, rev), Dated(p), Fits(p, n), n + 1 <= 2 * MaxRequests
    PROVE  LET q == loadMigrationStatusForHome(p) IN
           /\ Sound(q, rev) /\ Dated(q) /\ Shown(q) /\ Fits(q, n + 2)
           /\ q.boards = p.boards /\ q.asked = p.asked
           /\ p.requests \subseteq q.requests
<1> DEFINE m == [p EXCEPT !.route = "home",
                          !.loading = [w \in Workspaces |-> w = "home"]]
           left == send(m, "guard_status", "home", 0)
           q == loadMigrationStatusForHome(p)
<1>1. p \in Page /\ "home" \in WORKSPACE_ROUTES /\ MaxRequests \in Nat
    BY PageAssumption DEF Sound, Typed, WORKSPACE_ROUTES
<1>2. /\ m \in Page /\ m.requests = p.requests /\ m.session = p.session
      /\ m.isLoggedIn = p.isLoggedIn /\ m.boards = p.boards
      /\ ~m.loading["delivery"] /\ ~m.loading["opshop"]
      /\ m.versions = p.versions /\ m.serviceDate = p.serviceDate
      /\ m.route = "home" /\ m.asked = p.asked
    BY <1>1 DEF Page, Workspaces
<1>3. q = IF p.isLoggedIn /\ p.route # "home"
          THEN activateWorkspaceRoute(left, "home") ELSE left
    BY DEF loadMigrationStatusForHome
<1> HIDE DEF m, q
<1>4. Sound(m, rev) /\ Dated(m) /\ Shown(m) /\ Fits(m, n)
    BY <1>2 DEF Sound, Typed, Sessions, Counted, ReadBy, Dated, Shown,
                Fits, loads, latest, weight, heavy
<1>5. /\ Sound(left, rev) /\ Dated(left) /\ Shown(left) /\ Fits(left, n + 1)
      /\ left.boards = m.boards /\ left.asked = m.asked
      /\ m.requests \subseteq left.requests
      /\ left.isLoggedIn = m.isLoggedIn
    <2>1. "guard_status" \in Kinds \ {"load"} /\ "guard_status" \notin Heavy
          /\ n <= 2 * MaxRequests
        BY <1>1 DEF Kinds, Heavy
    <2>2. left.isLoggedIn = m.isLoggedIn
        BY <1>2 DEF send, Page
    <2>3. LET s == send(m, "guard_status", "home", 0) IN
          /\ Sound(s, rev) /\ Dated(s) /\ Shown(s) /\ Fits(s, n + 1)
          /\ s.boards = m.boards /\ s.asked = m.asked
          /\ m.requests \subseteq s.requests
        BY <1>1, <1>4, <2>1, SendSound
    <2> QED BY <2>2, <2>3
<1> HIDE DEF left
<1>6. CASE p.isLoggedIn /\ p.route # "home"
    <2>1. q = activateWorkspaceRoute(left, "home") /\ left.isLoggedIn
        BY <1>2, <1>3, <1>5, <1>6
    <2>2. /\ Sound(q, rev) /\ Dated(q) /\ Shown(q) /\ Fits(q, (n + 1) + 1)
          /\ q.boards = left.boards /\ q.asked = left.asked
          /\ left.requests \subseteq q.requests
        BY <1>1, <1>5, <2>1, ActivateSound
    <2> QED BY <1>2, <1>5, <2>2 DEF q
<1>7. CASE ~(p.isLoggedIn /\ p.route # "home")
    <2>1. q = left
        BY <1>3, <1>7
    <2>2. Fits(q, n + 2)
        <3>1. n + 1 \in Int /\ n + 2 \in Int /\ n + 1 <= n + 2
            OBVIOUS
        <3> QED BY <1>5, <2>1, <3>1, FitsMore
    <2> QED BY <1>2, <1>5, <2>1, <2>2 DEF q
<1> QED BY <1>6, <1>7

-----------------------------------------------------------------------------
(* Answers. *)

\* What is known of a request r that was just taken off the page p.
Due(p, r, rev) ==
    /\ r \in Request /\ r.revision <= rev
    /\ r.kind = "login" => (r.session = p.session => ~p.isLoggedIn)
    /\ r.kind = "load" =>
        /\ r.route # "home"
        /\ \A q \in loads(p) :
               ~(/\ getActiveWorkspace(q.route) = getActiveWorkspace(r.route)
                 /\ q.version = r.version)
        /\ r.route = "delivery/trip-summary" /\ latest(p, r) =>
               r.serviceDate = p.serviceDate
        /\ LET board == p.boards[board_of(r.route)] IN
           r.revision # NotServed /\ latest(p, r) /\ board # NoBoard /\ board.by = "load"
               => board.revision <= r.revision

\* A board is kept or cleared, is an answer to an assignment, or was read by
\* the latest load, after the board of another load that it replaces.
BoardsMove(p, q) ==
    \A b \in Boards :
        \/ q.boards[b] \in {p.boards[b], NoBoard}
        \/ q.boards[b].by = "answer"
        \/ p.boards[b] = NoBoard
        \/ p.boards[b].by = "answer"
        \/ p.boards[b].revision <= q.boards[b].revision

\* What an answer does to the page p: the invariant holds of q, boards move
\* forward only, and what is on the wire stays there.
Settled(p, q, rev) ==
    /\ Sound(q, rev) /\ Dated(q) /\ Shown(q)
    /\ Fits(q, 2 * q.asked + 1)
    /\ BoardsMove(p, q)
    /\ p.requests \subseteq q.requests

\* The page without the request that is answered.
LEMMA RemoveDue ==
    ASSUME NEW rev \in Nat, Sound(page, rev), Dated(page), Shown(page),
           Fits(page, 2 * page.asked + 1), NEW r \in page.requests
    PROVE  LET p == [page EXCEPT !.requests = @ \ {r}] IN
           /\ Sound(p, rev) /\ Dated(p) /\ Shown(p) /\ Due(p, r, rev)
           /\ Fits(p, 2 * p.asked)
           /\ r.kind \in Heavy => Fits(p, 2 * p.asked - 1)
           /\ p.requests = page.requests \ {r}
           /\ p = [page EXCEPT !.requests = p.requests]
           /\ p.asked \in 0..MaxRequests
<1> DEFINE p == [page EXCEPT !.requests = @ \ {r}]
<1>1. page \in Page /\ page.asked \in 0..MaxRequests /\ MaxRequests \in Nat
    BY PageAssumption DEF Sound, Typed, Page
<1>2. /\ p \in Page /\ p.requests = page.requests \ {r}
      /\ p.session = page.session /\ p.isLoggedIn = page.isLoggedIn
      /\ p.boards = page.boards /\ p.loading = page.loading
      /\ p.failed = page.failed /\ p.versions = page.versions
      /\ p.serviceDate = page.serviceDate
      /\ p.dispatchDate = page.dispatchDate
      /\ p.route = page.route /\ p.asked = page.asked
      /\ p = [page EXCEPT !.requests = page.requests \ {r}]
    BY <1>1 DEF Page
<1> HIDE DEF p
<1>3. loads(p) = loads(page) \ {r}
    BY <1>2 DEF loads
<1>4. Sound(p, rev)
    <2>1. Typed(p) /\ Sessions(p) /\ Counted(p)
        BY <1>2, <1>3 DEF Sound, Typed, Sessions, Counted
    <2>2. ReadBy(p, rev)
        BY <1>2, <1>3 DEF Sound, ReadBy, latest
    <2> QED BY <2>1, <2>2 DEF Sound
<1>5. Dated(p) /\ Shown(p)
    BY <1>2, <1>3 DEF Dated, Shown, date_of, latest
<1>6. Due(p, r, rev)
    <2>1. r \in Request /\ r.revision <= rev
        BY <1>1 DEF Page, Sound, ReadBy
    <2>2. r.kind = "login" => (r.session = p.session => ~p.isLoggedIn)
        BY <1>2 DEF Sound, Sessions
    <2>3. CASE r.kind = "load"
        <3>1. r \in loads(page)
            BY <2>3 DEF loads
        <3>2. r.route # "home"
            BY <3>1 DEF Sound, Counted
        <3>3. \A q \in loads(p) :
               ~(/\ getActiveWorkspace(q.route) = getActiveWorkspace(r.route)
                 /\ q.version = r.version)
            BY <1>3, <3>1 DEF Sound, Counted
        <3>4. r.route = "delivery/trip-summary" /\ latest(p, r) =>
                  r.serviceDate = p.serviceDate
            BY <1>2, <3>1 DEF Dated, latest
        <3>5. LET board == p.boards[board_of(r.route)] IN
              r.revision # NotServed /\ latest(p, r) /\ board # NoBoard
                  /\ board.by = "load" => board.revision <= r.revision
            BY <1>2, <3>1 DEF Sound, ReadBy, latest
        <3> QED BY <2>1, <2>2, <3>2, <3>3, <3>4, <3>5 DEF Due
    <2> QED BY <2>1, <2>2, <2>3 DEF Due
<1>7. Fits(p, 2 * p.asked) /\ (r.kind \in Heavy => Fits(p, 2 * p.asked - 1))
    <2>1. 2 * page.asked + 1 \in Int
        BY <1>1
    <2>2. /\ Fits(p, (2 * page.asked + 1) - 1)
          /\ r.kind \in Heavy => Fits(p, (2 * page.asked + 1) - 2)
        BY <1>1, <1>2, <2>1, RemovedWeight
    <2>3. /\ (2 * page.asked + 1) - 1 = 2 * p.asked
          /\ (2 * page.asked + 1) - 2 = 2 * p.asked - 1
        BY <1>1, <1>2
    <2> QED BY <2>2, <2>3
<1> QED BY <1>1, <1>2, <1>4, <1>5, <1>6, <1>7 DEF p

\* A refused request that reads or writes tables.
LEMMA RefusedSettled ==
    ASSUME NEW p, NEW rev \in Nat,
           Sound(p, rev), Dated(p), Shown(p), Fits(p, 2 * p.asked - 1)
    PROVE  /\ Settled(p, invalidateAccountSession(p), rev)
           /\ Settled(p, loadMigrationStatusForHome(p), rev)
           /\ Settled(p, p, rev)
<1>1. p \in Page /\ p.asked \in 0..MaxRequests /\ MaxRequests \in Nat
    BY PageAssumption DEF Sound, Typed, Page
<1>2. Fits(p, 2 * p.asked + 1)
    <2>1. /\ 2 * p.asked - 1 \in Int /\ 2 * p.asked + 1 \in Int
          /\ 2 * p.asked - 1 <= 2 * p.asked + 1
        BY <1>1
    <2> QED BY <2>1, FitsMore
<1>3. Settled(p, invalidateAccountSession(p), rev)
    <2> DEFINE q == invalidateAccountSession(p)
    <2>1. 2 * p.asked + 1 \in Int
        BY <1>1
    <2> HIDE DEF q
    <2>2. /\ Sound(q, rev) /\ Dated(q) /\ Shown(q) /\ Fits(q, 2 * p.asked + 1)
          /\ q.boards = [c \in Boards |-> NoBoard] /\ q.asked = p.asked
          /\ p.requests \subseteq q.requests
        BY <1>2, <2>1, InvalidateSound DEF q
    <2> QED BY <2>2 DEF Settled, BoardsMove, q
<1>4. Settled(p, loadMigrationStatusForHome(p), rev)
    <2> DEFINE q == loadMigrationStatusForHome(p)
    <2>1. 2 * p.asked - 1 \in Int /\ (2 * p.asked - 1) + 1 <= 2 * MaxRequests
          /\ (2 * p.asked - 1) + 2 = 2 * p.asked + 1
        BY <1>1
    <2> HIDE DEF q
    <2>2. /\ Sound(q, rev) /\ Dated(q) /\ Shown(q)
          /\ Fits(q, (2 * p.asked - 1) + 2)
          /\ q.boards = p.boards /\ q.asked = p.asked
          /\ p.requests \subseteq q.requests
        BY <2>1, ConflictSound DEF q
    <2> QED BY <2>1, <2>2 DEF Settled, BoardsMove, q
<1>5. Settled(p, p, rev)
    BY <1>2 DEF Settled, BoardsMove
<1> QED BY <1>3, <1>4, <1>5

\* An answered load.
LEMMA LoadSettled ==
    ASSUME NEW p, NEW r, NEW rev \in Nat, NEW answer \in answers_of(r),
           r.kind = "load", Sound(p, rev), Dated(p), Shown(p), Due(p, r, rev),
           Fits(p, 2 * p.asked - 1)
    PROVE  Settled(p, settle_load(p, r, answer), rev)
<1> DEFINE q == settle_load(p, r, answer)
           w == getActiveWorkspace(r.route)
           b == board_of(r.route)
<1>1. /\ p \in Page /\ p.asked \in 0..MaxRequests /\ MaxRequests \in Nat
      /\ r \in Request /\ w \in Workspaces /\ b \in Boards
    BY PageAssumption, RouteTypes DEF Sound, Typed, Page, Due, Request
<1>2. Fits(p, 2 * p.asked + 1)
    <2>1. /\ 2 * p.asked - 1 \in Int /\ 2 * p.asked + 1 \in Int
          /\ 2 * p.asked - 1 <= 2 * p.asked + 1
        BY <1>1
    <2> QED BY <2>1, FitsMore
<1>3. CASE answer = "unauthorized"
    BY <1>3, RefusedSettled DEF settle_load
<1>4. CASE answer = "conflict"
    BY <1>4, RefusedSettled DEF settle_load
<1>5. CASE answer \in {"failed", "ok"} /\ ~isCurrent(p, r)
    <2>1. q = p
        BY <1>5 DEF settle_load, load_failed, load_done
    <2> QED BY <2>1, RefusedSettled
<1>6. CASE answer = "failed" /\ isCurrent(p, r)
    <2>1. q = [p EXCEPT !.failed[w] = TRUE, !.loading[w] = FALSE]
        BY <1>6 DEF settle_load, load_failed
    <2> HIDE DEF q, w, b
    <2>2. /\ q \in Page /\ q.requests = p.requests /\ q.session = p.session
          /\ q.isLoggedIn = p.isLoggedIn /\ q.boards = p.boards
          /\ q.versions = p.versions /\ q.serviceDate = p.serviceDate
          /\ q.route = p.route /\ q.asked = p.asked
          /\ p.requests \subseteq q.requests
          /\ q.failed = [p.failed EXCEPT ![w] = TRUE]
        BY <1>1, <2>1 DEF Page
    <2>3. p.isLoggedIn /\ w = getActiveWorkspace(p.route)
        BY <1>6 DEF isCurrent, w
    <2>4. Sound(q, rev) /\ Dated(q) /\ Fits(q, 2 * p.asked + 1)
        BY <1>2, <2>2, <2>3 DEF Sound, Typed, Sessions, Counted, ReadBy, Dated,
               Fits, loads, latest, weight, heavy
    <2>5. Shown(q)
        BY <1>1, <2>2, <2>3 DEF Shown, Page
    <2> QED BY <2>2, <2>4, <2>5 DEF Settled, BoardsMove, q
<1>7. CASE answer = "ok" /\ isCurrent(p, r)
    <2>1. /\ p.isLoggedIn /\ p.session = r.session /\ p.route = r.route
          /\ p.dispatchDate = r.dispatchDate /\ latest(p, r)
          /\ r.revision # NotServed /\ r.route # "home"
        BY <1>7 DEF isCurrent, latest, answers_of, Due
    <2>2. isBoardCurrent(p, r)
        BY <1>7, <2>1 DEF isBoardCurrent, Due
    <2>3. board_read(r, "load") \in Board
        BY <1>1 DEF board_read, Board, date_of, Request
    <2>4. q = [p EXCEPT !.loading[w] = FALSE, !.boards[b] = board_read(r, "load")]
        BY <1>7, <2>2 DEF settle_load, load_done
    <2> HIDE DEF q, w, b
    <2>5. /\ q \in Page /\ q.requests = p.requests /\ q.session = p.session
          /\ q.isLoggedIn = p.isLoggedIn
          /\ q.boards = [p.boards EXCEPT ![b] = board_read(r, "load")]
          /\ q.versions = p.versions /\ q.serviceDate = p.serviceDate
          /\ q.dispatchDate = p.dispatchDate
          /\ q.route = p.route /\ q.asked = p.asked
          /\ p.requests \subseteq q.requests
          /\ q.failed = p.failed /\ q.loading = [p.loading EXCEPT ![w] = FALSE]
        BY <1>1, <2>3, <2>4 DEF Page
    <2>6. p.boards \in [Boards -> Board \cup {NoBoard}]
        BY <1>1 DEF Page
    <2>7. /\ q.boards[b].session = r.session /\ q.boards[b].by = "load"
          /\ q.boards[b].date = date_of(r, r.route)
          /\ q.boards[b].revision = r.revision
          /\ \A c \in Boards \ {b} : q.boards[c] = p.boards[c]
        BY <1>1, <2>5, <2>6 DEF board_read
    <2>8. Typed(q) /\ Counted(q) /\ Dated(q) /\ Fits(q, 2 * p.asked + 1)
        BY <1>2, <2>1, <2>5 DEF Sound, Typed, Counted, Dated, Fits, loads,
               latest, weight, heavy
    <2>9. Sessions(q)
        BY <2>1, <2>5, <2>7 DEF Sound, Sessions
    <2>10. ReadBy(q, rev)
        <3>1. \A c \in Boards : q.boards[c] # NoBoard => q.boards[c].revision <= rev
            BY <2>7 DEF Sound, ReadBy, Due
        <3>2. \A x \in q.requests : x.revision <= rev
            BY <2>5 DEF Sound, ReadBy
        <3>3. ASSUME NEW x \in loads(q), x.revision # NotServed, latest(q, x),
                     q.boards[board_of(x.route)] # NoBoard,
                     q.boards[board_of(x.route)].by = "load"
              PROVE  q.boards[board_of(x.route)].revision <= x.revision
            <4>1. x \in loads(p) /\ latest(p, x) /\ x.route \in WORKSPACE_ROUTES
                  /\ x.route # "home"
                BY <1>1, <2>5, <3>3
                   DEF loads, latest, Page, Request, Sound, Counted
            <4>0. r.route \in WORKSPACE_ROUTES
                BY <1>1 DEF Request
            <4>2. CASE board_of(x.route) = b
                <5>1. getActiveWorkspace(x.route) = w
                    BY <2>1, <4>0, <4>1, <4>2 DEF board_of, getActiveWorkspace,
                       DELIVERY_ROUTES, OPSHOP_TASK_POOL_ROUTE_VIEWS,
                       WORKSPACE_ROUTES, b, w
                <5> QED BY <2>1, <4>1, <5>1 DEF Due, latest, w
            <4>3. CASE board_of(x.route) # b
                <5>1. q.boards[board_of(x.route)] = p.boards[board_of(x.route)]
                    BY <2>7, <4>1, <4>3, RouteTypes
                <5> QED BY <3>3, <4>1, <5>1 DEF Sound, ReadBy
            <4> QED BY <4>2, <4>3
        <3> QED BY <3>1, <3>2, <3>3 DEF ReadBy
    <2>11. Shown(q)
        BY <2>1, <2>2, <2>5, <2>7 DEF Shown, isBoardCurrent, date_of, b
    <2>12. BoardsMove(p, q)
        <3>1. \/ p.boards[b] = NoBoard \/ p.boards[b].by = "answer"
              \/ p.boards[b].revision <= q.boards[b].revision
            BY <1>1, <2>1, <2>6, <2>7 DEF Due, Board, b
        <3> QED BY <2>7, <3>1 DEF BoardsMove
    <2> QED BY <2>5, <2>8, <2>9, <2>10, <2>11, <2>12 DEF Settled, Sound, q
<1>8. answer \in {"failed", "ok", "conflict", "unauthorized"}
    BY DEF answers_of
<1> QED BY <1>3, <1>4, <1>5, <1>6, <1>7, <1>8

\* An answered assignment or action.
LEMMA MutationSettled ==
    ASSUME NEW p, NEW r, NEW rev \in Nat, NEW answer \in answers_of(r),
           r.kind \in {"assign", "action"},
           Sound(p, rev), Dated(p), Shown(p), Due(p, r, rev),
           Fits(p, 2 * p.asked - 1)
    PROVE  Settled(p, settle_mutation(p, r, answer), rev)
<1> DEFINE q == settle_mutation(p, r, answer)
           b == board_of(r.route)
<1>1. /\ p \in Page /\ p.asked \in 0..MaxRequests /\ MaxRequests \in Nat
      /\ r \in Request /\ r.route \in WORKSPACE_ROUTES /\ b \in Boards
    BY PageAssumption, RouteTypes DEF Sound, Typed, Page, Due, Request
<1>2. Fits(p, 2 * p.asked + 1)
    <2>1. /\ 2 * p.asked - 1 \in Int /\ 2 * p.asked + 1 \in Int
          /\ 2 * p.asked - 1 <= 2 * p.asked + 1
        BY <1>1
    <2> QED BY <2>1, FitsMore
<1>3. CASE answer = "unauthorized"
    BY <1>3, RefusedSettled DEF settle_mutation
<1>4. CASE answer = "conflict"
    BY <1>4, RefusedSettled DEF settle_mutation
<1>5. CASE answer \in {"failed", "ok"} /\ ~(answer = "ok" /\ isMutationCurrent(p, r))
    <2>1. q = p
        BY <1>5 DEF settle_mutation
    <2> QED BY <2>1, RefusedSettled
<1>6. CASE answer = "ok" /\ isMutationCurrent(p, r) /\ r.kind = "action"
    <2>1. q = loadWorkspaceRoute(p, r.route)
        BY <1>6 DEF settle_mutation
    <2>2. p.isLoggedIn /\ r.route = p.route
        BY <1>6 DEF isMutationCurrent
    <2>3. 2 * p.asked - 1 \in Int /\ 2 * p.asked - 1 <= 2 * MaxRequests
          /\ (2 * p.asked - 1) + 2 = 2 * p.asked + 1
        BY <1>1
    <2> HIDE DEF q
    <2>4. /\ Sound(q, rev) /\ Dated(q) /\ Shown(q)
          /\ Fits(q, (2 * p.asked - 1) + 2)
          /\ q.boards = p.boards /\ q.asked = p.asked
          /\ p.requests \subseteq q.requests
        BY <1>1, <2>1, <2>2, <2>3, LoadSound
    <2> QED BY <2>3, <2>4 DEF Settled, BoardsMove, q
<1>7. CASE answer = "ok" /\ isMutationCurrent(p, r) /\ r.kind # "action"
    <2>1. /\ p.isLoggedIn /\ p.session = r.session /\ p.route = r.route
          /\ date_of(p, r.route) = date_of(r, r.route)
        BY <1>7 DEF isMutationCurrent
    <2>2. board_read(r, "answer") \in Board
        BY <1>1 DEF board_read, Board, date_of, Request
    <2>3. q = [p EXCEPT !.boards[b] = board_read(r, "answer")]
        BY <1>7 DEF settle_mutation
    <2> HIDE DEF q, b
    <2>4. /\ q \in Page /\ q.requests = p.requests /\ q.session = p.session
          /\ q.isLoggedIn = p.isLoggedIn
          /\ q.boards = [p.boards EXCEPT ![b] = board_read(r, "answer")]
          /\ q.versions = p.versions /\ q.serviceDate = p.serviceDate
          /\ q.dispatchDate = p.dispatchDate
          /\ q.route = p.route /\ q.asked = p.asked
          /\ p.requests \subseteq q.requests
          /\ q.failed = p.failed /\ q.loading = p.loading
        BY <1>1, <2>2, <2>3 DEF Page
    <2>5. p.boards \in [Boards -> Board \cup {NoBoard}]
        BY <1>1 DEF Page
    <2>6. /\ q.boards[b].session = r.session /\ q.boards[b].by = "answer"
          /\ q.boards[b].date = date_of(r, r.route)
          /\ q.boards[b].revision = r.revision
          /\ \A c \in Boards \ {b} : q.boards[c] = p.boards[c]
        BY <1>1, <2>4, <2>5 DEF board_read
    <2>7. Typed(q) /\ Counted(q) /\ Dated(q) /\ Fits(q, 2 * p.asked + 1)
        BY <1>2, <2>1, <2>4 DEF Sound, Typed, Counted, Dated, Fits, loads,
               latest, weight, heavy
    <2>8. Sessions(q)
        BY <2>1, <2>4, <2>6 DEF Sound, Sessions
    <2>9. ReadBy(q, rev)
        <3>1. \A c \in Boards : q.boards[c] # NoBoard => q.boards[c].revision <= rev
            BY <2>6 DEF Sound, ReadBy, Due
        <3>2. \A x \in q.requests : x.revision <= rev
            BY <2>4 DEF Sound, ReadBy
        <3>3. ASSUME NEW x \in loads(q), x.revision # NotServed, latest(q, x),
                     q.boards[board_of(x.route)] # NoBoard,
                     q.boards[board_of(x.route)].by = "load"
              PROVE  q.boards[board_of(x.route)].revision <= x.revision
            <4>1. x \in loads(p) /\ latest(p, x) /\ x.route \in WORKSPACE_ROUTES
                BY <1>1, <2>4, <3>3 DEF loads, latest, Page, Request
            <4>2. q.boards[board_of(x.route)] = p.boards[board_of(x.route)]
                BY <2>6, <3>3, <4>1, RouteTypes
            <4> QED BY <3>3, <4>1, <4>2 DEF Sound, ReadBy
        <3> QED BY <3>1, <3>2, <3>3 DEF ReadBy
    <2>10. Shown(q)
        BY <2>1, <2>4, <2>6 DEF Shown, date_of, b
    <2>11. BoardsMove(p, q)
        BY <2>6 DEF BoardsMove
    <2> QED BY <2>4, <2>7, <2>8, <2>9, <2>10, <2>11 DEF Settled, Sound, q
<1>8. answer \in {"failed", "ok", "conflict", "unauthorized"}
    BY DEF answers_of
<1> QED BY <1>3, <1>4, <1>5, <1>6, <1>7, <1>8

\* An answer about the session or the migration.
LEMMA AccountSettled ==
    ASSUME NEW p, NEW r, NEW rev \in Nat, NEW answer \in answers_of(r),
           r.kind \in {"login", "logout", "status", "guard_status"},
           Sound(p, rev), Dated(p), Shown(p), Due(p, r, rev),
           Fits(p, 2 * p.asked)
    PROVE  Settled(p, settle(p, r, answer), rev)
<1> DEFINE q == settle(p, r, answer)
           gone == invalidateAccountSession(p)
<1>1. /\ p \in Page /\ p.asked \in 0..MaxRequests /\ MaxRequests \in Nat
      /\ 2 * p.asked \in Int /\ 2 * p.asked <= 2 * MaxRequests
      /\ 2 * p.asked + 1 \in Int /\ 2 * p.asked <= 2 * p.asked + 1
    BY PageAssumption DEF Sound, Typed, Page
<1>2. Fits(p, 2 * p.asked + 1)
    BY <1>1, FitsMore
<1>3. Settled(p, p, rev)
    BY <1>2 DEF Settled, BoardsMove
<1>4. Settled(p, gone, rev)
    <2> HIDE DEF gone
    <2>1. /\ Sound(gone, rev) /\ Dated(gone) /\ Shown(gone)
          /\ Fits(gone, 2 * p.asked + 1)
          /\ gone.boards = [c \in Boards |-> NoBoard] /\ gone.asked = p.asked
          /\ p.requests \subseteq gone.requests
        BY <1>1, <1>2, InvalidateSound DEF gone
    <2> QED BY <2>1 DEF Settled, BoardsMove
<1>5. CASE r.kind = "logout"
    BY <1>3, <1>4, <1>5 DEF settle
<1>6. CASE r.kind \in {"status", "guard_status"}
    <2> DEFINE m == IF answer = "unauthorized" THEN gone ELSE p
               home == [m EXCEPT !.loading["home"] = FALSE]
    <2>1. q \in {m, home}
        BY <1>6 DEF settle, settle_status
    <2>2. Settled(p, m, rev)
        BY <1>3, <1>4
    <2> HIDE DEF m
    <2>3. m \in Page
        BY <2>2 DEF Settled, Sound, Typed
    <2>4. /\ home \in Page /\ home.requests = m.requests
          /\ home.session = m.session /\ home.isLoggedIn = m.isLoggedIn
          /\ home.boards = m.boards /\ home.versions = m.versions
          /\ home.serviceDate = m.serviceDate
          /\ home.dispatchDate = m.dispatchDate
          /\ home.route = m.route /\ home.asked = m.asked
          /\ home.failed = m.failed
          /\ \A w \in Workspaces \ {"home"} : home.loading[w] = m.loading[w]
        BY <2>3 DEF Page, Workspaces
    <2> HIDE DEF home
    <2>5. Typed(home)
        BY <2>2, <2>4 DEF Typed, Settled, Sound, Workspaces
    <2>6. Shown(home)
        <3>1. home.route \in WORKSPACE_ROUTES
            BY <2>4 DEF Page
        <3>2. home.route # "home" =>
                  getActiveWorkspace(home.route) \in Workspaces \ {"home"}
            BY <3>1, RouteTypes
        <3> QED BY <2>2, <2>4, <3>2 DEF Shown, Settled, date_of
    <2>7. Sessions(home) /\ Counted(home) /\ ReadBy(home, rev) /\ Dated(home)
          /\ Fits(home, 2 * home.asked + 1) /\ BoardsMove(p, home)
        BY <2>2, <2>4 DEF Settled, Sound, Sessions, Counted, ReadBy, Dated,
               Fits, loads, latest, weight, heavy, BoardsMove
    <2>8. Settled(p, home, rev)
        BY <2>2, <2>4, <2>5, <2>6, <2>7 DEF Settled, Sound
    <2> QED BY <2>1, <2>2, <2>8
<1>7. CASE r.kind = "login"
    <2> DEFINE m == [p EXCEPT !.isAuthLoading = FALSE]
    <2>1. /\ m \in Page /\ m.requests = p.requests
          /\ m.session = p.session /\ m.isLoggedIn = p.isLoggedIn
          /\ m.boards = p.boards /\ m.versions = p.versions
          /\ m.serviceDate = p.serviceDate /\ m.dispatchDate = p.dispatchDate
          /\ m.route = p.route /\ m.asked = p.asked
          /\ m.failed = p.failed /\ m.loading = p.loading
        BY <1>1 DEF Page
    <2>2. q = IF answer = "ok" /\ p.session = r.session
              THEN applyLoggedInAccount(m) ELSE m
        BY <1>7 DEF settle, settle_login
    <2> HIDE DEF m, q
    <2>3. Sound(m, rev) /\ Dated(m) /\ Shown(m) /\ Fits(m, 2 * p.asked)
        BY <2>1 DEF Sound, Typed, Sessions, Counted, ReadBy, Dated,
               Fits, loads, latest, weight, heavy, Shown, date_of
    <2>4. Fits(m, 2 * p.asked + 1)
        BY <1>1, <2>3, FitsMore
    <2>5. CASE answer = "ok" /\ p.session = r.session
        <3>1. ~m.isLoggedIn
            BY <1>7, <2>1, <2>5 DEF Due
        <3>2. q = applyLoggedInAccount(m)
            BY <2>2, <2>5
        <3>3. /\ Sound(q, rev) /\ Dated(q) /\ Shown(q)
              /\ Fits(q, 2 * p.asked + 1)
              /\ q.boards = m.boards /\ q.asked = m.asked
              /\ m.requests \subseteq q.requests
            BY <1>1, <2>3, <3>1, <3>2, LoginSound
        <3> QED BY <2>1, <3>3 DEF Settled, BoardsMove, q
    <2>6. CASE ~(answer = "ok" /\ p.session = r.session)
        <3>1. q = m
            BY <2>2, <2>6
        <3> QED BY <2>1, <2>3, <2>4, <3>1 DEF Settled, BoardsMove, q
    <2> QED BY <2>5, <2>6
<1> QED BY <1>5, <1>6, <1>7

-----------------------------------------------------------------------------
(* Events. *)

\* The page once the request of an event of the user is counted.
LEMMA AskSound ==
    ASSUME Inv, page.asked < MaxRequests
    PROVE  /\ Sound(ask, revision) /\ Dated(ask) /\ Shown(ask)
           /\ Fits(ask, 2 * ask.asked - 1)
           /\ ask \in Page /\ ask = [page EXCEPT !.asked = page.asked + 1]
           /\ ask.boards = page.boards /\ ask.requests = page.requests
           /\ ask.route = page.route /\ ask.isLoggedIn = page.isLoggedIn
           /\ ask.asked \in 1..MaxRequests
<1>1. page \in Page /\ page.asked \in 0..MaxRequests /\ MaxRequests \in Nat
    BY PageAssumption DEF Inv, Sound, Typed, Page
<1>2. page.asked + 1 \in 1..MaxRequests
    BY <1>1
<1> DEFINE a == page.asked + 1
<1> HIDE DEF a
<1>3. ask = [page EXCEPT !.asked = a] /\ a \in 1..MaxRequests
    BY <1>1, <1>2 DEF ask, a, Page
<1>4. /\ ask \in Page /\ ask.requests = page.requests /\ ask.asked = a
      /\ ask.session = page.session /\ ask.isLoggedIn = page.isLoggedIn
      /\ ask.boards = page.boards /\ ask.versions = page.versions
      /\ ask.serviceDate = page.serviceDate
      /\ ask.dispatchDate = page.dispatchDate
      /\ ask.route = page.route
      /\ ask.failed = page.failed /\ ask.loading = page.loading
    BY <1>1, <1>3 DEF Page
<1>5. Sound(ask, revision) /\ Dated(ask) /\ Shown(ask)
    BY <1>4 DEF Inv, Sound, Typed, Sessions, Counted, ReadBy, Dated,
           loads, latest, Shown, date_of
<1>6. Fits(ask, 2 * page.asked + 1)
    BY <1>4 DEF Inv, Fits, weight, heavy
<1>7. 2 * page.asked + 1 = 2 * ask.asked - 1
    BY <1>1, <1>4 DEF a
<1> QED BY <1>3, <1>4, <1>5, <1>6, <1>7 DEF a

\* What every event of the user leaves.
Done == Inv' /\ BoardsMove(page, page') /\ page.requests \subseteq page'.requests

\* An event of the user keeps the invariant and answers nothing.
LEMMA UserDone ==
    ASSUME Inv, User
    PROVE  Done
<1>1. /\ page \in Page /\ page.route \in WORKSPACE_ROUTES
      /\ revision \in Nat /\ MaxRequests \in Nat
      /\ page.asked \in 0..MaxRequests
    BY PageAssumption DEF Inv, Sound, Typed, Page
<1>2. ASSUME page.asked < MaxRequests, revision' = revision,
             Sound(page', revision), Dated(page'), Shown(page'),
             Fits(page', 2 * ask.asked + 1), page'.boards = page.boards,
             page'.asked = ask.asked, page.requests \subseteq page'.requests
      PROVE  Done
    <2>1. Inv'
        BY <1>1, <1>2 DEF Inv, Sound, Typed, Sessions, Counted, ReadBy, Dated,
           loads, latest, Shown, date_of, Fits, weight, heavy
    <2> QED BY <1>2, <2>1 DEF Done, BoardsMove
<1> DEFINE n == 2 * ask.asked - 1
<1>3. ASSUME page.asked < MaxRequests
      PROVE  /\ n \in Int /\ n <= 2 * MaxRequests /\ n + 2 = 2 * ask.asked + 1
             /\ n + 1 \in Int /\ 2 * ask.asked + 1 \in Int
             /\ n + 1 <= 2 * ask.asked + 1
    BY <1>1, <1>3, AskSound
<1>4. CASE Login
    <2> DEFINE m == [ask EXCEPT !.isAuthLoading = TRUE]
    <2>1. /\ page.asked < MaxRequests /\ revision' = revision
          /\ ~page.isLoggedIn /\ page' = send(m, "login", page.route, 0)
        BY <1>4 DEF Login, MayAsk
    <2>2. ask \in Page /\ Sound(ask, revision) /\ Dated(ask) /\ Shown(ask)
          /\ Fits(ask, n)
        BY <2>1, AskSound
    <2>3. /\ m \in Page /\ m.requests = ask.requests
          /\ m.session = ask.session /\ m.isLoggedIn = ask.isLoggedIn
          /\ m.boards = ask.boards /\ m.versions = ask.versions
          /\ m.serviceDate = ask.serviceDate
          /\ m.dispatchDate = ask.dispatchDate
          /\ m.route = ask.route /\ m.asked = ask.asked
          /\ m.failed = ask.failed /\ m.loading = ask.loading
        BY <2>2 DEF Page
    <2> HIDE DEF m
    <2>4. Sound(m, revision) /\ Dated(m) /\ Shown(m) /\ Fits(m, n)
        BY <2>2, <2>3 DEF Sound, Typed, Sessions, Counted, ReadBy, Dated,
               Fits, loads, latest, weight, heavy, Shown, date_of
    <2>5. "login" \in Kinds \ {"load"} /\ ~m.isLoggedIn
        BY <2>1, <2>3, AskSound DEF Kinds
    <2>6. /\ Sound(page', revision) /\ Dated(page') /\ Shown(page')
          /\ Fits(page', n + 2) /\ page'.boards = m.boards
          /\ page'.asked = m.asked /\ m.requests \subseteq page'.requests
        BY <1>1, <1>3, <2>1, <2>4, <2>5, SendSound
    <2> QED BY <1>2, <1>3, <2>1, <2>3, <2>6, AskSound
<1>5. CASE Logout
    <2> DEFINE m == send(ask, "logout", page.route, 0)
    <2>1. /\ page.asked < MaxRequests /\ revision' = revision
          /\ page' = invalidateAccountSession(m)
        BY <1>5 DEF Logout, MayAsk
    <2>2. "logout" \in Kinds \ {"load"} /\ "logout" \notin Heavy
        BY DEF Kinds, Heavy
    <2>3. Sound(ask, revision) /\ Dated(ask) /\ Shown(ask) /\ Fits(ask, n)
        BY <2>1, AskSound
    <2> HIDE DEF m
    <2>4. /\ Sound(m, revision) /\ Dated(m) /\ Fits(m, n + 1)
          /\ m.asked = ask.asked /\ ask.requests \subseteq m.requests
        BY <1>1, <1>3, <2>1, <2>2, <2>3, SendSound DEF m
    <2>5. Fits(m, 2 * ask.asked + 1)
        BY <1>3, <2>1, <2>4, FitsMore
    <2>6. /\ Sound(page', revision) /\ Dated(page') /\ Shown(page')
          /\ Fits(page', 2 * ask.asked + 1)
          /\ page'.boards = [b \in Boards |-> NoBoard]
          /\ page'.asked = m.asked /\ m.requests \subseteq page'.requests
        BY <1>1, <1>3, <2>1, <2>4, <2>5, InvalidateSound
    <2>7. Inv'
        BY <1>1, <2>1, <2>4, <2>6 DEF Inv, Sound, Typed, Sessions, Counted,
           ReadBy, Dated, loads, latest, Shown, date_of, Fits, weight, heavy
    <2> QED BY <2>1, <2>4, <2>6, <2>7, AskSound DEF Done, BoardsMove
<1>6. ASSUME NEW route \in WORKSPACE_ROUTES, Navigate(route)
      PROVE  Done
    <2>1. /\ page.asked < MaxRequests /\ revision' = revision /\ page.isLoggedIn
          /\ page' = activateWorkspaceRoute(ask, route)
        BY <1>6 DEF Navigate, MayAsk
    <2>2. /\ Sound(ask, revision) /\ Dated(ask) /\ Shown(ask) /\ Fits(ask, n)
          /\ ask.isLoggedIn
        BY <2>1, AskSound
    <2>3. /\ Sound(page', revision) /\ Dated(page') /\ Shown(page')
          /\ Fits(page', n + 2) /\ page'.boards = ask.boards
          /\ page'.asked = ask.asked /\ ask.requests \subseteq page'.requests
        BY <1>1, <1>3, <2>1, <2>2, ActivateSound
    <2> QED BY <1>2, <1>3, <2>1, <2>3, AskSound
<1>7. CASE NavigateLoggedOut
    <2>1. /\ ~page.isLoggedIn /\ revision' = revision
          /\ page' = [page EXCEPT !.route = "home"]
        BY <1>7 DEF NavigateLoggedOut
    <2>2. /\ page' \in Page /\ page'.requests = page.requests
          /\ page'.session = page.session /\ page'.isLoggedIn = page.isLoggedIn
          /\ page'.boards = page.boards /\ page'.versions = page.versions
          /\ page'.serviceDate = page.serviceDate
          /\ page'.loading = page.loading /\ page'.asked = page.asked
        BY <1>1, <2>1 DEF Page, WORKSPACE_ROUTES
    <2>3. Inv'
        BY <2>1, <2>2 DEF Inv, Sound, Typed, Sessions, Counted,
           ReadBy, Dated, loads, latest, Shown, Fits, weight, heavy
    <2> QED BY <2>2, <2>3 DEF Done, BoardsMove
<1>8. ASSUME NEW date \in Dates, UpdateDispatchDate(date)
      PROVE  Done
    <2> DEFINE m == [ask EXCEPT !.dispatchDate = date]
    <2>1. /\ page.asked < MaxRequests /\ revision' = revision /\ page.isLoggedIn
          /\ page' = loadWorkspaceRoute(m, page.route)
        BY <1>8 DEF UpdateDispatchDate, MayAsk
    <2>2. ask \in Page /\ Sound(ask, revision) /\ Dated(ask) /\ Fits(ask, n)
          /\ ask.route = page.route /\ ask.isLoggedIn
        BY <2>1, AskSound
    <2>3. /\ m \in Page /\ m.requests = ask.requests
          /\ m.session = ask.session /\ m.isLoggedIn = ask.isLoggedIn
          /\ m.boards = ask.boards /\ m.versions = ask.versions
          /\ m.serviceDate = ask.serviceDate /\ m.loading = ask.loading
          /\ m.route = ask.route /\ m.asked = ask.asked
        BY <2>2 DEF Page
    <2> HIDE DEF m
    <2>4. Sound(m, revision) /\ Dated(m) /\ Fits(m, n)
        BY <2>2, <2>3 DEF Sound, Typed, Sessions, Counted, ReadBy, Dated,
               Fits, loads, latest, weight, heavy
    <2>5. /\ Sound(page', revision) /\ Dated(page') /\ Shown(page')
          /\ Fits(page', n + 2) /\ page'.boards = m.boards
          /\ page'.asked = m.asked /\ m.requests \subseteq page'.requests
        BY <1>1, <1>3, <2>1, <2>2, <2>3, <2>4, LoadSound
    <2> QED BY <1>2, <1>3, <2>1, <2>3, <2>5, AskSound
<1>9. ASSUME NEW date \in Dates, UpdateServiceDate(date)
      PROVE  Done
    <2> DEFINE m == [ask EXCEPT !.serviceDate = date]
    <2>1. /\ page.asked < MaxRequests /\ revision' = revision /\ page.isLoggedIn
          /\ page' = loadWorkspaceRoute(m, page.route)
          /\ page.route \in DELIVERY_ROUTES
        BY <1>9 DEF UpdateServiceDate, MayAsk, DELIVERY_ROUTES
    <2>2. ask \in Page /\ Sound(ask, revision) /\ Fits(ask, n)
          /\ ask.route = page.route /\ ask.isLoggedIn
        BY <2>1, AskSound
    <2>3. /\ m \in Page /\ m.requests = ask.requests
          /\ m.session = ask.session /\ m.isLoggedIn = ask.isLoggedIn
          /\ m.boards = ask.boards /\ m.versions = ask.versions
          /\ m.loading = ask.loading
          /\ m.route = ask.route /\ m.asked = ask.asked
        BY <2>2 DEF Page
    <2> HIDE DEF m
    <2>4. Sound(m, revision) /\ Fits(m, n)
        BY <2>2, <2>3 DEF Sound, Typed, Sessions, Counted, ReadBy,
               Fits, loads, latest, weight, heavy
    <2>5. /\ Sound(page', revision) /\ Dated(page') /\ Shown(page')
          /\ Fits(page', n + 2) /\ page'.boards = m.boards
          /\ page'.asked = m.asked /\ m.requests \subseteq page'.requests
        BY <1>1, <1>3, <2>1, <2>2, <2>3, <2>4, LoadSound
    <2> QED BY <1>2, <1>3, <2>1, <2>3, <2>5, AskSound
<1>10. ASSUME NEW kind \in {"assign", "action"}, Mutate(kind)
       PROVE  Done
    <2>1. /\ page.asked < MaxRequests /\ revision' = revision
          /\ page' = send(ask, kind, page.route, 0)
        BY <1>10 DEF Mutate, MayAsk
    <2>2. kind \in Kinds \ {"load"} /\ kind # "login"
        BY DEF Kinds
    <2>3. Sound(ask, revision) /\ Dated(ask) /\ Shown(ask) /\ Fits(ask, n)
        BY <2>1, AskSound
    <2>4. /\ Sound(page', revision) /\ Dated(page') /\ Shown(page')
          /\ Fits(page', n + 2) /\ page'.boards = ask.boards
          /\ page'.asked = ask.asked /\ ask.requests \subseteq page'.requests
        BY <1>1, <1>3, <2>1, <2>2, <2>3, SendSound
    <2> QED BY <1>2, <1>3, <2>1, <2>4, AskSound
<1> QED BY <1>4, <1>5, <1>6, <1>7, <1>8, <1>9, <1>10 DEF User

\* The server carries a request out: what it read is the newest there is.
LEMMA ServeDone ==
    ASSUME Inv, NEW r \in page.requests, Serve(r)
    PROVE  /\ Inv' /\ BoardsMove(page, page')
           /\ page.requests \ {r} \subseteq page'.requests
           /\ r.revision = NotServed
<1> DEFINE p == [page EXCEPT !.requests = @ \ {r}]
           x == [r EXCEPT !.revision = revision']
<1>1. /\ page \in Page /\ page.asked \in 0..MaxRequests /\ MaxRequests \in Nat
      /\ revision \in Nat /\ r \in Request
      /\ 2 * page.asked - 1 \in Int
      /\ (2 * page.asked - 1) + 2 = 2 * page.asked + 1
    BY PageAssumption DEF Inv, Sound, Typed, Page
<1>2. /\ r.kind \in Heavy /\ r.revision = NotServed
      /\ revision' \in Nat /\ revision <= revision'
      /\ page' = [page EXCEPT !.requests = (@ \ {r}) \cup {x}]
    BY <1>1 DEF Serve, Heavy
<1>3. /\ x \in Request /\ x.kind = r.kind /\ x.session = r.session
      /\ x.route = r.route /\ x.version = r.version
      /\ x.serviceDate = r.serviceDate /\ x.revision = revision'
    BY <1>1, <1>2 DEF Request
<1> HIDE DEF x
<1>4. /\ Sound(p, revision) /\ Dated(p) /\ Shown(p) /\ Due(p, r, revision)
      /\ Fits(p, 2 * p.asked - 1)
      /\ p.requests = page.requests \ {r}
      /\ p = [page EXCEPT !.requests = p.requests]
    BY <1>1, <1>2, RemoveDue DEF Inv
<1> HIDE DEF p
<1>5. /\ page' \in Page /\ page'.requests = p.requests \cup {x}
      /\ page'.session = p.session /\ page'.isLoggedIn = p.isLoggedIn
      /\ page'.boards = p.boards /\ page'.versions = p.versions
      /\ page'.serviceDate = p.serviceDate
      /\ page'.dispatchDate = p.dispatchDate
      /\ page'.loading = p.loading /\ page'.failed = p.failed
      /\ page'.asked = p.asked /\ page'.route = p.route
      /\ p.boards = page.boards /\ p.asked = page.asked /\ p \in Page
    <2> DEFINE without == page.requests \ {r}
               with == without \cup {x}
    <2>1. /\ without \in SUBSET Request /\ with \in SUBSET Request
          /\ page' = [page EXCEPT !.requests = with]
          /\ p = [page EXCEPT !.requests = without]
          /\ p.requests = without
        BY <1>1, <1>2, <1>3, <1>4 DEF Page
    <2>2. with = without \cup {x}
        OBVIOUS
    <2> HIDE DEF with, without
    <2> QED BY <1>1, <2>1, <2>2 DEF Page
<1>6. loads(page') = IF r.kind = "load" THEN loads(p) \cup {x} ELSE loads(p)
    BY <1>3, <1>5 DEF loads
<1>7. Fits(page', 2 * page'.asked + 1)
    <2>1. Fits(page', (2 * page.asked - 1) + 2)
        BY <1>1, <1>3, <1>4, <1>5, AddedWeight
    <2> QED BY <1>1, <1>5, <2>1
<1>8. Typed(page') /\ Shown(page')
    BY <1>4, <1>5 DEF Sound, Typed, Shown, date_of
<1>9. Sessions(page')
    BY <1>2, <1>3, <1>4, <1>5 DEF Sound, Sessions, Heavy
<1>10. CASE r.kind = "load"
    <2>1. \A q \in loads(p) :
               ~(/\ getActiveWorkspace(q.route) = getActiveWorkspace(x.route)
                 /\ q.version = x.version)
        BY <1>3, <1>4, <1>10 DEF Due
    <2>2. Counted(page')
        <3>1. x.route # "home"
            BY <1>3, <1>4, <1>10 DEF Due
        <3>2. x.version <= page'.versions[getActiveWorkspace(x.route)]
            <4>1. r \in loads(page)
                BY <1>10 DEF loads
            <4>2. page'.versions = page.versions
                BY <1>1, <1>2 DEF Page
            <4> QED BY <1>3, <4>1, <4>2 DEF Inv, Sound, Counted
        <3>3. \A y, z \in loads(page') :
               (/\ getActiveWorkspace(z.route) = getActiveWorkspace(y.route)
                /\ z.version = y.version) => z = y
            <4>1. loads(page') = loads(p) \cup {x}
                BY <1>6, <1>10
            <4> QED BY <1>4, <2>1, <4>1 DEF Sound, Counted
        <3> QED BY <1>4, <1>5, <1>6, <1>10, <3>1, <3>2, <3>3 DEF Sound, Counted
    <2>3. ReadBy(page', revision')
        <3>1. \A b \in Boards : page'.boards[b] # NoBoard =>
                  /\ page'.boards[b].revision <= revision
                  /\ page'.boards[b].revision <= revision'
            BY <1>1, <1>2, <1>4, <1>5 DEF Sound, ReadBy, Page, Board
        <3>2. \A y \in page'.requests : y.revision <= revision'
            BY <1>1, <1>2, <1>3, <1>4, <1>5 DEF Sound, ReadBy, Page, Request
        <3>3. ASSUME NEW y \in loads(page'), y.revision # NotServed,
                     latest(page', y),
                     page'.boards[board_of(y.route)] # NoBoard,
                     page'.boards[board_of(y.route)].by = "load"
              PROVE  page'.boards[board_of(y.route)].revision <= y.revision
            <4>1. CASE y = x
                <5>1. board_of(y.route) \in Boards
                    BY <1>3, <4>1, RouteTypes DEF Request
                <5> QED BY <1>3, <3>1, <3>3, <4>1, <5>1
            <4>2. CASE y \in loads(p)
                <5>1. latest(p, y)
                    BY <1>5, <3>3 DEF latest
                <5> QED BY <1>4, <1>5, <3>3, <4>2, <5>1 DEF Sound, ReadBy
            <4> QED BY <1>6, <4>1, <4>2
        <3> QED BY <3>1, <3>2, <3>3 DEF ReadBy
    <2>4. Dated(page')
        BY <1>3, <1>4, <1>5, <1>6, <1>10 DEF Dated, Due, latest
    <2> QED BY <1>2, <1>4, <1>5, <1>7, <1>8, <1>9, <2>2, <2>3, <2>4
            DEF Inv, Sound, BoardsMove
<1>11. CASE r.kind # "load"
    <2>1. Counted(page') /\ Dated(page')
        BY <1>4, <1>5, <1>6, <1>11 DEF Sound, Counted, Dated, latest
    <2>2. ReadBy(page', revision')
        <3>1. \A b \in Boards : page'.boards[b] # NoBoard =>
                  page'.boards[b].revision <= revision'
            BY <1>1, <1>2, <1>4, <1>5 DEF Sound, ReadBy, Page, Board
        <3>2. \A y \in page'.requests : y.revision <= revision'
            BY <1>1, <1>2, <1>3, <1>4, <1>5 DEF Sound, ReadBy, Page, Request
        <3> QED BY <1>4, <1>5, <1>6, <1>11, <3>1, <3>2
                DEF Sound, ReadBy, latest
    <2> QED BY <1>2, <1>4, <1>5, <1>7, <1>8, <1>9, <2>1, <2>2
            DEF Inv, Sound, BoardsMove
<1> QED BY <1>10, <1>11

\* An answer keeps the invariant and takes only its own request off the wire.
LEMMA ReceiveDone ==
    ASSUME Inv, NEW r \in page.requests, Receive(r)
    PROVE  /\ Inv' /\ BoardsMove(page, page')
           /\ page.requests \ {r} \subseteq page'.requests
<1> DEFINE p == [page EXCEPT !.requests = @ \ {r}]
<1>1. PICK answer \in answers_of(r) : page' = settle(p, r, answer)
    BY DEF Receive
<1>2. revision' = revision /\ revision \in Nat /\ page \in Page
    BY DEF Receive, Inv, Sound, Typed
<1>3. /\ Sound(p, revision) /\ Dated(p) /\ Shown(p) /\ Due(p, r, revision)
      /\ Fits(p, 2 * p.asked)
      /\ r.kind \in Heavy => Fits(p, 2 * p.asked - 1)
      /\ p.requests = page.requests \ {r}
      /\ r.kind \in Kinds
    <2>1. r.kind \in Kinds
        BY <1>2 DEF Page, Request
    <2> QED BY <1>2, <2>1, RemoveDue DEF Inv
<1>4. p.boards = page.boards
    BY <1>2 DEF Page
<1> HIDE DEF p
<1>5. Settled(p, page', revision)
    <2>1. CASE r.kind = "load"
        <3>1. page' = settle_load(p, r, answer)
            BY <1>1, <2>1 DEF settle
        <3> QED BY <1>2, <1>3, <2>1, <3>1, LoadSettled DEF Heavy
    <2>2. CASE r.kind \in {"assign", "action"}
        <3>1. page' = settle_mutation(p, r, answer)
            BY <1>1, <2>2 DEF settle
        <3> QED BY <1>2, <1>3, <2>2, <3>1, MutationSettled DEF Heavy
    <2>3. CASE r.kind \in {"login", "logout", "status", "guard_status"}
        BY <1>1, <1>2, <1>3, <2>3, AccountSettled
    <2> QED BY <1>3, <2>1, <2>2, <2>3 DEF Kinds
<1>6. Inv'
    BY <1>2, <1>5 DEF Settled, Inv, Sound, Typed, Sessions, Counted, ReadBy,
       Dated, loads, latest, Shown, date_of, Fits, weight, heavy
<1> QED BY <1>3, <1>4, <1>5, <1>6 DEF Settled, BoardsMove

\* The page that opens satisfies the invariant.
LEMMA InitInv == Init => Inv
<1> SUFFICES ASSUME Init PROVE Inv
    OBVIOUS
<1> DEFINE p == [session |-> 1, isLoggedIn |-> TRUE, isAuthLoading |-> FALSE,
                 route |-> "home", dispatchDate |-> DefaultDate,
                 serviceDate |-> DefaultDate,
                 boards |-> [b \in Boards |-> NoBoard],
                 loading |-> [w \in Workspaces |-> FALSE],
                 failed |-> [w \in Workspaces |-> FALSE],
                 versions |-> [w \in Workspaces |-> 0],
                 requests |-> {}, asked |-> 0, switched |-> FALSE]
<1>1. revision = 1 /\ page = activateWorkspaceRoute(p, "home")
    BY DEF Init
<1>2. MaxRequests \in Nat /\ DefaultDate \in Dates /\ "home" \in WORKSPACE_ROUTES
    BY PageAssumption DEF WORKSPACE_ROUTES
<1>3. p \in Page /\ p.isLoggedIn
    BY <1>2 DEF Page
<1>4. Sound(p, 1) /\ Dated(p)
    <2>1. loads(p) = {}
        BY DEF loads
    <2> QED BY <1>3, <2>1 DEF Sound, Typed, Sessions, Counted, ReadBy, Dated
<1>5. Fits(p, 0) /\ p.asked = 0
    <2>1. heavy(p) = {} /\ p.requests = {}
        BY DEF heavy
    <2> HIDE DEF p
    <2>2. weight(p) = 0
        BY <2>1, FS_EmptySet DEF weight
    <2>3. p.asked = 0
        BY DEF p
    <2> QED BY <2>1, <2>2, <2>3, FS_EmptySet DEF Fits
<1> HIDE DEF p
<1>6. /\ Sound(page, 1) /\ Dated(page) /\ Shown(page) /\ Fits(page, 0 + 1)
      /\ page.asked = 0
    <2>1. 0 \in Int /\ 1 \in Nat /\ 0 <= 2 * MaxRequests
        BY <1>2
    <2> QED BY <1>1, <1>2, <1>3, <1>4, <1>5, <2>1, ActivateSound
<1>7. 2 * page.asked + 1 = 0 + 1
    BY <1>6
<1> QED BY <1>1, <1>6, <1>7 DEF Inv

\* So does what every step leaves, and boards move forward only.
LEMMA NextDone == Inv /\ [Next]_vars => Inv' /\ BoardsMove(page, page')
<1> SUFFICES ASSUME Inv, [Next]_vars PROVE Inv' /\ BoardsMove(page, page')
    OBVIOUS
<1>1. CASE User
    BY <1>1, UserDone DEF Done
<1>2. CASE Answered
    BY <1>2, ServeDone, ReceiveDone DEF Answered
<1>3. CASE UNCHANGED vars
    BY <1>3 DEF vars, Inv, Sound, Typed, Sessions, Counted, ReadBy,
       Dated, loads, latest, Shown, date_of, Fits, weight, heavy, BoardsMove
<1> QED BY <1>1, <1>2, <1>3 DEF Next

\* The inductive invariant: requests fit their numbers, boards and logins
\* belong to sessions, loads are told apart by their counter, and no answer is
\* older than what a later load has shown.
THEOREM PageInvariant == Spec => []Inv
<1>1. Init => Inv
    BY InitInv
<1>2. Inv /\ [Next]_vars => Inv'
    BY NextDone
<1> QED BY <1>1, <1>2, PTL DEF Spec

\* The page has its type in every state; without a session it holds no board
\* and no workspace is loading.
THEOREM PageTypeCorrect == Spec => []PageTypeOK
<1>1. Inv => PageTypeOK
    BY DEF Inv, Sound, Typed, PageTypeOK
<1> QED BY <1>1, PageInvariant, PTL

\* What the page shows is of the account that is logged in and of the date in
\* its date control, however late the answers arrive.
THEOREM PageScreenIsCurrent == Spec => []ScreenIsCurrent
<1>1. Inv => ScreenIsCurrent
    <2> SUFFICES ASSUME Inv, Content PROVE
            /\ page.boards[board_of(page.route)].session = page.session
            /\ page.boards[board_of(page.route)].date = date_of(page, page.route)
        BY DEF ScreenIsCurrent
    <2>1. board_of(page.route) \in Boards
        BY RouteTypes DEF Inv, Sound, Typed, Page
    <2> QED BY <2>1 DEF Content, Inv, Shown, Sound, Sessions
<1> QED BY <1>1, PageInvariant, PTL

\* One step of LoadsNeverRegress.
NeverRegress == \A b \in Boards :
    LET before == page.boards[b]  after == page'.boards[b] IN
    (before # NoBoard /\ after # NoBoard /\ after.revision < before.revision)
        => "answer" \in {before.by, after.by}

\* A load never puts an older state of the tables over a newer one that
\* another load brought: the request counter of the workspace drops it.
THEOREM PageLoadsNeverRegress == Spec => LoadsNeverRegress
<1>1. Inv /\ [Next]_vars => [NeverRegress]_vars
    <2> SUFFICES ASSUME Inv, [Next]_vars PROVE NeverRegress
        OBVIOUS
    <2>1. Inv' /\ BoardsMove(page, page')
        BY NextDone
    <2>2. /\ page.boards \in [Boards -> Board \cup {NoBoard}]
          /\ page'.boards \in [Boards -> Board \cup {NoBoard}]
        BY <2>1 DEF Inv, Sound, Typed, Page
    <2> SUFFICES ASSUME NEW b \in Boards,
                        page.boards[b] # NoBoard, page'.boards[b] # NoBoard,
                        page'.boards[b].revision < page.boards[b].revision
                 PROVE  "answer" \in {page.boards[b].by, page'.boards[b].by}
        BY DEF NeverRegress
    <2>3. page.boards[b].revision \in Nat /\ page'.boards[b].revision \in Nat
        BY <2>2 DEF Board
    <2> QED BY <2>1, <2>3 DEF BoardsMove
<1> QED BY <1>1, PageInvariant, PTL DEF Spec, LoadsNeverRegress, NeverRegress

\* One step of LateAnswersAreDropped.
Dropped == \A r \in page.requests :
    (/\ r \notin page'.requests
     /\ r.revision # NotServed
     /\ \/ r.kind = "load" /\ ~(r.version = page.versions[getActiveWorkspace(r.route)]
                               /\ r.session = page.session /\ r.route = page.route)
        \/ /\ r.kind \in {"assign", "action"}
           /\ r.session # page.session \/ r.route # page.route)
    => Screen' = Screen

\* A late answer to a load or an action changes nothing on the screen, unless
\* the answer is about the session or the migration.
THEOREM PageLateAnswersAreDropped == Spec => LateAnswersAreDropped
<1>1. Inv /\ [Next]_vars => [Dropped]_vars
    <2> SUFFICES ASSUME Inv, Next,
            NEW r \in page.requests, r \notin page'.requests,
            r.revision # NotServed,
            \/ r.kind = "load" /\ ~(r.version = page.versions[getActiveWorkspace(r.route)]
                               /\ r.session = page.session /\ r.route = page.route)
            \/ /\ r.kind \in {"assign", "action"}
               /\ r.session # page.session \/ r.route # page.route
                 PROVE  Screen' = Screen
        BY DEF Dropped, Screen, vars
    <2>1. ~User
        BY UserDone DEF Done
    <2>2. ~ \E x \in page.requests : Serve(x)
        BY ServeDone
    <2>3. ~ \E x \in page.requests \ {r} : Receive(x)
        BY ReceiveDone
    <2>4. Receive(r)
        BY <2>1, <2>2, <2>3 DEF Next, Answered
    <2> DEFINE p == [page EXCEPT !.requests = @ \ {r}]
    <2>5. PICK answer \in answers_of(r) : page' = settle(p, r, answer)
        BY <2>4 DEF Receive
    <2>6. answer \in {"ok", "failed"}
        BY DEF answers_of
    <2>7. page \in Page
        BY DEF Inv, Sound, Typed
    <2>8. /\ p.versions = page.versions /\ p.session = page.session
          /\ p.route = page.route /\ p.isLoggedIn = page.isLoggedIn
          /\ p.boards = page.boards /\ p.loading = page.loading
          /\ p.failed = page.failed
        BY <2>7 DEF Page
    <2> HIDE DEF p
    <2>9. page' = p
        <3>1. CASE r.kind = "load"
            <4>1. ~isCurrent(p, r)
                BY <2>8, <3>1 DEF isCurrent
            <4> QED BY <2>5, <2>6, <3>1, <4>1
                    DEF settle, settle_load, load_failed, load_done
        <3>2. CASE r.kind \in {"assign", "action"}
            <4>1. ~isMutationCurrent(p, r)
                BY <2>8, <3>2 DEF isMutationCurrent
            <4> QED BY <2>5, <2>6, <3>2, <4>1 DEF settle, settle_mutation
        <3> QED BY <3>1, <3>2
    <2> QED BY <2>8, <2>9 DEF Screen
<1> QED BY <1>1, PageInvariant, PTL DEF Spec, LateAnswersAreDropped, Dropped
=============================================================================
