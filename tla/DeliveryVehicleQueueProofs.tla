--------------------- MODULE DeliveryVehicleQueueProofs ---------------------
(***************************************************************************)
(* Proofs about DeliveryVehicleQueue, for any number of cards, vehicles    *)
(* and writes that wait, with or without other browsers.  A driver has at  *)
(* most one write that does not wait; an entry is the last write of its    *)
(* driver; and an entry asks for the vehicle its card claims only when no  *)
(* other card claimed it before.  That is shown for every operation on the *)
(* state of the page first, and then for the events made of them.          *)
(***************************************************************************)
EXTENDS DeliveryVehicleQueue, FiniteSetTheorems, SequenceTheorems,
        WellFoundedInduction, TLAPS

-----------------------------------------------------------------------------
(* The retries are a function of the number of claims looked at. *)

\* The retries of the first N claims.
Retried(f, N, u, excluded) ==
    f = [n \in 0..N |->
            IF n = 0 THEN u ELSE RetryClaim(u, excluded, f[n - 1], n)]

\* Every set of numbers that is not empty has a least one.
LEMMA LeastNumber ==
    ASSUME NEW T \in SUBSET Nat, T # {}
    PROVE  \E n \in T : \A k \in T : n <= k
  <1> DEFINE less == {ss \in Nat \X Nat : ss[1] < ss[2]}
  <1>1. IsWellFoundedOn(less, Nat)
    BY NatLessThanWellFounded DEF OpToRel
  <1>2. PICK n \in T : \A k \in T : ~(<<k, n>> \in less)
    <2> HIDE DEF less
    <2> QED BY <1>1, WFMin
  <1>3. \A k \in T : ~(k < n)
    BY <1>2
  <1> QED BY <1>3

\* There are such retries, for any number of claims.
LEMMA RetriedExists ==
    ASSUME NEW u, NEW excluded, NEW N \in Nat
    PROVE  \E f : Retried(f, N, u, excluded)
  <1> DEFINE Missing == {n \in Nat : ~\E f : Retried(f, n, u, excluded)}
  <1> SUFFICES ASSUME Missing # {} PROVE FALSE
    OBVIOUS
  <1>1. PICK m \in Missing : \A k \in Missing : m <= k
    BY LeastNumber
  <1>2. m # 0
    <2>1. Retried([n \in 0..0 |-> u], 0, u, excluded)
      BY DEF Retried
    <2> QED BY <2>1
  <1>3. m - 1 \in Nat /\ m \in Nat
    BY <1>2
  <1>4. m - 1 \notin Missing
    BY <1>1, <1>3
  <1>5. PICK f : Retried(f, m - 1, u, excluded)
    BY <1>3, <1>4
  <1> DEFINE g == [n \in 0..m |-> IF n = m THEN RetryClaim(u, excluded, f[m - 1], m)
                                  ELSE f[n]]
  <1>6. Retried(g, m, u, excluded)
    <2>1. \A n \in 0..m : g[n] =
              IF n = 0 THEN u ELSE RetryClaim(u, excluded, g[n - 1], n)
      <3> TAKE n \in 0..m
      <3>1. CASE n = m
        BY <3>1, <1>2, <1>3
      <3>2. CASE n # m
        BY <3>2, <1>3, <1>5 DEF Retried
      <3> QED BY <3>1, <3>2
    <2> QED BY <2>1 DEF Retried
  <1> QED BY <1>6, <1>1

\* retryAvailableDeliveryVehicleClaims is their result for all claims.
LEMMA RetryRun ==
    ASSUME NEW u, NEW excluded, Cardinality(Claimants(u)) \in Nat
    PROVE  \E f : /\ Retried(f, Cardinality(Claimants(u)), u, excluded)
                  /\ retryAvailableDeliveryVehicleClaims(u, excluded)
                         = f[Cardinality(Claimants(u))]
  <1> DEFINE N == Cardinality(Claimants(u))
             f == CHOOSE f : Retried(f, N, u, excluded)
  <1>1. Retried(f, N, u, excluded)
    <2>1. \E g : Retried(g, N, u, excluded)
      BY RetriedExists
    <2> HIDE DEF N
    <2> QED BY <2>1
  <1>2. retryAvailableDeliveryVehicleClaims(u, excluded) = f[N]
    BY DEF retryAvailableDeliveryVehicleClaims, Retried
  <1> QED BY <1>1, <1>2

-----------------------------------------------------------------------------
(* The inductive invariant, of the state u of the page.  The first writes  *)
(* of the drivers in X are being started: X is empty between events.       *)

\* Writes wait behind the first one of their driver, and only the last of them
\* can be current.
WritesWait(u, X) == \A d \in Drivers :
    /\ \A i \in DOMAIN u.tails[d] :
          /\ i > 1 => u.tails[d][i].answer = "waiting"
          /\ u.tails[d][i].current => i = Len(u.tails[d])
    /\ d \notin X /\ u.tails[d] # <<>> => u.tails[d][1].answer # "waiting"
    /\ d \in X => u.tails[d] # <<>> /\ u.tails[d][1].current

\* An entry is the last write of its driver.
EntryIsLast(u) ==
    /\ u.pending = u.queues
    /\ \A d \in Drivers : d \in u.queues <=>
          u.tails[d] # <<>> /\ u.tails[d][Len(u.tails[d])].current

\* A claim is the choice that its card shows.
ClaimIsChosen(u) == \A d \in Claimants(u) : u.drafts[d] = u.claims[d]

\* The entry of d asks the server for the vehicle that d claims.
AsksForClaim(u, d) ==
    /\ u.claims[d] # NoVehicle
    /\ u.tails[d] # <<>>
    /\ u.tails[d][1].current
    /\ u.tails[d][1].answer = "sent"
    /\ u.tails[d][1].vehicle_id = u.claims[d]

\* Nobody claimed before d what the entry of d asks for.
FirstClaimAsks(u, X) ==
    \A d \in Drivers \ X : AsksForClaim(u, d) =>
        \A e \in Drivers : u.claims[e] = u.claims[d] => <<e, d>> \notin u.earlier

\* The state of the page: types, the order of the claims, drafts, writes, entries.
PageInv(u, X) ==
    /\ u \in Page
    /\ ClaimsInOrder(u)
    /\ ClaimIsChosen(u)
    /\ WritesWait(u, X)
    /\ EntryIsLast(u)
    /\ FirstClaimAsks(u, X)

-----------------------------------------------------------------------------
(* Drafts and claims. *)

\* A claim that is removed leaves the others in their order.
LEMMA RemoveClaimInv ==
    ASSUME NEW u, NEW X, PageInv(u, X), NEW d \in Drivers
    PROVE  LET w == removeDeliveryVehicleClaim(u, d) IN
           /\ PageInv(w, X)
           /\ w.tails = u.tails /\ w.queues = u.queues /\ w.pending = u.pending
           /\ w.board = u.board /\ w.drafts = u.drafts
           /\ w.claims[d] = NoVehicle
  <1> DEFINE w == removeDeliveryVehicleClaim(u, d)
  <1>1. /\ w \in Page
        /\ w.tails = u.tails /\ w.queues = u.queues /\ w.pending = u.pending
        /\ w.board = u.board /\ w.drafts = u.drafts
        /\ w.claims = [u.claims EXCEPT ![d] = NoVehicle]
        /\ w.earlier = {order \in u.earlier : order[1] # d /\ order[2] # d}
    BY DEF PageInv, Page, removeDeliveryVehicleClaim, Selection
  <1>2. u.claims \in [Drivers -> Selection] /\ u.earlier \subseteq Drivers \X Drivers
    BY DEF PageInv, Page
  <1> HIDE DEF w
  <1>3. \A c, e : <<c, e>> \in w.earlier <=> <<c, e>> \in u.earlier /\ c # d /\ e # d
    BY <1>1
  <1>4. \A c \in Drivers : w.claims[c] = IF c = d THEN NoVehicle ELSE u.claims[c]
    BY <1>1, <1>2
  <1>5. Claimants(w) = Claimants(u) \ {d}
    BY <1>4 DEF Claimants
  <1>6. ClaimsInOrder(w)
    <2>1. ClaimsInOrder(u)
      BY DEF PageInv
    <2>2. w.earlier \subseteq u.earlier
      BY <1>1
    <2> QED BY <2>1, <2>2, <1>2, <1>3, <1>5 DEF ClaimsInOrder
  <1>7. ClaimIsChosen(w)
    BY <1>1, <1>4, <1>5 DEF PageInv, ClaimIsChosen, Claimants
  <1>8. WritesWait(w, X) /\ EntryIsLast(w)
    BY <1>1 DEF PageInv, WritesWait, EntryIsLast
  <1>9. FirstClaimAsks(w, X)
    <2>1. \A c \in Drivers : AsksForClaim(w, c) => AsksForClaim(u, c) /\ c # d
      BY <1>1, <1>4 DEF AsksForClaim
    <2> QED BY <2>1, <1>3, <1>4 DEF PageInv, FirstClaimAsks, AsksForClaim
  <1> QED BY <1>1, <1>4, <1>6, <1>7, <1>8, <1>9 DEF PageInv, w

\* The board, the errors, and the drafts of cards that claim nothing, are free.
LEMMA FreeInv ==
    ASSUME NEW u, NEW X, PageInv(u, X), NEW w \in Page,
           w.claims = u.claims, w.earlier = u.earlier, w.tails = u.tails,
           w.queues = u.queues, w.pending = u.pending,
           \A c \in Claimants(u) : w.drafts[c] = u.drafts[c]
    PROVE  PageInv(w, X)
  <1>1. Claimants(w) = Claimants(u)
    BY DEF Claimants
  <1>2. ClaimsInOrder(w)
    BY <1>1 DEF PageInv, ClaimsInOrder
  <1>3. ClaimIsChosen(w)
    BY <1>1 DEF PageInv, ClaimIsChosen, Claimants
  <1>4. WritesWait(w, X) /\ EntryIsLast(w)
    BY DEF PageInv, WritesWait, EntryIsLast
  <1>5. FirstClaimAsks(w, X)
    BY DEF PageInv, FirstClaimAsks, AsksForClaim
  <1> QED BY <1>2, <1>3, <1>4, <1>5 DEF PageInv

\* Draft and claim of a card go together.
LEMMA DraftWithoutClaim ==
    ASSUME NEW u, NEW X, PageInv(u, X), NEW d \in Drivers,
           NEW v \in Selection \cup {NoDraft}, NEW errors \in SUBSET Drivers
    PROVE  LET w == [removeDeliveryVehicleClaim([u EXCEPT !.drafts[d] = v], d)
                        EXCEPT !.errors = errors] IN
           /\ PageInv(w, X)
           /\ w.tails = u.tails /\ w.queues = u.queues /\ w.pending = u.pending
           /\ w.board = u.board
           /\ w.claims[d] = NoVehicle
  <1> DEFINE r == removeDeliveryVehicleClaim(u, d)
             w == [removeDeliveryVehicleClaim([u EXCEPT !.drafts[d] = v], d)
                        EXCEPT !.errors = errors]
  <1>1. /\ PageInv(r, X)
        /\ r.tails = u.tails /\ r.queues = u.queues /\ r.pending = u.pending
        /\ r.board = u.board /\ r.drafts = u.drafts
        /\ r.claims[d] = NoVehicle
    BY RemoveClaimInv
  <1>2. /\ w \in Page
        /\ w.claims = r.claims /\ w.earlier = r.earlier /\ w.tails = u.tails
        /\ w.queues = u.queues /\ w.pending = u.pending /\ w.board = u.board
        /\ w.drafts = [u.drafts EXCEPT ![d] = v]
    BY DEF PageInv, Page, removeDeliveryVehicleClaim, Selection
  <1>3. u.drafts \in [Drivers -> Selection \cup {NoDraft}]
    BY DEF PageInv, Page
  <1> HIDE DEF r, w
  <1>4. \A c \in Claimants(r) : w.drafts[c] = r.drafts[c]
    BY <1>1, <1>2, <1>3 DEF Claimants
  <1>5. PageInv(w, X)
    BY <1>1, <1>2, <1>4, FreeInv
  <1> QED BY <1>1, <1>2, <1>5 DEF w

\* A choice is claimed behind all claims of the other cards, or keeps its place.
LEMMA ChosenInv ==
    ASSUME NEW u, NEW X, PageInv(u, X), NEW d \in Drivers, d \notin u.queues,
           NEW v \in Selection, NEW errors \in SUBSET Drivers
    PROVE  LET w == [updateDeliveryVehicleClaim([u EXCEPT !.drafts[d] = v], d, v)
                        EXCEPT !.errors = errors] IN
           /\ PageInv(w, X)
           /\ w.tails = u.tails /\ w.queues = u.queues /\ w.pending = u.pending
           /\ w.claims[d] = v
  <1> DEFINE w == [updateDeliveryVehicleClaim([u EXCEPT !.drafts[d] = v], d, v)
                        EXCEPT !.errors = errors]
  <1>0. /\ u \in Page
        /\ u.claims \in [Drivers -> Selection] /\ u.earlier \subseteq Drivers \X Drivers
        /\ u.drafts \in [Drivers -> Selection \cup {NoDraft}]
    BY DEF PageInv, Page
  <1>1. CASE v = NoVehicle
    <2> DEFINE z == [removeDeliveryVehicleClaim([u EXCEPT !.drafts[d] = v], d)
                        EXCEPT !.errors = errors]
    <2>1. w = z
      BY <1>1 DEF updateDeliveryVehicleClaim
    <2>2. /\ PageInv(z, X)
          /\ z.tails = u.tails /\ z.queues = u.queues /\ z.pending = u.pending
          /\ z.claims[d] = NoVehicle
      BY DraftWithoutClaim
    <2> HIDE DEF w, z
    <2>3. /\ PageInv(w, X)
          /\ w.tails = u.tails /\ w.queues = u.queues /\ w.pending = u.pending
          /\ w.claims[d] = v
      BY <1>1, <2>1, <2>2
    <2> QED BY <2>3 DEF w
  <1>2. CASE v # NoVehicle /\ u.claims[d] = v
    <2>1. w = [u EXCEPT !.drafts[d] = v, !.errors = errors]
      BY <1>2, <1>0 DEF updateDeliveryVehicleClaim, Page
    <2> HIDE DEF w
    <2>2. /\ w \in Page
          /\ w.claims = u.claims /\ w.earlier = u.earlier /\ w.tails = u.tails
          /\ w.queues = u.queues /\ w.pending = u.pending
          /\ w.drafts = [u.drafts EXCEPT ![d] = v]
      BY <2>1, <1>0 DEF Page
    <2>3. u.drafts[d] = v
      BY <1>2 DEF PageInv, ClaimIsChosen, Claimants
    <2>4. \A c \in Claimants(u) : w.drafts[c] = u.drafts[c]
      BY <2>2, <2>3, <1>0 DEF Claimants
    <2>5. PageInv(w, X)
      BY <2>2, <2>4, FreeInv
    <2> QED BY <2>2, <2>5, <1>2 DEF w
  <1>3. CASE v # NoVehicle /\ u.claims[d] # v
    <2>1. w = [ClaimLast([u EXCEPT !.drafts[d] = v], d, v) EXCEPT !.errors = errors]
      BY <1>3, <1>0 DEF updateDeliveryVehicleClaim, Page
    <2> DEFINE others == Claimants(u) \ {d}
    <2>2. /\ w.tails = u.tails /\ w.queues = u.queues /\ w.pending = u.pending
          /\ w.drafts = [u.drafts EXCEPT ![d] = v]
          /\ w.claims = [u.claims EXCEPT ![d] = v]
          /\ w.earlier = {order \in u.earlier : order[1] # d /\ order[2] # d}
                            \cup {<<c, d>> : c \in others}
          /\ w \in Page
      <3>1. Claimants([u EXCEPT !.drafts[d] = v]) = Claimants(u)
        BY <1>0 DEF Claimants, Page
      <3> DEFINE earlier == {order \in u.earlier : order[1] # d /\ order[2] # d}
                                \cup {<<c, d>> : c \in others}
      <3>2. w = [u EXCEPT !.drafts[d] = v, !.claims[d] = v, !.earlier = earlier,
                          !.errors = errors]
        BY <2>1, <3>1, <1>0 DEF ClaimLast, Page
      <3>3. earlier \subseteq Drivers \X Drivers
        BY <1>0 DEF Claimants
      <3> HIDE DEF w, others, earlier
      <3>4. /\ w.tails = u.tails /\ w.queues = u.queues /\ w.pending = u.pending
            /\ w.drafts = [u.drafts EXCEPT ![d] = v]
            /\ w.claims = [u.claims EXCEPT ![d] = v]
            /\ w.earlier = earlier
            /\ w \in Page
        BY <3>2, <3>3, <1>0 DEF Page
      <3> QED BY <3>4 DEF earlier
    <2> HIDE DEF w
    <2>3. \A c \in Drivers : w.claims[c] = IF c = d THEN v ELSE u.claims[c]
      BY <2>2, <1>0
    <2>4. Claimants(w) = Claimants(u) \cup {d}
      BY <2>3, <1>3 DEF Claimants
    <2>5. \A c, e : <<c, e>> \in w.earlier <=>
              \/ <<c, e>> \in u.earlier /\ c # d /\ e # d
              \/ c \in others /\ e = d
      BY <2>2
    <2>6. ClaimsInOrder(w)
      <3>1. ClaimsInOrder(u)
        BY DEF PageInv
      <3>2. \A c, e : <<c, e>> \in u.earlier => c \in Claimants(u) /\ e \in Claimants(u)
        BY <3>1 DEF ClaimsInOrder
      <3>3. w.earlier \subseteq Claimants(w) \X Claimants(w)
        <4>1. w.earlier \subseteq Drivers \X Drivers
          BY <2>2 DEF Page
        <4> QED BY <4>1, <2>4, <2>5, <3>2
      <3>4. \A c, e \in Claimants(w) :
                c # e => (<<c, e>> \in w.earlier <=> <<e, c>> \notin w.earlier)
        BY <2>4, <2>5, <3>1 DEF ClaimsInOrder
      <3>5. \A c \in Drivers : <<c, c>> \notin w.earlier
        BY <2>5, <3>1 DEF ClaimsInOrder
      <3>6. \A b, c, e \in Drivers :
                <<b, c>> \in w.earlier /\ <<c, e>> \in w.earlier => <<b, e>> \in w.earlier
        BY <2>5, <3>1, <3>2 DEF ClaimsInOrder
      <3> QED BY <3>3, <3>4, <3>5, <3>6 DEF ClaimsInOrder
    <2>7. ClaimIsChosen(w)
      BY <2>2, <2>3, <2>4, <1>0 DEF PageInv, ClaimIsChosen, Claimants
    <2>8. WritesWait(w, X) /\ EntryIsLast(w)
      BY <2>2 DEF PageInv, WritesWait, EntryIsLast
    <2>9. FirstClaimAsks(w, X)
      <3>1. ~(u.tails[d] # <<>> /\ u.tails[d][1].current)
        <4> SUFFICES ASSUME u.tails[d] # <<>>, u.tails[d][1].current PROVE FALSE
          OBVIOUS
        <4>1. u.tails[d] \in Seq(Write) /\ 1 \in DOMAIN u.tails[d]
          BY DEF PageInv, Page
        <4>2. 1 = Len(u.tails[d])
          BY <4>1 DEF PageInv, WritesWait
        <4> QED BY <4>2 DEF PageInv, EntryIsLast
      <3>2. \A c \in Drivers : AsksForClaim(w, c) => AsksForClaim(u, c) /\ c # d
        BY <3>1, <2>2, <2>3 DEF AsksForClaim
      <3> QED BY <3>2, <2>3, <2>5 DEF PageInv, FirstClaimAsks, AsksForClaim
    <2> QED BY <2>2, <2>3, <2>6, <2>7, <2>8, <2>9 DEF PageInv, w
  <1> QED BY <1>1, <1>2, <1>3 DEF Selection

-----------------------------------------------------------------------------
(* Writes. *)

\* Only d's writes and d's entry differ.
OthersKeepWrites(u, w, d) == \A e \in Drivers \ {d} :
    /\ w.tails[e] = u.tails[e]
    /\ e \in w.queues <=> e \in u.queues

\* A first write that is current is the entry of its driver, and alone.
LEMMA EntryAlone ==
    ASSUME NEW u, NEW X, PageInv(u, X), NEW d \in Drivers,
           u.tails[d] # <<>>, u.tails[d][1].current
    PROVE  /\ u.tails[d] \in Seq(Write) /\ Len(u.tails[d]) = 1
           /\ u.tails[d] = <<u.tails[d][1]>>
           /\ u.tails[d][1] \in Write
           /\ Tail(u.tails[d]) = <<>>
           /\ d \in u.queues
  <1>1. u.tails[d] \in Seq(Write)
    BY DEF PageInv, Page
  <1>2. 1 \in DOMAIN u.tails[d]
    BY <1>1
  <1>3. Len(u.tails[d]) = 1
    BY <1>2 DEF PageInv, WritesWait
  <1>4. d \in u.queues
    BY <1>3 DEF PageInv, EntryIsLast
  <1>5. \A s \in Seq(Write) : Len(s) = 1 => s[1] \in Write /\ s = <<s[1]>>
    OBVIOUS
  <1>6. Tail(u.tails[d]) = <<>>
    <2>1. Tail(u.tails[d]) \in Seq(Write) /\ Len(Tail(u.tails[d])) = 0
      BY <1>1, <1>3, HeadTailProperties
    <2> QED BY <2>1, EmptySeq
  <1> QED BY <1>1, <1>3, <1>4, <1>5, <1>6

\* The entry of d returns; nothing waited behind it.
LEMMA SettleInv ==
    ASSUME NEW u, NEW d \in Drivers, NEW X \in SUBSET {d}, PageInv(u, X),
           u.tails[d] # <<>>, u.tails[d][1].current
    PROVE  PageInv(Settle(u, d), {}) /\ OthersKeepWrites(u, Settle(u, d), d)
  <1> DEFINE w == Settle(u, d)
  <1>1. Tail(u.tails[d]) = <<>> /\ d \in u.queues
    BY EntryAlone
  <1>2. u \in Page /\ u.tails \in [Drivers -> Seq(Write)]
    BY DEF PageInv, Page
  <1> DEFINE tails == [u.tails EXCEPT ![d] = <<>>]
  <1>3. w = [u EXCEPT !.queues = u.queues \ {d}, !.pending = u.pending \ {d},
                      !.tails = tails]
    BY <1>1, <1>2 DEF Settle, Page
  <1>4. tails \in [Drivers -> Seq(Write)]
    BY <1>2
  <1> HIDE DEF w, tails
  <1>5. /\ w \in Page
        /\ w.claims = u.claims /\ w.earlier = u.earlier /\ w.drafts = u.drafts
        /\ w.queues = u.queues \ {d} /\ w.pending = u.pending \ {d}
        /\ w.tails = tails
    BY <1>3, <1>4, <1>2 DEF Page
  <1>6. /\ w \in Page
        /\ w.claims = u.claims /\ w.earlier = u.earlier /\ w.drafts = u.drafts
        /\ w.queues = u.queues \ {d} /\ w.pending = u.pending \ {d}
        /\ w.tails = [u.tails EXCEPT ![d] = <<>>]
    BY <1>5 DEF tails
  <1>7. \A e \in Drivers : w.tails[e] = IF e = d THEN <<>> ELSE u.tails[e]
    BY <1>2, <1>6
  <1>8. ClaimsInOrder(w)
    BY <1>6 DEF PageInv, ClaimsInOrder, Claimants
  <1>9. ClaimIsChosen(w)
    BY <1>6 DEF PageInv, ClaimIsChosen, Claimants
  <1>10. WritesWait(w, {})
    BY <1>7 DEF PageInv, WritesWait
  <1>11. EntryIsLast(w)
    BY <1>6, <1>7 DEF PageInv, EntryIsLast
  <1>12. FirstClaimAsks(w, {})
    BY <1>6, <1>7 DEF PageInv, FirstClaimAsks, AsksForClaim
  <1>13. OthersKeepWrites(u, w, d)
    BY <1>6, <1>7 DEF OthersKeepWrites
  <1> QED BY <1>6, <1>8, <1>9, <1>10, <1>11, <1>12, <1>13 DEF PageInv, w

\* The choice of a card is saved: its draft and its claim are gone.
LEMMA SavedInv ==
    ASSUME NEW u, NEW X, PageInv(u, X), NEW d \in Drivers
    PROVE  LET w == Saved(u, d) IN
           /\ PageInv(w, X)
           /\ w.tails = u.tails /\ w.queues = u.queues
           /\ w.board = u.board
  <1> DEFINE w == Saved(u, d)
             z == [removeDeliveryVehicleClaim([u EXCEPT !.drafts[d] = NoDraft], d)
                        EXCEPT !.errors = u.errors \ {d}]
  <1>1. u.errors \ {d} \in SUBSET Drivers
    BY DEF PageInv, Page
  <1>2. removeDeliveryVehicleClaim([u EXCEPT !.drafts[d] = NoDraft], d).errors = u.errors
    BY DEF PageInv, Page, removeDeliveryVehicleClaim
  <1>3. w = z
    BY <1>2 DEF Saved, removeDeliveryVehicleDraft
  <1>4. /\ PageInv(z, X)
        /\ z.tails = u.tails /\ z.queues = u.queues
        /\ z.board = u.board
    BY <1>1, DraftWithoutClaim
  <1> HIDE DEF w, z
  <1>5. PageInv(w, X) /\ w.tails = u.tails /\ w.queues = u.queues /\ w.board = u.board
    BY <1>3, <1>4
  <1> QED BY <1>5 DEF w

\* The entry of a card asks for its draft, for which no other card stands first.
LEMMA SendInv ==
    ASSUME NEW u, NEW d \in Drivers, NEW X \in SUBSET {d}, PageInv(u, X),
           u.tails[d] # <<>>, u.tails[d][1].current,
           NEW v \in Selection, v = u.drafts[d],
           ~conflicts(u.board, u, d, v),
           ~(v # NoVehicle /\ u.board[d] = v)
    PROVE  LET w == [u EXCEPT !.tails[d][1] =
                        [@ EXCEPT !.vehicle_id = v, !.answer = "sent"]] IN
           PageInv(w, {}) /\ OthersKeepWrites(u, w, d)
  <1> DEFINE write == [u.tails[d][1] EXCEPT !.vehicle_id = v, !.answer = "sent"]
             w == [u EXCEPT !.tails[d][1] =
                        [@ EXCEPT !.vehicle_id = v, !.answer = "sent"]]
  <1>1. /\ u.tails[d] \in Seq(Write) /\ Len(u.tails[d]) = 1
        /\ u.tails[d] = <<u.tails[d][1]>> /\ u.tails[d][1] \in Write
        /\ d \in u.queues
    BY EntryAlone
  <1>2. u \in Page /\ u.tails \in [Drivers -> Seq(Write)]
    BY DEF PageInv, Page
  <1>3. /\ write \in Write /\ write.current
        /\ write.vehicle_id = v /\ write.answer = "sent"
    BY <1>1 DEF Write
  <1>4. [u.tails[d] EXCEPT ![1] = write] = <<write>>
    BY <1>1
  <1>5. w = [u EXCEPT !.tails = [u.tails EXCEPT ![d] = <<write>>]]
    BY <1>4, <1>2 DEF Page
  <1> HIDE DEF write, w
  <1>6. [u.tails EXCEPT ![d] = <<write>>] \in [Drivers -> Seq(Write)]
    BY <1>2, <1>3
  <1>7. /\ w \in Page
        /\ w.claims = u.claims /\ w.earlier = u.earlier /\ w.drafts = u.drafts
        /\ w.queues = u.queues /\ w.pending = u.pending
        /\ w.tails = [u.tails EXCEPT ![d] = <<write>>]
    BY <1>2, <1>5, <1>6 DEF Page
  <1>8. \A e \in Drivers : w.tails[e] = IF e = d THEN <<write>> ELSE u.tails[e]
    BY <1>2, <1>7
  <1>9. ClaimsInOrder(w)
    BY <1>7 DEF PageInv, ClaimsInOrder, Claimants
  <1>10. ClaimIsChosen(w)
    BY <1>7 DEF PageInv, ClaimIsChosen, Claimants
  <1>11. WritesWait(w, {})
    <2>1. w.tails[d] = <<write>>
      BY <1>8
    <2>2. /\ Len(w.tails[d]) = 1 /\ DOMAIN w.tails[d] = {1}
          /\ w.tails[d][1].answer # "waiting"
      BY <2>1, <1>3
    <2>3. \A e \in Drivers \ {d} : w.tails[e] = u.tails[e]
      BY <1>8
    <2>4. \A i \in DOMAIN w.tails[d] : ~(i > 1) /\ i = Len(w.tails[d])
      BY <2>2
    <2>5. WritesWait(u, X)
      BY DEF PageInv
    <2> SUFFICES ASSUME NEW e \in Drivers
                 PROVE  /\ \A i \in DOMAIN w.tails[e] :
                              /\ i > 1 => w.tails[e][i].answer = "waiting"
                              /\ w.tails[e][i].current => i = Len(w.tails[e])
                        /\ w.tails[e] # <<>> => w.tails[e][1].answer # "waiting"
      BY DEF WritesWait
    <2>6. CASE e = d
      BY <2>2, <2>4, <2>6
    <2>7. CASE e # d
      BY <2>3, <2>5, <2>7 DEF WritesWait
    <2> QED BY <2>6, <2>7
  <1>12. EntryIsLast(w)
    BY <1>1, <1>3, <1>7, <1>8 DEF PageInv, EntryIsLast
  <1>13. FirstClaimAsks(w, {})
    <2> SUFFICES ASSUME NEW c \in Drivers, AsksForClaim(w, c),
                        NEW e \in Drivers, w.claims[e] = w.claims[c]
                 PROVE  <<e, c>> \notin w.earlier
      BY DEF FirstClaimAsks
    <2>1. CASE c # d
      BY <2>1, <1>7, <1>8 DEF PageInv, FirstClaimAsks, AsksForClaim
    <2>2. CASE c = d /\ e # d
      <3>1. u.claims[d] = v /\ v # NoVehicle /\ u.claims[e] = v
        BY <2>2, <1>3, <1>7, <1>8 DEF AsksForClaim
      <3> QED BY <3>1, <2>2, <1>7 DEF conflicts
    <2>3. CASE c = d /\ e = d
      BY <2>3, <1>9 DEF ClaimsInOrder
    <2> QED BY <2>1, <2>2, <2>3
  <1>14. OthersKeepWrites(u, w, d)
    BY <1>7, <1>8 DEF OthersKeepWrites
  <1> QED BY <1>7, <1>9, <1>10, <1>11, <1>12, <1>13, <1>14 DEF PageInv, w

\* A turn of the loop of an entry, whatever became of its last request.
LEMMA ProcessInv ==
    ASSUME NEW u, NEW d \in Drivers, NEW X \in SUBSET {d}, PageInv(u, X),
           u.tails[d] # <<>>, u.tails[d][1].current
    PROVE  LET w == processDeliveryVehicleQueue(u, d) IN
           PageInv(w, {}) /\ OthersKeepWrites(u, w, d)
  <1> DEFINE v == u.drafts[d]
             w == processDeliveryVehicleQueue(u, d)
  <1>1. CASE v = NoDraft \/ conflicts(u.board, u, d, v)
    <2>1. w = Settle(u, d)
      BY <1>1 DEF processDeliveryVehicleQueue
    <2>2. PageInv(Settle(u, d), {}) /\ OthersKeepWrites(u, Settle(u, d), d)
      BY SettleInv
    <2> QED BY <2>1, <2>2
  <1>2. CASE /\ ~(v = NoDraft \/ conflicts(u.board, u, d, v))
             /\ v # NoVehicle /\ u.board[d] = v
    <2> DEFINE s == Saved(u, d)
    <2>1. w = Settle(s, d)
      BY <1>2 DEF processDeliveryVehicleQueue
    <2>2. /\ PageInv(s, X)
          /\ s.tails = u.tails /\ s.queues = u.queues
      BY SavedInv
    <2> HIDE DEF s, w
    <2>3. PageInv(Settle(s, d), {}) /\ OthersKeepWrites(s, Settle(s, d), d)
      BY <2>2, SettleInv
    <2>4. PageInv(w, {}) /\ OthersKeepWrites(u, w, d)
      BY <2>1, <2>2, <2>3 DEF OthersKeepWrites
    <2> QED BY <2>4 DEF w
  <1>3. CASE /\ ~(v = NoDraft \/ conflicts(u.board, u, d, v))
             /\ ~(v # NoVehicle /\ u.board[d] = v)
    <2> DEFINE s == [u EXCEPT !.tails[d][1] =
                        [@ EXCEPT !.vehicle_id = v, !.answer = "sent"]]
    <2>1. w = s
      BY <1>3 DEF processDeliveryVehicleQueue
    <2>2. v \in Selection
      BY <1>3 DEF PageInv, Page
    <2>3. PageInv(s, {}) /\ OthersKeepWrites(u, s, d)
      BY <1>3, <2>2, SendInv
    <2> HIDE DEF s, w
    <2>4. PageInv(w, {}) /\ OthersKeepWrites(u, w, d)
      BY <2>1, <2>3
    <2> QED BY <2>4 DEF w
  <1> QED BY <1>1, <1>2, <1>3

\* A new entry starts, or waits for the writes of its driver that were abandoned.
LEMMA EnqueuedInv ==
    ASSUME NEW u, NEW d \in Drivers, PageInv(u, {})
    PROVE  LET w == queueDeliveryVehicleUpdate(u, d) IN
           PageInv(w, {}) /\ OthersKeepWrites(u, w, d)
  <1> DEFINE w == queueDeliveryVehicleUpdate(u, d)
  <1>1. CASE d \in u.queues
    BY <1>1 DEF queueDeliveryVehicleUpdate, OthersKeepWrites
  <1>2. CASE d \notin u.queues
    <2> DEFINE write == [current |-> TRUE, vehicle_id |-> NoVehicle,
                         answer |-> "waiting"]
               tail == Append(u.tails[d], write)
               q == [u EXCEPT !.queues = u.queues \cup {d},
                              !.pending = u.pending \cup {d},
                              !.tails = [u.tails EXCEPT ![d] = tail]]
    <2>1. u \in Page /\ u.tails \in [Drivers -> Seq(Write)]
      BY DEF PageInv, Page
    <2>2. w = IF Len(tail) = 1 THEN processDeliveryVehicleQueue(q, d) ELSE q
      BY <1>2, <2>1 DEF queueDeliveryVehicleUpdate, Page,
                        enqueueDeliveryVehiclePhysicalWrite
    <2>3. write \in Write
      BY DEF Write, Selection
    <2>4. /\ tail \in Seq(Write) /\ Len(tail) = Len(u.tails[d]) + 1
          /\ DOMAIN tail = 1..(Len(u.tails[d]) + 1)
          /\ \A i \in DOMAIN u.tails[d] : i \in DOMAIN tail /\ tail[i] = u.tails[d][i]
          /\ tail[Len(tail)] = write
      <3> HIDE DEF write
      <3> QED BY <2>1, <2>3
    <2>5. write.current /\ write.answer = "waiting"
      OBVIOUS
    <2> HIDE DEF write, tail, w
    <2>6. [u.tails EXCEPT ![d] = tail] \in [Drivers -> Seq(Write)]
      BY <2>1, <2>4
    <2>7. /\ q \in Page
          /\ q.claims = u.claims /\ q.earlier = u.earlier /\ q.drafts = u.drafts
          /\ q.queues = u.queues \cup {d} /\ q.pending = u.pending \cup {d}
          /\ q.tails = [u.tails EXCEPT ![d] = tail]
      BY <2>1, <2>6 DEF Page
    <2> HIDE DEF q
    <2>8. \A e \in Drivers : q.tails[e] = IF e = d THEN tail ELSE u.tails[e]
      BY <2>1, <2>7
    <2>9. ClaimsInOrder(q) /\ ClaimIsChosen(q)
      BY <2>7 DEF PageInv, ClaimsInOrder, ClaimIsChosen, Claimants
    <2>10. EntryIsLast(q)
      <3>1. tail # <<>> /\ tail[Len(tail)].current
        BY <2>1, <2>4, <2>5, EmptySeq
      <3> QED BY <3>1, <2>7, <2>8 DEF PageInv, EntryIsLast
    <2>11. \A i \in DOMAIN u.tails[d] : ~u.tails[d][i].current
      <3> SUFFICES ASSUME NEW i \in DOMAIN u.tails[d], u.tails[d][i].current
                   PROVE  FALSE
        OBVIOUS
      <3>1. i = Len(u.tails[d]) /\ u.tails[d] # <<>>
        BY <2>1, EmptySeq DEF PageInv, WritesWait
      <3> QED BY <3>1, <1>2 DEF PageInv, EntryIsLast
    <2>12. OthersKeepWrites(u, q, d)
      BY <2>7, <2>8 DEF OthersKeepWrites
    <2> DEFINE X == IF Len(tail) = 1 THEN {d} ELSE {}
    <2>13. WritesWait(q, X)
      <3> SUFFICES ASSUME NEW e \in Drivers
                   PROVE  /\ \A i \in DOMAIN q.tails[e] :
                                /\ i > 1 => q.tails[e][i].answer = "waiting"
                                /\ q.tails[e][i].current => i = Len(q.tails[e])
                          /\ e \notin X /\ q.tails[e] # <<>>
                                => q.tails[e][1].answer # "waiting"
                          /\ e \in X => q.tails[e] # <<>> /\ q.tails[e][1].current
        BY DEF WritesWait
      <3>1. CASE e # d
        BY <3>1, <2>8 DEF PageInv, WritesWait
      <3>2. CASE e = d
        <4>1. q.tails[e] = tail
          BY <3>2, <2>8
        <4>2. Len(u.tails[d]) \in Nat /\ DOMAIN u.tails[d] = 1..Len(u.tails[d])
          BY <2>1
        <4>3. ASSUME NEW i \in DOMAIN tail
              PROVE  /\ i > 1 => tail[i].answer = "waiting"
                     /\ tail[i].current => i = Len(tail)
          <5>1. CASE i = Len(tail)
            BY <5>1, <2>4, <2>5
          <5>2. CASE i # Len(tail)
            <6>1. i \in DOMAIN u.tails[d] /\ tail[i] = u.tails[d][i]
              BY <5>2, <2>4, <4>2
            <6>2. i > 1 => u.tails[d][i].answer = "waiting"
              BY <6>1 DEF PageInv, WritesWait
            <6> QED BY <6>1, <6>2, <2>11
          <5> QED BY <5>1, <5>2
        <4>4. CASE Len(tail) = 1
          <5>1. tail[1].current /\ tail # <<>>
            BY <4>4, <2>4, <2>5, EmptySeq
          <5> QED BY <3>2, <4>1, <4>3, <4>4, <5>1
        <4>5. CASE Len(tail) # 1
          <5>1. 1 \in DOMAIN u.tails[d] /\ tail[1] = u.tails[d][1] /\ u.tails[d] # <<>>
            BY <4>2, <4>5, <2>4, EmptySeq
          <5>2. u.tails[d][1].answer # "waiting"
            BY <5>1 DEF PageInv, WritesWait
          <5> QED BY <4>1, <4>3, <4>5, <5>1, <5>2
        <4> QED BY <4>4, <4>5
      <3> QED BY <3>1, <3>2
    <2>14. FirstClaimAsks(q, X)
      <3>1. \A e \in Drivers \ X : AsksForClaim(q, e) => e # d
        <4> SUFFICES ASSUME d \notin X, AsksForClaim(q, d) PROVE FALSE
          OBVIOUS
        <4>1. q.tails[d] # <<>> /\ q.tails[d] = tail /\ tail[1].current
          BY <2>8 DEF AsksForClaim
        <4>2. 1 = Len(tail)
          BY <4>1, <2>4, <2>1, <2>13 DEF WritesWait
        <4> QED BY <4>2
      <3>2. \A e \in Drivers \ {d} : AsksForClaim(q, e) => AsksForClaim(u, e)
        BY <2>7, <2>8 DEF AsksForClaim
      <3> QED BY <3>1, <3>2, <2>7 DEF PageInv, FirstClaimAsks
    <2> HIDE DEF X
    <2>15. PageInv(q, X)
      BY <2>7, <2>9, <2>10, <2>13, <2>14 DEF PageInv
    <2>16. CASE Len(tail) = 1
      <3>1. X = {d}
        BY <2>16 DEF X
      <3>2. q.tails[d] # <<>> /\ q.tails[d][1].current
        BY <3>1, <2>13 DEF WritesWait
      <3> DEFINE z == processDeliveryVehicleQueue(q, d)
      <3>3. PageInv(z, {}) /\ OthersKeepWrites(q, z, d)
        BY <3>1, <3>2, <2>15, ProcessInv
      <3> HIDE DEF z
      <3>4. w = z
        BY <2>2, <2>16 DEF z
      <3>5. PageInv(w, {}) /\ OthersKeepWrites(u, w, d)
        BY <3>3, <3>4, <2>12 DEF OthersKeepWrites
      <3> QED BY <3>5 DEF w
    <2>17. CASE Len(tail) # 1
      <3>1. X = {} /\ w = q
        BY <2>17, <2>2 DEF X
      <3>2. PageInv(w, {}) /\ OthersKeepWrites(u, w, d)
        BY <3>1, <2>15, <2>12
      <3> QED BY <3>2 DEF w
    <2> QED BY <2>16, <2>17
  <1> QED BY <1>1, <1>2

-----------------------------------------------------------------------------
(* Retries, whatever the order of the claims. *)

\* A retry leaves the invariant, and the driver it excludes, as they are.
RetryKeeps(u, excluded, w) ==
    /\ PageInv(w, {})
    /\ w.tails[excluded] = u.tails[excluded]
    /\ excluded \in w.queues <=> excluded \in u.queues

\* One retry.
LEMMA RetryClaimInv ==
    ASSUME NEW u, NEW excluded \in Drivers, NEW w, NEW n,
           RetryKeeps(u, excluded, w)
    PROVE  RetryKeeps(u, excluded, RetryClaim(u, excluded, w, n))
  <1> DEFINE due == {c \in Claimants(u) :
                  /\ Cardinality({e \in Drivers : <<e, c>> \in u.earlier}) = n - 1
                  /\ c # excluded
                  /\ c \notin w.queues
                  /\ ~conflicts(w.board, w, c, u.claims[c])}
             c == CHOOSE c \in due : TRUE
             z == queueDeliveryVehicleUpdate(w, c)
  <1>1. RetryClaim(u, excluded, w, n) = IF due = {} THEN w ELSE z
    BY DEF RetryClaim
  <1>2. CASE due = {}
    BY <1>1, <1>2
  <1>3. CASE due # {}
    <2>1. c \in Drivers \ {excluded}
      <3>1. due \subseteq Drivers \ {excluded}
        BY DEF Claimants
      <3> HIDE DEF due
      <3> QED BY <1>3, <3>1
    <2> HIDE DEF due, c
    <2>2. PageInv(z, {}) /\ OthersKeepWrites(w, z, c)
      BY <2>1, EnqueuedInv DEF RetryKeeps
    <2> HIDE DEF z
    <2>3. RetryKeeps(u, excluded, z)
      BY <2>1, <2>2 DEF RetryKeeps, OthersKeepWrites
    <2> QED BY <1>1, <1>3, <2>3
  <1> QED BY <1>2, <1>3

\* All retries: a first one that broke what RetryKeeps says cannot exist.
LEMMA RetryInv ==
    ASSUME NEW u, NEW excluded \in Drivers, PageInv(u, {})
    PROVE  RetryKeeps(u, excluded, retryAvailableDeliveryVehicleClaims(u, excluded))
  <1> DEFINE N == Cardinality(Claimants(u))
  <1>1. N \in Nat
    <2>1. IsFiniteSet(Claimants(u))
      BY VehicleAssumption, FS_Subset DEF Claimants
    <2> QED BY <2>1, FS_CardinalityType
  <1>2. PICK f : /\ Retried(f, N, u, excluded)
                 /\ retryAvailableDeliveryVehicleClaims(u, excluded) = f[N]
    BY <1>1, RetryRun
  <1> HIDE DEF N
  <1> DEFINE broken == {n \in 0..N : ~RetryKeeps(u, excluded, f[n])}
  <1>3. broken = {}
    <2> SUFFICES ASSUME broken # {} PROVE FALSE
      OBVIOUS
    <2>1. broken \in SUBSET Nat
      BY <1>1
    <2>2. PICK m \in broken : \A k \in broken : m <= k
      <3> HIDE DEF broken
      <3> QED BY <2>1, LeastNumber
    <2>3. m \in 0..N /\ ~RetryKeeps(u, excluded, f[m])
      OBVIOUS
    <2>4. CASE m = 0
      <3>1. f[0] = u
        BY <1>1, <1>2 DEF Retried
      <3> QED BY <2>3, <2>4, <3>1 DEF RetryKeeps
    <2>5. CASE m # 0
      <3>1. m - 1 \in 0..N
        BY <1>1, <2>3, <2>5
      <3>2. m - 1 \notin broken
        BY <2>2, <2>3, <3>1, <1>1
      <3>3. RetryKeeps(u, excluded, f[m - 1])
        BY <3>1, <3>2
      <3>4. f[m] = RetryClaim(u, excluded, f[m - 1], m)
        BY <1>2, <2>3, <2>5 DEF Retried
      <3> QED BY <2>3, <3>3, <3>4, RetryClaimInv
    <2> QED BY <2>4, <2>5
  <1>4. N \in 0..N
    BY <1>1
  <1> QED BY <1>2, <1>3, <1>4

-----------------------------------------------------------------------------
(* Boards and pages that come and go. *)

\* What is abandoned keeps its place on the wire.
LEMMA ClearInv ==
    ASSUME NEW u, PageInv(u, {})
    PROVE  LET w == clearDeliveryVehicleTransientState(u) IN
           /\ PageInv(w, {})
           /\ \A d \in Drivers : u.tails[d] # <<>> =>
                  w.tails[d] # <<>> /\ ~w.tails[d][1].current
  <1> DEFINE none == [d \in Drivers |-> NoDraft]
             clear == [d \in Drivers |-> NoVehicle]
             tails == [d \in Drivers |->
                  [i \in DOMAIN u.tails[d] |->
                      [u.tails[d][i] EXCEPT !.current = FALSE]]]
             w == clearDeliveryVehicleTransientState(u)
  <1>1. u \in Page /\ u.tails \in [Drivers -> Seq(Write)]
    BY DEF PageInv, Page
  <1>2. w = [u EXCEPT !.drafts = none, !.claims = clear, !.earlier = {},
                      !.errors = {}, !.pending = {}, !.queues = {}, !.tails = tails]
    BY DEF clearDeliveryVehicleTransientState
  <1>3. ASSUME NEW d \in Drivers
        PROVE  /\ tails[d] \in Seq(Write)
               /\ Len(tails[d]) = Len(u.tails[d])
               /\ \A i \in DOMAIN u.tails[d] :
                      /\ ~tails[d][i].current
                      /\ tails[d][i].answer = u.tails[d][i].answer
               /\ DOMAIN tails[d] = DOMAIN u.tails[d]
    <2>1. u.tails[d] \in Seq(Write)
      BY <1>1
    <2>2. DOMAIN u.tails[d] = 1..Len(u.tails[d]) /\ Len(u.tails[d]) \in Nat
      BY <2>1
    <2>3. ASSUME NEW i \in DOMAIN u.tails[d]
          PROVE  /\ [u.tails[d][i] EXCEPT !.current = FALSE] \in Write
                 /\ ~[u.tails[d][i] EXCEPT !.current = FALSE].current
                 /\ [u.tails[d][i] EXCEPT !.current = FALSE].answer = u.tails[d][i].answer
      <3>1. u.tails[d][i] \in Write
        BY <2>1
      <3> QED BY <3>1 DEF Write
    <2>4. tails[d] = [i \in 1..Len(u.tails[d]) |->
                         [u.tails[d][i] EXCEPT !.current = FALSE]]
      BY <2>2
    <2>5. tails[d] \in Seq(Write) /\ Len(tails[d]) = Len(u.tails[d])
      <3> DEFINE n == Len(u.tails[d])
                 s == tails[d]
      <3>1. n \in Nat /\ s = [i \in 1..n |-> s[i]] /\ \A i \in 1..n : s[i] \in Write
        BY <2>2, <2>3, <2>4
      <3> HIDE DEF n, s
      <3>2. s \in Seq(Write) /\ Len(s) = n
        BY <3>1
      <3> QED BY <3>2 DEF n, s
    <2> QED BY <2>2, <2>3, <2>4, <2>5
  <1> HIDE DEF tails, none, clear, w
  <1>4. tails \in [Drivers -> Seq(Write)]
    <2>1. tails = [d \in Drivers |-> tails[d]]
      BY DEF tails
    <2> QED BY <1>3, <2>1
  <1>5. none \in [Drivers -> Selection \cup {NoDraft}] /\ clear \in [Drivers -> Selection]
    BY DEF none, clear, Selection
  <1>6. /\ w \in Page
        /\ w.claims = clear /\ w.earlier = {} /\ w.queues = {} /\ w.pending = {}
        /\ w.tails = tails
    BY <1>1, <1>2, <1>4, <1>5 DEF Page
  <1>7. Claimants(w) = {}
    BY <1>6 DEF Claimants, clear
  <1>8. ClaimsInOrder(w) /\ ClaimIsChosen(w)
    BY <1>6, <1>7 DEF ClaimsInOrder, ClaimIsChosen
  <1>9. \A d \in Drivers : u.tails[d] \in Seq(Write) /\ tails[d] \in Seq(Write)
    BY <1>1, <1>4
  <1>10. \A d \in Drivers : tails[d] # <<>> => u.tails[d] # <<>> /\ 1 \in DOMAIN u.tails[d]
    BY <1>3, <1>9, EmptySeq
  <1>11. \A d \in Drivers : u.tails[d] # <<>> => tails[d] # <<>> /\ 1 \in DOMAIN u.tails[d]
    BY <1>3, <1>9, EmptySeq
  <1>12. WritesWait(w, {})
    <2>1. WritesWait(u, {})
      BY DEF PageInv
    <2> QED BY <1>3, <1>6, <1>10, <2>1 DEF WritesWait
  <1>13. EntryIsLast(w)
    <2>1. \A d \in Drivers : tails[d] # <<>> => Len(tails[d]) \in DOMAIN u.tails[d]
      BY <1>3, <1>9, EmptySeq
    <2> QED BY <1>3, <1>6, <2>1 DEF EntryIsLast
  <1>14. FirstClaimAsks(w, {})
    BY <1>6, <1>7 DEF FirstClaimAsks, AsksForClaim, Claimants
  <1>15. PageInv(w, {})
    BY <1>6, <1>8, <1>12, <1>13, <1>14 DEF PageInv
  <1>16. \A d \in Drivers : u.tails[d] # <<>> =>
             w.tails[d] # <<>> /\ ~w.tails[d][1].current
    BY <1>3, <1>6, <1>11
  <1> QED BY <1>15, <1>16 DEF w

\* The claims of a page that a new board leaves keep their order.
LEMMA PruneInv ==
    ASSUME NEW u, PageInv(u, {}), NEW board \in Board
    PROVE  PageInv(pruneDeliveryVehicleDrafts(u, board), {})
  <1> DEFINE drafts == [d \in Drivers |->
            IF u.drafts[d] = board[d] /\ board[d] # NoVehicle
              THEN NoDraft ELSE u.drafts[d]]
             kept == {d \in Claimants(u) : drafts[d] = u.claims[d]}
             claims == [d \in Drivers |-> IF d \in kept THEN u.claims[d] ELSE NoVehicle]
             earlier == u.earlier \cap (kept \X kept)
             w == pruneDeliveryVehicleDrafts(u, board)
  <1>1. /\ u \in Page
        /\ u.claims \in [Drivers -> Selection] /\ u.earlier \subseteq Drivers \X Drivers
        /\ u.drafts \in [Drivers -> Selection \cup {NoDraft}]
        /\ u.pending \in SUBSET Drivers
    BY DEF PageInv, Page
  <1>2. w = [u EXCEPT !.board = board, !.drafts = drafts, !.claims = claims,
                      !.earlier = earlier, !.pending = u.pending \cap u.queues]
    BY DEF pruneDeliveryVehicleDrafts
  <1>3. drafts \in [Drivers -> Selection \cup {NoDraft}]
    BY <1>1
  <1>4. claims \in [Drivers -> Selection] /\ earlier \in SUBSET (Drivers \X Drivers)
    BY <1>1 DEF Selection
  <1>5. /\ kept \subseteq Claimants(u)
        /\ \A c \in kept : drafts[c] = u.claims[c]
        /\ \A c \in Drivers : claims[c] = IF c \in kept THEN u.claims[c] ELSE NoVehicle
    OBVIOUS
  <1>6. earlier = u.earlier \cap (kept \X kept)
    OBVIOUS
  <1> HIDE DEF drafts, kept, claims, earlier, w
  <1>7. /\ w \in Page
        /\ w.claims = claims /\ w.earlier = earlier /\ w.drafts = drafts
        /\ w.queues = u.queues /\ w.pending = u.pending \cap u.queues
        /\ w.tails = u.tails
    BY <1>1, <1>2, <1>3, <1>4 DEF Page
  <1>8. Claimants(w) = kept
    BY <1>5, <1>7 DEF Claimants
  <1>9. ClaimsInOrder(w)
    <2>1. ClaimsInOrder(u)
      BY DEF PageInv
    <2>2. \A b, c : <<b, c>> \in w.earlier <=> <<b, c>> \in u.earlier /\ b \in kept /\ c \in kept
      BY <1>6, <1>7
    <2>3. w.earlier \subseteq kept \X kept
      BY <1>6, <1>7
    <2> QED BY <1>5, <1>8, <2>1, <2>2, <2>3 DEF ClaimsInOrder
  <1>10. ClaimIsChosen(w)
    BY <1>5, <1>7, <1>8 DEF ClaimIsChosen, Claimants
  <1>11. WritesWait(w, {})
    BY <1>7 DEF PageInv, WritesWait
  <1>12. EntryIsLast(w)
    BY <1>7 DEF PageInv, EntryIsLast
  <1>13. FirstClaimAsks(w, {})
    <2>1. \A d \in Drivers : AsksForClaim(w, d) => AsksForClaim(u, d) /\ d \in kept
      BY <1>5, <1>7 DEF AsksForClaim
    <2>2. \A d, e \in Drivers : d \in kept /\ claims[e] = claims[d] => u.claims[e] = u.claims[d]
      BY <1>5 DEF Claimants
    <2> QED BY <2>1, <2>2, <1>6, <1>7 DEF PageInv, FirstClaimAsks
  <1>14. PageInv(w, {})
    BY <1>7, <1>9, <1>10, <1>11, <1>12, <1>13 DEF PageInv
  <1> QED BY <1>14 DEF w

\* After an abandoned write the entry that waits for it starts.
LEMMA NextWriteInv ==
    ASSUME NEW u, NEW d \in Drivers, PageInv(u, {}),
           u.tails[d] # <<>>, ~u.tails[d][1].current
    PROVE  PageInv(NextWrite(u, d), {})
  <1> DEFINE writes == u.tails[d]
             started == {i \in 2..Len(writes) : writes[i].current}
             next == CHOOSE i \in started : \A j \in started : i <= j
             left == IF started = {} THEN <<>> ELSE SubSeq(writes, next, Len(writes))
             w == AfterWrite(u, d)
             X == IF started = {} THEN {} ELSE {d}
  <1>1. u \in Page /\ u.tails \in [Drivers -> Seq(Write)] /\ writes \in Seq(Write)
    BY DEF PageInv, Page
  <1>2. DOMAIN writes = 1..Len(writes) /\ Len(writes) \in Nat \ {0}
    BY <1>1, EmptySeq
  <1>3. \A i \in DOMAIN writes : writes[i].current => i = Len(writes)
    BY DEF PageInv, WritesWait
  <1>4. d \in u.queues <=> writes[Len(writes)].current
    BY DEF PageInv, EntryIsLast
  <1>5. started \subseteq {Len(writes)}
    BY <1>2, <1>3
  <1>6. d \in u.queues <=> started # {}
    BY <1>2, <1>4, <1>5
  <1>7. left = IF started = {} THEN <<>> ELSE <<writes[Len(writes)]>>
    <2> SUFFICES ASSUME started # {}
                 PROVE  SubSeq(writes, next, Len(writes)) = <<writes[Len(writes)]>>
      OBVIOUS
    <2>1. started = {Len(writes)}
      BY <1>5
    <2>2. next = Len(writes)
      <3> HIDE DEF started
      <3> QED BY <2>1, <1>2
    <2> HIDE DEF next, started
    <2>3. \A i \in next..Len(writes) : writes[i] \in Write
      BY <2>2, <1>1, <1>2
    <2>4. /\ SubSeq(writes, next, Len(writes)) \in Seq(Write)
          /\ Len(SubSeq(writes, next, Len(writes))) = 1
          /\ SubSeq(writes, next, Len(writes))[1] = writes[Len(writes)]
      BY <2>2, <2>3, <1>2, SubSeqProperties
    <2>5. \A s \in Seq(Write) : Len(s) = 1 => s = <<s[1]>>
      OBVIOUS
    <2> QED BY <2>4, <2>5
  <1>8. w = [u EXCEPT !.tails = [u.tails EXCEPT ![d] = left]]
    BY <1>1 DEF AfterWrite, Page
  <1>9. left \in Seq(Write)
    <2>1. writes[Len(writes)] \in Write
      BY <1>1, <1>2
    <2> HIDE DEF left
    <2> QED BY <1>7, <2>1
  <1> HIDE DEF writes, left, w, started
  <1>10. [u.tails EXCEPT ![d] = left] \in [Drivers -> Seq(Write)]
    BY <1>1, <1>9
  <1>11. /\ w \in Page
         /\ w.claims = u.claims /\ w.earlier = u.earlier /\ w.drafts = u.drafts
         /\ w.queues = u.queues /\ w.pending = u.pending
         /\ w.tails = [u.tails EXCEPT ![d] = left]
    BY <1>1, <1>8, <1>10 DEF Page
  <1>12. \A e \in Drivers : w.tails[e] = IF e = d THEN left ELSE u.tails[e]
    BY <1>1, <1>11
  <1>13. started # {} => /\ left # <<>> /\ Len(left) = 1 /\ DOMAIN left = {1}
                         /\ left[1].current
    BY <1>4, <1>6, <1>7
  <1>14. ClaimsInOrder(w) /\ ClaimIsChosen(w)
    BY <1>11 DEF PageInv, ClaimsInOrder, ClaimIsChosen, Claimants
  <1>15. WritesWait(w, X)
    <2>1. WritesWait(u, {})
      BY DEF PageInv
    <2> SUFFICES ASSUME NEW e \in Drivers
                 PROVE  /\ \A i \in DOMAIN w.tails[e] :
                              /\ i > 1 => w.tails[e][i].answer = "waiting"
                              /\ w.tails[e][i].current => i = Len(w.tails[e])
                        /\ e \notin X /\ w.tails[e] # <<>>
                              => w.tails[e][1].answer # "waiting"
                        /\ e \in X => w.tails[e] # <<>> /\ w.tails[e][1].current
      BY DEF WritesWait
    <2>2. CASE e # d
      BY <2>1, <2>2, <1>12 DEF WritesWait
    <2>3. CASE e = d /\ started = {}
      BY <2>3, <1>7, <1>12
    <2>4. CASE e = d /\ started # {}
      <3>1. w.tails[e] = left /\ e \in X
        BY <2>4, <1>12
      <3>2. \A i \in DOMAIN left : ~(i > 1) /\ i = Len(left)
        <4>1. DOMAIN left = {1} /\ Len(left) = 1
          BY <2>4, <1>13
        <4> QED BY <4>1
      <3> QED BY <2>4, <3>1, <3>2, <1>13
    <2> QED BY <2>2, <2>3, <2>4
  <1>16. EntryIsLast(w)
    BY <1>6, <1>7, <1>11, <1>12, <1>13 DEF PageInv, EntryIsLast
  <1>17. FirstClaimAsks(w, X)
    <2>1. \A e \in Drivers \ X : AsksForClaim(w, e) => e # d
      BY <1>7, <1>12 DEF AsksForClaim
    <2>2. \A e \in Drivers \ {d} : AsksForClaim(w, e) => AsksForClaim(u, e)
      BY <1>11, <1>12 DEF AsksForClaim
    <2> QED BY <2>1, <2>2, <1>11 DEF PageInv, FirstClaimAsks
  <1>18. PageInv(w, X)
    BY <1>11, <1>14, <1>15, <1>16, <1>17 DEF PageInv
  <1>19. NextWrite(u, d) = IF w.tails[d] = <<>> THEN w ELSE processDeliveryVehicleQueue(w, d)
    BY DEF NextWrite, w
  <1>20. CASE started = {}
    BY <1>7, <1>12, <1>18, <1>19, <1>20
  <1>21. CASE started # {}
    <2>1. X = {d} /\ w.tails[d] # <<>> /\ w.tails[d][1].current
      BY <1>12, <1>13, <1>21
    <2> HIDE DEF X
    <2>2. PageInv(processDeliveryVehicleQueue(w, d), {})
      BY <1>18, <2>1, ProcessInv
    <2> QED BY <1>19, <2>1, <2>2
  <1> QED BY <1>20, <1>21

-----------------------------------------------------------------------------
(* Events. *)

\* The inductive invariant of the specification.
AutosaveInv ==
    /\ rows \in Board
    /\ on_page \in BOOLEAN
    /\ task_board \in Board
    /\ reload \in Board \cup {NoReload}
    /\ PageInv(ui, {})

\* Another choice on a card that is not pending.
LEMMA SelectionInv ==
    ASSUME PageInv(ui, {}), NEW d \in Drivers, NEW v \in Selection,
           updateDeliveryVehicleSelection(d, v)
    PROVE  PageInv(ui', {})
  <1> DEFINE w == [updateDeliveryVehicleClaim([ui EXCEPT !.drafts[d] = v], d, v)
                      EXCEPT !.errors = @ \ {d}]
             z == [updateDeliveryVehicleClaim([ui EXCEPT !.drafts[d] = v], d, v)
                      EXCEPT !.errors = ui.errors \ {d}]
  <1>1. d \notin ui.queues
    BY DEF updateDeliveryVehicleSelection, PageInv, EntryIsLast
  <1>2. /\ ui.errors \ {d} \in SUBSET Drivers
        /\ updateDeliveryVehicleClaim([ui EXCEPT !.drafts[d] = v], d, v).errors = ui.errors
    BY DEF PageInv, Page, updateDeliveryVehicleClaim, removeDeliveryVehicleClaim, ClaimLast
  <1>3. w = z
    BY <1>2
  <1>4. PageInv(z, {}) /\ z.claims[d] = v
    BY <1>1, <1>2, ChosenInv
  <1>5. \/ ui' = w
        \/ v = NoVehicle /\ ui' = retryAvailableDeliveryVehicleClaims(
                                      removeDeliveryVehicleDraft(w, d), d)
        \/ ui' = queueDeliveryVehicleUpdate(w, d)
    BY DEF updateDeliveryVehicleSelection
  <1> HIDE DEF w, z
  <1>6. PageInv(w, {}) /\ w.claims[d] = v
    BY <1>3, <1>4
  <1>7. PageInv(queueDeliveryVehicleUpdate(w, d), {})
    BY <1>6, EnqueuedInv
  <1>8. ASSUME v = NoVehicle
        PROVE  PageInv(retryAvailableDeliveryVehicleClaims(
                          removeDeliveryVehicleDraft(w, d), d), {})
    <2> DEFINE r == removeDeliveryVehicleDraft(w, d)
    <2>1. w \in Page /\ w.drafts \in [Drivers -> Selection \cup {NoDraft}]
      BY <1>6 DEF PageInv, Page
    <2>2. /\ r \in Page
          /\ r.claims = w.claims /\ r.earlier = w.earlier /\ r.tails = w.tails
          /\ r.queues = w.queues /\ r.pending = w.pending
          /\ r.drafts = [w.drafts EXCEPT ![d] = NoDraft]
      BY <2>1 DEF removeDeliveryVehicleDraft, Page
    <2> HIDE DEF r
    <2>3. \A c \in Claimants(w) : r.drafts[c] = w.drafts[c]
      BY <1>6, <1>8, <2>1, <2>2 DEF Claimants
    <2>4. PageInv(r, {})
      BY <1>6, <2>2, <2>3, FreeInv
    <2>5. PageInv(retryAvailableDeliveryVehicleClaims(r, d), {})
      BY <2>4, RetryInv DEF RetryKeeps
    <2> QED BY <2>5 DEF r
  <1> QED BY <1>5, <1>6, <1>7, <1>8

\* The first write is sent while it can be answered, and never waits.
LEMMA AnsweredInv ==
    ASSUME NEW u, PageInv(u, {}), NEW d \in Drivers, u.tails[d] # <<>>,
           NEW answer \in {"done", "error", "conflict"}
    PROVE  PageInv([u EXCEPT !.tails[d][1].answer = answer], {})
  <1> DEFINE writes == u.tails[d]
             write == [writes[1] EXCEPT !.answer = answer]
             new == [writes EXCEPT ![1] = write]
             w == [u EXCEPT !.tails[d][1].answer = answer]
  <1>1. u \in Page /\ u.tails \in [Drivers -> Seq(Write)] /\ writes \in Seq(Write)
    BY DEF PageInv, Page
  <1>2. 1 \in DOMAIN writes
    BY <1>1, EmptySeq
  <1>3. writes[1] \in Write
    BY <1>1, <1>2
  <1>4. /\ write \in Write /\ write.current = writes[1].current
        /\ write.answer = answer
    BY <1>3 DEF Write
  <1>5. w = [u EXCEPT !.tails = [u.tails EXCEPT ![d] = new]]
    BY <1>1 DEF Page
  <1> HIDE DEF write, w
  <1>6. /\ new \in Seq(Write) /\ Len(new) = Len(writes) /\ DOMAIN new = DOMAIN writes
        /\ new[1] = write
        /\ \A i \in DOMAIN writes : i # 1 => new[i] = writes[i]
        /\ new # <<>>
    BY <1>1, <1>2, <1>4, EmptySeq
  <1> HIDE DEF new
  <1>7. [u.tails EXCEPT ![d] = new] \in [Drivers -> Seq(Write)]
    BY <1>1, <1>6
  <1>8. /\ w \in Page
        /\ w.claims = u.claims /\ w.earlier = u.earlier /\ w.drafts = u.drafts
        /\ w.queues = u.queues /\ w.pending = u.pending
        /\ w.tails = [u.tails EXCEPT ![d] = new]
    BY <1>1, <1>5, <1>7 DEF Page
  <1>9. \A e \in Drivers : w.tails[e] = IF e = d THEN new ELSE u.tails[e]
    BY <1>1, <1>8
  <1>10. ClaimsInOrder(w) /\ ClaimIsChosen(w)
    BY <1>8 DEF PageInv, ClaimsInOrder, ClaimIsChosen, Claimants
  <1>11. \A i \in DOMAIN writes : new[i].current = writes[i].current
    BY <1>4, <1>6
  <1>12. WritesWait(w, {})
    <2>1. WritesWait(u, {})
      BY DEF PageInv
    <2> SUFFICES ASSUME NEW e \in Drivers
                 PROVE  /\ \A i \in DOMAIN w.tails[e] :
                              /\ i > 1 => w.tails[e][i].answer = "waiting"
                              /\ w.tails[e][i].current => i = Len(w.tails[e])
                        /\ w.tails[e] # <<>> => w.tails[e][1].answer # "waiting"
      BY DEF WritesWait
    <2>2. CASE e # d
      BY <2>1, <2>2, <1>9 DEF WritesWait
    <2>3. CASE e = d
      <3>1. w.tails[e] = new
        BY <2>3, <1>9
      <3>2. \A i \in DOMAIN new : i > 1 => new[i].answer = "waiting"
        BY <2>1, <1>6 DEF WritesWait
      <3>3. \A i \in DOMAIN new : new[i].current => i = Len(new)
        BY <2>1, <1>6, <1>11 DEF WritesWait
      <3>4. new[1].answer # "waiting"
        BY <1>4, <1>6
      <3> QED BY <3>1, <3>2, <3>3, <3>4
    <2> QED BY <2>2, <2>3
  <1>13. EntryIsLast(w)
    <2>1. Len(writes) \in DOMAIN writes
      BY <1>1, EmptySeq
    <2>2. new[Len(new)].current = writes[Len(writes)].current
      BY <2>1, <1>6, <1>11
    <2> QED BY <2>2, <1>6, <1>8, <1>9 DEF PageInv, EntryIsLast
  <1>14. FirstClaimAsks(w, {})
    <2>1. \A e \in Drivers : AsksForClaim(w, e) => e # d
      BY <1>4, <1>6, <1>9 DEF AsksForClaim
    <2>2. \A e \in Drivers \ {d} : AsksForClaim(w, e) => AsksForClaim(u, e)
      BY <1>8, <1>9 DEF AsksForClaim
    <2> QED BY <2>1, <2>2, <1>8 DEF PageInv, FirstClaimAsks
  <1>15. PageInv(w, {})
    BY <1>8, <1>10, <1>12, <1>13, <1>14 DEF PageInv
  <1> QED BY <1>15 DEF w

\* An entry that goes on returns, asks again, or lets other cards ask.
LEMMA ResumeInv ==
    ASSUME NEW u, PageInv(u, {}), NEW d \in Drivers, u.tails[d] # <<>>,
           u.tails[d][1].current
    PROVE  PageInv(Resume(u, d, u.tails[d][1]), {})
  <1> DEFINE write == u.tails[d][1]
             b == [u EXCEPT !.board[d] = write.vehicle_id]
             s == Saved(b, d)
             r == retryAvailableDeliveryVehicleClaims(s, d)
             f == [u EXCEPT !.errors = @ \cup {d}]
  <1>1. write \in Write
    BY EntryAlone
  <1>2. u \in Page /\ u.board \in Board /\ u.errors \in SUBSET Drivers
    BY DEF PageInv, Page
  <1>3. write.vehicle_id \in Selection
    BY <1>1 DEF Write
  <1>4. PageInv(b, {}) /\ b.tails = u.tails
    <2>1. [u.board EXCEPT ![d] = write.vehicle_id] \in Board
      BY <1>2, <1>3 DEF Board
    <2> HIDE DEF write
    <2>2. /\ b \in Page
          /\ b.claims = u.claims /\ b.earlier = u.earlier /\ b.tails = u.tails
          /\ b.queues = u.queues /\ b.pending = u.pending /\ b.drafts = u.drafts
      BY <1>2, <2>1 DEF Page
    <2> HIDE DEF b
    <2> QED BY <2>2, FreeInv
  <1>5. PageInv(f, {}) /\ f.tails = u.tails
    <2>1. /\ f \in Page
          /\ f.claims = u.claims /\ f.earlier = u.earlier /\ f.tails = u.tails
          /\ f.queues = u.queues /\ f.pending = u.pending /\ f.drafts = u.drafts
      BY <1>2 DEF Page
    <2> HIDE DEF f
    <2> QED BY <2>1, FreeInv
  <1> HIDE DEF b, f
  <1>6. PageInv(s, {}) /\ s.tails = u.tails
    BY <1>4, SavedInv
  <1> HIDE DEF s
  <1>7. PageInv(r, {}) /\ r.tails[d] = u.tails[d]
    BY <1>6, RetryInv DEF RetryKeeps
  <1> HIDE DEF r
  <1>8. PageInv(Settle(r, d), {}) /\ PageInv(Settle(f, d), {})
    BY <1>5, <1>7, SettleInv
  <1>9. /\ PageInv(processDeliveryVehicleQueue(b, d), {})
        /\ PageInv(processDeliveryVehicleQueue(u, d), {})
    BY <1>4, ProcessInv
  <1>10. Resume(u, d, write) \in {Settle(r, d), Settle(f, d),
             processDeliveryVehicleQueue(b, d), processDeliveryVehicleQueue(u, d)}
    BY DEF Resume, b, f, s, r
  <1> HIDE DEF write
  <1>11. PageInv(Resume(u, d, write), {})
    BY <1>8, <1>9, <1>10
  <1> QED BY <1>11 DEF write

\* The answer to the first write, abandoned or not, or a conflict.
LEMMA AnswerArrivesInv ==
    ASSUME PageInv(ui, {}), NEW d \in Drivers, AnswerArrives(d)
    PROVE  PageInv(ui', {})
  <1> DEFINE c == clearDeliveryVehicleTransientState(ui)
  <1>1. /\ ui.tails[d] # <<>> /\ Head(ui.tails[d]) = ui.tails[d][1]
    BY DEF AnswerArrives
  <1>2. CASE ~ui.tails[d][1].current
    <2>1. ui' = NextWrite(ui, d)
      BY <1>1, <1>2 DEF AnswerArrives
    <2> QED BY <1>1, <1>2, <2>1, NextWriteInv
  <1>3. CASE ui.tails[d][1].current /\ ui.tails[d][1].answer = "conflict"
    <2>1. ui' = NextWrite(c, d)
      BY <1>1, <1>3 DEF AnswerArrives
    <2>2. PageInv(c, {}) /\ c.tails[d] # <<>> /\ ~c.tails[d][1].current
      BY <1>1, ClearInv
    <2> HIDE DEF c
    <2> QED BY <2>1, <2>2, NextWriteInv
  <1>4. CASE ui.tails[d][1].current /\ ui.tails[d][1].answer # "conflict"
    <2>1. ui' = Resume(ui, d, ui.tails[d][1])
      BY <1>1, <1>4 DEF AnswerArrives
    <2> QED BY <1>1, <1>4, <2>1, ResumeInv
  <1> QED BY <1>2, <1>3, <1>4

\* The server answers the first write of d.
LEMMA ServerAnswersInv ==
    ASSUME AutosaveInv, NEW d \in Drivers, ServerAnswers(d)
    PROVE  AutosaveInv'
  <1>1. ui.tails[d] # <<>> /\ Head(ui.tails[d]) = ui.tails[d][1]
    BY DEF ServerAnswers
  <1>2. ui.tails[d] \in Seq(Write)
    BY DEF AutosaveInv, PageInv, Page
  <1>3. Head(ui.tails[d]).vehicle_id \in Selection
    <2>1. ui.tails[d][1] \in Write
      BY <1>1, <1>2, EmptySeq
    <2> QED BY <1>1, <2>1 DEF Write
  <1>4. rows' \in Board
    <2>1. \/ rows' = rows
          \/ rows' = [rows EXCEPT ![d] = Head(ui.tails[d]).vehicle_id]
      BY DEF ServerAnswers
    <2> QED BY <1>3, <2>1 DEF AutosaveInv, Board
  <1>5. \E answer \in {"done", "error", "conflict"} :
            ui' = [ui EXCEPT !.tails[d][1].answer = answer]
    BY DEF ServerAnswers
  <1>6. PageInv(ui', {})
    <2>1. PICK answer \in {"done", "error", "conflict"} :
              ui' = [ui EXCEPT !.tails[d][1].answer = answer]
      BY <1>5
    <2>2. PageInv([ui EXCEPT !.tails[d][1].answer = answer], {})
      BY <1>1, AnsweredInv DEF AutosaveInv
    <2> QED BY <2>1, <2>2
  <1>7. UNCHANGED <<on_page, task_board, reload>>
    BY DEF ServerAnswers
  <1> QED BY <1>4, <1>6, <1>7 DEF AutosaveInv

\* The page is shown with no choice on it.
LEMMA InitAutosaveInv == Init => AutosaveInv
  <1> SUFFICES ASSUME Init PROVE AutosaveInv
    OBVIOUS
  <1> DEFINE empty == [d \in Drivers |-> <<>>]
  <1>1. rows \in Board /\ task_board \in Board
    BY DEF Init, TaskPoolBoards, Board, Selection
  <1>2. /\ [d \in Drivers |-> NoDraft] \in [Drivers -> Selection \cup {NoDraft}]
        /\ [d \in Drivers |-> NoVehicle] \in [Drivers -> Selection]
        /\ empty \in [Drivers -> Seq(Write)]
    BY DEF Selection
  <1>3. /\ ui \in Page
        /\ ui.claims = [d \in Drivers |-> NoVehicle] /\ ui.earlier = {}
        /\ ui.tails = empty /\ ui.queues = {} /\ ui.pending = {}
    BY <1>1, <1>2 DEF Init, Page
  <1>4. Claimants(ui) = {}
    BY <1>3 DEF Claimants
  <1>5. ClaimsInOrder(ui) /\ ClaimIsChosen(ui)
    BY <1>3, <1>4 DEF ClaimsInOrder, ClaimIsChosen
  <1>6. \A d \in Drivers : ui.tails[d] = <<>>
    BY <1>3
  <1>7. WritesWait(ui, {}) /\ EntryIsLast(ui) /\ FirstClaimAsks(ui, {})
    BY <1>3, <1>6 DEF WritesWait, EntryIsLast, FirstClaimAsks, AsksForClaim
  <1> QED BY <1>1, <1>3, <1>5, <1>7 DEF Init, AutosaveInv, PageInv

\* Every event keeps the invariant.
LEMMA StepAutosaveInv == AutosaveInv /\ [Next]_vars => AutosaveInv'
  <1> SUFFICES ASSUME AutosaveInv, [Next]_vars PROVE AutosaveInv'
    OBVIOUS
  <1>0. PageInv(ui, {})
    BY DEF AutosaveInv
  <1>1. ASSUME NEW d \in Drivers, NEW v \in Selection,
               updateDeliveryVehicleSelection(d, v)
        PROVE  AutosaveInv'
    <2>1. PageInv(ui', {})
      BY <1>0, <1>1, SelectionInv
    <2>2. UNCHANGED <<rows, on_page, task_board, reload>>
      BY <1>1 DEF updateDeliveryVehicleSelection
    <2> QED BY <2>1, <2>2 DEF AutosaveInv
  <1>2. CASE LeavePage
    <2>1. PageInv(ui', {})
      BY <1>0, <1>2, ClearInv DEF LeavePage
    <2> QED BY <2>1, <1>2 DEF AutosaveInv, LeavePage
  <1>3. CASE ReturnToPage
    <2>1. reload \in Board /\ ui' = pruneDeliveryVehicleDrafts(ui, reload)
      BY <1>3 DEF ReturnToPage, AutosaveInv
    <2>2. PageInv(ui', {})
      BY <1>0, <2>1, PruneInv
    <2>3. task_board' \in Board
      BY <1>3 DEF AutosaveInv, ReturnToPage, TaskPoolBoards, Board, Selection
    <2> QED BY <2>2, <2>3, <1>3 DEF AutosaveInv, ReturnToPage
  <1>4. ASSUME NEW d \in Drivers, ServerAnswers(d) PROVE AutosaveInv'
    BY <1>4, ServerAnswersInv
  <1>5. ASSUME NEW d \in Drivers, AnswerArrives(d) PROVE AutosaveInv'
    <2>1. PageInv(ui', {})
      BY <1>0, <1>5, AnswerArrivesInv
    <2>2. on_page' \in BOOLEAN /\ UNCHANGED <<rows, task_board, reload>>
      BY <1>5 DEF AnswerArrives
    <2> QED BY <2>1, <2>2 DEF AutosaveInv
  <1>6. CASE ReadBoard
    BY <1>6 DEF AutosaveInv, ReadBoard
  <1>7. CASE BoardArrives
    <2>1. reload \in Board
      BY <1>7 DEF BoardArrives, AutosaveInv
    <2>2. PageInv(pruneDeliveryVehicleDrafts(ui, reload), {})
      BY <1>0, <2>1, PruneInv
    <2>3. PageInv(ui', {})
      BY <1>0, <2>2, <1>7 DEF BoardArrives
    <2> QED BY <2>3, <1>7 DEF AutosaveInv, BoardArrives
  <1>8. ASSUME NEW d \in Drivers, NEW v \in Selection, OtherClient(d, v)
        PROVE  AutosaveInv'
    BY <1>8 DEF AutosaveInv, OtherClient, Board
  <1>9. CASE UNCHANGED vars
    BY <1>9 DEF AutosaveInv, vars
  <1> QED BY <1>1, <1>2, <1>3, <1>4, <1>5, <1>6, <1>7, <1>8, <1>9
          DEF Next, UserEvent, RequestEvent

-----------------------------------------------------------------------------
(* Theorems. *)

\* The invariant holds in every state of every behaviour.
THEOREM AutosaveInvariant == Spec => []AutosaveInv
  <1>1. Init => AutosaveInv
    BY InitAutosaveInv
  <1>2. AutosaveInv /\ [Next]_vars => AutosaveInv'
    BY StepAutosaveInv
  <1> QED BY <1>1, <1>2, PTL DEF Spec

\* The page keeps its types, and its claims an order without ties: whichever
\* claims are released, made again or pruned.
THEOREM AutosaveTypeCorrect == Spec => []TypeOK
  <1>1. AutosaveInv => TypeOK
    BY DEF AutosaveInv, PageInv, TypeOK
  <1> QED BY <1>1, AutosaveInvariant, PTL

\* The server never works on two writes of one driver, however often the page is
\* left and opened while they are on their way: the physical tails.
THEOREM AutosaveOneWrite == Spec => []OneWriteAtATime
  <1>1. AutosaveInv => OneWriteAtATime
    <2> SUFFICES ASSUME AutosaveInv, NEW d \in Drivers,
                        NEW i \in Unsettled(d), NEW j \in Unsettled(d)
                 PROVE  i = j
      BY DEF OneWriteAtATime
    <2>1. ui.tails[d] \in Seq(Write)
      BY DEF AutosaveInv, PageInv, Page
    <2>2. \A k \in Unsettled(d) : k \in Nat /\ k >= 1 /\ ~(k > 1)
      BY <2>1 DEF AutosaveInv, PageInv, WritesWait, Unsettled
    <2> QED BY <2>2
  <1> QED BY <1>1, AutosaveInvariant, PTL

\* A card is disabled exactly while it has an entry that will give it back.
THEOREM AutosavePending == Spec => []PendingIffQueued
  <1>1. AutosaveInv => PendingIffQueued
    <2> SUFFICES ASSUME AutosaveInv PROVE PendingIffQueued
      OBVIOUS
    <2>1. \A d \in Drivers : ui.tails[d] \in Seq(Write)
      BY DEF AutosaveInv, PageInv, Page
    <2>2. \A d \in Drivers :
              (\E i \in DOMAIN ui.tails[d] : ui.tails[d][i].current)
              <=> ui.tails[d] # <<>> /\ ui.tails[d][Len(ui.tails[d])].current
      <3> TAKE d \in Drivers
      <3>1. ui.tails[d] # <<>> => Len(ui.tails[d]) \in DOMAIN ui.tails[d]
        BY <2>1, EmptySeq
      <3>2. \A i \in DOMAIN ui.tails[d] :
                /\ ui.tails[d] # <<>>
                /\ ui.tails[d][i].current => i = Len(ui.tails[d])
        BY <2>1, EmptySeq DEF AutosaveInv, PageInv, WritesWait
      <3> QED BY <3>1, <3>2
    <2> QED BY <2>2 DEF AutosaveInv, PageInv, EntryIsLast, PendingIffQueued
  <1> QED BY <1>1, AutosaveInvariant, PTL

\* Of the cards that claim one vehicle only one asks for it: the retries release
\* the first claim and no other.
THEOREM AutosaveTurns == Spec => []ClaimsTakeTurns
  <1>1. AutosaveInv => ClaimsTakeTurns
    <2> SUFFICES ASSUME AutosaveInv, NEW v \in Vehicles,
                        NEW d \in Drivers, NEW e \in Drivers, d # e,
                        ui.claims[d] = v, ui.claims[e] = v,
                        \E i \in DOMAIN ui.tails[d] :
                            /\ ui.tails[d][i].current
                            /\ ui.tails[d][i].answer = "sent"
                            /\ ui.tails[d][i].vehicle_id = v,
                        \E i \in DOMAIN ui.tails[e] :
                            /\ ui.tails[e][i].current
                            /\ ui.tails[e][i].answer = "sent"
                            /\ ui.tails[e][i].vehicle_id = v
                 PROVE  FALSE
      BY DEF ClaimsTakeTurns, AutosaveInv, PageInv, Page
    <2>1. PageInv(ui, {}) /\ v # NoVehicle
      BY VehicleAssumption DEF AutosaveInv
    <2>2. \A c \in Drivers : ui.tails[c] \in Seq(Write)
      BY <2>1 DEF PageInv, Page
    <2>3. \A c \in Drivers : \A i \in DOMAIN ui.tails[c] :
              ui.tails[c][i].answer = "sent" => i = 1 /\ ui.tails[c] # <<>>
      BY <2>1, <2>2, EmptySeq DEF PageInv, WritesWait
    <2>4. AsksForClaim(ui, d) /\ AsksForClaim(ui, e)
      BY <2>1, <2>3 DEF AsksForClaim
    <2>5. <<e, d>> \notin ui.earlier /\ <<d, e>> \notin ui.earlier
      BY <2>1, <2>4 DEF PageInv, FirstClaimAsks
    <2>6. d \in Claimants(ui) /\ e \in Claimants(ui)
      BY <2>1 DEF Claimants
    <2> QED BY <2>1, <2>5, <2>6 DEF PageInv, ClaimsInOrder
  <1> QED BY <1>1, AutosaveInvariant, PTL
=============================================================================
