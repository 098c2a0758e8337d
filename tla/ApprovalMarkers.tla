--------------------------- MODULE ApprovalMarkers ---------------------------
(***************************************************************************)
(* Where an account's approvals live (src/approval_state.rs,               *)
(* ApprovalMarkerIndex).  A room announces itself with a marker, a state   *)
(* event of protocol v1 or v2; the index keeps the newest marker of every  *)
(* room, the lowest protocol the room may still use (its floor), and which *)
(* markers were confirmed by the homeserver since the program started.     *)
(* Only those route the user.                                              *)
(*                                                                         *)
(* An index is a value x; the operators below give the index after a call. *)
(***************************************************************************)
EXTENDS Naturals, FiniteSets, Functions

CONSTANTS
    Accounts, Rooms,
    Contents,      \* what a marker says: [publisher, active: set of routes]
    Routes,        \* (agent, project room) pairs
    Publishers,
    MarkerEvents,  \* the marker events the homeserver may answer with
    MAX_ACCOUNTS, MAX_MARKERS, FRESHNESS,
    MaxGeneration, MaxTime

Protocols == {1, 2}
Content == [publisher : Publishers, active : SUBSET Routes]

\* wellFormed is FALSE for what fails a check after the version is known.
MarkerEvent == [protocol : Protocols, generation : 1..MaxGeneration,
                content : Contents, wellFormed : BOOLEAN]

ASSUME MarkerContents == Contents \subseteq Content /\ MarkerEvents \subseteq MarkerEvent
ASSUME MarkerBounds ==
    /\ MAX_ACCOUNTS \in Nat \ {0} /\ MAX_MARKERS \in Nat \ {0}
    /\ FRESHNESS \in Nat /\ MaxGeneration \in Nat \ {0} /\ MaxTime \in Nat

Places == Accounts \X Rooms
Marker == [protocol : Protocols, generation : 1..MaxGeneration, content : Contents,
           validatedAt : 0..MaxTime, conflicted : BOOLEAN]

VARIABLES
    index,    \* [markers, floors: place -> .., validated: {<<place, generation>>}]
    now

markerVars == <<index, now>>

EmptyIndex == [markers |-> << >>, floors |-> << >>, validated |-> {}]

-----------------------------------------------------------------------------
Put(f, k, v) == [y \in DOMAIN f \cup {k} |-> IF y = k THEN v ELSE f[y]]

\* The caps of the two lists: rooms of one account, and accounts.
Full(places, a) ==
    \/ Cardinality({p \in places : p[1] = a}) >= MAX_MARKERS
    \/ /\ Cardinality({p[1] : p \in places}) >= MAX_ACCOUNTS
       /\ \A p \in places : p[1] # a

Floor(x, p) == IF p \in DOMAIN x.floors THEN x.floors[p] ELSE 1

Unavailable(x, p) == [x EXCEPT !.validated = {v \in @ : v[1] # p}]

\* observe_v2
ObserveFails(x, p) == p \notin DOMAIN x.floors /\ Full(DOMAIN x.floors, p[1])

Observed(x, p) ==
    IF ObserveFails(x, p) THEN Unavailable(x, p)
    ELSE [Unavailable(x, p) EXCEPT !.floors = Put(@, p, 2)]

(***************************************************************************)
(* ingest_marker of event e at time t.                                     *)
(***************************************************************************)
Barred(x, p, e) ==
    \/ e.protocol = 1 /\ Floor(x, p) = 2
    \/ e.protocol = 2 /\ ObserveFails(x, p)

\* Mutated form of Lower: only a marker lower in both respects is.
LowerInBoth(m, e) == e.protocol < m.protocol /\ e.generation < m.generation

Lower(m, e)  == e.protocol < m.protocol \/ e.generation < m.generation
Differs(m, e) ==
    /\ e.generation = m.generation
    /\ e.protocol # m.protocol \/ e.content # m.content

\* The call returns Ok.
Accepts(x, p, e) ==
    /\ ~Barred(x, p, e) /\ e.wellFormed
    /\ IF p \in DOMAIN x.markers
       THEN ~Lower(x.markers[p], e) /\ ~Differs(x.markers[p], e)
       ELSE ~Full(DOMAIN x.markers, p[1])

NewMarker(e, t) ==
    [protocol |-> e.protocol, generation |-> e.generation, content |-> e.content,
     validatedAt |-> t, conflicted |-> FALSE]

AddedMarker(x, p, e, t) ==
    [markers   |-> Put(x.markers, p, NewMarker(e, t)),
     floors    |-> IF p \in DOMAIN x.floors THEN x.floors
                   ELSE Put(x.floors, p, e.protocol),
     validated |-> x.validated \cup {<<p, e.generation>>}]

\* Mutated form of RenewedMarker: the old generation stays confirmed.
RenewedKeepingOld(x, p, e, t) ==
    [x EXCEPT !.markers[p] = NewMarker(e, t),
              !.validated = @ \cup {<<p, e.generation>>}]

RenewedMarker(x, p, e, t) ==
    IF e.generation = x.markers[p].generation
    THEN [x EXCEPT !.markers[p].validatedAt = t,
                   !.validated = @ \cup {<<p, e.generation>>}]
    ELSE [Unavailable(x, p) EXCEPT !.markers[p] = NewMarker(e, t),
                                   !.validated = @ \cup {<<p, e.generation>>}]

RefusedMarker(x, p, e) ==
    LET generation == x.markers[p].generation
    IN  [x EXCEPT !.validated = @ \ {<<p, generation>>},
                  !.markers[p].conflicted = @ \/ ~Lower(x.markers[p], e)]

Ingested(x, p, e, t) ==
    LET y == IF e.protocol = 2 THEN Observed(x, p) ELSE x
        known == p \in DOMAIN x.markers
    IN  CASE Barred(x, p, e)             -> Unavailable(x, p)
          [] Accepts(x, p, e) /\ known  -> RenewedMarker(y, p, e, t)
          [] Accepts(x, p, e) /\ ~known -> AddedMarker(y, p, e, t)
          [] ~Barred(x, p, e) /\ ~Accepts(x, p, e) /\ e.wellFormed /\ known
                                        -> RefusedMarker(y, p, e)
          [] OTHER                      -> y

(***************************************************************************)
(* resolve: the approval room of a route, if there is exactly one and it   *)
(* is confirmed, fresh and joined.                                         *)
(***************************************************************************)
Candidates(x, a, route) ==
    {p \in DOMAIN x.markers : p[1] = a /\ route \in x.markers[p].content.active}

Stale(x, p, t) ==
    LET m == x.markers[p]
    IN  \/ <<p, m.generation>> \notin x.validated
        \/ m.validatedAt = 0
        \/ t > m.validatedAt + FRESHNESS

RoutesTo(x, a, route, joined, t, r) ==
    LET p == <<a, r>>
    IN  /\ Candidates(x, a, route) = {p}
        /\ ~x.markers[p].conflicted
        /\ ~Stale(x, p, t)
        /\ r \in joined

-----------------------------------------------------------------------------
\* remove_room and clear_account
Dropped(x, places) ==
    [markers   |-> Restrict(x.markers, DOMAIN x.markers \ places),
     floors    |-> Restrict(x.floors, DOMAIN x.floors \ places),
     validated |-> {v \in x.validated : v[1] \notin places}]

\* What deserializing a saved index gives: nothing is confirmed yet.
Loaded(x) == [markers |-> x.markers, floors |-> x.floors, validated |-> {}]

MarkersInit == index = EmptyIndex /\ now \in 0..MaxTime

MarkersTick == now < MaxTime /\ now' = now + 1 /\ UNCHANGED index

IngestMarker == \E p \in Places, e \in MarkerEvents : index' = Ingested(index, p, e, now)
ObserveV2 == \E p \in Places : index' = Observed(index, p)
MarkRoomUnavailable == \E p \in Places : index' = Unavailable(index, p)
RemoveRoom == \E p \in Places : index' = Dropped(index, {p})
ClearAccount == \E a \in Accounts : index' = Dropped(index, {a} \X Rooms)
Reload == index' = Loaded(index)

MarkersNext ==
    \/ /\ \/ IngestMarker \/ ObserveV2 \/ MarkRoomUnavailable
          \/ RemoveRoom \/ ClearAccount \/ Reload
       /\ UNCHANGED now
    \/ MarkersTick

MarkersSpec == MarkersInit /\ [][MarkersNext]_markerVars

-----------------------------------------------------------------------------
Index(x) ==
    /\ x = [markers |-> x.markers, floors |-> x.floors, validated |-> x.validated]
    /\ x.markers \in [DOMAIN x.markers -> Marker] /\ DOMAIN x.markers \subseteq Places
    /\ x.floors \in [DOMAIN x.floors -> Protocols] /\ DOMAIN x.floors \subseteq Places
    /\ x.validated \subseteq Places \X (1..MaxGeneration)

MarkersTypeOK == Index(index) /\ now \in 0..MaxTime

\* What is confirmed is the marker that is kept, at its own generation, and of
\* a protocol the room may still use: after a v2 marker was seen, however
\* malformed, no v1 marker of the room routes anybody.
ConfirmedIsCurrent ==
    \A v \in index.validated :
        /\ v[1] \in DOMAIN index.markers
        /\ index.markers[v[1]].generation = v[2]
        /\ index.markers[v[1]].protocol >= Floor(index, v[1])

\* A kept v2 marker always has the v2 floor beneath it, so that the loss of the
\* marker's confirmation cannot open the way back to v1.
MarkersHaveFloors ==
    \A p \in DOMAIN index.markers :
        p \in DOMAIN index.floors /\ index.floors[p] >= index.markers[p].protocol

HighWaterKept ==
    /\ \A p \in DOMAIN index.markers \cap DOMAIN index'.markers :
         LET m == index.markers[p]  n == index'.markers[p]
         IN  /\ n.generation >= m.generation /\ n.protocol >= m.protocol
             /\ n.generation = m.generation =>
                   /\ n.content = m.content /\ n.protocol = m.protocol
                   /\ m.conflicted => n.conflicted
    /\ \A p \in DOMAIN index.floors \cap DOMAIN index'.floors :
         index'.floors[p] >= index.floors[p]

\* No answer rolls a kept room back: generation, protocol and floor only grow,
\* what a generation says never changes, and only a newer generation ends a
\* conflict.
NoRollback == [][HighWaterKept]_markerVars
=============================================================================
