----------------------- MODULE ApprovalDiscoveryProofs -----------------------
(***************************************************************************)
(* Proofs about ApprovalMarkers and ApprovalDiscovery, for every set of    *)
(* accounts, rooms and marker events, and every cap and bound.             *)
(*                                                                         *)
(* The schedule: a refresh is prompt and a stale answer is never applied,  *)
(* because each pending room has its one request under way (Accounted).    *)
(* The evidence: what the index resolves was said by the last accepted     *)
(* answer for its room (Backed, Spares), and what is confirmed is kept.    *)
(* The bound: a request and an unspent answer belong to a pending room     *)
(* (Linked), of which select_due keeps few.                                *)
(***************************************************************************)
EXTENDS ApprovalDiscovery, FiniteSetTheorems, TLAPS

-----------------------------------------------------------------------------
(* The markers, of any program that calls the index.                       *)

\* The invariant as a predicate of an index x: its type, that confirmations
\* are of what is kept, and that what is kept lies on its floor.  The second
\* needs the third: a marker that is confirmed again is confirmed above the
\* floor only because its own protocol cannot be below it.
Confirmed(x) ==
    \A v \in x.validated :
        /\ v[1] \in DOMAIN x.markers
        /\ x.markers[v[1]].generation = v[2]
        /\ x.markers[v[1]].protocol >= Floor(x, v[1])
Floored(x) ==
    \A p \in DOMAIN x.markers :
        p \in DOMAIN x.floors /\ x.floors[p] >= x.markers[p].protocol

Good(x) == Index(x) /\ Confirmed(x) /\ Floored(x)

\* What a call may do to index x, leaving y: no room is rolled back.
Keeps(x, y) ==
    /\ \A p \in DOMAIN x.markers \cap DOMAIN y.markers :
         LET m == x.markers[p]  n == y.markers[p]
         IN  /\ n.generation >= m.generation /\ n.protocol >= m.protocol
             /\ n.generation = m.generation =>
                   /\ n.content = m.content /\ n.protocol = m.protocol
                   /\ m.conflicted => n.conflicted
    /\ \A p \in DOMAIN x.floors \cap DOMAIN y.floors : y.floors[p] >= x.floors[p]

LEMMA EventType ==
    ASSUME NEW e \in MarkerEvents
    PROVE  /\ e.protocol \in Protocols /\ e.generation \in 1..MaxGeneration
           /\ e.content \in Contents
  BY MarkerContents DEF MarkerEvent

LEMMA KeepsItself == ASSUME NEW x, Good(x) PROVE Keeps(x, x)
  <1>1. \A p \in DOMAIN x.markers : x.markers[p] \in Marker
    BY DEF Good, Index
  <1>2. \A p \in DOMAIN x.floors : x.floors[p] \in Protocols
    BY DEF Good, Index
  <1> QED
    BY <1>1, <1>2 DEF Keeps, Marker, Protocols

LEMMA UnavailableGood ==
    ASSUME NEW x, Good(x), NEW p
    PROVE  /\ Good(Unavailable(x, p)) /\ Keeps(x, Unavailable(x, p))
           /\ Unavailable(x, p).markers = x.markers
           /\ Unavailable(x, p).floors = x.floors
           /\ \A v \in Unavailable(x, p).validated : v \in x.validated /\ v[1] # p
  <1> DEFINE y == [markers |-> x.markers, floors |-> x.floors,
                   validated |-> {v \in x.validated : v[1] # p}]
  <1>1. Unavailable(x, p) = y
    BY DEF Unavailable, Good, Index
  <1>2. Good(y)
    BY DEF Good, Index, Confirmed, Floored, Floor
  <1>3. Keeps(x, y)
    BY KeepsItself DEF Keeps
  <1> QED
    BY <1>1, <1>2, <1>3

LEMMA ObservedGood ==
    ASSUME NEW x, Good(x), NEW p \in Places
    PROVE  /\ Good(Observed(x, p)) /\ Keeps(x, Observed(x, p))
           /\ Observed(x, p).markers = x.markers
           /\ \A v \in Observed(x, p).validated : v[1] # p
           /\ ~ObserveFails(x, p) =>
                 p \in DOMAIN Observed(x, p).floors /\ Observed(x, p).floors[p] = 2
  <1>1. CASE ObserveFails(x, p)
    BY <1>1, UnavailableGood DEF Observed
  <1>2. CASE ~ObserveFails(x, p)
    <2> DEFINE u == Unavailable(x, p)
               floors == Put(x.floors, p, 2)
               y == [markers |-> x.markers, floors |-> floors, validated |-> u.validated]
    <2>1. /\ Good(u) /\ u.markers = x.markers /\ u.floors = x.floors
          /\ \A v \in u.validated : v \in x.validated /\ v[1] # p
      BY UnavailableGood
    <2>2. u = [markers |-> x.markers, floors |-> x.floors, validated |-> u.validated]
      BY <2>1 DEF Good, Index
    <2>3. Observed(x, p) = [u EXCEPT !.floors = Put(u.floors, p, 2)]
      BY <1>2 DEF Observed
    <2> HIDE DEF u
    <2>4. Observed(x, p) = y
      BY <2>1, <2>2, <2>3
    <2>5. /\ floors \in [DOMAIN floors -> Protocols] /\ DOMAIN floors \subseteq Places
          /\ p \in DOMAIN floors /\ floors[p] = 2
          /\ DOMAIN x.floors \subseteq DOMAIN floors
          /\ \A q \in DOMAIN x.floors : floors[q] >= x.floors[q]
          /\ \A q : q # p => Floor(y, q) = Floor(x, q)
      BY DEF Put, Good, Index, Protocols, Floor
    <2> HIDE DEF floors
    <2>6. Index(y)
      BY <2>1, <2>5 DEF Good, Index
    <2>7. Confirmed(y)
      BY <2>1, <2>5 DEF Good, Confirmed
    <2>8. Floored(y)
      <3> SUFFICES ASSUME NEW q \in DOMAIN x.markers
                   PROVE  q \in DOMAIN floors /\ floors[q] >= x.markers[q].protocol
        BY DEF Floored
      <3>1. /\ q \in DOMAIN x.floors /\ x.floors[q] >= x.markers[q].protocol
            /\ floors[q] >= x.floors[q]
        BY <2>5 DEF Good, Floored
      <3>2. x.floors[q] \in Nat /\ x.markers[q].protocol \in Nat /\ floors[q] \in Nat
        BY <2>5, <3>1 DEF Good, Index, Marker, Protocols
      <3> QED
        BY <2>5, <3>1, <3>2
    <2>9. Keeps(x, y)
      BY <2>5, KeepsItself DEF Keeps
    <2> QED
      BY <2>1, <2>4, <2>5, <2>6, <2>7, <2>8, <2>9 DEF Good
  <1> QED
    BY <1>1, <1>2

LEMMA DroppedGood ==
    ASSUME NEW x, Good(x), NEW places
    PROVE  Good(Dropped(x, places)) /\ Keeps(x, Dropped(x, places))
  <1> DEFINE y == Dropped(x, places)
  <1>1. /\ y = [markers |-> y.markers, floors |-> y.floors, validated |-> y.validated]
        /\ DOMAIN y.markers = DOMAIN x.markers \ places
        /\ DOMAIN y.floors = DOMAIN x.floors \ places
        /\ y.markers \in [DOMAIN y.markers -> Marker]
        /\ y.floors \in [DOMAIN y.floors -> Protocols]
        /\ \A p \in DOMAIN y.markers : y.markers[p] = x.markers[p]
        /\ \A p \in DOMAIN y.floors : y.floors[p] = x.floors[p]
        /\ y.validated = {v \in x.validated : v[1] \notin places}
    BY DEF Dropped, Restrict, Good, Index
  <1> HIDE DEF y
  <1>2. Index(y)
    BY <1>1 DEF Good, Index
  <1>3. Confirmed(y)
    BY <1>1 DEF Good, Confirmed, Floor
  <1>4. Floored(y)
    BY <1>1 DEF Good, Floored
  <1>5. Keeps(x, y)
    BY <1>1, KeepsItself DEF Keeps
  <1> QED
    BY <1>2, <1>3, <1>4, <1>5 DEF Good, y

LEMMA LoadedGood ==
    ASSUME NEW x, Good(x) PROVE Good(Loaded(x)) /\ Keeps(x, Loaded(x))
  BY KeepsItself DEF Loaded, Good, Index, Confirmed, Floored, Keeps

\* A marker n put at place p, whose floor is raised to at least n's protocol,
\* and whose only confirmation is n's own.
LEMMA PutGood ==
    ASSUME NEW x, Good(x), NEW p \in Places, NEW n \in Marker,
           NEW floors, NEW valid, NEW y,
           y = [markers |-> Put(x.markers, p, n), floors |-> floors, validated |-> valid],
           floors \in [DOMAIN floors -> Protocols], DOMAIN floors \subseteq Places,
           DOMAIN x.floors \subseteq DOMAIN floors,
           \A q \in DOMAIN x.floors : floors[q] = x.floors[q],
           \A q \in DOMAIN floors : q = p \/ q \in DOMAIN x.floors,
           p \in DOMAIN floors, floors[p] = n.protocol,
           \A v \in valid : v = <<p, n.generation>> \/ (v \in x.validated /\ v[1] # p)
    PROVE  Good(y)
  <1> DEFINE markers == Put(x.markers, p, n)
  <1>1. /\ markers \in [DOMAIN markers -> Marker] /\ DOMAIN markers \subseteq Places
        /\ DOMAIN markers = DOMAIN x.markers \cup {p} /\ markers[p] = n
        /\ \A q \in DOMAIN x.markers : q # p => markers[q] = x.markers[q]
    BY DEF Put, Good, Index
  <1> HIDE DEF markers
  <1>2. y.markers = markers /\ y.floors = floors /\ y.validated = valid
    BY DEF markers
  <1>3. n.generation \in 1..MaxGeneration /\ n.protocol \in Nat
    BY DEF Marker, Protocols
  <1>4. Index(y)
    <2>1. valid \subseteq Places \X (1..MaxGeneration)
      BY <1>3 DEF Good, Index
    <2> QED
      BY <1>1, <1>2, <2>1 DEF Index, markers
  <1>5. Confirmed(y)
    <2> SUFFICES ASSUME NEW v \in valid
                 PROVE  /\ v[1] \in DOMAIN markers
                        /\ markers[v[1]].generation = v[2]
                        /\ markers[v[1]].protocol >= Floor(y, v[1])
      BY <1>2 DEF Confirmed
    <2>1. CASE v = <<p, n.generation>>
      <3>1. Floor(y, p) = n.protocol
        BY <1>2 DEF Floor
      <3> QED
        BY <1>1, <1>3, <2>1, <3>1
    <2>2. CASE v \in x.validated /\ v[1] # p
      <3>1. Floor(y, v[1]) = Floor(x, v[1])
        BY <1>2, <2>2 DEF Floor
      <3> QED
        BY <1>1, <2>2, <3>1 DEF Good, Confirmed
    <2> QED
      BY <2>1, <2>2
  <1>6. Floored(y)
    BY <1>1, <1>2, <1>3 DEF Good, Floored
  <1> QED
    BY <1>4, <1>5, <1>6 DEF Good

LEMMA NewMarkerType ==
    ASSUME NEW e \in MarkerEvents, NEW t \in 0..MaxTime
    PROVE  /\ NewMarker(e, t) \in Marker
           /\ NewMarker(e, t).generation = e.generation
           /\ NewMarker(e, t).protocol = e.protocol
           /\ NewMarker(e, t).content = e.content
  BY EventType DEF NewMarker, Marker

\* The floor under an event that is not barred, once a v2 event is observed.
LEMMA FloorUnder ==
    ASSUME NEW x, Good(x), NEW p \in Places, NEW e \in MarkerEvents, ~Barred(x, p, e),
           NEW y, y = IF e.protocol = 2 THEN Observed(x, p) ELSE x
    PROVE  /\ Good(y) /\ Keeps(x, y) /\ y.markers = x.markers
           /\ e.protocol = 2 =>
                 /\ p \in DOMAIN y.floors /\ y.floors[p] = 2
                 /\ \A v \in y.validated : v[1] # p
           /\ e.protocol = 1 => (p \in DOMAIN y.floors => y.floors[p] = 1)
  <1>1. CASE e.protocol = 2
    <2>1. ~ObserveFails(x, p) /\ y = Observed(x, p)
      BY <1>1 DEF Barred
    <2> QED
      BY <1>1, <2>1, ObservedGood
  <1>2. CASE e.protocol = 1
    <2>1. y = x /\ Floor(x, p) # 2
      BY <1>2 DEF Barred
    <2>2. p \in DOMAIN x.floors => x.floors[p] \in Protocols
      BY DEF Good, Index
    <2> QED
      BY <1>2, <2>1, <2>2, KeepsItself DEF Floor, Protocols
  <1> QED
    BY <1>1, <1>2, EventType DEF Protocols

LEMMA AddedGood ==
    ASSUME NEW x, Good(x), NEW p \in Places, NEW e \in MarkerEvents, NEW t \in 0..MaxTime,
           ~Barred(x, p, e), p \notin DOMAIN x.markers,
           NEW y, y = IF e.protocol = 2 THEN Observed(x, p) ELSE x
    PROVE  Good(AddedMarker(y, p, e, t)) /\ Keeps(x, AddedMarker(y, p, e, t))
  <1> DEFINE n == NewMarker(e, t)
             floors == IF p \in DOMAIN y.floors THEN y.floors ELSE Put(y.floors, p, e.protocol)
             valid == y.validated \cup {<<p, e.generation>>}
             z == AddedMarker(y, p, e, t)
  <1>1. /\ Good(y) /\ Keeps(x, y) /\ y.markers = x.markers
        /\ e.protocol = 2 => p \in DOMAIN y.floors /\ y.floors[p] = 2
        /\ e.protocol = 1 => (p \in DOMAIN y.floors => y.floors[p] = 1)
    BY FloorUnder
  <1>2. n \in Marker /\ n.generation = e.generation /\ n.protocol = e.protocol
    BY NewMarkerType
  <1>3. e.protocol \in Protocols
    BY EventType
  <1>4. /\ floors \in [DOMAIN floors -> Protocols] /\ DOMAIN floors \subseteq Places
        /\ DOMAIN y.floors \subseteq DOMAIN floors
        /\ \A q \in DOMAIN y.floors : floors[q] = y.floors[q]
        /\ \A q \in DOMAIN floors : q = p \/ q \in DOMAIN y.floors
        /\ p \in DOMAIN floors /\ floors[p] = e.protocol
    <2>1. CASE p \in DOMAIN y.floors
      BY <1>1, <1>3, <2>1 DEF Good, Index, Protocols
    <2>2. CASE p \notin DOMAIN y.floors
      BY <1>1, <1>3, <2>2 DEF Put, Good, Index
    <2> QED
      BY <2>1, <2>2
  <1>5. \A v \in valid : v = <<p, n.generation>> \/ (v \in y.validated /\ v[1] # p)
    BY <1>1, <1>2 DEF Good, Confirmed
  <1>6. z = [markers |-> Put(y.markers, p, n), floors |-> floors, validated |-> valid]
    BY DEF AddedMarker
  <1>7. /\ DOMAIN z.markers = DOMAIN x.markers \cup {p}
        /\ \A q \in DOMAIN x.markers : z.markers[q] = x.markers[q]
        /\ z.floors = floors
    BY <1>1, <1>6 DEF Put
  <1> HIDE DEF n, floors, valid, z
  <1>8. Good(z)
    BY <1>1, <1>2, <1>4, <1>5, <1>6, PutGood
  <1>9. Keeps(x, z)
    BY <1>1, <1>4, <1>7, KeepsItself DEF Keeps
  <1> QED
    BY <1>8, <1>9 DEF z

\* The marker of place p becomes n, of the same generation and protocol or of
\* a newer one.
LEMMA ReplacedKeeps ==
    ASSUME NEW x, Good(x), NEW p \in DOMAIN x.markers, NEW n \in Marker,
           NEW y, Keeps(x, y), NEW z, z.floors = y.floors, y.markers = x.markers,
           z.markers = [x.markers EXCEPT ![p] = n],
           n.generation >= x.markers[p].generation, n.protocol >= x.markers[p].protocol,
           n.generation = x.markers[p].generation =>
               /\ n.content = x.markers[p].content /\ n.protocol = x.markers[p].protocol
               /\ x.markers[p].conflicted => n.conflicted
    PROVE  Keeps(x, z)
  <1>1. Keeps(x, x)
    BY KeepsItself
  <1>2. /\ DOMAIN z.markers = DOMAIN x.markers /\ z.markers[p] = n
        /\ \A q \in DOMAIN x.markers : q # p => z.markers[q] = x.markers[q]
    BY DEF Good, Index
  <1> QED
    BY <1>1, <1>2 DEF Keeps

LEMMA RenewedGood ==
    ASSUME NEW x, Good(x), NEW p \in Places, NEW e \in MarkerEvents, NEW t \in 0..MaxTime,
           ~Barred(x, p, e), p \in DOMAIN x.markers,
           ~Lower(x.markers[p], e), ~Differs(x.markers[p], e),
           NEW y, y = IF e.protocol = 2 THEN Observed(x, p) ELSE x
    PROVE  Good(RenewedMarker(y, p, e, t)) /\ Keeps(x, RenewedMarker(y, p, e, t))
  <1> DEFINE m == x.markers[p]
             z == RenewedMarker(y, p, e, t)
  <1>1. /\ Good(y) /\ Keeps(x, y) /\ y.markers = x.markers
        /\ e.protocol = 2 =>
              /\ p \in DOMAIN y.floors /\ y.floors[p] = 2
              /\ \A v \in y.validated : v[1] # p
        /\ e.protocol = 1 => (p \in DOMAIN y.floors => y.floors[p] = 1)
    BY FloorUnder
  <1>2. m \in Marker /\ e.protocol \in Protocols /\ e.generation \in 1..MaxGeneration
    BY EventType DEF Good, Index
  <1>3. /\ e.protocol >= m.protocol /\ e.generation >= m.generation
        /\ e.generation = m.generation => e.protocol = m.protocol /\ e.content = m.content
    BY <1>2 DEF Lower, Differs, Marker, Protocols
  <1>4. p \in DOMAIN y.floors /\ y.floors[p] = e.protocol
    <2>1. p \in DOMAIN y.floors
      BY <1>1 DEF Good, Floored
    <2> QED
      BY <1>1, <1>2, <2>1 DEF Protocols
  <1>y. /\ y.markers \in [DOMAIN y.markers -> Marker] /\ DOMAIN y.markers \subseteq Places
        /\ y.floors \in [DOMAIN y.floors -> Protocols] /\ DOMAIN y.floors \subseteq Places
    BY <1>1 DEF Good, Index
  <1>z. y = [markers |-> y.markers, floors |-> y.floors, validated |-> y.validated]
    BY <1>1 DEF Good, Index
  <1>5. CASE e.generation = m.generation
    <2> DEFINE n == [m EXCEPT !.validatedAt = t]
               valid == y.validated \cup {<<p, e.generation>>}
    <2>1. /\ n \in Marker /\ n.generation = m.generation /\ n.protocol = m.protocol
          /\ n.content = m.content /\ n.conflicted = m.conflicted
      BY <1>2 DEF Marker
    <2>2. z = [y EXCEPT !.markers[p].validatedAt = t,
                        !.validated = y.validated \cup {<<p, e.generation>>}]
      BY <1>1, <1>5 DEF RenewedMarker
    <2>3. z = [markers |-> [y.markers EXCEPT ![p] = [y.markers[p] EXCEPT !.validatedAt = t]],
               floors |-> y.floors, validated |-> valid]
      BY <1>z, <2>2, Zenon
    <2>4. z = [markers |-> [x.markers EXCEPT ![p] = n],
               floors |-> y.floors, validated |-> valid]
      BY <1>1, <2>3
    <2>5. [x.markers EXCEPT ![p] = n] = Put(y.markers, p, n)
      BY <1>1, <1>y DEF Put
    <2>6. \A v \in valid : v = <<p, n.generation>> \/ (v \in y.validated /\ v[1] # p)
      BY <1>1, <1>2, <1>5, <2>1 DEF Good, Confirmed, Index
    <2>7. n.protocol = e.protocol
      BY <1>3, <1>5, <2>1
    <2> HIDE DEF n, valid, z, m
    <2>8. Good(z)
      BY <1>1, <1>4, <1>y, <2>1, <2>4, <2>5, <2>6, <2>7, PutGood
    <2>9. Keeps(x, z)
      BY <1>1, <1>2, <2>1, <2>4, ReplacedKeeps DEF m, Marker, Protocols
    <2> QED
      BY <2>8, <2>9 DEF z
  <1>6. CASE e.generation # m.generation
    <2> DEFINE n == NewMarker(e, t)
               u == Unavailable(y, p)
               valid == u.validated \cup {<<p, e.generation>>}
    <2>1. n \in Marker /\ n.generation = e.generation /\ n.protocol = e.protocol
      BY NewMarkerType
    <2>2. /\ u.markers = y.markers /\ u.floors = y.floors
          /\ \A v \in u.validated : v \in y.validated /\ v[1] # p
          /\ Good(u)
      BY <1>1, UnavailableGood
    <2>3. u = [markers |-> u.markers, floors |-> u.floors, validated |-> u.validated]
      BY <2>2 DEF Good, Index
    <2>4. z = [u EXCEPT !.markers[p] = n, !.validated = u.validated \cup {<<p, e.generation>>}]
      BY <1>1, <1>6 DEF RenewedMarker
    <2> HIDE DEF u
    <2>5. z = [markers |-> [u.markers EXCEPT ![p] = n],
               floors |-> u.floors, validated |-> valid]
      BY <2>3, <2>4, Zenon
    <2>6. [y.markers EXCEPT ![p] = n] = Put(y.markers, p, n)
      BY <1>1, <1>y DEF Put
    <2>7. \A v \in valid : v = <<p, n.generation>> \/ (v \in y.validated /\ v[1] # p)
      BY <2>1, <2>2
    <2> HIDE DEF n, valid, z, m
    <2>p. z = [markers |-> Put(y.markers, p, n), floors |-> y.floors, validated |-> valid]
      BY <2>2, <2>5, <2>6
    <2>8. Good(z)
      BY <1>1, <1>4, <1>y, <2>1, <2>7, <2>p, PutGood
    <2>9. Keeps(x, z)
      BY <1>1, <1>3, <1>6, <2>1, <2>2, <2>5, ReplacedKeeps DEF m
    <2> QED
      BY <2>8, <2>9 DEF z
  <1> QED
    BY <1>5, <1>6

LEMMA RefusedGood ==
    ASSUME NEW x, Good(x), NEW p \in Places, NEW e \in MarkerEvents,
           ~Barred(x, p, e), p \in DOMAIN x.markers,
           NEW y, y = IF e.protocol = 2 THEN Observed(x, p) ELSE x
    PROVE  Good(RefusedMarker(y, p, e)) /\ Keeps(x, RefusedMarker(y, p, e))
  <1> DEFINE m == x.markers[p]
             conflicted == m.conflicted \/ ~Lower(m, e)
             n == [protocol |-> m.protocol, generation |-> m.generation,
                   content |-> m.content, validatedAt |-> m.validatedAt,
                   conflicted |-> conflicted]
             valid == y.validated \ {<<p, m.generation>>}
             z == RefusedMarker(y, p, e)
  <1>1. Good(y) /\ Keeps(x, y) /\ y.markers = x.markers
    BY FloorUnder
  <1>2. /\ m \in Marker
        /\ m = [protocol |-> m.protocol, generation |-> m.generation,
                content |-> m.content, validatedAt |-> m.validatedAt,
                conflicted |-> m.conflicted]
    BY DEF Good, Index, Marker
  <1>c. conflicted \in BOOLEAN /\ (m.conflicted => conflicted)
    <2>1. m.conflicted \in BOOLEAN
      BY <1>2 DEF Marker
    <2> QED
      BY <2>1, Zenon
  <1> HIDE DEF conflicted
  <1>3. /\ n \in Marker /\ n.generation = m.generation /\ n.protocol = m.protocol
        /\ n.content = m.content /\ n.conflicted = conflicted
    BY <1>2, <1>c DEF Marker
  <1>4. y = [markers |-> y.markers, floors |-> y.floors, validated |-> y.validated]
    BY <1>1 DEF Good, Index
  <1>5. [m EXCEPT !.conflicted = conflicted] = n
    BY <1>2 DEF Marker
  <1>6. z = [y EXCEPT !.validated = y.validated \ {<<p, m.generation>>},
                      !.markers[p].conflicted = m.conflicted \/ ~Lower(m, e)]
    BY <1>1 DEF RefusedMarker
  <1>7. z = [markers |-> [x.markers EXCEPT ![p] = n], floors |-> y.floors,
             validated |-> valid]
    <2>1. z = [markers |-> [y.markers EXCEPT ![p] = [y.markers[p] EXCEPT
                                !.conflicted = m.conflicted \/ ~Lower(m, e)]],
               floors |-> y.floors, validated |-> valid]
      BY <1>4, <1>6, Zenon
    <2> QED
      BY <1>1, <1>5, <2>1 DEF conflicted
  <1> HIDE DEF n, valid, z, m
  <1>8. /\ DOMAIN z.markers = DOMAIN x.markers /\ z.markers[p] = n
        /\ \A q \in DOMAIN x.markers : q # p => z.markers[q] = x.markers[q]
        /\ z.markers \in [DOMAIN z.markers -> Marker]
        /\ z.floors = y.floors /\ z.validated \subseteq y.validated
    BY <1>3, <1>7 DEF Good, Index, valid
  <1>9. Good(z)
    <2>1. Index(z)
      BY <1>1, <1>7, <1>8 DEF Good, Index
    <2>2. Confirmed(z)
      BY <1>1, <1>3, <1>8 DEF Good, Confirmed, Floor, m
    <2>3. Floored(z)
      BY <1>1, <1>3, <1>8 DEF Good, Floored, m
    <2> QED
      BY <2>1, <2>2, <2>3 DEF Good
  <1>10. Keeps(x, z)
    BY <1>1, <1>2, <1>3, <1>7, <1>c, ReplacedKeeps DEF m, Marker, Protocols
  <1> QED
    BY <1>9, <1>10 DEF z

LEMMA IngestedGood ==
    ASSUME NEW x, Good(x), NEW p \in Places, NEW e \in MarkerEvents, NEW t \in 0..MaxTime
    PROVE  Good(Ingested(x, p, e, t)) /\ Keeps(x, Ingested(x, p, e, t))
  <1> DEFINE y == IF e.protocol = 2 THEN Observed(x, p) ELSE x
             known == p \in DOMAIN x.markers
             refused == ~Barred(x, p, e) /\ ~Accepts(x, p, e) /\ e.wellFormed /\ known
  <1>1. CASE Barred(x, p, e)
    <2>1. ~Accepts(x, p, e)
      BY <1>1 DEF Accepts
    <2>2. Ingested(x, p, e, t) = Unavailable(x, p)
      BY <1>1, <2>1, Zenon DEF Ingested
    <2> QED
      BY <2>2, UnavailableGood
  <1>2. CASE ~Barred(x, p, e)
    <2>y. Good(y) /\ Keeps(x, y)
      BY <1>2, FloorUnder
    <2>1. CASE Accepts(x, p, e) /\ known
      <3>1. Ingested(x, p, e, t) = RenewedMarker(y, p, e, t)
        BY <1>2, <2>1, Zenon DEF Ingested
      <3>2. ~Lower(x.markers[p], e) /\ ~Differs(x.markers[p], e)
        BY <2>1 DEF Accepts
      <3> QED
        BY <1>2, <2>1, <3>1, <3>2, RenewedGood
    <2>2. CASE Accepts(x, p, e) /\ ~known
      <3>1. Ingested(x, p, e, t) = AddedMarker(y, p, e, t)
        BY <1>2, <2>2, Zenon DEF Ingested
      <3> QED
        BY <1>2, <2>2, <3>1, AddedGood
    <2>3. CASE refused
      <3>1. Ingested(x, p, e, t) = RefusedMarker(y, p, e)
        BY <1>2, <2>3, Zenon DEF Ingested
      <3> QED
        BY <1>2, <2>3, <3>1, RefusedGood
    <2>4. CASE ~Accepts(x, p, e) /\ ~refused
      <3>1. Ingested(x, p, e, t) = y
        BY <1>2, <2>4, Zenon DEF Ingested
      <3> QED
        BY <2>y, <3>1
    <2> QED
      BY <2>1, <2>2, <2>3, <2>4
  <1> QED
    BY <1>1, <1>2

-----------------------------------------------------------------------------
\* The inductive invariant.
MarkersInv == Good(index) /\ now \in 0..MaxTime

LEMMA InitMarkers == MarkersInit => MarkersInv
  BY MarkerBounds DEF MarkersInit, MarkersInv, EmptyIndex, Good, Index, Confirmed, Floored

LEMMA StepMarkers ==
    ASSUME MarkersInv, [MarkersNext]_markerVars
    PROVE  MarkersInv' /\ Keeps(index, index')
  <1>0. Good(index) /\ now \in 0..MaxTime /\ Keeps(index, index)
    BY KeepsItself DEF MarkersInv
  <1>s. ASSUME Good(index'), Keeps(index, index'), now' = now
        PROVE  MarkersInv' /\ Keeps(index, index')
    BY <1>0, <1>s DEF MarkersInv
  <1>1. CASE IngestMarker /\ UNCHANGED now
    <2>1. PICK p \in Places, e \in MarkerEvents : index' = Ingested(index, p, e, now)
      BY <1>1 DEF IngestMarker
    <2> QED
      BY <1>0, <1>1, <1>s, <2>1, IngestedGood
  <1>2. CASE ObserveV2 /\ UNCHANGED now
    <2>1. PICK p \in Places : index' = Observed(index, p)
      BY <1>2 DEF ObserveV2
    <2> QED
      BY <1>0, <1>2, <1>s, <2>1, ObservedGood
  <1>3. CASE MarkRoomUnavailable /\ UNCHANGED now
    <2>1. PICK p \in Places : index' = Unavailable(index, p)
      BY <1>3 DEF MarkRoomUnavailable
    <2> QED
      BY <1>0, <1>3, <1>s, <2>1, UnavailableGood
  <1>4. CASE RemoveRoom /\ UNCHANGED now
    <2>1. PICK p \in Places : index' = Dropped(index, {p})
      BY <1>4 DEF RemoveRoom
    <2> QED
      BY <1>0, <1>4, <1>s, <2>1, DroppedGood
  <1>5. CASE ClearAccount /\ UNCHANGED now
    <2>1. PICK a \in Accounts : index' = Dropped(index, {a} \X Rooms)
      BY <1>5 DEF ClearAccount
    <2> QED
      BY <1>0, <1>5, <1>s, <2>1, DroppedGood
  <1>6. CASE Reload /\ UNCHANGED now
    <2>1. index' = Loaded(index)
      BY <1>6 DEF Reload
    <2> QED
      BY <1>0, <1>6, <1>s, <2>1, LoadedGood
  <1>7. CASE MarkersTick
    BY <1>0, <1>7, MarkerBounds DEF MarkersTick, MarkersInv
  <1>8. CASE UNCHANGED markerVars
    BY <1>0, <1>8 DEF markerVars, MarkersInv
  <1> QED
    BY <1>1, <1>2, <1>3, <1>4, <1>5, <1>6, <1>7, <1>8 DEF MarkersNext

THEOREM MarkersInvariant == MarkersSpec => []MarkersInv
  <1>1. MarkersInv /\ [MarkersNext]_markerVars => MarkersInv'
    BY StepMarkers
  <1> QED
    BY <1>1, InitMarkers, PTL DEF MarkersSpec

\* Type correctness of the marker index.
THEOREM MarkersTypeCorrect == MarkersSpec => []MarkersTypeOK
  <1>1. MarkersInv => MarkersTypeOK
    BY DEF MarkersInv, MarkersTypeOK, Good
  <1> QED
    BY <1>1, MarkersInvariant, PTL

\* What routes the user is the kept marker, above its room's floor
\* (ApprovalMarkerIndex::resolve reads nothing else).
THEOREM ConfirmationsAreCurrent == MarkersSpec => []ConfirmedIsCurrent
  <1>1. MarkersInv => ConfirmedIsCurrent
    BY DEF MarkersInv, ConfirmedIsCurrent, Good, Confirmed
  <1> QED
    BY <1>1, MarkersInvariant, PTL

\* Every kept marker lies on its floor.
THEOREM MarkersLieOnFloors == MarkersSpec => []MarkersHaveFloors
  <1>1. MarkersInv => MarkersHaveFloors
    BY DEF MarkersInv, MarkersHaveFloors, Good, Floored
  <1> QED
    BY <1>1, MarkersInvariant, PTL

\* ingest_marker and observe_v2 never roll a kept room back, whatever the
\* homeserver answers and in whatever order.
THEOREM MarkersNeverRollBack == MarkersSpec => NoRollback
  <1>1. MarkersInv /\ [MarkersNext]_markerVars => [HighWaterKept]_markerVars
    BY StepMarkers DEF Keeps, HighWaterKept
  <1> QED
    BY <1>1, MarkersInvariant, PTL DEF MarkersSpec, NoRollback

-----------------------------------------------------------------------------
(* The schedule.                                                           *)

RoomStates == [due : Nat, nonce : Nonces \cup {None}, left : Nat, pending : BOOLEAN]

\* What the argument needs of a schedule's type; the cursor is anybody's guess.
Shaped(s) ==
    s = [account |-> s.account, generation |-> s.generation, rooms |-> s.rooms,
         cursor |-> s.cursor, unavailable |-> s.unavailable]
Schedule(s) ==
    /\ Shaped(s)
    /\ s.account \in Accounts \cup {None} /\ s.generation \in Nat
    /\ s.rooms \in [DOMAIN s.rooms -> RoomStates] /\ DOMAIN s.rooms \subseteq Rooms
    /\ s.account = None => DOMAIN s.rooms = {}

LEMMA NewRoomFacts ==
    /\ NewRoom \in RoomStates /\ NewRoom.nonce = None /\ NewRoom.due = 0
    /\ NewRoom.left = 0
  BY DEF NewRoom, RoomStates

LEMMA WaitsAreNat ==
    /\ POSITIVE \in Nat /\ NEGATIVE \in Nat /\ FAILURE \in Nat /\ LIFE \in Nat
    /\ LIFE > 0 /\ FAILURE > 0 /\ None \notin Nonces /\ None \notin Accounts
  BY DiscoveryBounds

\* The rooms of a schedule, given other states.
LEMMA RoomsReplaced ==
    ASSUME NEW s, Schedule(s), NEW rooms \in [DOMAIN s.rooms -> RoomStates],
           NEW u, u = [s EXCEPT !.rooms = rooms]
    PROVE  /\ Schedule(u) /\ u.account = s.account /\ u.generation = s.generation
           /\ u.unavailable = s.unavailable /\ u.rooms = rooms
           /\ DOMAIN u.rooms = DOMAIN s.rooms
  <1>1. /\ Shaped(u) /\ u.account = s.account /\ u.generation = s.generation
        /\ u.unavailable = s.unavailable /\ u.rooms = rooms
    BY DEF Schedule, Shaped
  <1> QED
    BY <1>1 DEF Schedule

LEMMA EmptyScheduleFacts ==
    /\ Schedule(EmptySchedule) /\ EmptySchedule.account = None
    /\ DOMAIN EmptySchedule.rooms = {} /\ EmptySchedule.generation = 0
  <1>1. << >> \in [DOMAIN << >> -> RoomStates] /\ DOMAIN << >> = {}
    OBVIOUS
  <1> QED
    BY <1>1 DEF EmptySchedule, Schedule, Shaped

\* sync_membership keeps the account, or counts a generation; each room it
\* leaves is a new one, or one it had for that account.
LEMMA WithMembersFacts ==
    ASSUME NEW s, Schedule(s), NEW a \in Accounts \cup {None}, NEW rooms \in SUBSET Rooms,
           NEW u, u = WithMembers(s, a, rooms)
    PROVE  /\ Schedule(u) /\ u.account = a
           /\ u.generation = IF s.account = a THEN s.generation ELSE s.generation + 1
           /\ DOMAIN u.rooms \subseteq rooms
           /\ \A r \in DOMAIN u.rooms :
                 \/ u.rooms[r] = NewRoom
                 \/ s.account = a /\ r \in DOMAIN s.rooms /\ u.rooms[r] = s.rooms[r]
  <1> DEFINE t == IF s.account = a THEN s
                  ELSE [s EXCEPT !.account = a, !.generation = @ + 1,
                                 !.rooms = << >>, !.cursor = None]
             refused == a = None \/ Cardinality(rooms) > MAX_ROOMS
             kept == IF refused THEN {} ELSE rooms
             table == [r \in kept |-> IF r \in DOMAIN t.rooms THEN t.rooms[r] ELSE NewRoom]
  <1>1. u = [t EXCEPT !.unavailable = refused, !.rooms = table]
    BY DEF WithMembers
  <1>2. /\ Shaped(t) /\ t.account = a
        /\ t.generation = IF s.account = a THEN s.generation ELSE s.generation + 1
        /\ t.rooms \in [DOMAIN t.rooms -> RoomStates]
        /\ \A r \in DOMAIN t.rooms : s.account = a /\ r \in DOMAIN s.rooms /\ t.rooms[r] = s.rooms[r]
    <2>1. CASE s.account = a
      BY <2>1 DEF Schedule
    <2>2. CASE s.account # a
      <3> DEFINE none == << >>
      <3>1. none \in [DOMAIN none -> RoomStates] /\ DOMAIN none = {}
        OBVIOUS
      <3>2. t = [account |-> a, generation |-> s.generation + 1, rooms |-> none,
                 cursor |-> None, unavailable |-> s.unavailable]
        BY <2>2 DEF Schedule, Shaped
      <3> HIDE DEF t, none
      <3> QED
        BY <2>2, <3>1, <3>2 DEF Shaped
    <2> QED
      BY <2>1, <2>2
  <1>3. kept \in SUBSET Rooms /\ kept \subseteq rooms /\ (a = None => kept = {})
    OBVIOUS
  <1> HIDE DEF t, refused, kept
  <1>4. table \in [kept -> RoomStates]
    BY <1>2, NewRoomFacts
  <1>5. /\ DOMAIN table = kept
        /\ \A r \in kept : table[r] = NewRoom \/ (r \in DOMAIN t.rooms /\ table[r] = t.rooms[r])
    OBVIOUS
  <1> HIDE DEF table
  <1>7. t.generation \in Nat
    BY <1>2 DEF Schedule
  <1>8. Schedule(u) /\ u.account = a /\ u.generation = t.generation /\ u.rooms = table
    <2>1. Shaped(u) /\ u.account = a /\ u.generation = t.generation /\ u.rooms = table
      BY <1>1, <1>2 DEF Shaped
    <2> QED
      BY <1>3, <1>4, <1>5, <1>7, <2>1 DEF Schedule
  <1> QED
    BY <1>2, <1>3, <1>5, <1>8

LEMMA ExpiredFacts ==
    ASSUME NEW s, Schedule(s), NEW u, u = Expired(s)
    PROVE  /\ Schedule(u) /\ u.account = s.account /\ u.generation = s.generation
           /\ DOMAIN u.rooms = DOMAIN s.rooms
           /\ \A r \in DOMAIN s.rooms :
                 \/ u.rooms[r] = s.rooms[r]
                 \/ /\ r \in InFlight(s) /\ s.rooms[r].left = 0
                    /\ u.rooms[r].nonce = None /\ u.rooms[r].due = FAILURE
  <1> DEFINE gone(r) == [s.rooms[r] EXCEPT !.nonce = None, !.due = FAILURE]
             over(r) == r \in InFlight(s) /\ s.rooms[r].left = 0
             rooms == [r \in DOMAIN s.rooms |-> IF over(r) THEN gone(r) ELSE s.rooms[r]]
  <1>1. u = [s EXCEPT !.rooms = rooms]
    BY DEF Expired
  <1>2. \A r \in DOMAIN s.rooms :
            gone(r) \in RoomStates /\ gone(r).nonce = None /\ gone(r).due = FAILURE
    <2> TAKE r \in DOMAIN s.rooms
    <2>1. s.rooms[r] \in RoomStates
      BY DEF Schedule
    <2> QED
      BY <2>1, WaitsAreNat DEF RoomStates
  <1> HIDE DEF gone, over
  <1>3. rooms \in [DOMAIN s.rooms -> RoomStates]
    BY <1>2 DEF Schedule
  <1>4. \A r \in DOMAIN s.rooms : rooms[r] = s.rooms[r] \/ (over(r) /\ rooms[r] = gone(r))
    BY DEF over
  <1> HIDE DEF rooms
  <1>5. /\ Schedule(u) /\ u.account = s.account /\ u.generation = s.generation
        /\ u.rooms = rooms /\ DOMAIN u.rooms = DOMAIN s.rooms
    BY <1>1, <1>3, RoomsReplaced
  <1> QED
    BY <1>2, <1>4, <1>5 DEF over

\* select_due: the rooms it asks carry the nonce and have their whole life
\* before them; of the others some are given up.
LEMMA AskedFacts ==
    ASSUME NEW s, Schedule(s), NEW n \in Nonces, NEW u, u = Asked(s, n)
    PROVE  /\ Schedule(u) /\ u.account = s.account /\ u.generation = s.generation
           /\ DOMAIN u.rooms = DOMAIN s.rooms /\ Selected(s) \subseteq DOMAIN s.rooms
           /\ \A r \in Selected(s) : u.rooms[r].nonce = n /\ u.rooms[r].left = LIFE
           /\ \A r \in DOMAIN s.rooms \ Selected(s) :
                 \/ u.rooms[r] = s.rooms[r]
                 \/ u.rooms[r].nonce = None /\ u.rooms[r].due = FAILURE
  <1>1. CASE s.unavailable
    <2>1. u = s /\ Selected(s) = {}
      BY <1>1 DEF Asked, Selected
    <2> QED
      BY <2>1
  <1>2. CASE ~s.unavailable
    <2> DEFINE e == Expired(s)
               chosen == Selected(s)
               sent(r) == [e.rooms[r] EXCEPT !.nonce = n, !.left = LIFE]
               rooms == [r \in DOMAIN e.rooms |-> IF r \in chosen THEN sent(r) ELSE e.rooms[r]]
               cursor == IF chosen = {} THEN e.cursor
                         ELSE CHOOSE r \in chosen : \A q \in chosen : q = r \/ Before(e, q, r)
    <2>1. /\ Schedule(e) /\ e.account = s.account /\ e.generation = s.generation
          /\ DOMAIN e.rooms = DOMAIN s.rooms
          /\ \A r \in DOMAIN s.rooms :
                 \/ e.rooms[r] = s.rooms[r]
                 \/ e.rooms[r].nonce = None /\ e.rooms[r].due = FAILURE
      BY ExpiredFacts
    <2>2. u = [e EXCEPT !.rooms = rooms, !.cursor = cursor]
      BY <1>2 DEF Asked
    <2>3. chosen \subseteq DOMAIN s.rooms
      BY <2>1 DEF Selected, DueRooms
    <2>4. \A r \in DOMAIN e.rooms :
              sent(r) \in RoomStates /\ sent(r).nonce = n /\ sent(r).left = LIFE
      <3> TAKE r \in DOMAIN e.rooms
      <3>1. e.rooms[r] \in RoomStates
        BY <2>1 DEF Schedule
      <3> QED
        BY <3>1, WaitsAreNat DEF RoomStates
    <2> HIDE DEF e, chosen, sent, cursor
    <2>5. rooms \in [DOMAIN e.rooms -> RoomStates] /\ DOMAIN rooms = DOMAIN e.rooms
      BY <2>1, <2>4 DEF Schedule
    <2>6. \A r \in DOMAIN e.rooms : rooms[r] = IF r \in chosen THEN sent(r) ELSE e.rooms[r]
      OBVIOUS
    <2> HIDE DEF rooms
    <2>8. /\ Schedule(u) /\ u.account = e.account /\ u.generation = e.generation
          /\ u.rooms = rooms
      <3>1. /\ e.account \in Accounts \cup {None} /\ e.generation \in Nat
            /\ DOMAIN e.rooms \subseteq Rooms
            /\ e.account = None => DOMAIN e.rooms = {}
        BY <2>1 DEF Schedule
      <3>2. /\ Shaped(u) /\ u.account = e.account /\ u.generation = e.generation
            /\ u.rooms = rooms
        BY <2>1, <2>2 DEF Schedule, Shaped
      <3> QED
        BY <2>5, <3>1, <3>2 DEF Schedule
    <2>9. /\ \A r \in chosen : u.rooms[r].nonce = n /\ u.rooms[r].left = LIFE
          /\ \A r \in DOMAIN s.rooms \ chosen : u.rooms[r] = e.rooms[r]
      BY <2>1, <2>3, <2>4, <2>6, <2>8
    <2> QED
      BY <2>1, <2>3, <2>5, <2>8, <2>9 DEF chosen
  <1> QED
    BY <1>1, <1>2

\* accept_result: the room answers to no nonce any more, and is due at once if
\* a refresh is pending, or soon if the read failed.
LEMMA WithResultFacts ==
    ASSUME NEW s, Schedule(s), NEW t, t.room \in DOMAIN s.rooms,
           t.answer.outcome \in Outcome, NEW u, u = WithResult(s, t)
    PROVE  /\ Schedule(u) /\ u.account = s.account /\ u.generation = s.generation
           /\ DOMAIN u.rooms = DOMAIN s.rooms
           /\ \A r \in DOMAIN s.rooms \ {t.room} : u.rooms[r] = s.rooms[r]
           /\ u.rooms[t.room].nonce = None
           /\ s.rooms[t.room].pending => u.rooms[t.room].due <= FAILURE
  <1> DEFINE again == s.rooms[t.room].pending /\ t.answer.outcome # "Failed"
             due == IF again THEN 0 ELSE Wait(t.answer.outcome)
             room == [NewRoom EXCEPT !.due = due]
             rooms == [s.rooms EXCEPT ![t.room] = room]
  <1>1. due \in Nat /\ (s.rooms[t.room].pending => due <= FAILURE)
    BY WaitsAreNat DEF Wait, Outcome
  <1>2. u = [s EXCEPT !.rooms[t.room] = room]
    BY DEF WithResult
  <1> HIDE DEF due
  <1>3. room \in RoomStates /\ room.nonce = None /\ room.due = due
    BY <1>1 DEF NewRoom, RoomStates
  <1> HIDE DEF room
  <1>4. u = [s EXCEPT !.rooms = rooms]
    BY <1>2
  <1>5. /\ rooms \in [DOMAIN s.rooms -> RoomStates] /\ rooms[t.room] = room
        /\ \A r \in DOMAIN s.rooms \ {t.room} : rooms[r] = s.rooms[r]
    BY <1>3 DEF Schedule
  <1> HIDE DEF rooms
  <1>6. /\ Schedule(u) /\ u.account = s.account /\ u.generation = s.generation
        /\ u.rooms = rooms /\ DOMAIN u.rooms = DOMAIN s.rooms
    BY <1>4, <1>5, RoomsReplaced
  <1> QED
    BY <1>1, <1>3, <1>5, <1>6

\* refresh_room: the room is due, or its request in flight is told apart.
LEMMA RefreshedFacts ==
    ASSUME NEW s, Schedule(s), NEW a, NEW q, NEW u, u = Refreshed(s, a, q)
    PROVE  /\ Schedule(u) /\ u.account = s.account /\ u.generation = s.generation
           /\ DOMAIN u.rooms = DOMAIN s.rooms
           /\ \A r \in DOMAIN s.rooms :
                 /\ u.rooms[r].nonce = s.rooms[r].nonce /\ u.rooms[r].left = s.rooms[r].left
                 /\ r = q /\ a = s.account =>
                       IF u.rooms[r].nonce = None THEN u.rooms[r].due = 0 ELSE u.rooms[r].pending
                 /\ r # q => u.rooms[r] = s.rooms[r]
  <1>1. CASE a = s.account /\ q \in DOMAIN s.rooms
    <2>1. ASSUME NEW flying \in BOOLEAN, flying = (q \in InFlight(s))
          PROVE  /\ Schedule(u) /\ u.account = s.account /\ u.generation = s.generation
                 /\ DOMAIN u.rooms = DOMAIN s.rooms
                 /\ u.rooms[q].nonce = s.rooms[q].nonce /\ u.rooms[q].left = s.rooms[q].left
                 /\ u.rooms[q].due = 0 /\ u.rooms[q].pending = flying
                 /\ \A r \in DOMAIN s.rooms : r # q => u.rooms[r] = s.rooms[r]
      <3> DEFINE old == s.rooms[q]
                 room == [old EXCEPT !.due = 0, !.pending = flying]
                 rooms == [s.rooms EXCEPT ![q] = room]
      <3>1. old \in RoomStates
        BY <1>1 DEF Schedule
      <3>2. u = [s EXCEPT !.rooms[q].due = 0, !.rooms[q].pending = flying]
        BY <1>1, <2>1 DEF Refreshed
      <3>3. Shaped(s) /\ s.rooms \in [DOMAIN s.rooms -> RoomStates]
        BY DEF Schedule
      <3>4. u = [s EXCEPT !.rooms = rooms]
        BY <1>1, <3>1, <3>2, <3>3 DEF Shaped, RoomStates
      <3> HIDE DEF old
      <3>5. /\ room \in RoomStates /\ room.nonce = old.nonce /\ room.left = old.left
            /\ room.due = 0 /\ room.pending = flying
        BY <3>1 DEF RoomStates
      <3> HIDE DEF room
      <3>6. /\ rooms \in [DOMAIN s.rooms -> RoomStates] /\ rooms[q] = room
            /\ \A r \in DOMAIN s.rooms : r # q => rooms[r] = s.rooms[r]
        BY <1>1, <3>3, <3>5
      <3> HIDE DEF rooms
      <3>7. /\ Schedule(u) /\ u.account = s.account /\ u.generation = s.generation
            /\ u.rooms = rooms /\ DOMAIN u.rooms = DOMAIN s.rooms
        BY <3>4, <3>6, RoomsReplaced
      <3> QED
        BY <3>5, <3>6, <3>7 DEF old
    <2>2. q \in InFlight(s) <=> s.rooms[q].nonce # None
      BY <1>1 DEF InFlight
    <2>3. CASE q \in InFlight(s)
      <3>1. TRUE = (q \in InFlight(s))
        BY <2>3
      <3>2. u.rooms[q].pending = TRUE
        BY <2>1, <3>1
      <3> QED
        BY <1>1, <2>1, <3>1, <3>2
    <2>4. CASE q \notin InFlight(s)
      <3>1. FALSE = (q \in InFlight(s))
        BY <2>4
      <3> QED
        BY <1>1, <2>1, <2>2, <2>4, <3>1
    <2> QED
      BY <2>3, <2>4
  <1>2. CASE ~(a = s.account /\ q \in DOMAIN s.rooms)
    <2>1. u = s
      BY <1>2 DEF Refreshed
    <2> QED
      BY <1>2, <2>1
  <1> QED
    BY <1>1, <1>2

LEMMA LessFacts == ASSUME NEW n \in Nat PROVE Less(n) \in Nat /\ Less(n) <= n /\ (n > 0 <=> n # 0)
  BY DEF Less

\* Time brings every room's dates nearer, and touches nothing else of it.
LEMMA LaterFacts ==
    ASSUME NEW s, Schedule(s), NEW u, u = Later(s)
    PROVE  /\ Schedule(u) /\ u.account = s.account /\ u.generation = s.generation
           /\ DOMAIN u.rooms = DOMAIN s.rooms
           /\ \A r \in DOMAIN s.rooms :
                 /\ u.rooms[r].nonce = s.rooms[r].nonce
                 /\ u.rooms[r].pending = s.rooms[r].pending
                 /\ u.rooms[r].due = Less(s.rooms[r].due)
                 /\ u.rooms[r].left = Less(s.rooms[r].left)
  <1> DEFINE later(r) == [s.rooms[r] EXCEPT !.due = Less(@), !.left = Less(@)]
             rooms == [r \in DOMAIN s.rooms |-> later(r)]
  <1>1. u = [s EXCEPT !.rooms = rooms]
    BY DEF Later
  <1>2. \A r \in DOMAIN s.rooms :
            /\ later(r) \in RoomStates /\ later(r).nonce = s.rooms[r].nonce
            /\ later(r).pending = s.rooms[r].pending
            /\ later(r).due = Less(s.rooms[r].due) /\ later(r).left = Less(s.rooms[r].left)
    <2> TAKE r \in DOMAIN s.rooms
    <2>1. s.rooms[r] \in RoomStates
      BY DEF Schedule
    <2> DEFINE room == s.rooms[r]
               due == Less(room.due)
               left == Less(room.left)
    <2>2. due \in Nat /\ left \in Nat
      BY <2>1, LessFacts DEF RoomStates
    <2>3. later(r) = [room EXCEPT !.due = due, !.left = left]
      BY <2>1
    <2> HIDE DEF room, due, left, later
    <2>4. /\ later(r) \in RoomStates /\ later(r).nonce = room.nonce
          /\ later(r).pending = room.pending
          /\ later(r).due = due /\ later(r).left = left
      BY <2>1, <2>2, <2>3 DEF RoomStates, room
    <2> QED
      BY <2>4 DEF room, due, left
  <1> HIDE DEF later
  <1>3. rooms \in [DOMAIN s.rooms -> RoomStates] /\ \A r \in DOMAIN s.rooms : rooms[r] = later(r)
    BY <1>2
  <1> HIDE DEF rooms
  <1>4. /\ Schedule(u) /\ u.account = s.account /\ u.generation = s.generation
        /\ u.rooms = rooms /\ DOMAIN u.rooms = DOMAIN s.rooms
    BY <1>1, <1>3, RoomsReplaced
  <1> QED
    BY <1>2, <1>3, <1>4

-----------------------------------------------------------------------------
(* The requests.                                                           *)

Stages == {"queued", "fetching", "posted"}
Tasks == [account : Accounts, generation : Nat, room : Rooms, nonce : Nonces,
          left : Nat, stage : Stages, answer : Answers \cup {Failure}, void : BOOLEAN]

LEMMA AnswerType ==
    ASSUME NEW w \in Answers \cup {Failure}
    PROVE  /\ w.outcome \in Outcome
           /\ \/ w.marker = {}
              \/ \E e \in MarkerEvents : w.marker = {e}
  <1>1. CASE w \in Answers
    BY <1>1, DiscoveryAnswers DEF Answer
  <1>2. CASE w = Failure
    BY <1>2 DEF Failure, Outcome
  <1> QED
    BY <1>1, <1>2

\* What tells a request apart.
SameRequest(t, u) ==
    /\ u.account = t.account /\ u.generation = t.generation
    /\ u.room = t.room /\ u.nonce = t.nonce

\* What Voided makes of one request.
VoidedTask(t, places) == [t EXCEPT !.void = @ \/ <<t.account, t.room>> \in places]

LEMMA VoidedOne ==
    ASSUME NEW t \in Tasks, NEW places, NEW u, u = VoidedTask(t, places)
    PROVE  /\ u \in Tasks /\ SameRequest(t, u) /\ u.left = t.left /\ u.stage = t.stage
           /\ ~u.void <=> ~t.void /\ <<t.account, t.room>> \notin places
  <1>1. ASSUME NEW b \in BOOLEAN, u = [t EXCEPT !.void = b]
        PROVE  /\ u \in Tasks /\ SameRequest(t, u) /\ u.left = t.left /\ u.stage = t.stage
               /\ u.void = b
    BY <1>1 DEF Tasks, SameRequest
  <1>2. CASE t.void \/ <<t.account, t.room>> \in places
    <2>1. u = [t EXCEPT !.void = TRUE]
      BY <1>2, Zenon DEF VoidedTask
    <2> QED
      BY <1>1, <1>2, <2>1
  <1>3. CASE ~(t.void \/ <<t.account, t.room>> \in places)
    <2>1. u = [t EXCEPT !.void = FALSE]
      BY <1>3, Zenon DEF VoidedTask
    <2> QED
      BY <1>1, <1>3, <2>1
  <1> QED
    BY <1>2, <1>3

LEMMA VoidedFacts ==
    ASSUME NEW ts \in SUBSET Tasks, NEW places, NEW u \in Voided(ts, places)
    PROVE  /\ u \in Tasks
           /\ \E t \in ts :
                 /\ u = VoidedTask(t, places)
                 /\ SameRequest(t, u) /\ u.left = t.left /\ u.stage = t.stage
                 /\ ~u.void <=> ~t.void /\ <<t.account, t.room>> \notin places
  <1>1. PICK t \in ts : u = VoidedTask(t, places)
    BY DEF Voided, VoidedTask
  <1> QED
    BY <1>1, VoidedOne

LEMMA TaskAges ==
    ASSUME NEW t \in Tasks, NEW u, u = [t EXCEPT !.left = Less(@)]
    PROVE  u \in Tasks /\ SameRequest(t, u) /\ u.left = Less(t.left) /\ u.void = t.void
  <1>1. Less(t.left) \in Nat
    BY LessFacts DEF Tasks
  <1> QED
    BY <1>1 DEF Tasks, SameRequest

-----------------------------------------------------------------------------
(* What the schedule and the requests know of each other.                  *)

\* The schedule would take the answer of t for the one it waits for.
Awaits(s, t) ==
    /\ t.account = s.account /\ t.generation = s.generation
    /\ t.room \in DOMAIN s.rooms /\ s.rooms[t.room].nonce = t.nonce

\* No request is of a generation to come, and one that is awaited is of no
\* place that was dropped since and lives at least as long as it is waited for.
Accounted(s, ts) ==
    /\ ts \in SUBSET Tasks
    /\ \A t \in ts :
          /\ t.generation <= s.generation
          /\ Awaits(s, t) /\ s.rooms[t.room].left > 0 =>
                ~t.void /\ t.left >= s.rooms[t.room].left

\* A room in rooms is asked soon, or again after the answer under way.
Prompt(s, rooms) ==
    \A r \in rooms : r \in DOMAIN s.rooms /\
        IF s.rooms[r].nonce = None THEN s.rooms[r].due <= FAILURE ELSE s.rooms[r].pending

\* u is what becomes of s when places are dropped: its rooms are new, or as
\* they were for the same account and none of the places.
Follows(s, u, places) ==
    /\ Schedule(u) /\ u.generation >= s.generation
    /\ \A r \in DOMAIN u.rooms :
          \/ u.rooms[r] = NewRoom
          \/ /\ u.account = s.account /\ u.generation = s.generation
             /\ r \in DOMAIN s.rooms /\ u.rooms[r] = s.rooms[r]
             /\ <<u.account, r>> \notin places

LEMMA AccountedFollows ==
    ASSUME NEW s, Schedule(s), NEW ts, Accounted(s, ts), NEW places, NEW u, Follows(s, u, places)
    PROVE  Accounted(u, Voided(ts, places))
  <1> DEFINE vs == Voided(ts, places)
  <1>1. \A v \in vs :
           /\ v \in Tasks
           /\ \E t \in ts :
                 /\ SameRequest(t, v) /\ v.left = t.left
                 /\ ~t.void /\ <<t.account, t.room>> \notin places => ~v.void
    BY VoidedFacts DEF Accounted
  <1> HIDE DEF vs
  <1>2. ASSUME NEW v \in vs
        PROVE  /\ v.generation <= u.generation
               /\ Awaits(u, v) /\ u.rooms[v.room].left > 0 =>
                     ~v.void /\ v.left >= u.rooms[v.room].left
    <2>1. PICK t \in ts :
                 /\ SameRequest(t, v) /\ v.left = t.left
                 /\ ~t.void /\ <<t.account, t.room>> \notin places => ~v.void
      BY <1>1, <1>2
    <2>2. /\ t \in Tasks /\ t.generation <= s.generation
          /\ Awaits(s, t) /\ s.rooms[t.room].left > 0 => ~t.void /\ t.left >= s.rooms[t.room].left
      BY DEF Accounted
    <2>3. v.generation <= u.generation
      BY <2>1, <2>2 DEF Follows, Schedule, SameRequest, Tasks
    <2>4. ASSUME Awaits(u, v), u.rooms[v.room].left > 0
          PROVE  ~v.void /\ v.left >= u.rooms[v.room].left
      <3>1. u.rooms[v.room] # NewRoom
        BY <2>2, <2>1, <2>4, NewRoomFacts, WaitsAreNat DEF Awaits, SameRequest, Tasks
      <3>2. /\ u.account = s.account /\ u.generation = s.generation
            /\ v.room \in DOMAIN s.rooms /\ u.rooms[v.room] = s.rooms[v.room]
            /\ <<u.account, v.room>> \notin places
        BY <2>4, <3>1 DEF Follows, Awaits
      <3>3. Awaits(s, t) /\ s.rooms[t.room].left > 0 /\ <<t.account, t.room>> \notin places
        BY <2>1, <2>4, <3>2 DEF Awaits, SameRequest
      <3> QED
        BY <2>1, <2>2, <3>2, <3>3 DEF SameRequest
    <2> QED
      BY <2>3, <2>4
  <1>3. vs \in SUBSET Tasks
    BY <1>1
  <1> QED
    BY <1>2, <1>3 DEF Accounted, vs

LEMMA AccountedFewer ==
    ASSUME NEW s, NEW ts, Accounted(s, ts), NEW us \in SUBSET ts
    PROVE  Accounted(s, us)
  BY DEF Accounted

LEMMA PromptFollows ==
    ASSUME NEW s, NEW rooms, Prompt(s, rooms), NEW places, NEW u, Follows(s, u, places)
    PROVE  Prompt(u, rooms \cap DOMAIN u.rooms)
  <1> SUFFICES ASSUME NEW r \in rooms, r \in DOMAIN u.rooms
               PROVE  IF u.rooms[r].nonce = None THEN u.rooms[r].due <= FAILURE
                      ELSE u.rooms[r].pending
    BY DEF Prompt
  <1>1. CASE u.rooms[r] = NewRoom
    BY <1>1, NewRoomFacts, WaitsAreNat
  <1>2. CASE u.rooms[r] = s.rooms[r]
    BY <1>2 DEF Prompt
  <1> QED
    BY <1>1, <1>2 DEF Follows

\* The App and the schedule are of the same account, and of the rooms it lists.
AppInv ==
    /\ client \in Accounts \cup {None} /\ approvalAccount \in Accounts \cup {None}
    /\ listed \subseteq Rooms /\ approvalJoined \subseteq Rooms
    /\ Schedule(schedule) /\ schedule.account = approvalAccount

ScheduleInv == AppInv /\ Accounted(schedule, tasks) /\ Prompt(schedule, wanted)

LEMMA ClearedFollows ==
    ASSUME AppInv, NEW places
    PROVE  /\ Follows(schedule, ClearedSchedule, places)
           /\ ClearedSchedule.account = None /\ DOMAIN ClearedSchedule.rooms = {}
  <1>1. {} \in SUBSET Rooms /\ Schedule(schedule)
    BY DEF AppInv
  <1>2. /\ Schedule(ClearedSchedule) /\ ClearedSchedule.account = None
        /\ ClearedSchedule.generation = IF schedule.account = None THEN schedule.generation
                                        ELSE schedule.generation + 1
        /\ DOMAIN ClearedSchedule.rooms \subseteq {}
    BY <1>1, WithMembersFacts DEF ClearedSchedule
  <1>3. schedule.generation \in Nat
    BY <1>1 DEF Schedule
  <1> QED
    BY <1>2, <1>3 DEF Follows

\* sync_approval_membership.
LEMMA SyncedFollows ==
    ASSUME AppInv
    PROVE  /\ Follows(schedule, SyncedSchedule, Left)
           /\ SyncedSchedule.account = CurrentAccount
           /\ CurrentAccount \in Accounts \cup {None} /\ SyncedJoined \subseteq Rooms
  <1> DEFINE s == IF approvalAccount = CurrentAccount THEN schedule ELSE ClearedSchedule
  <1>1. CurrentAccount \in Accounts \cup {None} /\ JoinedNow \in SUBSET Rooms
    BY DEF AppInv, CurrentAccount, JoinedNow
  <1>2. SyncedJoined \subseteq Rooms
    BY <1>1 DEF AppInv, SyncedJoined
  <1>3. /\ Schedule(s) /\ s.generation >= schedule.generation
        /\ \/ s = schedule /\ approvalAccount = CurrentAccount
           \/ s.account = None /\ DOMAIN s.rooms = {} /\ approvalAccount # CurrentAccount
    <2>1. CASE approvalAccount = CurrentAccount
      BY <2>1 DEF AppInv, Schedule
    <2>2. CASE approvalAccount # CurrentAccount
      BY <2>2, ClearedFollows DEF Follows
    <2> QED
      BY <2>1, <2>2
  <1> HIDE DEF s
  <1>4. CASE CurrentAccount = None
    <2>1. SyncedSchedule = s
      BY <1>4 DEF SyncedSchedule, s
    <2>2. s.account = None /\ DOMAIN s.rooms = {}
      BY <1>3, <1>4 DEF AppInv, Schedule
    <2> QED
      BY <1>1, <1>2, <1>3, <1>4, <2>1, <2>2 DEF Follows
  <1>5. CASE CurrentAccount # None
    <2> DEFINE u == SyncedSchedule
    <2>1. u = WithMembers(s, CurrentAccount, JoinedNow)
      BY <1>5 DEF SyncedSchedule, s
    <2>2. /\ Schedule(u) /\ u.account = CurrentAccount
          /\ u.generation = IF s.account = CurrentAccount THEN s.generation ELSE s.generation + 1
          /\ DOMAIN u.rooms \subseteq JoinedNow
          /\ \A r \in DOMAIN u.rooms :
                \/ u.rooms[r] = NewRoom
                \/ s.account = CurrentAccount /\ r \in DOMAIN s.rooms /\ u.rooms[r] = s.rooms[r]
      BY <1>1, <1>3, <2>1, WithMembersFacts
    <2>3. schedule.generation \in Nat /\ s.generation \in Nat
      BY <1>3 DEF AppInv, Schedule
    <2>4. ASSUME NEW r \in DOMAIN u.rooms, u.rooms[r] # NewRoom
          PROVE  /\ u.account = schedule.account /\ u.generation = schedule.generation
                 /\ r \in DOMAIN schedule.rooms /\ u.rooms[r] = schedule.rooms[r]
                 /\ <<u.account, r>> \notin Left
      <3>1. s = schedule /\ approvalAccount = CurrentAccount
        BY <1>3, <2>2, <2>4
      <3>2. r \in JoinedNow
        BY <2>2
      <3>3. <<u.account, r>> \notin Left
        BY <3>1, <3>2 DEF Left
      <3> QED
        BY <2>2, <2>4, <3>1, <3>3 DEF AppInv
    <2> HIDE DEF u
    <2>5. Follows(schedule, u, Left)
      BY <1>3, <2>2, <2>3, <2>4 DEF Follows
    <2> QED
      BY <1>1, <1>2, <2>2, <2>5 DEF u
  <1> QED
    BY <1>4, <1>5

-----------------------------------------------------------------------------
(* One step at a time.                                                     *)

LEMMA InitSchedule == DiscoveryInit => ScheduleInv
  BY EmptyScheduleFacts DEF DiscoveryInit, ScheduleInv, AppInv, Accounted, Prompt

\* A step that leaves the schedule, its requests and what is wanted alone.
LEMMA ScheduleStutter ==
    ASSUME ScheduleInv, UNCHANGED <<schedule, tasks, wanted, approvalAccount, approvalJoined>>,
           client' \in Accounts \cup {None}, listed' \subseteq Rooms
    PROVE  ScheduleInv'
  BY DEF ScheduleInv, AppInv, Accounted, Prompt, Awaits

LEMMA StepSyncMembership ==
    ASSUME ScheduleInv, SyncMembership
    PROVE  ScheduleInv'
  <1>1. AppInv /\ Accounted(schedule, tasks) /\ Prompt(schedule, wanted)
    BY DEF ScheduleInv
  <1>2. /\ Follows(schedule, SyncedSchedule, Left) /\ SyncedSchedule.account = CurrentAccount
        /\ CurrentAccount \in Accounts \cup {None} /\ SyncedJoined \subseteq Rooms
    BY <1>1, SyncedFollows
  <1>3. /\ schedule' = SyncedSchedule /\ tasks' = Voided(tasks, Left)
        /\ wanted' = wanted \cap DOMAIN schedule'.rooms
        /\ approvalAccount' = CurrentAccount /\ approvalJoined' = SyncedJoined
        /\ client' = client /\ listed' = listed
    BY DEF SyncMembership, SyncApp, worldVars
  <1>4. AppInv'
    BY <1>1, <1>2, <1>3 DEF AppInv, Follows
  <1>5. Accounted(schedule', tasks')
    BY <1>1, <1>2, <1>3, AccountedFollows DEF AppInv
  <1>6. Prompt(schedule', wanted')
    BY <1>1, <1>2, <1>3, PromptFollows
  <1> QED
    BY <1>4, <1>5, <1>6 DEF ScheduleInv

LEMMA StepRefreshDiscovery ==
    ASSUME ScheduleInv, RefreshDiscovery
    PROVE  ScheduleInv'
  <1> DEFINE s == SyncedSchedule
             ts == Voided(tasks, Left)
             chosen == Selected(s)
             ask(r, n) == [account |-> CurrentAccount, generation |-> schedule'.generation,
                           room |-> r, nonce |-> n, left |-> LIFE, stage |-> "queued",
                           answer |-> Failure, void |-> FALSE]
  <1>1. AppInv /\ Accounted(schedule, tasks) /\ Prompt(schedule, wanted)
    BY DEF ScheduleInv
  <1>2. /\ Follows(schedule, s, Left) /\ s.account = CurrentAccount
        /\ CurrentAccount \in Accounts \cup {None} /\ SyncedJoined \subseteq Rooms
    BY <1>1, SyncedFollows
  <1>3. PICK n \in Nonces :
            /\ \A t \in tasks : t.nonce # n
            /\ SyncApp /\ schedule' = Asked(s, n)
            /\ tasks' = ts \cup IF mainLoop # "serving" THEN {} ELSE {ask(r, n) : r \in chosen}
            /\ wanted' = (wanted \cap DOMAIN schedule'.rooms) \ chosen
    BY DEF RefreshDiscovery
  <1>4. /\ Schedule(schedule') /\ schedule'.account = s.account
        /\ schedule'.generation = s.generation
        /\ DOMAIN schedule'.rooms = DOMAIN s.rooms /\ chosen \subseteq DOMAIN s.rooms
        /\ \A r \in chosen : schedule'.rooms[r].nonce = n /\ schedule'.rooms[r].left = LIFE
        /\ \A r \in DOMAIN s.rooms \ chosen :
              \/ schedule'.rooms[r] = s.rooms[r]
              \/ schedule'.rooms[r].nonce = None /\ schedule'.rooms[r].due = FAILURE
    BY <1>2, <1>3, AskedFacts DEF Follows
  <1>5. Accounted(s, ts)
    BY <1>1, <1>2, AccountedFollows DEF AppInv
  <1>6. \A u \in ts : u.nonce # n
    <2>1. \A u \in ts : \E t \in tasks : SameRequest(t, u)
      BY <1>1, VoidedFacts DEF Accounted
    <2> QED
      BY <1>3, <2>1 DEF SameRequest
  <1>7. Prompt(s, wanted \cap DOMAIN s.rooms)
    BY <1>1, <1>2, PromptFollows
  <1>8. \A r \in chosen :
            /\ ask(r, n) \in Tasks /\ ask(r, n).generation = schedule'.generation
            /\ ask(r, n).room = r /\ ~ask(r, n).void /\ ask(r, n).left = LIFE
    <2> TAKE r \in chosen
    <2>1. r \in Rooms /\ CurrentAccount \in Accounts /\ schedule'.generation \in Nat
      BY <1>2, <1>4 DEF Schedule
    <2> QED
      BY <2>1, WaitsAreNat DEF Tasks, Stages
  <1> HIDE DEF s, ts, chosen, ask
  <1>9. AppInv'
    BY <1>1, <1>2, <1>3, <1>4 DEF AppInv, SyncApp, worldVars
  <1>10. Accounted(schedule', tasks')
    <2>1. tasks' \in SUBSET Tasks
      BY <1>3, <1>5, <1>8 DEF Accounted
    <2>2. ASSUME NEW t \in tasks'
          PROVE  /\ t.generation <= schedule'.generation
                 /\ Awaits(schedule', t) /\ schedule'.rooms[t.room].left > 0 =>
                       ~t.void /\ t.left >= schedule'.rooms[t.room].left
      <3>1. CASE t \in ts
        <4>1. t \in Tasks /\ t.generation <= schedule'.generation
          BY <1>4, <1>5, <3>1 DEF Accounted
        <4>2. ASSUME Awaits(schedule', t), schedule'.rooms[t.room].left > 0
              PROVE  ~t.void /\ t.left >= schedule'.rooms[t.room].left
          <5>1. t.room \in DOMAIN s.rooms \ chosen
            BY <1>4, <1>6, <3>1, <4>2 DEF Awaits
          <5>2. schedule'.rooms[t.room] = s.rooms[t.room]
            BY <1>4, <4>1, <4>2, <5>1, WaitsAreNat DEF Awaits, Tasks
          <5>3. Awaits(s, t) /\ s.rooms[t.room].left > 0
            BY <1>4, <4>2, <5>1, <5>2 DEF Awaits
          <5> QED
            BY <1>5, <3>1, <5>2, <5>3 DEF Accounted
        <4> QED
          BY <4>1, <4>2
      <3>2. CASE t \notin ts
        <4>1. PICK r \in chosen : t = ask(r, n)
          BY <1>3, <2>2, <3>2
        <4> QED
          BY <1>4, <1>8, <4>1, WaitsAreNat DEF Schedule
      <3> QED
        BY <3>1, <3>2
    <2> QED
      BY <2>1, <2>2 DEF Accounted
  <1>11. Prompt(schedule', wanted')
    <2> SUFFICES ASSUME NEW r \in wanted'
                 PROVE  r \in DOMAIN schedule'.rooms /\
                            IF schedule'.rooms[r].nonce = None
                            THEN schedule'.rooms[r].due <= FAILURE
                            ELSE schedule'.rooms[r].pending
      BY DEF Prompt
    <2>1. r \in wanted \cap DOMAIN s.rooms /\ r \in DOMAIN s.rooms \ chosen
      BY <1>3, <1>4
    <2>2. CASE schedule'.rooms[r] = s.rooms[r]
      BY <1>4, <1>7, <2>1, <2>2 DEF Prompt
    <2>3. CASE schedule'.rooms[r].nonce = None /\ schedule'.rooms[r].due = FAILURE
      BY <1>4, <2>1, <2>3, WaitsAreNat
    <2> QED
      BY <1>4, <2>1, <2>2, <2>3
  <1> QED
    BY <1>9, <1>10, <1>11 DEF ScheduleInv

LEMMA StepHandleResult ==
    ASSUME ScheduleInv, NEW t \in tasks, HandleDiscoveryResult(t)
    PROVE  ScheduleInv'
  <1> DEFINE s == SyncedSchedule
             ts == Voided(tasks \ {t}, Left)
             accepted == CurrentAccount # None /\ Acceptable(s, t)
  <1>1. AppInv /\ Accounted(schedule, tasks) /\ Prompt(schedule, wanted)
    BY DEF ScheduleInv
  <1>2. /\ Follows(schedule, s, Left) /\ s.account = CurrentAccount
        /\ CurrentAccount \in Accounts \cup {None} /\ SyncedJoined \subseteq Rooms
    BY <1>1, SyncedFollows
  <1>3. /\ tasks' = ts
        /\ wanted' = wanted \cap DOMAIN schedule'.rooms
        /\ approvalAccount' = CurrentAccount /\ approvalJoined' = SyncedJoined
        /\ client' = client /\ listed' = listed
    BY DEF HandleDiscoveryResult
  <1>4. IF accepted THEN schedule' = WithResult(s, t) ELSE schedule' = s
    BY DEF HandleDiscoveryResult
  <1>5. Accounted(s, ts)
    <2>1. Accounted(schedule, tasks \ {t})
      BY <1>1, AccountedFewer
    <2> QED
      BY <1>1, <1>2, <2>1, AccountedFollows DEF AppInv
  <1>6. Prompt(s, wanted \cap DOMAIN s.rooms)
    BY <1>1, <1>2, PromptFollows
  <1>7. CASE accepted
    <2>1. t \in Tasks
      BY <1>1 DEF Accounted
    <2>2. /\ t.room \in DOMAIN s.rooms /\ s.rooms[t.room].nonce # None
          /\ t.answer.outcome \in Outcome
      BY <1>7, <2>1, WaitsAreNat, AnswerType DEF Acceptable, Tasks
    <2> DEFINE u == WithResult(s, t)
    <2>3. /\ Schedule(u) /\ u.account = s.account /\ u.generation = s.generation
          /\ DOMAIN u.rooms = DOMAIN s.rooms
          /\ \A r \in DOMAIN s.rooms \ {t.room} : u.rooms[r] = s.rooms[r]
          /\ u.rooms[t.room].nonce = None
          /\ s.rooms[t.room].pending => u.rooms[t.room].due <= FAILURE
      BY <1>2, <2>2, WithResultFacts DEF Follows
    <2>4. schedule' = u
      BY <1>4, <1>7
    <2> HIDE DEF s, ts, u
    <2>5. AppInv'
      BY <1>1, <1>2, <1>3, <2>3, <2>4 DEF AppInv
    <2>6. Accounted(u, ts)
      <3> SUFFICES ASSUME NEW v \in ts
                   PROVE  /\ v.generation <= u.generation
                          /\ Awaits(u, v) /\ u.rooms[v.room].left > 0 =>
                                ~v.void /\ v.left >= u.rooms[v.room].left
        BY <1>5 DEF Accounted
      <3>1. v \in Tasks /\ v.generation <= s.generation
        BY <1>5 DEF Accounted
      <3>2. ASSUME Awaits(u, v), u.rooms[v.room].left > 0
            PROVE  ~v.void /\ v.left >= u.rooms[v.room].left
        <4>1. v.room # t.room
          BY <2>3, <3>1, <3>2, WaitsAreNat DEF Awaits, Tasks
        <4>2. u.rooms[v.room] = s.rooms[v.room] /\ Awaits(s, v)
          BY <2>3, <3>2, <4>1 DEF Awaits
        <4> QED
          BY <1>5, <3>2, <4>2 DEF Accounted
      <3> QED
        BY <2>3, <3>1, <3>2
    <2>7. Prompt(u, wanted \cap DOMAIN u.rooms)
      <3> SUFFICES ASSUME NEW r \in wanted, r \in DOMAIN u.rooms
                   PROVE  IF u.rooms[r].nonce = None THEN u.rooms[r].due <= FAILURE
                          ELSE u.rooms[r].pending
        BY DEF Prompt
      <3>1. CASE r = t.room
        BY <1>6, <2>2, <2>3, <3>1 DEF Prompt
      <3>2. CASE r # t.room
        BY <1>6, <2>3, <3>2 DEF Prompt
      <3> QED
        BY <3>1, <3>2
    <2> QED
      BY <1>3, <2>4, <2>5, <2>6, <2>7 DEF ScheduleInv
  <1>8. CASE ~accepted
    <2>1. schedule' = s
      BY <1>4, <1>8
    <2> HIDE DEF s, ts
    <2>2. AppInv'
      BY <1>1, <1>2, <1>3, <2>1 DEF AppInv, Follows
    <2> QED
      BY <1>3, <1>5, <1>6, <2>1, <2>2 DEF ScheduleInv
  <1> QED
    BY <1>7, <1>8

\* The worker moves a request on, until it is posted.
LEMMA WorkerMoves ==
    ASSUME NEW t \in tasks, t \in Tasks,
           StartFetch(t) \/ FailFetch(t) \/ \E w \in Answers : EndFetch(t, w)
    PROVE  /\ UNCHANGED <<worldVars, appVars, pastVars>> /\ t.stage # "posted"
           /\ \E u \in Tasks :
                 /\ tasks' = (tasks \ {t}) \cup {u}
                 /\ SameRequest(t, u) /\ u.left = t.left /\ u.void = t.void
  <1>1. /\ UNCHANGED <<worldVars, appVars, pastVars>>
        /\ \E u : \E stage \in Stages, w \in Answers \cup {Failure} :
              /\ tasks' = (tasks \ {t}) \cup {u}
              /\ u = [t EXCEPT !.stage = stage] \/ u = [t EXCEPT !.stage = stage, !.answer = w]
    <2>p. ASSUME NEW w \in Answers \cup {Failure}, Post(t, w)
          PROVE  /\ UNCHANGED <<worldVars, appVars, pastVars>>
                 /\ \E u : \E stage \in Stages, x \in Answers \cup {Failure} :
                       /\ tasks' = (tasks \ {t}) \cup {u}
                       /\ u = [t EXCEPT !.stage = stage] \/ u = [t EXCEPT !.stage = stage, !.answer = x]
      BY <2>p DEF Post, Stages
    <2>1. CASE StartFetch(t)
      <3>1. CASE ContextMatches(t)
        BY <2>1, <3>1 DEF StartFetch, Stages
      <3>2. CASE ~ContextMatches(t)
        BY <2>1, <2>p, <3>2 DEF StartFetch
      <3> QED
        BY <3>1, <3>2
    <2>2. CASE FailFetch(t)
      BY <2>2, <2>p DEF FailFetch
    <2>3. CASE \E w \in Answers : EndFetch(t, w)
      <3>1. PICK w \in Answers : Post(t, IF ContextMatches(t) THEN w ELSE Failure)
        BY <2>3 DEF EndFetch
      <3> QED
        BY <2>p, <3>1
    <2> QED
      BY <2>1, <2>2, <2>3
  <1>2. t.stage # "posted"
    BY DEF StartFetch, FailFetch, EndFetch
  <1>3. PICK u : \E stage \in Stages, w \in Answers \cup {Failure} :
            /\ tasks' = (tasks \ {t}) \cup {u}
            /\ u = [t EXCEPT !.stage = stage] \/ u = [t EXCEPT !.stage = stage, !.answer = w]
    BY <1>1
  <1>4. u \in Tasks /\ SameRequest(t, u) /\ u.left = t.left /\ u.void = t.void
    BY <1>3 DEF Tasks, SameRequest
  <1> QED
    BY <1>1, <1>2, <1>3, <1>4

LEMMA StepWorker ==
    ASSUME ScheduleInv, NEW t \in tasks,
           StartFetch(t) \/ FailFetch(t) \/ \E w \in Answers : EndFetch(t, w)
    PROVE  ScheduleInv' /\ UNCHANGED <<worldVars, appVars, pastVars>>
  <1>1. AppInv /\ Accounted(schedule, tasks) /\ Prompt(schedule, wanted) /\ t \in Tasks
    BY DEF ScheduleInv, Accounted
  <1>2. UNCHANGED <<worldVars, appVars, pastVars>>
    BY <1>1, WorkerMoves
  <1>3. PICK u \in Tasks :
            /\ tasks' = (tasks \ {t}) \cup {u}
            /\ SameRequest(t, u) /\ u.left = t.left /\ u.void = t.void
    BY <1>1, WorkerMoves
  <1>4. UNCHANGED <<schedule, wanted, client, listed, approvalAccount, approvalJoined>>
    BY <1>2 DEF worldVars, appVars, pastVars
  <1>5. AppInv' /\ Prompt(schedule', wanted')
    BY <1>1, <1>4 DEF AppInv
  <1>6. Accounted(schedule', tasks')
    <2>1. Accounted(schedule, tasks')
      BY <1>1, <1>3 DEF Accounted, Awaits, SameRequest
    <2> QED
      BY <1>4, <2>1
  <1> QED
    BY <1>2, <1>5, <1>6 DEF ScheduleInv

LEMMA StepRefreshRoom ==
    ASSUME ScheduleInv, NEW r \in Rooms, RefreshRoom(r)
    PROVE  ScheduleInv'
  <1> DEFINE u == Refreshed(schedule, client, r)
  <1>1. AppInv /\ Accounted(schedule, tasks) /\ Prompt(schedule, wanted)
    BY DEF ScheduleInv
  <1>2. /\ schedule' = u /\ tasks' = tasks
        /\ wanted' = IF client = schedule.account /\ r \in DOMAIN schedule.rooms
                     THEN wanted \cup {r} ELSE wanted
        /\ UNCHANGED <<client, listed, approvalAccount, approvalJoined>>
    BY DEF RefreshRoom, worldVars
  <1>3. /\ Schedule(u) /\ u.account = schedule.account /\ u.generation = schedule.generation
        /\ DOMAIN u.rooms = DOMAIN schedule.rooms
        /\ \A q \in DOMAIN schedule.rooms :
              /\ u.rooms[q].nonce = schedule.rooms[q].nonce
              /\ u.rooms[q].left = schedule.rooms[q].left
              /\ q = r /\ client = schedule.account =>
                    IF u.rooms[q].nonce = None THEN u.rooms[q].due = 0 ELSE u.rooms[q].pending
              /\ q # r => u.rooms[q] = schedule.rooms[q]
    BY <1>1, RefreshedFacts DEF AppInv
  <1>u. client # schedule.account => u = schedule
    BY DEF Refreshed
  <1> HIDE DEF u
  <1>4. AppInv'
    BY <1>1, <1>2, <1>3 DEF AppInv
  <1>5. Accounted(u, tasks)
    BY <1>1, <1>3 DEF Accounted, Awaits
  <1>6. Prompt(u, wanted')
    <2> SUFFICES ASSUME NEW q \in wanted'
                 PROVE  q \in DOMAIN u.rooms /\
                            IF u.rooms[q].nonce = None THEN u.rooms[q].due <= FAILURE
                            ELSE u.rooms[q].pending
      BY DEF Prompt
    <2>1. q \in DOMAIN schedule.rooms
      BY <1>1, <1>2 DEF Prompt
    <2>2. CASE q = r /\ client = schedule.account
      BY <1>3, <2>1, <2>2, WaitsAreNat
    <2>3. CASE ~(q = r /\ client = schedule.account)
      <3>1. u.rooms[q] = schedule.rooms[q] /\ q \in wanted
        BY <1>2, <1>3, <1>u, <2>1, <2>3
      <3> QED
        BY <1>1, <1>3, <2>1, <3>1 DEF Prompt
    <2> QED
      BY <2>2, <2>3
  <1> QED
    BY <1>2, <1>4, <1>5, <1>6 DEF ScheduleInv

LEMMA StepPurgeRoom ==
    ASSUME ScheduleInv, NEW r \in Rooms, PurgeRoom(r)
    PROVE  ScheduleInv'
  <1> DEFINE places == {p \in RuntimePlaces : p[2] = r}
  <1>1. AppInv /\ Accounted(schedule, tasks) /\ Prompt(schedule, wanted)
    BY DEF ScheduleInv
  <1>2. /\ approvalJoined' = IF approvalAccount = None THEN approvalJoined
                             ELSE approvalJoined \ {r}
        /\ schedule' = IF approvalAccount = None THEN schedule
                       ELSE WithMembers(schedule, approvalAccount, approvalJoined')
        /\ tasks' = Voided(tasks, places)
        /\ wanted' = wanted \cap DOMAIN schedule'.rooms
        /\ UNCHANGED <<client, listed, approvalAccount>>
    BY DEF PurgeRoom
  <1> HIDE DEF places
  <1>3. approvalJoined' \in SUBSET Rooms
    BY <1>1, <1>2 DEF AppInv
  <1>4. Follows(schedule, schedule', places) /\ schedule'.account = approvalAccount
    <2>1. CASE approvalAccount = None
      <3>1. schedule' = schedule /\ DOMAIN schedule.rooms = {}
        BY <1>1, <1>2, <2>1 DEF AppInv, Schedule
      <3> QED
        BY <1>1, <3>1 DEF Follows, AppInv, Schedule
    <2>2. CASE approvalAccount # None
      <3>1. schedule' = WithMembers(schedule, approvalAccount, approvalJoined')
        BY <1>2, <2>2
      <3>2. /\ Schedule(schedule') /\ schedule'.account = approvalAccount
            /\ schedule'.generation = schedule.generation
            /\ DOMAIN schedule'.rooms \subseteq approvalJoined'
            /\ \A q \in DOMAIN schedule'.rooms :
                  \/ schedule'.rooms[q] = NewRoom
                  \/ q \in DOMAIN schedule.rooms /\ schedule'.rooms[q] = schedule.rooms[q]
        BY <1>1, <1>3, <3>1, WithMembersFacts DEF AppInv
      <3>3. \A q \in DOMAIN schedule'.rooms : <<schedule'.account, q>> \notin places
        BY <1>2, <2>2, <3>2 DEF places
      <3> QED
        BY <1>1, <3>2, <3>3 DEF Follows, AppInv, Schedule
    <2> QED
      BY <2>1, <2>2
  <1>5. AppInv'
    BY <1>1, <1>2, <1>3, <1>4 DEF AppInv, Follows
  <1>6. Accounted(schedule', tasks') /\ Prompt(schedule', wanted')
    BY <1>1, <1>2, <1>4, AccountedFollows, PromptFollows DEF AppInv
  <1> QED
    BY <1>5, <1>6 DEF ScheduleInv

\* The App forgets its approvals, or starts again.
LEMMA StepUiDrops ==
    ASSUME ScheduleInv, UiDrops
    PROVE  ScheduleInv'
  <1>1. AppInv /\ Accounted(schedule, tasks)
    BY DEF ScheduleInv
  <1>2. /\ approvalAccount' = None /\ approvalJoined' = {} /\ schedule' = ClearedSchedule
        /\ tasks' = Voided(tasks, RuntimePlaces) /\ wanted' = {}
        /\ UNCHANGED <<client, listed>>
    BY DEF UiDrops
  <1>3. /\ Follows(schedule, ClearedSchedule, RuntimePlaces)
        /\ ClearedSchedule.account = None
    BY <1>1, ClearedFollows
  <1>4. AppInv'
    BY <1>1, <1>2, <1>3 DEF AppInv, Follows
  <1>5. Accounted(schedule', tasks')
    BY <1>1, <1>2, <1>3, AccountedFollows DEF AppInv
  <1>6. Prompt(schedule', wanted')
    BY <1>2 DEF Prompt
  <1> QED
    BY <1>4, <1>5, <1>6 DEF ScheduleInv

LEMMA StepRestart ==
    ASSUME NEW a \in Accounts, Restart(a)
    PROVE  ScheduleInv'
  BY EmptyScheduleFacts DEF Restart, ScheduleInv, AppInv, Accounted, Prompt

LEMMA StepTimePasses ==
    ASSUME ScheduleInv, TimePasses
    PROVE  ScheduleInv'
  <1> DEFINE u == Later(schedule)
  <1>1. AppInv /\ Accounted(schedule, tasks) /\ Prompt(schedule, wanted) /\ Schedule(schedule)
    BY DEF ScheduleInv, AppInv
  <1>2. /\ schedule' = u /\ tasks' = {[t EXCEPT !.left = Less(@)] : t \in tasks}
        /\ UNCHANGED <<wanted, client, listed, approvalAccount, approvalJoined>>
    BY DEF TimePasses, worldVars, pastVars
  <1>3. /\ Schedule(u) /\ u.account = schedule.account /\ u.generation = schedule.generation
        /\ DOMAIN u.rooms = DOMAIN schedule.rooms
        /\ \A r \in DOMAIN schedule.rooms :
              /\ u.rooms[r].nonce = schedule.rooms[r].nonce
              /\ u.rooms[r].pending = schedule.rooms[r].pending
              /\ u.rooms[r].due = Less(schedule.rooms[r].due)
              /\ u.rooms[r].left = Less(schedule.rooms[r].left)
    BY <1>1, LaterFacts
  <1>4. \A r \in DOMAIN schedule.rooms :
            schedule.rooms[r].due \in Nat /\ schedule.rooms[r].left \in Nat
    BY <1>1 DEF Schedule, RoomStates
  <1> HIDE DEF u
  <1>5. AppInv'
    BY <1>1, <1>2, <1>3 DEF AppInv
  <1>6. Accounted(u, tasks')
    <2>1. \A v \in tasks' : \E t \in tasks :
              v \in Tasks /\ SameRequest(t, v) /\ v.left = Less(t.left) /\ v.void = t.void
      BY <1>1, <1>2, TaskAges DEF Accounted
    <2>2. ASSUME NEW v \in tasks'
          PROVE  /\ v.generation <= u.generation
                 /\ Awaits(u, v) /\ u.rooms[v.room].left > 0 =>
                       ~v.void /\ v.left >= u.rooms[v.room].left
      <3>1. PICK t \in tasks :
                v \in Tasks /\ SameRequest(t, v) /\ v.left = Less(t.left) /\ v.void = t.void
        BY <2>1
      <3>2. t \in Tasks /\ t.generation <= schedule.generation
        BY <1>1 DEF Accounted
      <3>3. ASSUME Awaits(u, v), u.rooms[v.room].left > 0
            PROVE  ~v.void /\ v.left >= u.rooms[v.room].left
        <4>1. Awaits(schedule, t) /\ t.room = v.room
          BY <1>3, <3>1, <3>3 DEF Awaits, SameRequest
        <4> DEFINE left == schedule.rooms[t.room].left
        <4>2. left \in Nat /\ u.rooms[v.room].left = Less(left)
          BY <1>3, <1>4, <4>1 DEF Awaits
        <4>3. left > 0
          BY <3>3, <4>2 DEF Less
        <4>4. ~t.void /\ t.left >= left
          BY <1>1, <4>1, <4>3 DEF Accounted
        <4>5. t.left \in Nat
          BY <3>2 DEF Tasks
        <4> HIDE DEF left
        <4>6. Less(t.left) >= Less(left)
          BY <4>2, <4>3, <4>4, <4>5 DEF Less
        <4> QED
          BY <3>1, <4>2, <4>4, <4>6
      <3> QED
        BY <1>3, <3>1, <3>2, <3>3 DEF SameRequest
    <2> QED
      BY <2>1, <2>2 DEF Accounted
  <1>7. Prompt(u, wanted)
    <2> SUFFICES ASSUME NEW r \in wanted
                 PROVE  r \in DOMAIN u.rooms /\
                            IF u.rooms[r].nonce = None THEN u.rooms[r].due <= FAILURE
                            ELSE u.rooms[r].pending
      BY DEF Prompt
    <2>1. /\ r \in DOMAIN schedule.rooms
          /\ IF schedule.rooms[r].nonce = None THEN schedule.rooms[r].due <= FAILURE
             ELSE schedule.rooms[r].pending
      BY <1>1 DEF Prompt
    <2>2. Less(schedule.rooms[r].due) \in Nat
          /\ Less(schedule.rooms[r].due) <= schedule.rooms[r].due
      BY <1>4, <2>1, LessFacts
    <2> QED
      BY <1>3, <1>4, <2>1, <2>2, WaitsAreNat
  <1> QED
    BY <1>2, <1>5, <1>6, <1>7 DEF ScheduleInv

LEMMA StepSchedule ==
    ASSUME ScheduleInv, [DiscoveryNext]_discoveryVars
    PROVE  ScheduleInv'
  <1>0. client \in Accounts \cup {None} /\ listed \subseteq Rooms
    BY DEF ScheduleInv, AppInv
  <1>1. CASE SyncMembership
    BY <1>1, StepSyncMembership
  <1>2. CASE RefreshDiscovery
    BY <1>2, StepRefreshDiscovery
  <1>3. CASE TaskSteps
    <2>1. PICK t \in tasks : \/ StartFetch(t) \/ FailFetch(t) \/ HandleDiscoveryResult(t)
                             \/ \E w \in Answers : EndFetch(t, w)
      BY <1>3 DEF TaskSteps
    <2> QED
      BY <2>1, StepWorker, StepHandleResult
  <1>4. ASSUME NEW r \in Rooms, RefreshRoom(r) \/ ListAdds(r) \/ PurgeRoom(r)
        PROVE  ScheduleInv'
    <2>1. CASE ListAdds(r)
      BY <1>0, <2>1, ScheduleStutter DEF ListAdds, WorldStep, appVars, pastVars
    <2> QED
      BY <1>4, <2>1, StepRefreshRoom, StepPurgeRoom
  <1>5. CASE SaveAppState
    BY <1>0, <1>5, ScheduleStutter DEF SaveAppState, appVars, pastVars
  <1>6. ASSUME NEW p \in Places, LeaveRoom(p) \/ RejoinRoom(p)
        PROVE  ScheduleInv'
    BY <1>0, <1>6, ScheduleStutter DEF LeaveRoom, RejoinRoom, WorldStep, appVars, pastVars
  <1>7. CASE ListResets
    BY <1>0, <1>7, ScheduleStutter DEF ListResets, WorldStep, appVars, pastVars
  <1>8. CASE SwitchAccount \/ TearDown \/ FailSwitch \/ SyncServiceFails \/ FinishSwitch
    BY <1>0, <1>8, ScheduleStutter DEF SwitchAccount, TearDown, FailSwitch, SyncServiceFails,
       FinishSwitch, MainStep, appVars, pastVars
  <1>9. ASSUME NEW a \in Accounts, Install(a) \/ Restart(a)
        PROVE  ScheduleInv'
    <2>1. CASE Install(a)
      BY <1>0, <2>1, ScheduleStutter DEF Install, MainStep, appVars, pastVars
    <2> QED
      BY <1>9, <2>1, StepRestart
  <1>10. CASE UiStarting \/ UiRestores
    BY <1>10, StepUiDrops DEF UiStarting, UiRestores
  <1>11. CASE UiSwitchEnds
    BY <1>0, <1>11, ScheduleStutter DEF UiSwitchEnds, pastVars
  <1>12. CASE TimePasses
    BY <1>12, StepTimePasses
  <1>13. CASE UNCHANGED discoveryVars
    BY <1>0, <1>13, ScheduleStutter DEF discoveryVars, worldVars, appVars, pastVars
  <1> QED
    BY <1>1, <1>2, <1>3, <1>4, <1>5, <1>6, <1>7, <1>8, <1>9, <1>10, <1>11, <1>12, <1>13
       DEF DiscoveryNext

LEMMA ScheduleInvariant == DiscoverySpec => []ScheduleInv
  <1>1. ScheduleInv /\ [DiscoveryNext]_discoveryVars => ScheduleInv'
    BY StepSchedule
  <1> QED
    BY <1>1, InitSchedule, PTL DEF DiscoverySpec

\* A refresh that is asked for while a request is in flight is never swallowed
\* by that request's answer (ApprovalDiscoverySchedule::refresh_room and
\* accept_result), whatever leaves, returns or is switched in between.
THEOREM RefreshAlwaysPrompt == DiscoverySpec => []RefreshIsPrompt
  <1>1. ScheduleInv => RefreshIsPrompt
    BY DEF ScheduleInv, Prompt, RefreshIsPrompt
  <1> QED
    BY <1>1, ScheduleInvariant, PTL

\* What was asked before a room was dropped, or longer ago than a request may
\* live, is never applied (accept_result behind sync_approval_membership).
THEOREM StaleIsNeverApplied == DiscoverySpec => []StaleNeverApplied
  <1>1. ASSUME ScheduleInv PROVE StaleNeverApplied
    <2> SUFFICES ASSUME NEW t \in tasks, Acceptable(SyncedSchedule, t)
                 PROVE  ~t.void /\ <<t.account, t.room>> \notin Left /\ t.left > 0
      BY DEF StaleNeverApplied
    <2> DEFINE u == SyncedSchedule
    <2>1. Follows(schedule, u, Left) /\ Accounted(schedule, tasks) /\ Schedule(schedule)
      BY <1>1, SyncedFollows DEF ScheduleInv, AppInv
    <2>2. t \in Tasks
      BY <2>1 DEF Accounted
    <2>3. /\ t.account = u.account /\ t.generation = u.generation
          /\ t.room \in DOMAIN u.rooms /\ u.rooms[t.room].nonce = t.nonce
          /\ u.rooms[t.room].left > 0
      BY DEF Acceptable
    <2> HIDE DEF u
    <2>4. u.rooms[t.room] # NewRoom
      BY <2>2, <2>3, NewRoomFacts, WaitsAreNat DEF Tasks
    <2>5. /\ u.account = schedule.account /\ u.generation = schedule.generation
          /\ t.room \in DOMAIN schedule.rooms /\ u.rooms[t.room] = schedule.rooms[t.room]
          /\ <<u.account, t.room>> \notin Left
      BY <2>1, <2>3, <2>4 DEF Follows
    <2>6. Awaits(schedule, t) /\ schedule.rooms[t.room].left > 0
      BY <2>3, <2>5 DEF Awaits
    <2>7. ~t.void /\ t.left >= schedule.rooms[t.room].left
      BY <2>1, <2>6 DEF Accounted
    <2>8. schedule.rooms[t.room].left \in Nat /\ t.left \in Nat
      BY <2>1, <2>2, <2>5 DEF Schedule, RoomStates, Tasks
    <2> QED
      BY <2>3, <2>5, <2>6, <2>7, <2>8
  <1> QED
    BY <1>1, ScheduleInvariant, PTL

-----------------------------------------------------------------------------
(* What an answer confirms.                                                *)

\* From x to z, no place but p gets a confirmation or another marker.
Spares(x, z, p) ==
    \A v \in z.validated :
        v[1] # p => v \in x.validated /\ z.markers[v[1]] = x.markers[v[1]]

LEMMA SparesTwice ==
    ASSUME NEW x, NEW y, NEW z, NEW p, Spares(x, y, p), Spares(y, z, p)
    PROVE  Spares(x, z, p)
  BY DEF Spares

\* observe_v2 and mark_room_unavailable leave nothing confirmed at their room.
LEMMA ObservedSpares ==
    ASSUME NEW x, Good(x), NEW p \in Places, NEW y,
           y = Observed(x, p) \/ y = Unavailable(x, p)
    PROVE  Good(y) /\ Spares(x, y, p) /\ \A v \in y.validated : v[1] # p
  <1>1. CASE y = Unavailable(x, p)
    BY <1>1, UnavailableGood DEF Spares
  <1>2. CASE y = Observed(x, p)
    <2> DEFINE u == Unavailable(x, p)
    <2>1. /\ u.markers = x.markers
          /\ \A v \in u.validated : v \in x.validated /\ v[1] # p
      BY UnavailableGood
    <2>2. Good(y) /\ y.markers = x.markers /\ \A v \in y.validated : v[1] # p
      BY <1>2, ObservedGood
    <2>3. y = u \/ y = [u EXCEPT !.floors = Put(u.floors, p, 2)]
      BY <1>2 DEF Observed
    <2>4. y.validated = u.validated
      <3>1. u = [markers |-> u.markers, floors |-> u.floors, validated |-> u.validated]
        BY UnavailableGood DEF Good, Index
      <3> HIDE DEF u
      <3> QED
        BY <2>3, <3>1
    <2> QED
      BY <2>1, <2>2, <2>4 DEF Spares
  <1> QED
    BY <1>1, <1>2

\* ingest_marker confirms, at its own room only, what it accepts.
LEMMA IngestedSpares ==
    ASSUME NEW x, Good(x), NEW p \in Places, NEW e \in MarkerEvents, NEW t \in 0..MaxTime,
           NEW z, z = Ingested(x, p, e, t)
    PROVE  /\ Good(z) /\ Spares(x, z, p)
           /\ Accepts(x, p, e) =>
                 \A v \in z.validated :
                    v[1] = p => z.markers[p].content = e.content /\ z.markers[p].validatedAt = t
  <1> DEFINE y == IF e.protocol = 2 THEN Observed(x, p) ELSE x
             known == p \in DOMAIN x.markers
             refused == ~Barred(x, p, e) /\ ~Accepts(x, p, e) /\ e.wellFormed /\ known
  <1>g. Good(z)
    BY IngestedGood
  <1>y. Good(y) /\ Spares(x, y, p) /\ y.markers = x.markers
    <2>1. Spares(x, x, p)
      BY DEF Spares
    <2> QED
      BY <2>1, ObservedSpares, ObservedGood
  <1>s. y = [markers |-> y.markers, floors |-> y.floors, validated |-> y.validated]
    BY <1>y DEF Good, Index
  <1>1. CASE Barred(x, p, e)
    <2>1. ~Accepts(x, p, e)
      BY <1>1 DEF Accepts
    <2>2. z = Unavailable(x, p)
      BY <1>1, <2>1, Zenon DEF Ingested
    <2> QED
      BY <1>g, <2>1, <2>2, ObservedSpares
  <1>2. CASE ~Barred(x, p, e)
    <2>1. CASE Accepts(x, p, e) /\ known
      <3> DEFINE m == x.markers[p]
      <3>1. z = RenewedMarker(y, p, e, t)
        BY <1>2, <2>1, Zenon DEF Ingested
      <3>2. m \in Marker /\ ~Differs(m, e)
        BY <2>1 DEF Accepts, Good, Index
      <3>3. CASE e.generation = m.generation
        <4> DEFINE n == [m EXCEPT !.validatedAt = t]
        <4>1. n.content = e.content /\ n.validatedAt = t
          BY <3>2, <3>3 DEF Marker, Differs
        <4>2. z = [y EXCEPT !.markers[p].validatedAt = t,
                            !.validated = y.validated \cup {<<p, e.generation>>}]
          BY <1>y, <3>1, <3>3 DEF RenewedMarker
        <4>3. z = [markers |-> [y.markers EXCEPT ![p] = [y.markers[p] EXCEPT !.validatedAt = t]],
                   floors |-> y.floors,
                   validated |-> y.validated \cup {<<p, e.generation>>}]
          BY <1>s, <4>2, Zenon
        <4>4. /\ z.markers = [x.markers EXCEPT ![p] = n]
              /\ z.validated = y.validated \cup {<<p, e.generation>>}
          BY <1>y, <4>3
        <4> HIDE DEF n, m, y
        <4>5. Spares(x, z, p)
          BY <1>y, <2>1, <4>4 DEF Spares
        <4>6. z.markers[p] = n
          BY <2>1, <4>4
        <4> QED
          BY <1>g, <4>1, <4>5, <4>6
      <3>4. CASE e.generation # m.generation
        <4> DEFINE n == NewMarker(e, t)
                   u == Unavailable(y, p)
        <4>1. n.content = e.content /\ n.validatedAt = t
          BY DEF NewMarker
        <4>2. Good(u) /\ Spares(y, u, p) /\ u.markers = y.markers
          BY <1>y, ObservedSpares, UnavailableGood
        <4>3. u = [markers |-> u.markers, floors |-> u.floors, validated |-> u.validated]
          BY <4>2 DEF Good, Index
        <4>4. z = [u EXCEPT !.markers[p] = n, !.validated = u.validated \cup {<<p, e.generation>>}]
          BY <1>y, <3>1, <3>4 DEF RenewedMarker
        <4> HIDE DEF u, n, y
        <4>5. z = [markers |-> [u.markers EXCEPT ![p] = n], floors |-> u.floors,
                   validated |-> u.validated \cup {<<p, e.generation>>}]
          BY <4>3, <4>4, Zenon
        <4>6. /\ z.markers = [x.markers EXCEPT ![p] = n]
              /\ z.validated = u.validated \cup {<<p, e.generation>>}
          BY <1>y, <4>2, <4>5
        <4>7. Spares(x, z, p)
          BY <1>y, <2>1, <4>2, <4>6 DEF Spares
        <4>8. z.markers[p] = n
          BY <2>1, <4>6
        <4> QED
          BY <1>g, <4>1, <4>7, <4>8
      <3> QED
        BY <3>3, <3>4
    <2>2. CASE Accepts(x, p, e) /\ ~known
      <3> DEFINE n == NewMarker(e, t)
      <3>1. z = AddedMarker(y, p, e, t)
        BY <1>2, <2>2, Zenon DEF Ingested
      <3>2. /\ z.markers = Put(x.markers, p, n)
            /\ z.validated = y.validated \cup {<<p, e.generation>>}
        BY <1>y, <3>1 DEF AddedMarker
      <3>3. n.content = e.content /\ n.validatedAt = t
        BY DEF NewMarker
      <3> HIDE DEF n, y
      <3>4. z.markers[p] = n /\ \A q \in DOMAIN x.markers : q # p => z.markers[q] = x.markers[q]
        BY <3>2 DEF Put
      <3>5. Spares(x, z, p)
        <4>1. \A v \in x.validated : v[1] \in DOMAIN x.markers
          BY DEF Good, Confirmed
        <4> QED
          BY <1>y, <3>2, <3>4, <4>1 DEF Spares
      <3> QED
        BY <1>g, <3>3, <3>4, <3>5
    <2>3. CASE refused
      <3> DEFINE m == y.markers[p]
                 n == [m EXCEPT !.conflicted = m.conflicted \/ ~Lower(m, e)]
      <3>1. z = RefusedMarker(y, p, e)
        BY <1>2, <2>3, Zenon DEF Ingested
      <3>2. z = [y EXCEPT !.validated = y.validated \ {<<p, m.generation>>},
                          !.markers[p].conflicted = m.conflicted \/ ~Lower(m, e)]
        BY <3>1 DEF RefusedMarker
      <3>3. z = [markers |-> [y.markers EXCEPT ![p] = n], floors |-> y.floors,
                 validated |-> y.validated \ {<<p, m.generation>>}]
        BY <1>s, <3>2, Zenon
      <3> HIDE DEF n, y
      <3>4. Spares(x, z, p)
        BY <1>y, <2>3, <3>3 DEF Spares
      <3> QED
        BY <1>g, <2>3, <3>4
    <2>4. CASE ~Accepts(x, p, e) /\ ~refused
      <3>1. z = y
        BY <1>2, <2>4, Zenon DEF Ingested
      <3> QED
        BY <1>g, <1>y, <2>4, <3>1
    <2> QED
      BY <2>1, <2>2, <2>3, <2>4
  <1> QED
    BY <1>1, <1>2

\* handle_approval_results, for an accepted answer.
LEMMA AppliedSpares ==
    ASSUME NEW x, Good(x), NEW p \in Places, NEW w \in Answers \cup {Failure},
           NEW t \in 0..MaxTime, NEW z, z = Applied(x, p, w, t)
    PROVE  /\ Good(z) /\ Spares(x, z, p)
           /\ \A v \in z.validated :
                 v[1] = p => \E e \in w.marker :
                                /\ e.wellFormed /\ z.markers[p].content = e.content
                                /\ z.markers[p].validatedAt = t
  <1> DEFINE y == IF w.observedV2 THEN Observed(x, p) ELSE x
             e == CHOOSE m \in w.marker : TRUE
             u == Ingested(y, p, e, t)
  <1>1. Good(y) /\ Spares(x, y, p)
    <2>1. Spares(x, x, p)
      BY DEF Spares
    <2>2. y = x \/ y = Observed(x, p)
      OBVIOUS
    <2> QED
      BY <2>1, <2>2, ObservedSpares
  <1>2. w.marker = {} \/ (w.marker = {e} /\ e \in MarkerEvents)
    <2>1. w.marker = {} \/ \E m \in MarkerEvents : w.marker = {m}
      BY AnswerType
    <2>2. ASSUME NEW m \in MarkerEvents, w.marker = {m} PROVE e = m
      BY <2>2
    <2> QED
      BY <2>1, <2>2
  <1>3. CASE \E m \in w.marker : Accepts(y, p, m)
    <2>1. z = u
      BY <1>3 DEF Applied
    <2>2. e \in w.marker /\ e \in MarkerEvents /\ Accepts(y, p, e)
      BY <1>2, <1>3
    <2>3. e.wellFormed
      BY <2>2 DEF Accepts
    <2> HIDE DEF e, u, y
    <2>4. /\ Good(u) /\ Spares(y, u, p)
          /\ \A v \in u.validated :
                v[1] = p => u.markers[p].content = e.content /\ u.markers[p].validatedAt = t
      BY <1>1, <2>2, IngestedSpares DEF u
    <2>5. Spares(x, u, p)
      BY <1>1, <2>4, SparesTwice
    <2> QED
      BY <2>1, <2>2, <2>3, <2>4, <2>5
  <1>4. CASE ~\E m \in w.marker : Accepts(y, p, m)
    <2> DEFINE q == IF w.marker = {} THEN y ELSE u
    <2>1. z = Unavailable(q, p)
      BY <1>4 DEF Applied
    <2>2. Good(q) /\ Spares(x, q, p)
      <3>1. CASE w.marker = {}
        BY <1>1, <3>1
      <3>2. CASE w.marker # {}
        <4>1. e \in MarkerEvents /\ q = u
          BY <1>2, <3>2
        <4> HIDE DEF e, y
        <4>2. Good(u) /\ Spares(y, u, p)
          BY <1>1, <4>1, IngestedSpares
        <4> QED
          BY <1>1, <4>1, <4>2, SparesTwice
      <3> QED
        BY <3>1, <3>2
    <2> HIDE DEF q
    <2>3. Good(z) /\ Spares(q, z, p) /\ \A v \in z.validated : v[1] # p
      BY <2>1, <2>2, ObservedSpares
    <2>4. Spares(x, z, p)
      BY <2>2, <2>3, SparesTwice
    <2> QED
      BY <2>3, <2>4
  <1> QED
    BY <1>3, <1>4

\* Everything index x confirms was said, well-formed, by the last answer for
\* its room, when it came.
Backed(x, answers) ==
    \A v \in x.validated :
        LET p == v[1]
        IN  /\ p \in DOMAIN answers /\ x.markers[p].validatedAt = answers[p].at
            /\ \E e \in answers[p].marker : e.wellFormed /\ e.content = x.markers[p].content

LEMMA BackedSpares ==
    ASSUME NEW x, NEW answers, Backed(x, answers), NEW p, NEW z, Spares(x, z, p),
           NEW news, \A q \in DOMAIN answers :
                        q # p => q \in DOMAIN news /\ news[q] = answers[q],
           \A v \in z.validated :
              v[1] = p => /\ p \in DOMAIN news /\ z.markers[p].validatedAt = news[p].at
                          /\ \E e \in news[p].marker :
                                e.wellFormed /\ e.content = z.markers[p].content
    PROVE  Backed(z, news)
  <1> SUFFICES ASSUME NEW v \in z.validated
               PROVE  /\ v[1] \in DOMAIN news /\ z.markers[v[1]].validatedAt = news[v[1]].at
                      /\ \E e \in news[v[1]].marker :
                            e.wellFormed /\ e.content = z.markers[v[1]].content
    BY DEF Backed
  <1>1. CASE v[1] = p
    BY <1>1
  <1>2. CASE v[1] # p
    BY <1>2 DEF Spares, Backed
  <1> QED
    BY <1>1, <1>2

LEMMA BackedDropped ==
    ASSUME NEW x, Good(x), NEW answers, Backed(x, answers), NEW places
    PROVE  Backed(Dropped(x, places), answers)
  <1> DEFINE y == Dropped(x, places)
  <1>1. \A v \in y.validated :
            v \in x.validated /\ y.markers[v[1]] = x.markers[v[1]]
    BY DEF Dropped, Restrict, Good, Confirmed
  <1> HIDE DEF y
  <1> QED
    BY <1>1 DEF Backed, y

\* What is saved confirms nothing.
Saved(x) == Good(x) /\ x.validated = {}

LEMMA LoadedSaved == ASSUME NEW x, Good(x) PROVE Saved(Loaded(x))
  BY LoadedGood DEF Saved, Loaded

LEMMA EmptySaved == Saved(EmptyIndex)
  BY DEF Saved, EmptyIndex, Good, Index, Confirmed, Floored

LEMMA SavedIsBacked == ASSUME NEW x, Saved(x), NEW answers PROVE Good(x) /\ Backed(x, answers)
  BY DEF Saved, Backed

IndexInv ==
    /\ Good(index) /\ now \in 0..MaxTime /\ Backed(index, lastAnswer)
    /\ DOMAIN disk = Accounts /\ \A a \in Accounts : Saved(disk[a])
    /\ \A x \in loading : Saved(x)
    /\ mainLoop = "installed" => client \in Accounts

LEMMA InitIndex == DiscoveryInit => IndexInv
  <1> SUFFICES ASSUME DiscoveryInit PROVE IndexInv
    OBVIOUS
  <1>1. /\ index = EmptyIndex /\ now \in 0..MaxTime /\ loading = {}
        /\ disk = [a \in Accounts |-> EmptyIndex] /\ mainLoop = "serving"
    BY DEF DiscoveryInit, MarkersInit
  <1>2. Good(index) /\ Backed(index, lastAnswer)
    BY <1>1, EmptySaved, SavedIsBacked
  <1>3. DOMAIN disk = Accounts /\ \A a \in Accounts : Saved(disk[a])
    BY <1>1, EmptySaved
  <1> QED
    BY <1>1, <1>2, <1>3 DEF IndexInv

\* A step that leaves the index, the clock and the last answers alone.
LEMMA IndexStutter ==
    ASSUME IndexInv, UNCHANGED <<index, now, lastAnswer>>,
           \/ UNCHANGED disk
           \/ \E a \in Accounts : disk' = [disk EXCEPT ![a] = Loaded(index)],
           UNCHANGED loading \/ (client \in Accounts /\ loading' \in {{}, {disk[client]}}),
           mainLoop' = "installed" => client' \in Accounts
    PROVE  IndexInv'
  <1>1. DOMAIN disk' = Accounts /\ \A a \in Accounts : Saved(disk'[a])
    <2>1. Saved(Loaded(index))
      BY LoadedSaved DEF IndexInv
    <2> QED
      BY <2>1 DEF IndexInv
  <1>2. \A x \in loading' : Saved(x)
    BY DEF IndexInv
  <1>3. Good(index') /\ now' \in 0..MaxTime /\ Backed(index', lastAnswer')
    BY DEF IndexInv
  <1> QED
    BY <1>1, <1>2, <1>3 DEF IndexInv

\* A step that drops places from the index, or takes a saved one for it.
LEMMA IndexDrops ==
    ASSUME IndexInv, UNCHANGED <<now, lastAnswer, disk, mainLoop, client>>,
           \/ \E places : index' = Dropped(index, places)
           \/ index' \in loading,
           UNCHANGED loading \/ loading' = {}
    PROVE  IndexInv'
  <1>1. Good(index') /\ Backed(index', lastAnswer)
    <2>1. CASE \E places : index' = Dropped(index, places)
      <3>1. PICK places : index' = Dropped(index, places)
        BY <2>1
      <3> QED
        BY <3>1, DroppedGood, BackedDropped DEF IndexInv
    <2>2. CASE index' \in loading
      BY <2>2, SavedIsBacked DEF IndexInv
    <2> QED
      BY <2>1, <2>2
  <1> QED
    BY <1>1 DEF IndexInv

LEMMA IndexHandled ==
    ASSUME ScheduleInv, IndexInv, NEW t \in tasks, HandleDiscoveryResult(t)
    PROVE  IndexInv'
  <1> DEFINE p == <<t.account, t.room>>
             w == t.answer
             x == Dropped(index, Left)
             z == Applied(x, p, w, now)
             accepted == CurrentAccount # None /\ Acceptable(SyncedSchedule, t)
  <1>1. /\ t.account \in Accounts /\ p \in Places /\ w \in Answers \cup {Failure}
        /\ now \in 0..MaxTime
    BY DEF ScheduleInv, Accounted, Tasks, Places, IndexInv
  <1>2. UNCHANGED <<now, client, mainLoop, loading>>
    BY DEF HandleDiscoveryResult
  <1>3. CASE accepted
    <2>1. /\ index' = z
          /\ disk' \in {disk, [disk EXCEPT ![t.account] = Loaded(index')]}
          /\ lastAnswer' = IF w.marker = {}
                            THEN Restrict(lastAnswer, DOMAIN lastAnswer \ {p})
                            ELSE Put(lastAnswer, p, [marker |-> w.marker, at |-> now])
      BY <1>3 DEF HandleDiscoveryResult
    <2>2. Good(x) /\ Backed(x, lastAnswer)
      BY DroppedGood, BackedDropped DEF IndexInv
    <2> DEFINE last == [marker |-> w.marker, at |-> now]
    <2>3. \A q \in DOMAIN lastAnswer :
              q # p => q \in DOMAIN lastAnswer' /\ lastAnswer'[q] = lastAnswer[q]
      BY <2>1 DEF Restrict, Put
    <2>4. w.marker # {} => p \in DOMAIN lastAnswer' /\ lastAnswer'[p] = last
      BY <2>1 DEF Put
    <2>5. last.marker = w.marker /\ last.at = now
      OBVIOUS
    <2> HIDE DEF x, last, p, w
    <2>6. /\ Good(z) /\ Spares(x, z, p)
          /\ \A v \in z.validated :
                v[1] = p => \E e \in w.marker :
                               /\ e.wellFormed /\ z.markers[p].content = e.content
                               /\ z.markers[p].validatedAt = now
      BY <1>1, <2>2, AppliedSpares
    <2> HIDE DEF z
    <2>7. Backed(z, lastAnswer')
      <3>1. ASSUME NEW v \in z.validated, v[1] = p
            PROVE  /\ p \in DOMAIN lastAnswer' /\ z.markers[p].validatedAt = lastAnswer'[p].at
                   /\ \E e \in lastAnswer'[p].marker :
                         e.wellFormed /\ e.content = z.markers[p].content
        <4>1. PICK e \in w.marker : /\ e.wellFormed /\ z.markers[p].content = e.content
                                    /\ z.markers[p].validatedAt = now
          BY <2>6, <3>1
        <4>2. p \in DOMAIN lastAnswer' /\ lastAnswer'[p].marker = w.marker
              /\ lastAnswer'[p].at = now
          BY <2>4, <2>5, <4>1
        <4> QED
          BY <4>1, <4>2
      <3> DEFINE news == lastAnswer'
      <3> HIDE DEF news
      <3>2. /\ \A q \in DOMAIN lastAnswer :
                  q # p => q \in DOMAIN news /\ news[q] = lastAnswer[q]
            /\ \A v \in z.validated :
                  v[1] = p => /\ p \in DOMAIN news /\ z.markers[p].validatedAt = news[p].at
                              /\ \E e \in news[p].marker :
                                    e.wellFormed /\ e.content = z.markers[p].content
        BY <2>3, <3>1 DEF news
      <3>3. Backed(z, news)
        BY <2>2, <2>6, <3>2, BackedSpares
      <3> QED
        BY <3>3 DEF news
    <2>8. Saved(Loaded(z))
      BY <2>6, LoadedSaved
    <2>9. DOMAIN disk' = Accounts /\ \A a \in Accounts : Saved(disk'[a])
      BY <1>1, <2>1, <2>8 DEF IndexInv
    <2> QED
      BY <1>2, <2>1, <2>6, <2>7, <2>9 DEF IndexInv
  <1>4. CASE ~accepted
    <2>1. index' = x /\ UNCHANGED <<disk, lastAnswer>>
      BY <1>4 DEF HandleDiscoveryResult
    <2> QED
      BY <1>2, <2>1, IndexDrops
  <1> QED
    BY <1>3, <1>4

LEMMA StepIndex ==
    ASSUME ScheduleInv, IndexInv, [DiscoveryNext]_discoveryVars
    PROVE  IndexInv'
  <1>0. /\ client \in Accounts \cup {None}
        /\ mainLoop = "installed" => client \in Accounts
    BY DEF ScheduleInv, AppInv, IndexInv
  <1>1. CASE SyncMembership
    BY <1>1, IndexDrops DEF SyncMembership, SyncApp, worldVars
  <1>2. CASE RefreshDiscovery
    BY <1>2, IndexDrops DEF RefreshDiscovery, SyncApp, worldVars
  <1>3. CASE TaskSteps
    <2>1. PICK t \in tasks : \/ StartFetch(t) \/ FailFetch(t) \/ HandleDiscoveryResult(t)
                             \/ \E w \in Answers : EndFetch(t, w)
      BY <1>3 DEF TaskSteps
    <2>2. CASE HandleDiscoveryResult(t)
      BY <2>2, IndexHandled
    <2>3. CASE ~HandleDiscoveryResult(t)
      <3>1. UNCHANGED <<worldVars, appVars, pastVars>>
        BY <2>1, <2>3, StepWorker
      <3> QED
        BY <1>0, <3>1, IndexStutter DEF worldVars, appVars, pastVars
    <2> QED
      BY <2>2, <2>3
  <1>4. ASSUME NEW r \in Rooms, RefreshRoom(r) \/ ListAdds(r) \/ PurgeRoom(r)
        PROVE  IndexInv'
    <2>1. CASE RefreshRoom(r)
      BY <1>0, <2>1, IndexStutter DEF RefreshRoom, worldVars
    <2>2. CASE ListAdds(r)
      BY <1>0, <2>2, IndexStutter DEF ListAdds, WorldStep, appVars, pastVars
    <2>3. CASE PurgeRoom(r)
      BY <2>3, IndexDrops DEF PurgeRoom
    <2> QED
      BY <1>4, <2>1, <2>2, <2>3
  <1>5. CASE SaveAppState
    BY <1>0, <1>5, IndexStutter DEF SaveAppState, appVars, pastVars
  <1>6. ASSUME NEW p \in Places, LeaveRoom(p) \/ RejoinRoom(p)
        PROVE  IndexInv'
    BY <1>0, <1>6, IndexStutter DEF LeaveRoom, RejoinRoom, WorldStep, appVars, pastVars
  <1>7. CASE ListResets
    BY <1>0, <1>7, IndexStutter DEF ListResets, WorldStep, appVars, pastVars
  <1>8. CASE SwitchAccount \/ TearDown \/ FailSwitch \/ SyncServiceFails
    BY <1>0, <1>8, IndexStutter DEF SwitchAccount, TearDown, FailSwitch, SyncServiceFails,
       MainStep, appVars, pastVars
  <1>9. CASE FinishSwitch
    BY <1>0, <1>9, IndexStutter DEF FinishSwitch, MainStep, appVars, pastVars
  <1>10. ASSUME NEW a \in Accounts, Install(a)
         PROVE  IndexInv'
    BY <1>0, <1>10, IndexStutter DEF Install, MainStep, appVars, pastVars
  <1>11. ASSUME NEW a \in Accounts, Restart(a)
         PROVE  IndexInv'
    <2>1. /\ index' = EmptyIndex /\ lastAnswer' = << >> /\ mainLoop' = "serving"
          /\ loading' \in {{}, {disk[a]}} /\ now' = now /\ disk' = disk
      BY <1>11 DEF Restart
    <2>2. Good(index') /\ Backed(index', lastAnswer')
      BY <2>1, EmptySaved, SavedIsBacked
    <2> QED
      BY <2>1, <2>2 DEF IndexInv
  <1>12. CASE UiStarting
    BY <1>12, IndexDrops DEF UiStarting, UiDrops
  <1>13. CASE UiRestores
    BY <1>13, IndexDrops DEF UiRestores, UiDrops
  <1>14. CASE UiSwitchEnds
    BY <1>0, <1>14, IndexStutter DEF UiSwitchEnds, pastVars
  <1>15. CASE TimePasses
    <2>1. now' \in 0..MaxTime
      BY <1>15, MarkerBounds DEF TimePasses, IndexInv
    <2>2. UNCHANGED <<index, lastAnswer, disk, loading, mainLoop, client>>
      BY <1>15 DEF TimePasses, worldVars, pastVars
    <2> QED
      BY <2>1, <2>2 DEF IndexInv
  <1>16. CASE UNCHANGED discoveryVars
    BY <1>0, <1>16, IndexStutter DEF discoveryVars, worldVars, appVars, pastVars
  <1> QED
    BY <1>1, <1>2, <1>3, <1>4, <1>5, <1>6, <1>7, <1>8, <1>9, <1>10, <1>11, <1>12, <1>13,
       <1>14, <1>15, <1>16 DEF DiscoveryNext

\* The schedule's requests and the index's evidence stay accounted for under every
\* order of timers, answers, leaves, switches and restarts.
THEOREM DiscoveryInvariant == DiscoverySpec => [](ScheduleInv /\ IndexInv)
  <1>1. ScheduleInv /\ IndexInv /\ [DiscoveryNext]_discoveryVars => (ScheduleInv /\ IndexInv)'
    BY StepSchedule, StepIndex
  <1> QED
    BY <1>1, InitSchedule, InitIndex, PTL DEF DiscoverySpec

\* Whatever `pending approvals' would open was said, well-formed, by the last
\* accepted answer for its room since the program started, no longer ago than
\* the freshness bound (ApprovalMarkerIndex::resolve behind
\* handle_approval_results and the restored app state).
THEOREM RoutesAlwaysEvidenced == DiscoverySpec => []RoutesAreEvidenced
  <1>1. ASSUME IndexInv PROVE RoutesAreEvidenced
    <2> SUFFICES ASSUME NEW route \in Routes, NEW r \in Rooms, Opens(route, r)
                 PROVE  LET p == <<approvalAccount, r>>
                        IN  /\ p \in DOMAIN lastAnswer
                            /\ now <= lastAnswer[p].at + FRESHNESS
                            /\ \E e \in lastAnswer[p].marker :
                                  e.wellFormed /\ route \in e.content.active
      BY DEF RoutesAreEvidenced
    <2> DEFINE p == <<approvalAccount, r>>
               v == <<p, index.markers[p].generation>>
    <2>1. Candidates(index, approvalAccount, route) = {p} /\ ~Stale(index, p, now)
      BY DEF Opens, RoutesTo
    <2>2. p \in DOMAIN index.markers /\ route \in index.markers[p].content.active
      BY <2>1 DEF Candidates
    <2>3. v \in index.validated /\ ~(now > index.markers[p].validatedAt + FRESHNESS)
      BY <2>1 DEF Stale
    <2>4. v[1] = p
      OBVIOUS
    <2>5. /\ p \in DOMAIN lastAnswer /\ index.markers[p].validatedAt = lastAnswer[p].at
          /\ \E e \in lastAnswer[p].marker :
                e.wellFormed /\ e.content = index.markers[p].content
      BY <1>1, <2>3, <2>4 DEF IndexInv, Backed
    <2>6. now \in Nat /\ index.markers[p].validatedAt \in Nat /\ FRESHNESS \in Nat
      BY <1>1, <2>2, MarkerBounds DEF IndexInv, Good, Index, Marker
    <2> QED
      BY <2>2, <2>3, <2>5, <2>6
  <1> QED
    BY <1>1, DiscoveryInvariant, PTL

\* Whatever is left, switched, restored or restarted, what is confirmed is the
\* marker that is kept, above its room's floor.
THEOREM DiscoveryConfirmsCurrent == DiscoverySpec => []ConfirmedIsCurrent
  <1>1. IndexInv => ConfirmedIsCurrent
    BY DEF IndexInv, Good, Confirmed, ConfirmedIsCurrent
  <1> QED
    BY <1>1, DiscoveryInvariant, PTL

-----------------------------------------------------------------------------
(* How many requests there are.                                            *)

LEMMA BeforeIsOrder ==
    ASSUME NEW s, NEW x \in Nat, NEW y \in Nat, NEW z \in Nat
    PROVE  /\ ~Before(s, x, x)
           /\ x # y => Before(s, x, y) \/ Before(s, y, x)
           /\ Before(s, x, y) /\ Before(s, y, z) => Before(s, x, z)
  <1>1. \A a, b \in {x, y, z} :
            Before(s, a, b) <=> \/ (Wrapped(s, a) <=> Wrapped(s, b)) /\ a < b
                                \/ ~Wrapped(s, a) /\ Wrapped(s, b)
    <2> TAKE a \in {x, y, z}, b \in {x, y, z}
    <2> DEFINE wa == s.cursor # None /\ a <= s.cursor
               wb == s.cursor # None /\ b <= s.cursor
    <2>1. Before(s, a, b) <=> IF wa = wb THEN a < b ELSE wb
      BY DEF Before, Wrapped
    <2> QED
      BY <2>1 DEF Wrapped
  <1> QED
    BY <1>1

\* Of a finite set, fewer than k are the first k.
LEMMA FirstFew ==
    ASSUME NEW s, NEW due, IsFiniteSet(due), due \subseteq Nat, NEW k \in Nat,
           NEW chosen, chosen = {r \in due : Cardinality({q \in due : Before(s, q, r)}) < k}
    PROVE  IsFiniteSet(chosen) /\ Cardinality(chosen) <= k
  <1> DEFINE ahead(r) == {q \in due : Before(s, q, r)}
             rank == [r \in chosen |-> Cardinality(ahead(r))]
  <1>1. \A r \in due : IsFiniteSet(ahead(r)) /\ Cardinality(ahead(r)) \in Nat
    BY FS_Subset, FS_CardinalityType
  <1>2. ASSUME NEW q \in due, NEW r \in due, Before(s, q, r)
        PROVE  Cardinality(ahead(q)) < Cardinality(ahead(r))
    <2>1. q \notin ahead(q)
      BY BeforeIsOrder
    <2>2. ahead(q) \cup {q} \subseteq ahead(r)
      BY <1>2, BeforeIsOrder
    <2> DEFINE more == ahead(q) \cup {q}
    <2>3. IsFiniteSet(more) /\ Cardinality(more) = Cardinality(ahead(q)) + 1
      BY <1>1, <2>1, FS_AddElement
    <2>4. Cardinality(more) <= Cardinality(ahead(r))
      BY <1>1, <2>2, FS_Subset
    <2> QED
      BY <1>1, <2>3, <2>4
  <1> HIDE DEF ahead
  <1>3. \A r \in chosen : r \in due /\ Cardinality(ahead(r)) < k
    BY DEF ahead
  <1>4. rank \in [chosen -> 0..(k - 1)]
    <2>1. \A r \in chosen : Cardinality(ahead(r)) \in 0..(k - 1)
      BY <1>1, <1>3
    <2> QED
      BY <2>1
  <1>5. ASSUME NEW q \in chosen, NEW r \in chosen, rank[q] = rank[r]
        PROVE  q = r
    <2>1. q \in Nat /\ r \in Nat /\ q \in due /\ r \in due
      BY <1>3
    <2>2. Cardinality(ahead(q)) = Cardinality(ahead(r))
      BY <1>5
    <2>3. ~Before(s, q, r) /\ ~Before(s, r, q)
      BY <1>1, <1>2, <2>1, <2>2
    <2> QED
      BY <2>1, <2>3, BeforeIsOrder
  <1> HIDE DEF rank
  <1>6. rank \in Injection(chosen, 0..(k - 1))
    BY <1>4, <1>5 DEF Injection, IsInjective
  <1>7. IsFiniteSet(0..(k - 1)) /\ Cardinality(0..(k - 1)) = k
    BY FS_Interval
  <1> QED
    BY <1>6, <1>7, FS_Injection

\* select_due spares the rooms it waits for, and asks no more rooms than keep
\* those in flight to one batch.
LEMMA AskedSpares ==
    ASSUME NEW s, Schedule(s), NEW n \in Nonces, NEW r \in InFlight(s), s.rooms[r].left > 0
    PROVE  r \notin Selected(s) /\ Asked(s, n).rooms[r] = s.rooms[r]
  <1> DEFINE e == Expired(s)
             rooms == [q \in DOMAIN e.rooms |-> IF q \in Selected(s)
                         THEN [e.rooms[q] EXCEPT !.nonce = n, !.left = LIFE] ELSE e.rooms[q]]
             cursor == IF Selected(s) = {} THEN e.cursor
                       ELSE CHOOSE x \in Selected(s) :
                               \A q \in Selected(s) : q = x \/ Before(e, q, x)
  <1>1. r \in DOMAIN s.rooms /\ s.rooms[r].nonce # None
    BY DEF InFlight
  <1>2. Schedule(e) /\ r \in DOMAIN e.rooms /\ e.rooms[r] = s.rooms[r]
    BY <1>1, ExpiredFacts
  <1> HIDE DEF e
  <1>3. r \notin Selected(s)
    BY <1>1, <1>2 DEF Selected, DueRooms, e
  <1>4. Asked(s, n) = s \/ Asked(s, n) = [e EXCEPT !.rooms = rooms, !.cursor = cursor]
    BY DEF Asked, e
  <1>5. rooms[r] = s.rooms[r]
    BY <1>2, <1>3
  <1> HIDE DEF rooms, cursor
  <1>6. [e EXCEPT !.rooms = rooms, !.cursor = cursor].rooms = rooms
    BY <1>2 DEF Schedule, Shaped
  <1> QED
    BY <1>3, <1>4, <1>5, <1>6

LEMMA InFlightRooms ==
    ASSUME NEW s, Schedule(s), IsFiniteSet(Rooms)
    PROVE  /\ IsFiniteSet(InFlight(s)) /\ Cardinality(InFlight(s)) \in Nat
           /\ IsFiniteSet(DueRooms(s)) /\ DueRooms(s) \subseteq Nat
  <1>1. InFlight(s) \in SUBSET Rooms /\ DueRooms(s) \in SUBSET Rooms
    BY DEF InFlight, DueRooms, Schedule
  <1> QED
    BY <1>1, FS_Subset, FS_CardinalityType, DiscoveryBounds

LEMMA AskedIsOneBatch ==
    ASSUME NEW s, Schedule(s), NEW n \in Nonces, IsFiniteSet(Rooms),
           Cardinality(InFlight(s)) <= BATCH
    PROVE  Cardinality(InFlight(Asked(s, n))) <= BATCH
  <1>1. CASE s.unavailable
    BY <1>1 DEF Asked
  <1>2. CASE ~s.unavailable
    <2> DEFINE e == Expired(s)
               chosen == Selected(s)
               u == Asked(s, n)
               i == Cardinality(InFlight(e))
               k == BATCH - i
    <2>1. /\ Schedule(e) /\ DOMAIN e.rooms = DOMAIN s.rooms
          /\ \A r \in DOMAIN s.rooms : e.rooms[r] = s.rooms[r] \/ e.rooms[r].nonce = None
      BY ExpiredFacts
    <2>2. InFlight(e) \subseteq InFlight(s)
      BY <2>1 DEF InFlight
    <2>3. i \in Nat /\ i <= BATCH /\ BATCH \in Nat /\ IsFiniteSet(InFlight(e))
      <3>1. i <= Cardinality(InFlight(s))
        BY <2>2, FS_Subset, InFlightRooms
      <3> QED
        BY <2>1, <3>1, InFlightRooms, DiscoveryBounds
    <2>4. k \in Nat
      BY <2>3
    <2> DEFINE due == DueRooms(e)
    <2>5. IsFiniteSet(due) /\ due \subseteq Nat
      BY <2>1, InFlightRooms
    <2>6. chosen = {r \in due : Cardinality({q \in due : Before(e, q, r)}) < k}
      <3>1. chosen = {r \in due : Cardinality({q \in due : Before(e, q, r)}) + i < BATCH}
        BY <1>2 DEF Selected
      <3>2. \A r \in due : Cardinality({q \in due : Before(e, q, r)}) \in Nat
        BY <2>5, FS_Subset, FS_CardinalityType
      <3> HIDE DEF due, i, chosen
      <3> QED
        BY <2>3, <3>1, <3>2
    <2> HIDE DEF k, due
    <2>7. IsFiniteSet(chosen) /\ Cardinality(chosen) <= k
      BY <2>4, <2>5, <2>6, FirstFew
    <2>8. InFlight(u) \subseteq InFlight(e) \cup chosen
      <3>1. u.rooms = [r \in DOMAIN e.rooms |-> IF r \in chosen
                         THEN [e.rooms[r] EXCEPT !.nonce = n, !.left = LIFE] ELSE e.rooms[r]]
        <4> DEFINE rooms == [r \in DOMAIN e.rooms |-> IF r \in chosen
                         THEN [e.rooms[r] EXCEPT !.nonce = n, !.left = LIFE] ELSE e.rooms[r]]
                   cursor == IF chosen = {} THEN e.cursor
                             ELSE CHOOSE r \in chosen : \A q \in chosen : q = r \/ Before(e, q, r)
        <4>1. u = [e EXCEPT !.rooms = rooms, !.cursor = cursor]
          BY <1>2 DEF Asked
        <4> HIDE DEF rooms, cursor, e
        <4> QED
          BY <2>1, <4>1 DEF Schedule, Shaped, rooms
      <3> HIDE DEF u, e, chosen
      <3> QED
        BY <3>1 DEF InFlight
    <2> HIDE DEF e, chosen, u, i
    <2>9. /\ IsFiniteSet(InFlight(e) \cup chosen)
          /\ Cardinality(InFlight(e) \cup chosen) <= i + Cardinality(chosen)
      <3>1. /\ IsFiniteSet(InFlight(e) \cup chosen)
            /\ Cardinality(InFlight(e) \cup chosen)
                  = i + Cardinality(chosen) - Cardinality(InFlight(e) \cap chosen)
        BY <2>3, <2>7, FS_Union DEF i
      <3>2. Cardinality(InFlight(e) \cap chosen) \in Nat
        BY <2>7, FS_Subset, FS_CardinalityType
      <3>3. Cardinality(chosen) \in Nat
        BY <2>7, FS_CardinalityType
      <3> QED
        BY <2>3, <3>1, <3>2, <3>3
    <2>10. /\ Cardinality(InFlight(u)) <= Cardinality(InFlight(e) \cup chosen)
           /\ IsFiniteSet(InFlight(u))
      BY <2>8, <2>9, FS_Subset
    <2>11. /\ Cardinality(InFlight(u)) \in Nat /\ Cardinality(chosen) \in Nat
           /\ Cardinality(InFlight(e) \cup chosen) \in Nat
      BY <2>7, <2>9, <2>10, FS_CardinalityType
    <2> QED
      BY <2>3, <2>4, <2>7, <2>9, <2>10, <2>11 DEF k, u
  <1> QED
    BY <1>1, <1>2

\* Somebody still works on the request, and its place was not dropped.
Waited(t) == ~t.void /\ t.left > 0 /\ t.stage # "posted"

\* Every such request is one the schedule waits for, no longer than it does; no
\* two requests are the same; and the schedule waits for one batch at most.
Linked(s, ts, rooms) ==
    /\ \A t \in ts : Waited(t) => Awaits(s, t) /\ s.rooms[t.room].left >= t.left
    /\ \A t, u \in ts : SameRequest(t, u) => t = u
    /\ Cardinality(InFlight(s)) <= BATCH
    /\ DOMAIN s.rooms \subseteq rooms

\* The schedule gives up no room of s but those of places.
Loses(s, u, places) ==
    \A r \in DOMAIN s.rooms :
        \/ <<s.account, r>> \in places
        \/ /\ u.account = s.account /\ u.generation = s.generation
           /\ r \in DOMAIN u.rooms /\ u.rooms[r] = s.rooms[r]

\* The account's rooms never exceed what the schedule takes on: beyond, it
\* drops them all while their requests are still under way.
RoomsFit == IsFiniteSet(Rooms) /\ Cardinality(Rooms) <= MAX_ROOMS

LEMMA LinkedFollows ==
    ASSUME RoomsFit, NEW s, Schedule(s), NEW ts \in SUBSET Tasks, NEW rooms,
           Linked(s, ts, rooms), NEW places, NEW u, Follows(s, u, places),
           Loses(s, u, places), NEW more, DOMAIN u.rooms \subseteq more
    PROVE  Linked(u, Voided(ts, places), more)
  <1> DEFINE vs == Voided(ts, places)
  <1>1. \A v \in vs : \E t \in ts :
            /\ v = VoidedTask(t, places) /\ SameRequest(t, v) /\ v.left = t.left
            /\ v.stage = t.stage
            /\ ~v.void <=> ~t.void /\ <<t.account, t.room>> \notin places
    BY VoidedFacts
  <1> HIDE DEF vs
  <1>2. ASSUME NEW v \in vs, Waited(v)
        PROVE  Awaits(u, v) /\ u.rooms[v.room].left >= v.left
    <2>1. PICK t \in ts :
              /\ SameRequest(t, v) /\ v.left = t.left /\ v.stage = t.stage
              /\ ~v.void <=> ~t.void /\ <<t.account, t.room>> \notin places
      BY <1>1
    <2>2. Waited(t) /\ <<t.account, t.room>> \notin places
      BY <1>2, <2>1 DEF Waited
    <2>3. Awaits(s, t) /\ s.rooms[t.room].left >= t.left
      BY <2>2 DEF Linked
    <2>4. /\ u.account = s.account /\ u.generation = s.generation
          /\ t.room \in DOMAIN u.rooms /\ u.rooms[t.room] = s.rooms[t.room]
      BY <2>2, <2>3 DEF Loses, Awaits
    <2> QED
      BY <2>1, <2>3, <2>4 DEF Awaits, SameRequest
  <1>3. ASSUME NEW v1 \in vs, NEW v2 \in vs, SameRequest(v1, v2)
        PROVE  v1 = v2
    <2>1. PICK t1 \in ts : v1 = VoidedTask(t1, places) /\ SameRequest(t1, v1)
      BY <1>1
    <2>2. PICK t2 \in ts : v2 = VoidedTask(t2, places) /\ SameRequest(t2, v2)
      BY <1>1
    <2>3. SameRequest(t1, t2)
      BY <1>3, <2>1, <2>2 DEF SameRequest
    <2>4. t1 = t2
      BY <2>3 DEF Linked
    <2> QED
      BY <2>1, <2>2, <2>4
  <1>4. Cardinality(InFlight(u)) <= BATCH
    <2>1. InFlight(u) \subseteq InFlight(s)
      BY NewRoomFacts DEF InFlight, Follows
    <2>2. Cardinality(InFlight(u)) <= Cardinality(InFlight(s))
      BY <2>1, InFlightRooms, FS_Subset DEF RoomsFit
    <2>3. Cardinality(InFlight(u)) \in Nat /\ Cardinality(InFlight(s)) \in Nat
      BY InFlightRooms DEF RoomsFit, Follows
    <2> QED
      BY <2>2, <2>3, DiscoveryBounds DEF Linked
  <1> QED
    BY <1>2, <1>3, <1>4 DEF Linked, vs

\* sync_membership for the account it is at.
LEMMA WithMembersKeeps ==
    ASSUME RoomsFit, NEW s, Schedule(s), NEW a \in Accounts, s.account = a,
           NEW rooms \in SUBSET Rooms, NEW u, u = WithMembers(s, a, rooms)
    PROVE  \A r \in DOMAIN s.rooms :
               r \in rooms => r \in DOMAIN u.rooms /\ u.rooms[r] = s.rooms[r]
  <1>1. IsFiniteSet(rooms) /\ Cardinality(rooms) <= MAX_ROOMS
    <2>1. IsFiniteSet(rooms) /\ Cardinality(rooms) <= Cardinality(Rooms)
      BY FS_Subset DEF RoomsFit
    <2>2. Cardinality(rooms) \in Nat /\ Cardinality(Rooms) \in Nat /\ MAX_ROOMS \in Nat
      BY <2>1, FS_CardinalityType, DiscoveryBounds DEF RoomsFit
    <2> QED
      BY <2>1, <2>2 DEF RoomsFit
  <1> DEFINE table == [r \in rooms |-> IF r \in DOMAIN s.rooms THEN s.rooms[r] ELSE NewRoom]
  <1>2. ~(a = None \/ Cardinality(rooms) > MAX_ROOMS)
    <2>1. Cardinality(rooms) \in Nat /\ MAX_ROOMS \in Nat
      BY <1>1, FS_CardinalityType, DiscoveryBounds
    <2> QED
      BY <1>1, <2>1, WaitsAreNat
  <1>3. u = [s EXCEPT !.unavailable = FALSE, !.rooms = table]
    BY <1>2 DEF WithMembers
  <1>4. \A r \in rooms : r \in DOMAIN s.rooms => table[r] = s.rooms[r]
    OBVIOUS
  <1>5. DOMAIN table = rooms
    OBVIOUS
  <1> HIDE DEF table
  <1>6. u.rooms = table
    BY <1>3 DEF Schedule, Shaped
  <1> QED
    BY <1>4, <1>5, <1>6

LEMMA RuntimeHoldsAll ==
    ASSUME AppInv, NEW r \in DOMAIN schedule.rooms
    PROVE  <<schedule.account, r>> \in RuntimePlaces
  <1>1. schedule.account \in Accounts /\ r \in Rooms /\ schedule.account = approvalAccount
    BY DEF AppInv, Schedule
  <1> QED
    BY <1>1 DEF RuntimePlaces, Places

LEMMA SyncedLoses ==
    ASSUME RoomsFit, AppInv, DOMAIN schedule.rooms \subseteq approvalJoined
    PROVE  /\ Loses(schedule, SyncedSchedule, Left)
           /\ DOMAIN SyncedSchedule.rooms \subseteq SyncedJoined
  <1>1. /\ Follows(schedule, SyncedSchedule, Left)
        /\ SyncedSchedule.account = CurrentAccount
        /\ CurrentAccount \in Accounts \cup {None}
    BY SyncedFollows
  <1>2. JoinedNow \in SUBSET Rooms
    BY DEF AppInv, JoinedNow
  <1>3. Loses(schedule, SyncedSchedule, Left)
    <2>1. CASE approvalAccount # CurrentAccount
      BY <2>1, RuntimeHoldsAll DEF Loses, Left
    <2>2. CASE approvalAccount = CurrentAccount /\ CurrentAccount = None
      BY <2>2 DEF Loses, AppInv, Schedule
    <2>3. CASE approvalAccount = CurrentAccount /\ CurrentAccount # None
      <3>1. SyncedSchedule = WithMembers(schedule, CurrentAccount, JoinedNow)
        BY <2>3 DEF SyncedSchedule
      <3>2. \A r \in DOMAIN schedule.rooms :
                r \in JoinedNow => /\ r \in DOMAIN SyncedSchedule.rooms
                                   /\ SyncedSchedule.rooms[r] = schedule.rooms[r]
        BY <1>1, <1>2, <2>3, <3>1, WithMembersKeeps DEF AppInv
      <3>3. SyncedSchedule.generation = schedule.generation
        BY <1>1, <1>2, <2>3, <3>1, WithMembersFacts DEF AppInv
      <3>4. \A r \in DOMAIN schedule.rooms :
                r \notin JoinedNow => <<schedule.account, r>> \in Left
        BY <2>3, RuntimeHoldsAll DEF Left
      <3> QED
        BY <1>1, <2>3, <3>2, <3>3, <3>4 DEF Loses, AppInv
    <2> QED
      BY <2>1, <2>2, <2>3
  <1>4. DOMAIN SyncedSchedule.rooms \subseteq SyncedJoined
    <2>1. CASE CurrentAccount = None
      BY <1>1, <2>1 DEF Follows, Schedule
    <2>2. CASE CurrentAccount # None
      <3> DEFINE s == IF approvalAccount = CurrentAccount THEN schedule ELSE ClearedSchedule
      <3>1. Schedule(s)
        BY ClearedFollows DEF AppInv, Follows
      <3>2. SyncedSchedule = WithMembers(s, CurrentAccount, JoinedNow) /\ SyncedJoined = JoinedNow
        BY <2>2 DEF SyncedSchedule, SyncedJoined
      <3> HIDE DEF s
      <3> QED
        BY <1>1, <1>2, <3>1, <3>2, WithMembersFacts
    <2> QED
      BY <2>1, <2>2
  <1> QED
    BY <1>3, <1>4

LinkedInv == Linked(schedule, tasks, approvalJoined)

LEMMA InitLinked == DiscoveryInit => LinkedInv
  <1> SUFFICES ASSUME DiscoveryInit PROVE LinkedInv
    OBVIOUS
  <1>1. schedule = EmptySchedule /\ tasks = {}
    BY DEF DiscoveryInit
  <1>2. InFlight(schedule) = {} /\ DOMAIN schedule.rooms = {}
    BY <1>1, EmptyScheduleFacts DEF InFlight
  <1> QED
    BY <1>1, <1>2, FS_EmptySet, DiscoveryBounds DEF LinkedInv, Linked

LEMMA LinkedStutter ==
    ASSUME LinkedInv, UNCHANGED <<schedule, tasks, approvalJoined>>
    PROVE  LinkedInv'
  BY DEF LinkedInv, Linked, Waited, Awaits, SameRequest, InFlight

LEMMA LinkedRefresh ==
    ASSUME RoomsFit, ScheduleInv, LinkedInv, RefreshDiscovery
    PROVE  LinkedInv'
  <1> DEFINE s == SyncedSchedule
             ts == Voided(tasks, Left)
             chosen == Selected(s)
             ask(r, n) == [account |-> CurrentAccount, generation |-> schedule'.generation,
                           room |-> r, nonce |-> n, left |-> LIFE, stage |-> "queued",
                           answer |-> Failure, void |-> FALSE]
  <1>1. AppInv /\ Accounted(schedule, tasks) /\ Schedule(schedule)
    BY DEF ScheduleInv, AppInv
  <1>2. Follows(schedule, s, Left) /\ s.account = CurrentAccount
    BY <1>1, SyncedFollows
  <1>3. PICK n \in Nonces :
            /\ \A t \in tasks : t.nonce # n
            /\ SyncApp /\ schedule' = Asked(s, n)
            /\ tasks' = ts \cup IF mainLoop # "serving" THEN {} ELSE {ask(r, n) : r \in chosen}
    BY DEF RefreshDiscovery
  <1>4. /\ Schedule(schedule') /\ schedule'.account = s.account
        /\ schedule'.generation = s.generation
        /\ DOMAIN schedule'.rooms = DOMAIN s.rooms /\ chosen \subseteq DOMAIN s.rooms
        /\ \A r \in chosen : schedule'.rooms[r].nonce = n /\ schedule'.rooms[r].left = LIFE
    BY <1>2, <1>3, AskedFacts DEF Follows
  <1>5. Loses(schedule, s, Left) /\ DOMAIN s.rooms \subseteq SyncedJoined
    BY <1>1, SyncedLoses DEF LinkedInv, Linked
  <1>6. Linked(s, ts, SyncedJoined)
    BY <1>1, <1>2, <1>5, LinkedFollows DEF LinkedInv, Accounted
  <1>7. ts \in SUBSET Tasks /\ \A u \in ts : u.nonce # n
    <2>1. \A u \in ts : u \in Tasks /\ \E t \in tasks : SameRequest(t, u)
      BY <1>1, VoidedFacts DEF Accounted
    <2> QED
      BY <1>3, <2>1 DEF SameRequest
  <1>8. \A r \in chosen :
            /\ ask(r, n).account = CurrentAccount
            /\ ask(r, n).generation = schedule'.generation
            /\ ask(r, n).room = r /\ ask(r, n).nonce = n /\ ask(r, n).left = LIFE
    OBVIOUS
  <1>9. \A r \in InFlight(s) : s.rooms[r].left > 0 => schedule'.rooms[r] = s.rooms[r]
    BY <1>2, <1>3, AskedSpares DEF Follows
  <1>10. Cardinality(InFlight(schedule')) <= BATCH
    BY <1>2, <1>3, <1>6, AskedIsOneBatch DEF Linked, Follows, RoomsFit
  <1>11. approvalJoined' = SyncedJoined
    BY <1>3 DEF SyncApp
  <1> HIDE DEF s, ts, chosen, ask
  <1>12. ASSUME NEW t \in tasks', Waited(t)
         PROVE  Awaits(schedule', t) /\ schedule'.rooms[t.room].left >= t.left
    <2>1. CASE t \in ts
      <3>1. Awaits(s, t) /\ s.rooms[t.room].left >= t.left /\ t \in Tasks
        BY <1>6, <1>7, <1>12, <2>1 DEF Linked
      <3>2. s.rooms[t.room].left \in Nat /\ t.left \in Nat /\ t.left > 0
        BY <1>2, <1>12, <3>1 DEF Follows, Schedule, RoomStates, Tasks, Awaits, Waited
      <3>3. t.room \in InFlight(s) /\ s.rooms[t.room].left > 0
        BY <3>1, <3>2, WaitsAreNat DEF InFlight, Awaits, Tasks
      <3>4. schedule'.rooms[t.room] = s.rooms[t.room]
        BY <1>9, <3>3
      <3> QED
        BY <1>4, <3>1, <3>4 DEF Awaits
    <2>2. CASE t \notin ts
      <3>1. PICK r \in chosen : t = ask(r, n)
        BY <1>3, <1>12, <2>2
      <3> QED
        BY <1>2, <1>4, <1>8, <3>1, WaitsAreNat DEF Awaits
    <2> QED
      BY <2>1, <2>2
  <1>13. ASSUME NEW t \in tasks', NEW u \in tasks', SameRequest(t, u)
         PROVE  t = u
    <2>1. CASE t \in ts /\ u \in ts
      BY <1>6, <1>13, <2>1 DEF Linked
    <2>2. CASE t \notin ts /\ u \notin ts
      <3>1. PICK r \in chosen : t = ask(r, n)
        BY <1>3, <1>13, <2>2
      <3>2. PICK q \in chosen : u = ask(q, n)
        BY <1>3, <1>13, <2>2
      <3> QED
        BY <1>8, <1>13, <3>1, <3>2 DEF SameRequest
    <2>3. CASE (t \in ts /\ u \notin ts) \/ (t \notin ts /\ u \in ts)
      <3>1. \A v \in tasks' : v \notin ts => v.nonce = n
        BY <1>3, <1>8
      <3> QED
        BY <1>7, <1>13, <2>3, <3>1 DEF SameRequest
    <2> QED
      BY <2>1, <2>2, <2>3
  <1>14. DOMAIN schedule'.rooms \subseteq approvalJoined'
    BY <1>4, <1>5, <1>11
  <1> QED
    BY <1>10, <1>12, <1>13, <1>14 DEF LinkedInv, Linked, Waited, Awaits, SameRequest, InFlight

LEMMA LinkedHandle ==
    ASSUME RoomsFit, ScheduleInv, LinkedInv, NEW t \in tasks, HandleDiscoveryResult(t)
    PROVE  LinkedInv'
  <1> DEFINE s == SyncedSchedule
             rest == tasks \ {t}
             ts == Voided(rest, Left)
             accepted == CurrentAccount # None /\ Acceptable(s, t)
  <1>1. AppInv /\ tasks \in SUBSET Tasks /\ t \in Tasks /\ Schedule(schedule)
    BY DEF ScheduleInv, Accounted, AppInv
  <1>2. Follows(schedule, s, Left)
    BY <1>1, SyncedFollows
  <1>3. tasks' = ts /\ approvalJoined' = SyncedJoined
    BY DEF HandleDiscoveryResult
  <1>4. IF accepted THEN schedule' = WithResult(s, t) ELSE schedule' = s
    BY DEF HandleDiscoveryResult
  <1>5. Loses(schedule, s, Left) /\ DOMAIN s.rooms \subseteq SyncedJoined
    BY <1>1, SyncedLoses DEF LinkedInv, Linked
  <1>6. Linked(schedule, rest, approvalJoined)
    BY DEF LinkedInv, Linked
  <1>7. Linked(s, ts, SyncedJoined)
    BY <1>1, <1>2, <1>5, <1>6, LinkedFollows
  <1>8. CASE accepted
    <2> DEFINE u == WithResult(s, t)
    <2>1. /\ t.room \in DOMAIN s.rooms /\ t.answer.outcome \in Outcome
          /\ t.account = s.account /\ t.generation = s.generation
          /\ s.rooms[t.room].nonce = t.nonce
      BY <1>1, <1>8, AnswerType DEF Acceptable, Tasks
    <2>2. /\ Schedule(u) /\ u.account = s.account /\ u.generation = s.generation
          /\ DOMAIN u.rooms = DOMAIN s.rooms
          /\ \A r \in DOMAIN s.rooms \ {t.room} : u.rooms[r] = s.rooms[r]
          /\ u.rooms[t.room].nonce = None
      BY <1>2, <2>1, WithResultFacts DEF Follows
    <2>3. \A v \in ts : \E w \in rest : SameRequest(w, v)
      BY <1>1, VoidedFacts
    <2>4. schedule' = u
      BY <1>4, <1>8
    <2> HIDE DEF u, s, ts
    <2>5. ASSUME NEW v \in ts, Waited(v)
          PROVE  Awaits(u, v) /\ u.rooms[v.room].left >= v.left
      <3>1. Awaits(s, v) /\ s.rooms[v.room].left >= v.left
        BY <1>7, <2>5 DEF Linked
      <3>2. v.room # t.room
        <4>1. PICK w \in rest : SameRequest(w, v)
          BY <2>3
        <4>2. ~SameRequest(w, t)
          BY <4>1 DEF LinkedInv, Linked
        <4> QED
          BY <2>1, <3>1, <4>1, <4>2 DEF SameRequest, Awaits
      <3> QED
        BY <2>2, <3>1, <3>2 DEF Awaits
    <2>6. Cardinality(InFlight(u)) <= BATCH
      <3>1. InFlight(u) \subseteq InFlight(s)
        BY <2>2 DEF InFlight
      <3>2. Cardinality(InFlight(u)) <= Cardinality(InFlight(s))
        BY <1>2, <3>1, InFlightRooms, FS_Subset DEF RoomsFit, Follows
      <3>3. Cardinality(InFlight(u)) \in Nat /\ Cardinality(InFlight(s)) \in Nat
        BY <1>2, <2>2, InFlightRooms DEF RoomsFit, Follows
      <3> QED
        BY <1>7, <3>2, <3>3, DiscoveryBounds DEF Linked
    <2>7. Linked(u, ts, SyncedJoined)
      BY <1>5, <1>7, <2>2, <2>5, <2>6 DEF Linked
    <2> QED
      BY <1>3, <2>4, <2>7 DEF LinkedInv
  <1>9. CASE ~accepted
    BY <1>3, <1>4, <1>7, <1>9 DEF LinkedInv
  <1> QED
    BY <1>8, <1>9

LEMMA LinkedWorker ==
    ASSUME ScheduleInv, LinkedInv, NEW t \in tasks,
           StartFetch(t) \/ FailFetch(t) \/ \E w \in Answers : EndFetch(t, w)
    PROVE  LinkedInv'
  <1>1. t \in Tasks
    BY DEF ScheduleInv, Accounted
  <1>2. t.stage # "posted" /\ UNCHANGED <<schedule, approvalJoined>>
    BY <1>1, WorkerMoves DEF appVars
  <1>3. PICK u \in Tasks :
            /\ tasks' = (tasks \ {t}) \cup {u}
            /\ SameRequest(t, u) /\ u.left = t.left /\ u.void = t.void
    BY <1>1, WorkerMoves
  <1>4. Waited(u) => Waited(t)
    BY <1>2, <1>3 DEF Waited
  <1>5. \A v \in tasks' : Waited(v) => Awaits(schedule, v) /\ schedule.rooms[v.room].left >= v.left
    BY <1>3, <1>4 DEF LinkedInv, Linked, Awaits, SameRequest
  <1>6. \A v, w \in tasks' : SameRequest(v, w) => v = w
    BY <1>3 DEF LinkedInv, Linked, SameRequest
  <1>7. Linked(schedule, tasks', approvalJoined)
    BY <1>5, <1>6 DEF LinkedInv, Linked
  <1> QED
    BY <1>2, <1>7 DEF LinkedInv

LEMMA LinkedRefreshRoom ==
    ASSUME ScheduleInv, LinkedInv, NEW r \in Rooms, RefreshRoom(r)
    PROVE  LinkedInv'
  <1> DEFINE u == Refreshed(schedule, client, r)
  <1>1. schedule' = u /\ UNCHANGED <<tasks, approvalJoined>>
    BY DEF RefreshRoom
  <1>2. /\ u.account = schedule.account /\ u.generation = schedule.generation
        /\ DOMAIN u.rooms = DOMAIN schedule.rooms
        /\ \A q \in DOMAIN schedule.rooms :
              /\ u.rooms[q].nonce = schedule.rooms[q].nonce
              /\ u.rooms[q].left = schedule.rooms[q].left
    BY RefreshedFacts DEF ScheduleInv, AppInv
  <1> HIDE DEF u
  <1>3. InFlight(u) = InFlight(schedule)
    BY <1>2 DEF InFlight
  <1>4. Linked(u, tasks, approvalJoined)
    BY <1>2, <1>3 DEF LinkedInv, Linked, Awaits
  <1> QED
    BY <1>1, <1>4 DEF LinkedInv

LEMMA LinkedPurgeRoom ==
    ASSUME RoomsFit, ScheduleInv, LinkedInv, NEW r \in Rooms, PurgeRoom(r)
    PROVE  LinkedInv'
  <1> DEFINE places == {p \in RuntimePlaces : p[2] = r}
  <1>1. AppInv /\ tasks \in SUBSET Tasks /\ Schedule(schedule)
    BY DEF ScheduleInv, Accounted, AppInv
  <1>2. /\ approvalJoined' = IF approvalAccount = None THEN approvalJoined
                             ELSE approvalJoined \ {r}
        /\ schedule' = IF approvalAccount = None THEN schedule
                       ELSE WithMembers(schedule, approvalAccount, approvalJoined')
        /\ tasks' = Voided(tasks, places)
    BY DEF PurgeRoom
  <1>3. \A q \in DOMAIN schedule.rooms : q = r => <<schedule.account, q>> \in places
    BY <1>1, RuntimeHoldsAll
  <1>4. \A q : <<schedule.account, q>> \in places => q = r
    OBVIOUS
  <1> HIDE DEF places
  <1>5. approvalJoined' \in SUBSET Rooms
    BY <1>1, <1>2 DEF AppInv
  <1>6. CASE approvalAccount = None
    <2>1. schedule' = schedule /\ DOMAIN schedule.rooms = {}
      BY <1>1, <1>2, <1>6 DEF AppInv, Schedule
    <2>2. /\ Follows(schedule, schedule, places) /\ Loses(schedule, schedule, places)
          /\ DOMAIN schedule.rooms \subseteq approvalJoined'
      BY <1>1, <2>1 DEF Follows, Loses, Schedule
    <2>3. Linked(schedule, Voided(tasks, places), approvalJoined')
      BY <1>1, <2>2, LinkedFollows DEF LinkedInv
    <2> QED
      BY <1>2, <2>1, <2>3 DEF LinkedInv
  <1>7. CASE approvalAccount # None
    <2> DEFINE u == WithMembers(schedule, approvalAccount, approvalJoined')
    <2>1. schedule' = u /\ approvalJoined' = approvalJoined \ {r}
      BY <1>2, <1>7
    <2>2. approvalAccount \in Accounts /\ schedule.account = approvalAccount
      BY <1>1, <1>7 DEF AppInv
    <2>3. /\ Schedule(u) /\ u.account = approvalAccount
          /\ u.generation = schedule.generation
          /\ DOMAIN u.rooms \subseteq approvalJoined'
          /\ \A q \in DOMAIN u.rooms :
                \/ u.rooms[q] = NewRoom
                \/ q \in DOMAIN schedule.rooms /\ u.rooms[q] = schedule.rooms[q]
      BY <1>1, <1>5, <2>2, WithMembersFacts
    <2>4. \A q \in DOMAIN schedule.rooms :
              q \in approvalJoined' => q \in DOMAIN u.rooms /\ u.rooms[q] = schedule.rooms[q]
      BY <1>1, <1>5, <2>2, WithMembersKeeps
    <2> HIDE DEF u
    <2>5. Follows(schedule, u, places)
      BY <1>1, <1>4, <2>1, <2>2, <2>3 DEF Follows, Schedule
    <2>6. Loses(schedule, u, places)
      <3>1. \A q \in DOMAIN schedule.rooms : q = r \/ q \in approvalJoined'
        BY <2>1 DEF LinkedInv, Linked
      <3> QED
        BY <1>3, <2>2, <2>3, <2>4, <3>1 DEF Loses
    <2>7. Linked(u, Voided(tasks, places), approvalJoined')
      BY <1>1, <2>3, <2>5, <2>6, LinkedFollows DEF LinkedInv
    <2> QED
      BY <1>2, <2>1, <2>7 DEF LinkedInv
  <1> QED
    BY <1>6, <1>7

LEMMA LinkedUiDrops ==
    ASSUME RoomsFit, ScheduleInv, LinkedInv, UiDrops
    PROVE  LinkedInv'
  <1>1. AppInv /\ tasks \in SUBSET Tasks /\ Schedule(schedule)
    BY DEF ScheduleInv, Accounted, AppInv
  <1>2. /\ approvalJoined' = {} /\ schedule' = ClearedSchedule
        /\ tasks' = Voided(tasks, RuntimePlaces)
    BY DEF UiDrops
  <1>3. /\ Follows(schedule, ClearedSchedule, RuntimePlaces)
        /\ DOMAIN ClearedSchedule.rooms \subseteq {}
    BY <1>1, ClearedFollows
  <1>4. Loses(schedule, ClearedSchedule, RuntimePlaces)
    BY <1>1, RuntimeHoldsAll DEF Loses
  <1>5. Linked(ClearedSchedule, Voided(tasks, RuntimePlaces), {})
    BY <1>1, <1>3, <1>4, LinkedFollows DEF LinkedInv
  <1> QED
    BY <1>2, <1>5 DEF LinkedInv

LEMMA LinkedRestart ==
    ASSUME NEW a \in Accounts, Restart(a)
    PROVE  LinkedInv'
  <1>1. schedule' = EmptySchedule /\ tasks' = {}
    BY DEF Restart
  <1>2. InFlight(EmptySchedule) = {} /\ DOMAIN EmptySchedule.rooms = {}
    BY EmptyScheduleFacts DEF InFlight
  <1>3. Linked(EmptySchedule, {}, approvalJoined')
    BY <1>2, FS_EmptySet, DiscoveryBounds DEF Linked
  <1> QED
    BY <1>1, <1>3 DEF LinkedInv

LEMMA LinkedTime ==
    ASSUME ScheduleInv, LinkedInv, TimePasses
    PROVE  LinkedInv'
  <1> DEFINE u == Later(schedule)
  <1>1. tasks \in SUBSET Tasks /\ Schedule(schedule)
    BY DEF ScheduleInv, Accounted, AppInv
  <1>2. /\ schedule' = u /\ tasks' = {[t EXCEPT !.left = Less(@)] : t \in tasks}
        /\ approvalJoined' = approvalJoined
    BY DEF TimePasses
  <1>3. /\ u.account = schedule.account /\ u.generation = schedule.generation
        /\ DOMAIN u.rooms = DOMAIN schedule.rooms
        /\ \A r \in DOMAIN schedule.rooms :
              /\ u.rooms[r].nonce = schedule.rooms[r].nonce
              /\ u.rooms[r].left = Less(schedule.rooms[r].left)
    BY <1>1, LaterFacts
  <1> HIDE DEF u
  <1>4. ASSUME NEW v \in tasks'
        PROVE  \E t \in tasks :
                  /\ v = [t EXCEPT !.left = Less(@)]
                  /\ SameRequest(t, v) /\ v.left = Less(t.left) /\ v.void = t.void
                  /\ v.stage = t.stage
    <2>1. PICK t \in tasks : v = [t EXCEPT !.left = Less(@)]
      BY <1>2, <1>4
    <2>2. t \in Tasks
      BY <1>1
    <2>3. SameRequest(t, v) /\ v.left = Less(t.left) /\ v.void = t.void /\ v.stage = t.stage
      BY <2>1, <2>2 DEF Tasks, SameRequest
    <2> QED
      BY <2>1, <2>3
  <1>5. ASSUME NEW v \in tasks', Waited(v)
        PROVE  Awaits(u, v) /\ u.rooms[v.room].left >= v.left
    <2>1. PICK t \in tasks : /\ SameRequest(t, v) /\ v.left = Less(t.left) /\ v.void = t.void
                             /\ v.stage = t.stage
      BY <1>4
    <2>2. t.left \in Nat
      BY <1>1 DEF Tasks
    <2>3. Waited(t)
      BY <1>5, <2>1, <2>2 DEF Waited, Less
    <2>4. Awaits(schedule, t) /\ schedule.rooms[t.room].left >= t.left
      BY <2>3 DEF LinkedInv, Linked
    <2> DEFINE left == schedule.rooms[t.room].left
    <2>5. left \in Nat /\ u.rooms[t.room].left = Less(left)
      BY <1>1, <1>3, <2>4 DEF Schedule, RoomStates, Awaits
    <2>6. left >= t.left
      BY <2>4
    <2> HIDE DEF left
    <2>7. Less(left) >= Less(t.left)
      BY <2>2, <2>5, <2>6 DEF Less
    <2>8. Awaits(u, v) /\ v.room = t.room
      BY <1>3, <2>1, <2>4 DEF Awaits, SameRequest
    <2> QED
      BY <2>1, <2>5, <2>7, <2>8
  <1>6. ASSUME NEW v \in tasks', NEW w \in tasks', SameRequest(v, w)
        PROVE  v = w
    <2>1. PICK t \in tasks : v = [t EXCEPT !.left = Less(@)] /\ SameRequest(t, v)
      BY <1>4
    <2>2. PICK q \in tasks : w = [q EXCEPT !.left = Less(@)] /\ SameRequest(q, w)
      BY <1>4
    <2>3. SameRequest(t, q)
      BY <1>6, <2>1, <2>2 DEF SameRequest
    <2>4. t = q
      BY <2>3 DEF LinkedInv, Linked
    <2> QED
      BY <2>1, <2>2, <2>4
  <1>7. InFlight(u) = InFlight(schedule)
    BY <1>3 DEF InFlight
  <1>8. Linked(u, tasks', approvalJoined)
    BY <1>3, <1>5, <1>6, <1>7 DEF LinkedInv, Linked
  <1> QED
    BY <1>2, <1>8 DEF LinkedInv

LEMMA StepLinked ==
    ASSUME RoomsFit, ScheduleInv, LinkedInv, [DiscoveryNext]_discoveryVars
    PROVE  LinkedInv'
  <1>1. CASE SyncMembership
    <2>1. AppInv /\ tasks \in SUBSET Tasks /\ Schedule(schedule)
      BY DEF ScheduleInv, Accounted, AppInv
    <2>2. /\ schedule' = SyncedSchedule /\ tasks' = Voided(tasks, Left)
          /\ approvalJoined' = SyncedJoined
      BY <1>1 DEF SyncMembership, SyncApp
    <2>3. /\ Follows(schedule, SyncedSchedule, Left) /\ Loses(schedule, SyncedSchedule, Left)
          /\ DOMAIN SyncedSchedule.rooms \subseteq SyncedJoined
      BY <2>1, SyncedFollows, SyncedLoses DEF LinkedInv, Linked
    <2>4. Linked(SyncedSchedule, Voided(tasks, Left), SyncedJoined)
      BY <2>1, <2>3, LinkedFollows DEF LinkedInv
    <2> QED
      BY <2>2, <2>4 DEF LinkedInv
  <1>2. CASE RefreshDiscovery
    BY <1>2, LinkedRefresh
  <1>3. CASE TaskSteps
    <2>1. PICK t \in tasks : \/ StartFetch(t) \/ FailFetch(t) \/ HandleDiscoveryResult(t)
                             \/ \E w \in Answers : EndFetch(t, w)
      BY <1>3 DEF TaskSteps
    <2> QED
      BY <2>1, LinkedWorker, LinkedHandle
  <1>4. ASSUME NEW r \in Rooms, RefreshRoom(r) \/ ListAdds(r) \/ PurgeRoom(r)
        PROVE  LinkedInv'
    <2>1. CASE ListAdds(r)
      BY <2>1, LinkedStutter DEF ListAdds, WorldStep, appVars
    <2> QED
      BY <1>4, <2>1, LinkedRefreshRoom, LinkedPurgeRoom
  <1>5. CASE \/ SaveAppState \/ ListResets \/ SwitchAccount \/ TearDown \/ FailSwitch
             \/ SyncServiceFails \/ FinishSwitch \/ UiSwitchEnds
    BY <1>5, LinkedStutter DEF SaveAppState, ListResets, SwitchAccount, TearDown, FailSwitch,
       SyncServiceFails, FinishSwitch, UiSwitchEnds, WorldStep, MainStep, appVars
  <1>6. ASSUME NEW p \in Places, LeaveRoom(p) \/ RejoinRoom(p)
        PROVE  LinkedInv'
    BY <1>6, LinkedStutter DEF LeaveRoom, RejoinRoom, WorldStep, appVars
  <1>7. ASSUME NEW a \in Accounts, Install(a) \/ Restart(a)
        PROVE  LinkedInv'
    <2>1. CASE Install(a)
      BY <2>1, LinkedStutter DEF Install, MainStep, appVars
    <2> QED
      BY <1>7, <2>1, LinkedRestart
  <1>8. CASE UiStarting \/ UiRestores
    BY <1>8, LinkedUiDrops DEF UiStarting, UiRestores
  <1>9. CASE TimePasses
    BY <1>9, LinkedTime
  <1>10. CASE UNCHANGED discoveryVars
    BY <1>10, LinkedStutter DEF discoveryVars, appVars
  <1> QED
    BY <1>1, <1>2, <1>3, <1>4, <1>5, <1>6, <1>7, <1>8, <1>9, <1>10 DEF DiscoveryNext

\* A slow worker does not let timer ticks build up requests (select_due),
\* unless the account's rooms outgrow the schedule.
THEOREM OutstandingAlwaysBounded == DiscoverySpec => [](RoomsFit => OutstandingBounded)
  <1> DEFINE OutInv == ScheduleInv /\ (RoomsFit => LinkedInv)
  <1>1. DiscoveryInit => OutInv
    BY InitSchedule, InitLinked
  <1>2. OutInv /\ [DiscoveryNext]_discoveryVars => OutInv'
    BY StepSchedule, StepLinked DEF RoomsFit
  <1>3. OutInv => (RoomsFit => OutstandingBounded)
    <2> SUFFICES ASSUME RoomsFit, ScheduleInv, LinkedInv PROVE OutstandingBounded
      OBVIOUS
    <2> DEFINE out == {t \in tasks : ~t.void /\ t.left > 0 /\ t.stage # "posted"}
               asked == {t.room : t \in out}
               of == [r \in asked |-> CHOOSE t \in out : t.room = r]
    <2>1. \A t \in out : Awaits(schedule, t) /\ t.nonce # None
      BY WaitsAreNat DEF LinkedInv, Linked, Waited, ScheduleInv, Accounted, Tasks
    <2>2. \A t, u \in out : t.room = u.room => t = u
      BY <2>1 DEF LinkedInv, Linked, Awaits, SameRequest
    <2>3. asked \subseteq InFlight(schedule)
      BY <2>1 DEF InFlight, Awaits
    <2>4. /\ IsFiniteSet(asked) /\ Cardinality(asked) <= Cardinality(InFlight(schedule))
          /\ Cardinality(InFlight(schedule)) \in Nat
      BY <2>3, InFlightRooms, FS_Subset DEF RoomsFit, ScheduleInv, AppInv
    <2>5. \A t \in out : t.room \in asked /\ of[t.room] = t
      BY <2>2
    <2>6. of \in [asked -> out]
      BY <2>5
    <2> HIDE DEF of, asked, out
    <2>7. of \in Surjection(asked, out)
      BY <2>5, <2>6 DEF Surjection
    <2>8. IsFiniteSet(out) /\ Cardinality(out) <= Cardinality(asked)
      BY <2>4, <2>7, FS_Surjection
    <2>9. Cardinality(out) \in Nat /\ Cardinality(asked) \in Nat
      BY <2>4, <2>8, FS_CardinalityType
    <2>10. Cardinality(out) <= BATCH
      BY <2>4, <2>8, <2>9, DiscoveryBounds DEF LinkedInv, Linked
    <2> QED
      BY <2>10 DEF OutstandingBounded, out
  <1> QED
    BY <1>1, <1>2, <1>3, PTL DEF DiscoverySpec

=============================================================================
