-------------------------- MODULE ApprovalDiscovery --------------------------
(***************************************************************************)
(* How the marker index is kept current: a schedule picks joined rooms     *)
(* that are due (src/approval_discovery.rs), the worker reads their state  *)
(* from the homeserver under a deadline and a shared pair of permits       *)
(* (sliding_sync.rs), the App applies an answer if the schedule still      *)
(* wants it, saves the index with the rest of its state and restores it    *)
(* later (app.rs).  Rooms leave and return, the rooms list is rebuilt, the *)
(* account is switched and the program restarted in between.               *)
(*                                                                         *)
(* Time is counted in ticks and every wait counts down to 0.  A nonce is   *)
(* any value no live request carries, which is all a counter that is never *)
(* reset gives; the requests of one batch, told apart by their rooms,      *)
(* share theirs.                                                           *)
(***************************************************************************)
EXTENDS ApprovalMarkers, Sequences, FiniteSetsExt

CONSTANTS
    None,
    Members,              \* <<account, room>>: who is joined where at the start
    Answers,              \* what reading a room's state may give
    BATCH, CONCURRENCY, MAX_ROOMS,
    LIFE, POSITIVE, NEGATIVE, FAILURE,    \* waits, in ticks
    Nonces, MaxSwitches, MaxLeaves, MaxRestarts

Outcome == {"Present", "Absent", "Failed"}
Answer == [outcome : Outcome, observedV2 : BOOLEAN, marker : SUBSET MarkerEvents]

\* A room with a v2 marker never answers with its v1 marker.
ASSUME DiscoveryAnswers ==
    /\ Answers \subseteq Answer
    /\ \A w \in Answers :
          /\ IF w.outcome = "Present" THEN \E e \in MarkerEvents : w.marker = {e}
             ELSE w.marker = {}
          /\ w.outcome = "Absent" => ~w.observedV2
          /\ \A e \in w.marker : w.observedV2 <=> e.protocol = 2
ASSUME DiscoveryBounds ==
    /\ None \notin Accounts \cup Nonces
    /\ Rooms \subseteq Nat /\ Members \subseteq Places
    /\ BATCH \in Nat \ {0} /\ CONCURRENCY \in Nat \ {0} /\ MAX_ROOMS \in Nat
    /\ LIFE \in Nat \ {0} /\ FAILURE \in Nat \ {0}
    /\ POSITIVE \in Nat \ {0} /\ NEGATIVE \in Nat \ {0}
    /\ MaxSwitches \in Nat /\ MaxLeaves \in Nat /\ MaxRestarts \in Nat

Failure == [outcome |-> "Failed", observedV2 |-> FALSE, marker |-> {}]

VARIABLES
    schedule,      \* ApprovalDiscoverySchedule
    tasks,         \* the requests handed to the worker
    client,        \* the account of the installed client, or None
    joined,        \* the places where an account is joined
    listed,        \* the rooms on the UI's list of joined rooms
    mainLoop, uiQueue, purges,
    approvalAccount, approvalJoined, suspended,  \* fields of App
    disk,          \* account -> the index in its saved app state
    loading,       \* the index of an app state on its way to the App, if any
    switches, leaves, restarts,
    wanted,        \* history: rooms whose refresh was asked for and not yet sent
    lastAnswer,    \* history: place -> the marker of the last accepted answer, and when
    v2Seen         \* history: places where an accepted answer showed a v2 marker

worldVars == <<client, joined, listed, mainLoop, uiQueue, purges, disk, loading,
               switches, leaves, restarts>>
appVars   == <<index, now, schedule, approvalAccount, approvalJoined, suspended>>
pastVars  == <<wanted, lastAnswer, v2Seen>>
discoveryVars == <<worldVars, appVars, pastVars, tasks>>

-----------------------------------------------------------------------------
(* The schedule s.  A room that is not in flight has no nonce.             *)

NewRoom == [due |-> 0, nonce |-> None, left |-> 0, pending |-> FALSE]

EmptySchedule ==
    [account |-> None, generation |-> 0, rooms |-> << >>, cursor |-> None,
     unavailable |-> FALSE]

\* sync_membership
WithMembers(s, a, rooms) ==
    LET t == IF s.account = a THEN s
             ELSE [s EXCEPT !.account = a, !.generation = @ + 1,
                            !.rooms = << >>, !.cursor = None]
        refused == a = None \/ Cardinality(rooms) > MAX_ROOMS
    IN  [t EXCEPT !.unavailable = refused,
                  !.rooms = [r \in IF refused THEN {} ELSE rooms |->
                               IF r \in DOMAIN t.rooms THEN t.rooms[r] ELSE NewRoom]]

InFlight(s) == {r \in DOMAIN s.rooms : s.rooms[r].nonce # None}
DueRooms(s) == {r \in DOMAIN s.rooms : s.rooms[r].nonce = None /\ s.rooms[r].due = 0}

\* The order in which rooms are looked at: from the cursor on, then from the start.
Wrapped(s, r) == s.cursor # None /\ r <= s.cursor
Before(s, q, r) == IF Wrapped(s, q) = Wrapped(s, r) THEN q < r ELSE Wrapped(s, r)

Expired(s) ==
    [s EXCEPT !.rooms =
        [r \in DOMAIN s.rooms |->
            IF r \in InFlight(s) /\ s.rooms[r].left = 0
            THEN [s.rooms[r] EXCEPT !.nonce = None, !.due = FAILURE]
            ELSE s.rooms[r]]]

\* Mutated form of Selected: the batch alone is bounded.
SelectedBatchOnly(s) ==
    LET e == Expired(s)
    IN  IF s.unavailable THEN {}
        ELSE {r \in DueRooms(e) :
                 Cardinality({q \in DueRooms(e) : Before(e, q, r)}) < BATCH}

\* select_due, in two parts: which rooms, and the schedule afterwards.
Selected(s) ==
    LET e == Expired(s)
    IN  IF s.unavailable THEN {}
        ELSE {r \in DueRooms(e) :
                 Cardinality({q \in DueRooms(e) : Before(e, q, r)})
                    + Cardinality(InFlight(e)) < BATCH}

\* Mutated form of Asked: a cursor that stays.
AskedFromTheStart(s, nonce) ==
    LET e == Expired(s)  chosen == Selected(s)
    IN  IF s.unavailable THEN s
        ELSE [e EXCEPT !.rooms = [r \in DOMAIN e.rooms |->
                IF r \in chosen
                THEN [e.rooms[r] EXCEPT !.nonce = nonce, !.left = LIFE]
                ELSE e.rooms[r]]]

Asked(s, nonce) ==
    LET e == Expired(s)  chosen == Selected(s)
    IN  IF s.unavailable THEN s
        ELSE [e EXCEPT
                !.rooms = [r \in DOMAIN e.rooms |->
                    IF r \in chosen
                    THEN [e.rooms[r] EXCEPT !.nonce = nonce, !.left = LIFE]
                    ELSE e.rooms[r]],
                !.cursor = IF chosen = {} THEN @
                           ELSE CHOOSE r \in chosen :
                                    \A q \in chosen : q = r \/ Before(e, q, r)]

\* Mutated form of Acceptable: any answer for a room in flight will do.
AcceptableAnyNonce(s, t) ==
    /\ ~s.unavailable /\ t.account = s.account /\ t.generation = s.generation
    /\ t.room \in DOMAIN s.rooms
    /\ s.rooms[t.room].nonce # None /\ s.rooms[t.room].left > 0

\* accept_result: whether, and the schedule afterwards.
Acceptable(s, t) ==
    /\ ~s.unavailable /\ t.account = s.account /\ t.generation = s.generation
    /\ t.room \in DOMAIN s.rooms
    /\ s.rooms[t.room].nonce = t.nonce /\ s.rooms[t.room].left > 0

Wait(outcome) ==
    CASE outcome = "Present" -> POSITIVE
      [] outcome = "Absent"  -> NEGATIVE
      [] outcome = "Failed"  -> FAILURE

WithResult(s, t) ==
    LET again == s.rooms[t.room].pending /\ t.answer.outcome # "Failed"
    IN  [s EXCEPT !.rooms[t.room] =
            [NewRoom EXCEPT !.due = IF again THEN 0 ELSE Wait(t.answer.outcome)]]

\* Mutated form of Refreshed: the refresh counts only if nothing is in flight.
RefreshedIfIdle(s, a, r) ==
    IF a = s.account /\ r \in DOMAIN s.rooms THEN [s EXCEPT !.rooms[r].due = 0] ELSE s

\* refresh_room
Refreshed(s, a, r) ==
    IF a = s.account /\ r \in DOMAIN s.rooms
    THEN [s EXCEPT !.rooms[r].due = 0, !.rooms[r].pending = r \in InFlight(s)]
    ELSE s

Less(n) == IF n = 0 THEN 0 ELSE n - 1
Later(s) ==
    [s EXCEPT !.rooms = [r \in DOMAIN s.rooms |->
        [s.rooms[r] EXCEPT !.due = Less(@), !.left = Less(@)]]]

-----------------------------------------------------------------------------
(* sync_approval_membership: the account and rooms the App now works for,  *)
(* and what it drops.                                                      *)

CurrentAccount == IF suspended THEN None ELSE client
JoinedNow == {r \in listed : <<client, r>> \in joined}

RuntimePlaces == {p \in Places : p[1] = approvalAccount}
Left == IF approvalAccount = CurrentAccount
        THEN {p \in RuntimePlaces : p[2] \in approvalJoined \ JoinedNow}
        ELSE RuntimePlaces

\* clear_approval_runtime
ClearedSchedule == WithMembers(schedule, None, {})

SyncedSchedule ==
    LET s == IF approvalAccount = CurrentAccount THEN schedule ELSE ClearedSchedule
    IN  IF CurrentAccount = None THEN s ELSE WithMembers(s, CurrentAccount, JoinedNow)

SyncedJoined ==
    CASE CurrentAccount # None                                  -> JoinedNow
      [] CurrentAccount = None /\ approvalAccount # None        -> {}
      [] CurrentAccount = None /\ approvalAccount = None        -> approvalJoined

\* A request for a place that was dropped since is void.
Voided(ts, places) ==
    {[t EXCEPT !.void = @ \/ <<t.account, t.room>> \in places] : t \in ts}

SyncApp ==
    /\ approvalAccount' = CurrentAccount
    /\ approvalJoined' = SyncedJoined
    /\ UNCHANGED <<worldVars, now, suspended>>

-----------------------------------------------------------------------------
(* The App.                                                                *)

SyncMembership ==
    /\ SyncApp
    /\ schedule' = SyncedSchedule /\ index' = Dropped(index, Left)
    /\ tasks' = Voided(tasks, Left)
    /\ wanted' = wanted \cap DOMAIN schedule'.rooms
    /\ UNCHANGED <<lastAnswer, v2Seen>>

\* refresh_approval_discovery.  Behind an account switch no worker receives
\* the batch, and the requests are lost.
RefreshDiscovery ==
    \E n \in Nonces :
        /\ \A t \in tasks : t.nonce # n
        /\ \A r \in InFlight(SyncedSchedule) : SyncedSchedule.rooms[r].nonce # n
        /\ SyncApp
        /\ schedule' = Asked(SyncedSchedule, n) /\ index' = Dropped(index, Left)
        /\ tasks' = Voided(tasks, Left) \cup
              IF mainLoop # "serving" THEN {}
              ELSE {[account |-> CurrentAccount, generation |-> schedule'.generation,
                     room |-> r, nonce |-> n, left |-> LIFE, stage |-> "queued",
                     answer |-> Failure, void |-> FALSE] : r \in Selected(SyncedSchedule)}
        /\ wanted' = (wanted \cap DOMAIN schedule'.rooms) \ Selected(SyncedSchedule)
        /\ UNCHANGED <<lastAnswer, v2Seen>>

\* Mutated form of Applied: a room without a marker keeps its confirmation.
AppliedIfPresent(x, p, w, t) ==
    IF w.marker = {} THEN x ELSE Ingested(x, p, CHOOSE e \in w.marker : TRUE, t)

\* What handle_approval_results makes of an accepted answer w.
Applied(x, p, w, t) ==
    LET y == IF w.observedV2 THEN Observed(x, p) ELSE x
    IN  IF \E e \in w.marker : Accepts(y, p, e)
        THEN Ingested(y, p, CHOOSE e \in w.marker : TRUE, t)
        ELSE LET z == IF w.marker = {} THEN y
                      ELSE Ingested(y, p, CHOOSE e \in w.marker : TRUE, t)
             IN  Unavailable(z, p)

\* handle_approval_results, for a discovery result.  Saving may fail.
HandleDiscoveryResult(t) ==
    LET p == <<t.account, t.room>>
        accepted == CurrentAccount # None /\ Acceptable(SyncedSchedule, t)
        dropped == Dropped(index, Left)
    IN  /\ t.stage = "posted"
        /\ approvalAccount' = CurrentAccount /\ approvalJoined' = SyncedJoined
        /\ tasks' = Voided(tasks \ {t}, Left)
        /\ IF accepted
           THEN /\ schedule' = WithResult(SyncedSchedule, t)
                /\ index' = Applied(dropped, p, t.answer, now)
                /\ disk' \in {disk, [disk EXCEPT ![t.account] = Loaded(index')]}
                /\ lastAnswer' = IF t.answer.marker = {}
                                  THEN Restrict(lastAnswer, DOMAIN lastAnswer \ {p})
                                  ELSE Put(lastAnswer, p, [marker |-> t.answer.marker, at |-> now])
                /\ v2Seen' = IF t.answer.observedV2 THEN v2Seen \cup {p} ELSE v2Seen
           ELSE /\ schedule' = SyncedSchedule /\ index' = dropped
                /\ UNCHANGED <<disk, lastAnswer, v2Seen>>
        /\ wanted' = wanted \cap DOMAIN schedule'.rooms
        /\ UNCHANGED <<now, suspended, client, joined, listed, mainLoop, uiQueue,
                       purges, loading, switches, leaves, restarts>>

\* ApprovalRoomStateChanged, from a fold, a click or a verdict's outcome.
RefreshRoom(r) ==
    /\ client # None
    /\ schedule' = Refreshed(schedule, client, r)
    /\ wanted' = IF client = schedule.account /\ r \in DOMAIN schedule.rooms
                 THEN wanted \cup {r} ELSE wanted
    /\ UNCHANGED <<worldVars, index, now, approvalAccount, approvalJoined, suspended,
                   lastAnswer, v2Seen, tasks>>

\* Any other change of the App's state is saved with the index as it is.
SaveAppState ==
    /\ client # None /\ disk' = [disk EXCEPT ![client] = Loaded(index)]
    /\ UNCHANGED <<appVars, pastVars, tasks, client, joined, listed, mainLoop, uiQueue,
                   purges, loading, switches, leaves, restarts>>

-----------------------------------------------------------------------------
(* The worker's tasks.                                                     *)

\* current_context_matches
ContextMatches(t) == client = t.account /\ <<t.account, t.room>> \in joined

Post(t, w) ==
    /\ tasks' = (tasks \ {t}) \cup {[t EXCEPT !.stage = "posted", !.answer = w]}
    /\ UNCHANGED <<worldVars, appVars, pastVars>>

\* run_bounded_approval_discovery: a permit, before the deadline.
StartFetch(t) ==
    /\ t.stage = "queued" /\ t.left > 0
    /\ Cardinality({u \in tasks : u.stage = "fetching"}) < CONCURRENCY
    /\ IF ContextMatches(t)
       THEN /\ tasks' = (tasks \ {t}) \cup {[t EXCEPT !.stage = "fetching"]}
            /\ UNCHANGED <<worldVars, appVars, pastVars>>
       ELSE Post(t, Failure)

\* An answer that is ready wins over a deadline that has passed meanwhile.
EndFetch(t, w) ==
    /\ t.stage = "fetching"
    /\ Post(t, IF ContextMatches(t) THEN w ELSE Failure)

\* The deadline, or an error of the homeserver or of the client.
FailFetch(t) ==
    /\ \/ t.stage = "fetching"
       \/ t.stage = "queued" /\ t.left = 0
    /\ Post(t, Failure)

-----------------------------------------------------------------------------
(* Rooms come and go.                                                      *)

WorldStep == UNCHANGED <<appVars, pastVars, tasks, mainLoop, uiQueue, disk, loading,
                         switches, restarts>>

LeaveRoom(p) ==
    /\ p \in joined /\ leaves < MaxLeaves
    /\ joined' = joined \ {p} /\ leaves' = leaves + 1
    /\ IF p[1] = client
       THEN purges' = purges \cup {p[2]} /\ listed' = listed \ {p[2]}
       ELSE UNCHANGED <<purges, listed>>
    /\ UNCHANGED client /\ WorldStep
RejoinRoom(p) ==
    /\ p \in Members \ joined /\ joined' = joined \cup {p}
    /\ UNCHANGED <<client, listed, purges, leaves>> /\ WorldStep

\* room_list_service_loop: a Reset or Clear empties the UI's list at once, and
\* the rooms come back one by one.
ListResets ==
    /\ leaves < MaxLeaves /\ listed # {}
    /\ listed' = {} /\ leaves' = leaves + 1
    /\ UNCHANGED <<client, joined, purges>> /\ WorldStep
ListAdds(r) ==
    /\ <<client, r>> \in joined /\ r \notin listed
    /\ listed' = listed \cup {r}
    /\ UNCHANGED <<client, joined, purges, leaves>> /\ WorldStep

\* purge_room_ui_state: for the account of the App now, whichever left.
PurgeRoom(r) ==
    LET places == {p \in RuntimePlaces : p[2] = r}
    IN  /\ r \in purges /\ purges' = purges \ {r}
        /\ index' = Dropped(index, places)
        /\ approvalJoined' = IF approvalAccount = None THEN approvalJoined
                             ELSE approvalJoined \ {r}
        /\ schedule' = IF approvalAccount = None THEN schedule
                       ELSE WithMembers(schedule, approvalAccount, approvalJoined')
        /\ tasks' = Voided(tasks, places)
        /\ wanted' = wanted \cap DOMAIN schedule'.rooms
        /\ UNCHANGED <<client, joined, listed, mainLoop, uiQueue, disk, loading,
                       switches, leaves, restarts, now, approvalAccount, suspended,
                       lastAnswer, v2Seen>>

-----------------------------------------------------------------------------
(* The account switch, the saved state, and a restart.                     *)

MainStep(from, to) ==
    /\ mainLoop = from /\ mainLoop' = to
    /\ UNCHANGED <<appVars, pastVars, tasks, joined, purges, disk, leaves, restarts>>

SwitchAccount ==
    /\ switches < MaxSwitches /\ switches' = switches + 1
    /\ MainStep("serving", "stopping")
    /\ uiQueue' = Append(uiQueue, "Starting")
    /\ UNCHANGED <<client, listed, loading>>
TearDown ==
    /\ MainStep("stopping", "torn")
    /\ uiQueue' = Append(uiQueue, "Starting")
    /\ client' = None /\ listed' = {}
    /\ UNCHANGED <<loading, switches>>
\* The target's session cannot be restored: there is no client any more.
FailSwitch ==
    /\ MainStep("torn", "dead")
    /\ uiQueue' = Append(uiQueue, "Failed")
    /\ UNCHANGED <<client, listed, loading, switches>>
Install(a) ==
    /\ MainStep("torn", "installed") /\ client' = a
    /\ UNCHANGED <<listed, uiQueue, loading, switches>>
\* No sync service can be built: the new client stays, without a worker.
SyncServiceFails ==
    /\ MainStep("installed", "dead")
    /\ uiQueue' = Append(uiQueue, "Failed")
    /\ UNCHANGED <<client, listed, loading, switches>>

\* handle_load_app_state: nothing is restored when the marker of an explicit
\* logout says so, when the file cannot be read, and when it holds nothing but
\* an index (should_restore_loaded_app_state).
FinishSwitch ==
    /\ MainStep("installed", "serving")
    /\ loading' \in {{}, {disk[client]}}
    /\ uiQueue' = Append(uiQueue, "Switched")
    /\ UNCHANGED <<client, listed, switches>>

UiDrops ==
    /\ approvalAccount' = None /\ approvalJoined' = {}
    /\ schedule' = ClearedSchedule
    /\ tasks' = Voided(tasks, RuntimePlaces) /\ wanted' = {}
    /\ UNCHANGED <<now, lastAnswer, v2Seen, client, joined, listed, mainLoop, purges,
                   disk, switches, leaves, restarts>>

UiStarting ==
    /\ uiQueue # << >> /\ Head(uiQueue) = "Starting" /\ uiQueue' = Tail(uiQueue)
    /\ UiDrops /\ index' = Dropped(index, RuntimePlaces)
    /\ suspended' = TRUE /\ UNCHANGED loading
UiSwitchEnds ==
    /\ uiQueue # << >> /\ Head(uiQueue) \in {"Switched", "Failed"}
    /\ uiQueue' = Tail(uiQueue) /\ suspended' = FALSE
    /\ UNCHANGED <<index, now, schedule, approvalAccount, approvalJoined, pastVars,
                   tasks, client, joined, listed, mainLoop, purges, disk, loading,
                   switches, leaves, restarts>>

\* RestoreAppStateFromPersistentState: for whichever account it was read.
UiRestores ==
    /\ loading # {} /\ loading' = {}
    /\ UiDrops /\ index' \in loading
    /\ UNCHANGED <<uiQueue, suspended>>

\* The process ends and starts again with an account's session.
Restart(a) ==
    /\ restarts < MaxRestarts /\ restarts' = restarts + 1
    /\ index' = EmptyIndex /\ schedule' = EmptySchedule /\ tasks' = {}
    /\ approvalAccount' = None /\ approvalJoined' = {} /\ suspended' = FALSE
    /\ client' = a /\ listed' = {} /\ mainLoop' = "serving"
    /\ uiQueue' = << >> /\ purges' = {}
    /\ loading' \in {{}, {disk[a]}}
    /\ wanted' = {} /\ lastAnswer' = << >>
    /\ UNCHANGED <<now, joined, disk, switches, leaves, v2Seen>>

\* The clock stops at MaxTime for the markers' age, never for the waits.
TimePasses ==
    /\ now' = IF now < MaxTime THEN now + 1 ELSE now
    /\ schedule' = Later(schedule)
    /\ tasks' = {[t EXCEPT !.left = Less(@)] : t \in tasks}
    /\ UNCHANGED <<worldVars, pastVars, index, approvalAccount, approvalJoined, suspended>>

-----------------------------------------------------------------------------
DiscoveryInit ==
    /\ MarkersInit
    /\ schedule = EmptySchedule /\ tasks = {}
    /\ client \in Accounts /\ joined = Members /\ listed = {}
    /\ mainLoop = "serving" /\ uiQueue = << >> /\ purges = {}
    /\ approvalAccount = None /\ approvalJoined = {} /\ suspended = FALSE
    /\ disk = [a \in Accounts |-> EmptyIndex] /\ loading = {}
    /\ switches = 0 /\ leaves = 0 /\ restarts = 0
    /\ wanted = {} /\ lastAnswer = << >> /\ v2Seen = {}

TaskSteps ==
    \E t \in tasks :
        \/ StartFetch(t) \/ FailFetch(t) \/ HandleDiscoveryResult(t)
        \/ \E w \in Answers : EndFetch(t, w)

DiscoveryNext ==
    \/ SyncMembership \/ RefreshDiscovery \/ TaskSteps
    \/ \E r \in Rooms : RefreshRoom(r) \/ ListAdds(r) \/ PurgeRoom(r)
    \/ SaveAppState
    \/ \E p \in Places : LeaveRoom(p) \/ RejoinRoom(p)
    \/ ListResets
    \/ SwitchAccount \/ TearDown \/ FailSwitch \/ SyncServiceFails \/ FinishSwitch
    \/ \E a \in Accounts : Install(a) \/ Restart(a)
    \/ UiStarting \/ UiSwitchEnds \/ UiRestores
    \/ TimePasses

DiscoverySpec == DiscoveryInit /\ [][DiscoveryNext]_discoveryVars

\* The App's interval timer fires for ever, the runtime runs every task to its
\* end, posted results are handled, and the list gets every joined room.
DiscoveryFairness ==
    /\ WF_discoveryVars(RefreshDiscovery) /\ WF_discoveryVars(TimePasses)
    /\ WF_discoveryVars(TaskSteps)
    /\ \A r \in Rooms : WF_discoveryVars(ListAdds(r))

-----------------------------------------------------------------------------
\* "An old request cannot repopulate" the index (approval_discovery.rs): what
\* was asked before the room left the schedule, for whatever reason, or longer
\* ago than a request may live is never applied, though the room is back and
\* asked again.
StaleNeverApplied ==
    \A t \in tasks : Acceptable(SyncedSchedule, t) =>
        ~t.void /\ <<t.account, t.room>> \notin Left /\ t.left > 0

\* A slow worker must not let timer ticks build up requests: those the
\* schedule still waits for never exceed one batch, however often it asks.
OutstandingBounded ==
    Cardinality({t \in tasks : ~t.void /\ t.left > 0 /\ t.stage # "posted"}) <= BATCH

\* A refresh asked for while a request is in flight is not swallowed by that
\* request's answer, which may be older: the room is asked again at once, or
\* after a failure's back-off, never after the long wait of a success.
RefreshIsPrompt ==
    \A r \in wanted : r \in DOMAIN schedule.rooms /\
        LET s == schedule.rooms[r]
        IN  IF s.nonce = None THEN s.due <= FAILURE ELSE s.pending

Opens(route, r) ==
    /\ approvalAccount # None
    /\ RoutesTo(index, approvalAccount, route, approvalJoined, now, r)

\* Whatever `pending approvals' would open now was said by the homeserver in
\* the last answer for that room since the program started, no longer ago than
\* the freshness bound, by a well-formed marker with that route.
RoutesAreEvidenced ==
    \A route \in Routes, r \in Rooms :
        Opens(route, r) =>
            LET p == <<approvalAccount, r>>
            IN  /\ p \in DOMAIN lastAnswer
                /\ now <= lastAnswer[p].at + FRESHNESS
                /\ \E e \in lastAnswer[p].marker :
                      e.wellFormed /\ route \in e.content.active

\* "An observed empty-key marker v2 establishes a durable per-room protocol
\* floor.  V2 is never downgraded to v1" (specs/task-approval-state-model.spec.md).
FloorIsDurable ==
    \A v \in index.validated :
        v[1] \in v2Seen => index.markers[v[1]].protocol = 2

\* Every joined room keeps being asked, however many rooms there are and
\* however many requests time out: the cursor goes round.
EveryRoomIsAsked ==
    \A r \in Rooms : []<>(r \in InFlight(schedule) \/ <<client, r>> \notin joined)
=============================================================================
