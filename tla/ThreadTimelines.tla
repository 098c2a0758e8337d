--------------------------- MODULE ThreadTimelines ---------------------------
(***************************************************************************)
(* The thread-focused timelines of one joined room: the worker's           *)
(* ThreadTimelineTable (sliding_sync.rs), which an asynchronous task per   *)
(* creation fills, and the desktop tabs that show a thread, whose UI state *)
(* goes through TimelineStateCache (home/room_screen/state.rs).  The tabs  *)
(* run on the UI thread and talk to the worker by a queue of requests;     *)
(* they take the endpoints of a timeline from the table directly.          *)
(*                                                                         *)
(* A timeline is known by the attempt that built it: a number that is      *)
(* never given twice, unlike the generation the table gives the attempt.   *)
(* The number 0 stands for "no timeline", and for "not pending".           *)
(***************************************************************************)
EXTENDS Naturals, Sequences, FiniteSets

CONSTANTS
    Threads,       \* the root events of the room's threads
    MaxOpens,      \* bound: tabs opened
    MaxFailures,   \* bound: builds that fail
    MaxRebuilds,   \* bound: times the rooms list is rebuilt
    MaxLeaves,     \* bound: times the room is left
    MaxQueue       \* bound: requests in the worker's channel

ASSUME ThreadsAssumption == IsFiniteSet(Threads)
ASSUME TimelineBounds ==
    /\ MaxOpens \in Nat
    /\ MaxFailures \in Nat
    /\ MaxRebuilds \in Nat
    /\ MaxLeaves \in Nat
    /\ MaxQueue \in Nat \ {0}

VARIABLES
    joined,         \* the room is in ALL_JOINED_ROOMS
    live,           \* ThreadTimelineTable.live: the attempt that built it, or 0
    taken,          \* the live threads whose singleton endpoints are taken
    pending,        \* ThreadTimelineTable.pending: the generation, or 0
    nextGeneration, \* ThreadTimelineTable.next_generation
    builds,         \* the spawned tasks that build a timeline
    queue,          \* the worker's channel
    tabs,           \* per thread, its desktop tab and the state it holds
    cache,          \* TIMELINE_STATES
    roomGeneration, \* TIMELINE_ROOM_GENERATIONS of the room
    leftUpdates,    \* RoomsListUpdate::RemoveRoom (left) not yet processed
    retries,        \* threads with a Retry button on a notification
    attempts,       \* history: attempts begun so far
    newest,         \* history: the last attempt begun for a thread, in this table
    tableId,        \* history: which table of the room this is
    shut,           \* history: threads closed and not asked for since
    crossed,        \* history: the room came back before the UI heard that it was left
    used            \* counters for the bounds

tableVars   == <<joined, live, taken, pending, nextGeneration, newest, tableId, crossed>>
screenVars  == <<tabs, cache, roomGeneration, leftUpdates>>
historyVars == <<retries, attempts, shut>>
timelineVars == <<tableVars, builds, queue, screenVars, historyVars, used>>

NoState == [attempt |-> 0, generation |-> 0]
Unopened == [open |-> FALSE, state |-> NoState]

\* A task holds a CreateToken (thread and generation); attempt and table are history.
Builds == [thread : Threads, generation : Nat, attempt : Nat, table : Nat]
WorkerRequests == [op : {"Create", "Close"}, thread : Threads]
UiStates == [attempt : Nat, generation : Nat]

Create(t) == [op |-> "Create", thread |-> t]
Close(t)  == [op |-> "Close", thread |-> t]
InQueue(q, r) == \E i \in 1..Len(q) : q[i] = r
Queued(r) == InQueue(queue, r)

TimelinesInit ==
    /\ joined = TRUE
    /\ live = [t \in Threads |-> 0]
    /\ taken = {}
    /\ pending = [t \in Threads |-> 0]
    /\ nextGeneration = 0
    /\ builds = {}
    /\ queue = <<>>
    /\ tabs = [t \in Threads |-> Unopened]
    /\ cache = [states |-> [t \in Threads |-> NoState], invalidated |-> {}]
    /\ roomGeneration = 0
    /\ leftUpdates = 0
    /\ retries = {}
    /\ attempts = 0
    /\ newest = [t \in Threads |-> 0]
    /\ tableId = 0
    /\ shut = {}
    /\ crossed = FALSE
    /\ used = [opens |-> 0, failures |-> 0, rebuilds |-> 0, leaves |-> 0]

-----------------------------------------------------------------------------
(* TimelineStateCache: checked out by a screen, stored back, invalidated.  *)

TakeStateKeepsMark(c, t) ==
    [states |-> [c.states EXCEPT ![t] = NoState], invalidated |-> c.invalidated]
TakeState(c, t) ==
    [states |-> [c.states EXCEPT ![t] = NoState], invalidated |-> c.invalidated \ {t}]

\* store_timeline_state: refused from an older room generation, or once if marked.
StoreState(c, t, s) ==
    CASE s = NoState \/ s.generation # roomGeneration -> c
      [] s # NoState /\ s.generation = roomGeneration /\ t \in c.invalidated ->
            [states |-> c.states, invalidated |-> c.invalidated \ {t}]
      [] OTHER -> [states |-> [c.states EXCEPT ![t] = s], invalidated |-> c.invalidated]

Invalidate(c, t) ==
    IF c.states[t] # NoState
      THEN [states |-> [c.states EXCEPT ![t] = NoState], invalidated |-> c.invalidated]
      ELSE [states |-> c.states, invalidated |-> c.invalidated \cup {t}]

-----------------------------------------------------------------------------
(* The worker: requests in order, creations in tasks of their own.         *)

CanBegin(t) == joined /\ live[t] = 0 /\ pending[t] = 0

BeginCreateSameGeneration(t) ==
    /\ CanBegin(t)
    /\ pending' = [pending EXCEPT ![t] = nextGeneration + 1]
    /\ attempts' = attempts + 1
    /\ newest' = [newest EXCEPT ![t] = attempts + 1]
    /\ builds' = builds \cup {[thread |-> t, generation |-> nextGeneration + 1,
                               attempt |-> attempts + 1, table |-> tableId]}
    /\ UNCHANGED <<joined, live, taken, nextGeneration, tableId, crossed>>

\* begin_create, and the task that builds the timeline.
BeginCreate(t) ==
    /\ CanBegin(t)
    /\ nextGeneration' = nextGeneration + 1
    /\ pending' = [pending EXCEPT ![t] = nextGeneration + 1]
    /\ attempts' = attempts + 1
    /\ newest' = [newest EXCEPT ![t] = attempts + 1]
    /\ builds' = builds \cup {[thread |-> t, generation |-> nextGeneration + 1,
                               attempt |-> attempts + 1, table |-> tableId]}
    /\ UNCHANGED <<joined, live, taken, tableId, crossed>>

TakesCreate(t) ==
    /\ queue # <<>> /\ Head(queue) = Create(t)
    /\ queue' = Tail(queue)
    /\ \/ BeginCreate(t)
       \/ ~CanBegin(t) /\ UNCHANGED <<tableVars, builds, attempts>>
    /\ UNCHANGED <<screenVars, retries, shut, used>>

TakesCloseLiveOnly(t) ==
    /\ queue # <<>> /\ Head(queue) = Close(t)
    /\ queue' = Tail(queue)
    /\ live' = [live EXCEPT ![t] = 0]
    /\ taken' = taken \ {t}
    /\ UNCHANGED <<joined, pending, nextGeneration, newest, tableId, crossed, builds,
                   screenVars, historyVars, used>>

\* close: forgets a pending creation of any generation, drops a live timeline.
TakesClose(t) ==
    /\ queue # <<>> /\ Head(queue) = Close(t)
    /\ queue' = Tail(queue)
    /\ \/ /\ joined
          /\ live' = [live EXCEPT ![t] = 0]
          /\ taken' = taken \ {t}
          /\ pending' = [pending EXCEPT ![t] = 0]
       \/ ~joined /\ UNCHANGED <<live, taken, pending>>
    /\ UNCHANGED <<joined, nextGeneration, newest, tableId, crossed, builds, screenVars, historyVars, used>>

Worker == \E t \in Threads : TakesCreate(t) \/ TakesClose(t)

TokenIsCurrent(b) == joined /\ pending[b.thread] = b.generation

\* The build succeeds: finish_create, or the orphan is dropped.
Finish(b) ==
    /\ builds' = builds \ {b}
    /\ \/ /\ TokenIsCurrent(b)
          /\ pending' = [pending EXCEPT ![b.thread] = 0]
          /\ live' = [live EXCEPT ![b.thread] = b.attempt]
          /\ taken' = taken \ {b.thread}
       \/ ~TokenIsCurrent(b) /\ UNCHANGED <<pending, live, taken>>
    /\ UNCHANGED <<joined, nextGeneration, newest, tableId, crossed, queue, screenVars, historyVars, used>>

FailKeepsPending(b) ==
    /\ used.failures < MaxFailures
    /\ used' = [used EXCEPT !.failures = @ + 1]
    /\ builds' = builds \ {b}
    /\ retries' = retries \cup {b.thread}
    /\ UNCHANGED <<tableVars, queue, screenVars, attempts, shut>>

\* The build fails: fail_create, and a notification that offers to retry.
Fail(b) ==
    /\ used.failures < MaxFailures
    /\ used' = [used EXCEPT !.failures = @ + 1]
    /\ builds' = builds \ {b}
    /\ pending' = [pending EXCEPT ![b.thread] = IF TokenIsCurrent(b) THEN 0 ELSE @]
    /\ retries' = retries \cup {b.thread}
    /\ UNCHANGED <<joined, live, taken, nextGeneration, newest, tableId, crossed, queue,
                   screenVars, attempts, shut>>

Building == \E b \in builds : Finish(b) \/ Fail(b)

-----------------------------------------------------------------------------
(* The room leaves ALL_JOINED_ROOMS, with its table, and comes back.       *)

DropTable ==
    /\ joined
    /\ joined' = FALSE
    /\ live' = [t \in Threads |-> 0]
    /\ taken' = {}
    /\ pending' = [t \in Threads |-> 0]
    /\ nextGeneration' = 0
    /\ newest' = [t \in Threads |-> 0]
    /\ tableId' = tableId + 1
    /\ UNCHANGED <<crossed, builds, queue, tabs, cache, roomGeneration, historyVars>>

\* VectorDiff::Reset or Clear: the list is rebuilt; the screens are not told.
ListIsRebuilt ==
    /\ used.rebuilds < MaxRebuilds
    /\ used' = [used EXCEPT !.rebuilds = @ + 1]
    /\ DropTable
    /\ UNCHANGED leftUpdates

\* The user left, or was removed: the UI is told later.
RoomIsLeft ==
    /\ used.leaves < MaxLeaves
    /\ used' = [used EXCEPT !.leaves = @ + 1]
    /\ DropTable
    /\ leftUpdates' = leftUpdates + 1

\* add_new_room: a table of its own, which counts generations from 0 again.
AddRoom ==
    /\ ~joined
    /\ joined' = TRUE
    /\ crossed' = (crossed \/ leftUpdates > 0)
    /\ UNCHANGED <<live, taken, pending, nextGeneration, newest, tableId, builds, queue,
                   screenVars, historyVars, used>>

-----------------------------------------------------------------------------
(* The tabs, on the UI thread.                                             *)

\* show_timeline: the cached state, or the timeline's endpoints, or ask for the timeline.
Show(t) ==
    LET attach == cache.states[t] = NoState /\ joined /\ live[t] # 0 /\ t \notin taken
    IN
    /\ cache' = TakeState(cache, t)
    /\ \/ /\ cache.states[t] # NoState
          /\ tabs' = [tabs EXCEPT ![t] = [open |-> TRUE, state |-> cache.states[t]]]
          /\ UNCHANGED <<taken, queue, shut>>
       \/ /\ attach
          /\ taken' = taken \cup {t}
          /\ tabs' = [tabs EXCEPT ![t] =
                        [open |-> TRUE,
                         state |-> [attempt |-> live[t], generation |-> roomGeneration]]]
          /\ UNCHANGED <<queue, shut>>
       \/ /\ cache.states[t] = NoState /\ ~attach
          /\ Len(queue) < MaxQueue
          /\ queue' = Append(queue, Create(t))
          /\ tabs' = [tabs EXCEPT ![t] = [open |-> TRUE, state |-> NoState]]
          /\ shut' = shut \ {t}
          /\ UNCHANGED taken
    /\ UNCHANGED <<joined, live, pending, nextGeneration, newest, tableId, crossed, builds,
                   roomGeneration, leftUpdates, retries, attempts>>

OpenTab(t) ==
    /\ ~tabs[t].open
    /\ used.opens < MaxOpens
    /\ used' = [used EXCEPT !.opens = @ + 1]
    /\ Show(t)

\* A screen without a state tries again on every signal.
ShowOnSignal(t) ==
    /\ tabs[t].open /\ tabs[t].state = NoState
    /\ UNCHANGED used
    /\ Show(t)

\* close_tab: the screen stores its state, which close_thread_timeline then invalidates.
ClosedCache(c, t) == Invalidate(StoreState(c, t, tabs[t].state), t)

CloseTab(t) ==
    /\ tabs[t].open
    /\ Len(queue) < MaxQueue
    /\ tabs' = [tabs EXCEPT ![t] = Unopened]
    /\ cache' = ClosedCache(cache, t)
    /\ queue' = Append(queue, Close(t))
    /\ shut' = shut \cup {t}
    /\ UNCHANGED <<tableVars, builds, roomGeneration, leftUpdates, retries, attempts, used>>

\* The screen is destroyed by another layout: its state is stored, nothing is closed.
DropScreen(t) ==
    /\ tabs[t].open
    /\ tabs' = [tabs EXCEPT ![t] = Unopened]
    /\ cache' = StoreState(cache, t, tabs[t].state)
    /\ UNCHANGED <<tableVars, builds, queue, roomGeneration, leftUpdates, historyVars, used>>

\* The UI learns that the room was left: its states are invalidated, its tabs closed.
LearnRoomLeft ==
    LET closing == {t \in Threads : tabs[t].open}
    IN
    /\ leftUpdates > 0
    /\ leftUpdates' = leftUpdates - 1
    /\ roomGeneration' = roomGeneration + 1
    /\ tabs' = [t \in Threads |-> Unopened]
    /\ cache' = [states |-> [t \in Threads |-> NoState], invalidated |-> closing]
    /\ \E order \in [1..Cardinality(closing) -> {Close(t) : t \in closing}] :
          /\ \A t \in closing : InQueue(order, Close(t))
          /\ queue' = queue \o order
    /\ shut' = shut \cup closing
    /\ UNCHANGED <<tableVars, builds, retries, attempts, used>>

\* Retry, on the notification of a build that failed.
ClickRetry(t) ==
    /\ t \in retries
    /\ Len(queue) < MaxQueue
    /\ retries' = retries \ {t}
    /\ queue' = Append(queue, Create(t))
    /\ shut' = shut \ {t}
    /\ UNCHANGED <<tableVars, builds, screenVars, attempts, used>>

Screens ==
    \E t \in Threads : OpenTab(t) \/ ShowOnSignal(t) \/ CloseTab(t) \/ DropScreen(t) \/ ClickRetry(t)

TimelinesNext ==
    \/ Worker \/ Building
    \/ ListIsRebuilt \/ RoomIsLeft \/ AddRoom
    \/ Screens \/ LearnRoomLeft

TimelinesSpec == TimelinesInit /\ [][TimelinesNext]_timelineVars

\* The worker serves its queue, builds end, the sync adds the room again, signals arrive.
FairTimelines ==
    /\ TimelinesSpec
    /\ WF_timelineVars(Worker)
    /\ WF_timelineVars(Building)
    /\ WF_timelineVars(AddRoom)
    /\ WF_timelineVars(LearnRoomLeft)
    /\ \A t \in Threads : WF_timelineVars(ShowOnSignal(t))
-----------------------------------------------------------------------------
(* Properties.                                                             *)

Used == [opens : 0..MaxOpens, failures : 0..MaxFailures, rebuilds : 0..MaxRebuilds,
         leaves : 0..MaxLeaves]

TimelinesTypeOK ==
    /\ joined \in BOOLEAN
    /\ live \in [Threads -> Nat]
    /\ taken \subseteq Threads
    /\ pending \in [Threads -> Nat]
    /\ nextGeneration \in Nat
    /\ builds \subseteq Builds
    /\ queue \in Seq(WorkerRequests)
    /\ tabs \in [Threads -> [open : BOOLEAN, state : UiStates]]
    /\ cache \in [states : [Threads -> UiStates], invalidated : SUBSET Threads]
    /\ roomGeneration \in Nat
    /\ leftUpdates \in Nat
    /\ retries \subseteq Threads
    /\ attempts \in Nat
    /\ newest \in [Threads -> Nat]
    /\ tableId \in Nat
    /\ crossed \in BOOLEAN
    /\ shut \subseteq Threads
    /\ used \in Used

\* The token of an older attempt never finishes, nor cancels, the newer attempt of its
\* thread in the same table (ThreadTimelineTable::token_is_current).
OnlyNewestTokenIsCurrent ==
    \A b \in builds : b.table = tableId /\ TokenIsCurrent(b) => b.attempt = newest[b.thread]

\* A thread is live or pending, never both; when the worker has taken a tab's close
\* request, and nobody asked for the thread since, it is neither, whatever the builds
\* that were under way then do later (CloseThreadTimeline, finish_create).
ClosedStaysClosed ==
    \A t \in Threads :
        /\ live[t] = 0 \/ pending[t] = 0
        /\ t \in shut /\ ~Queued(Close(t)) => (live[t] = 0 /\ pending[t] = 0)

\* The endpoints of a timeline are taken once: as long as the thread is not about to be
\* closed some screen, or the cache, holds them (take_timeline_endpoints).  But for a room
\* that is back before the UI heard that it was left: the UI then forgets the new states.
TakenIsHeld ==
    \A t \in taken :
        crossed \/ Queued(Close(t)) \/ live[t] \in {tabs[t].state.attempt, cache.states[t].attempt}

\* A tab that is open, and stays open, gets a timeline to show: no sequence of closes,
\* builds that fail and room lists that are rebuilt leaves it waiting (same exception).
OpenTabIsServed ==
    \A t \in Threads :
        tabs[t].open ~> (tabs[t].state # NoState \/ ~tabs[t].open \/ crossed)

\* Nothing is under way: every request served, every build ended, the room in the list.
Quiet == queue = <<>> /\ builds = {} /\ joined /\ leftUpdates = 0

\* Reopening a closed thread creates a fresh, working timeline: once all is quiet, the
\* timeline an open tab shows is the one the worker keeps and feeds.
ReopenedThreadWorks ==
    \A t \in Threads :
        Quiet /\ tabs[t].open /\ tabs[t].state # NoState => live[t] = tabs[t].state.attempt
=============================================================================
