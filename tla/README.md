# A verification project for Robrix2

Robrix2 (`src/src/`, Rust) is a Matrix chat client built on the Matrix Rust SDK
(the protocol, sync, encryption) and Makepad (the widgets).  What is left to the
program itself, and what can go wrong in it, is a set of small concurrent state
machines spread over three places:

* the **UI thread** (`app.rs`, `home/`), which handles events and actions one at
  a time and owns almost all state the user sees;
* the **worker** (`matrix_worker_task` in `sliding_sync.rs`), which takes
  `MatrixRequest`s from one unbounded channel in order, and spawns a tokio task
  for nearly everything that awaits;
* the **session task** (`start_matrix_client_login_and_sync`), which logs in,
  starts the worker, the room list loop and the space loop, and tears them down
  for an account switch, a logout or an expired token.

They meet in process-wide variables (`CLIENT`, `SYNC_SERVICE`,
`ALL_JOINED_ROOMS`, `ACCOUNT_SWITCH_IN_FLIGHT`, …), in the request channel, and in
actions and updates posted back to the UI thread.  Tasks are hardly ever
cancelled: their results come back late, after the room was left, the account
was switched or the tab closed.  Nearly every rule checked here is about that.

The modules are plain TLA+; TLC checks small instances and TLAPS proves the
invariants for every value of the constants.  `PROJECT.json` lists components,
runs, the source lines of every definition, and the hazards of the code with the
properties that cover them.

## 1. Inventory

| component | state | operations | hard because |
|---|---|---|---|
| **Approval session** (`approval_state.rs`, `ApprovalSession`) | records per (account, room, request); claims; change epochs | `ingest_message`, `try_claim`, `record_send_result`, `remove_room`, `clear_account` | messages folded in any order, repeatedly, by several panes; two panes click the same card; results come late |
| **Verdict path** (`octos_actions.rs`, `interactions.rs`, `sliding_sync.rs`, `app.rs`) | verdicts under way, the installed client, memberships, the switch | fold, click, prepare and send, apply the result, sync membership, switch, restore | three awaits between the check and the send; switch, leave and restore cut in anywhere |
| **Approval room markers** (`ApprovalMarkerIndex`) | markers, protocol floors, confirmations | `ingest_marker`, `observe_v2`, `mark_room_unavailable`, `resolve`, removal, (de)serialisation | answers of old generations and the old protocol, conflicts, a saved index that must confirm nothing |
| **Approval discovery** (`approval_discovery.rs`, worker, `app.rs`) | schedule per room, cursor, nonces; requests handed to the worker; the saved index | select, accept, refresh, sync membership, save, restore, switch | late answers, bounded permits, deadlines, rooms that leave and return |
| **Thread timelines** (`ThreadTimelineTable`, `TimelineStateCache`, screens, tabs) | live and pending threads, generations; builds; tabs, cached and invalidated UI states | create, close, finish, fail; show, hide, close tab; list rebuilt, room left | a close that overtakes a build, a reopen that overtakes a close, endpoints that exist once |
| **Approval panes** (`home/room_screen/`) | per pane: epoch drawn, button contexts, expiry timer | redraw on epoch change, expiry | epochs dropped and counted again (ABA); timers re-armed |
| **Session lifecycle** (`sliding_sync.rs`) | `CLIENT`, the login and request channels, the worker, switch target, in-flight guard, `TOKEN_EXPIRED` | log in, switch, add an account, expire, log in again | three tasks and the UI hand each other channels; guards released only by posted actions |
| **Sync service** (`sliding_sync.rs`) | desired and assumed state, lifecycle lock, the service, its listener | wish, start, stop, error, replacement | a wish, an error or a new service while a start is awaited |
| **Logout** (`logout/`) | state machine, point of no return, in-progress flag, modal | execute, fail, clear, restart the runtime, abort the modal | failures before and after the point of no return; two logouts |
| **OIDC login** (`OidcFlowSlot`, `login_screen.rs`) | one slot: flow id and cancel sender; the screen's card | start, cancel, finish, time out | late cleanup of an older flow |
| **Room timelines** (`sliding_sync.rs`, `room_screen/`) | the subscriber's items and target, the snapshots to the screen, what was drawn; pagination flags of worker and screen | batches of diffs, hide, show, search, jump; paginate, fail, retry | snapshots deferred, merged, skipped; an index used on a later snapshot; dropped duplicates; flags freed late |
| **Rooms list** (`room_list_service_loop`, `rooms_list.rs`) | known rooms, `ALL_JOINED_ROOMS`, the queue of updates, the widget's rooms, hidden rooms and shown lists | diffs, remove-then-add, hide, unhide, filter, invite fallback, placeholders | two sides apply the same diffs at different times, beside three other sources of updates |
| **Account manager, persistence** | accounts, active account, a state file per account | add, switch, save, load, skip once | a file torn by a crash; a load that comes late; state of another account in memory |
| **Caches** (avatars, media, profiles, previews) | entry: absent, requested, loaded, failed | get-or-fetch, late answer | duplicate fetches, entries stuck in `requested` |
| **Agent operations, verification, updater, TSP, translation** | mostly requests and answers of other services | | protocol outside this code |
| **Widgets** | drawing, layout, wording | | no property here is about them |

**Interactions.** A pane folds the timeline's approval messages into the shared
session (a mutex in `AppState`), a click claims there and submits
`SendActionResponse`; the worker's task posts `ApprovalSendResult`, which
`handle_approval_results` gives to the session.  The App's ten-second timer
syncs membership (dropping what belongs to rooms and accounts no longer current)
and asks the schedule for due rooms; the worker answers each with
`ApprovalDiscoveryResult`, which changes the marker index, which routes
"pending approvals".  Tabs take timeline endpoints straight out of
`ALL_JOINED_ROOMS`, but create and close threads through the worker.  A switch
runs through all of them: request, worker stops, session task tears down and
installs, actions `Starting` (twice), `Switched` or `Failed` are posted, and the
target's saved app state is restored as a whole.

**What makes each part correct.** Session: one claim per request, claims only on
undecided native requests, records that never regress or fork.  Verdict path:
one verdict per request; a claim is given back only if nothing was sent; every
claim gets an outcome.  Markers: no rollback of generation or protocol; only
what is kept and above its floor is confirmed.  Discovery: nothing stale is
applied, outstanding requests are bounded, refreshes are prompt, no room
starves, routes are backed by an answer of this run of the program.  Threads:
no closed thread comes back, an old build never replaces or cancels a newer one,
endpoints are not lost, an open tab gets its timeline.  Sync: once quiet, the
service runs as wished.  Session: what was switched to is one account
throughout, no request meets a dropped receiver, guards are freed, an expired
token leads to a login.  Logout: it ends, and leaves either a session that works
or a clean login screen.  OIDC: the cancel handle is the newest flow's, and the
screen does not wait for ever.  Timelines: what is drawn is the current item, a
search finds what is there, a wait is answered.  Rooms list: it shows what the
SDK lists, and the details of a listed room are there and never replaced.
Persistence: accounts stay apart.

## 2. The modules

| module | models |
|---|---|
| `ApprovalSession` | `ApprovalSession`: every method that changes it, for any caller |
| `ApprovalVerdicts` | EXTENDS it: publisher, panes, clicks, the worker's send task, results, membership, leave, switch, restore |
| `OneTimeVerdict` | what that path promises per request; `ApprovalVerdicts` implements it |
| `ApprovalMarkers` | `ApprovalMarkerIndex` as a value and the operators on it, and `resolve` |
| `ApprovalDiscovery` | EXTENDS it: the schedule, the worker's bounded reads, the App that drives both, the disk, switch and restart |
| `ThreadTimelines` | the thread table, its builds, the worker's channel, desktop tabs, the state cache |
| `SyncLifecycle` | wish, reconciliations under the lifecycle lock, the service and its listener |
| `AccountSession` | EXTENDS it: main task, worker, UI: login, switch, added accounts, expired tokens |
| `LogoutFlow` | EXTENDS `SyncLifecycle`: the logout state machine, two of them at once, the modal, the runtime's restart |
| `OidcFlow` | the flow slot, a task per flow, the login screen's card |
| `AppStateFile` | the App's state, a file per account, loads, restores, skip markers, crashes |
| `TimelineSubscriber` | the subscriber task of a timeline and the room screen that draws its snapshots |
| `TimelinePagination` | backwards pagination: everyone who asks, the task that may, the screen that waits |
| `RoomsList` | the SDK's diffs, `room_list_service_loop`, the invite listener, the `RoomsList` widget |
| `…Proofs` | theorems and proofs of the module named |
| `MC…` | the messages, answers, parts and starting points of the instances |

**ApprovalSession.** `records`, `claims`, `epochs` are the three maps of the
struct, partial functions; `now` is the wall clock that expiry is compared with.
`IngestMessage` is `ingest_message` with its early returns (`AtCapacity`,
`Fills`, `Advances`, `Conflicts`): a message is what `parse_projection` returns,
so malformed content, which changes nothing, does not occur.  Agent, project and
publisher are one value `origin`: the code compares them together only.
`TryClaim` and `RecordSendResult` are the two methods a click and a result call.
`MAX_…` are the code's caps; `MaxRevision`, `MaxTime`, `MaxEpoch` are bounds.

**ApprovalVerdicts.** A verdict has a `stage` from `queued` to `sent`; `lost` is a
request in a channel whose receiver is gone.  `WorkerTakes`, `PreparationFails`,
`PreparationEnds`, `SendReturns` are the stretches of the spawned task between
its awaits; `SendIsCurrent` is `native_approval_send_is_current`, called twice.
The switch is the program of the session task (`mainLoop`) with one action per
stretch between awaits, including both ways it fails.  `uiQueue` is the posted
lifecycle actions in order; results are not ordered against them (different
tasks post them), which only adds behaviours.  `SyncMembership`, `PurgeRoom`,
`UiStarting`, `UiRestores` drop session state, and the history `forgotten`
remembers for which rooms.  In the code a fold holds the lock for a whole
timeline; here it ingests one message per step, which again only adds
behaviours.  The *refinement*: `OneTimeVerdict` gives every request a phase (open,
held, closed, dropped) and a count of sends; `Promise` maps a request to
`dropped` if its room is in `forgotten`, to `closed` if its record is decided, to
`held` if it has a claim.  Every step of the path is a step of the promise, for
several requests at once where a room or an account is dropped.

**ApprovalMarkers.** An index is `[markers, floors, validated]`, keyed by place
(account, room), as the code keeps one entry per place in each list.  `Ingested`
is `ingest_marker` including its `observe_v2` and the confirmation it takes away;
`Loaded` is the custom deserialisation (confirmations are not saved).  A file of
the old format is one whose floors are 1.  The five-minute freshness is
`FRESHNESS` ticks; the clock may start anywhere.

**ApprovalDiscovery.** The schedule is a value; `Asked`, `WithResult`,
`Refreshed`, `WithMembers` are `select_due`, `accept_result`, `refresh_room` and
`sync_membership`.  Deadlines count down instead of being compared with a clock:
the schedule's and the task's clock then pass together, as they do.  A nonce is
any value no live request carries.  The requests of one `select_due` share it,
told apart by their rooms; the code's u64 never comes back, so its overflow path
is not modelled.  `HandleDiscoveryResult` is the whole handler: it syncs
membership, checks, applies, and saves (a save may fail; it is then as if it was
not tried).  A save leaves the old or the new file, never a torn one.

**ThreadTimelines.** `live`, `pending`, `nextGeneration` are the table's fields;
`taken` says whose `timeline_singleton_endpoints` are `None`; `builds` are the
spawned tasks with their `CreateToken`; `queue` is the worker's channel,
restricted to the two requests; `tabs` holds the screens' `tl_state`; `cache` is
`TimelineStateCache` with its invalidation marks; `roomGeneration` is the
timeline-state generation of the room.  A timeline is known by the number of the
attempt that built it, which only properties read.  `CloseTab` is one step since
`close_tab` runs on the UI thread; closing all tabs and loading a layout are
`CloseTab`s followed by `OpenTab`s.  `LearnRoomLeft` is the `RemoveRoom` update
together with the tab closing it posts.  A restored tab that was never selected
has no screen yet, and is no tab of the model.  `ShowOnSignal` may happen at any
signal: the `is_loaded` gate in front of it only delays it.

**SyncLifecycle.** `apply_sync_service_desired_state` takes the tokio mutex, looks
at the wish and at `SYNC_SERVICE_ASSUMED_RUNNING`, awaits `start()` or `stop()`,
records the outcome and looks again: `ApplyLooks`, `ApplyCalls`, `ApplyRecords` by
the head of `lockQueue` (the mutex is fair).  A reconciliation works on the service
it fetched: `held.current` becomes false when that one is replaced meanwhile.

**AccountSession.** `main` is the position of the main task between its awaits,
`worker` that of the worker.  Every way to log in ends in `loginBox`, a channel
of capacity one.  `receiver` and `linked` say where the two channels the UI and
the worker send into lead at present.  `panicked` is what `submit_async_request`
does when the receiver is gone.

**LogoutFlow.** One stage per await of `LogoutStateMachine::execute`; a second
machine can start since the modal's Abort does not end the first.  The actions to
the UI thread are `news`, and a machine waits for two of them to be carried out.
The restart of the runtime kills every task of the old one.

**OidcFlow.** `slot` is the id in `OidcFlowSlot`, `fired` the flows whose cancel
sender was used or dropped.  A flow waits for the browser, its handle or the
timeout, posts its outcome and only then cleans up: in between the slot may
belong to the next.

**AppStateFile.** The state is reduced to the agent registry, as the accounts
whose agents it holds.  Saving truncates and then writes (`writing`); a crash, or
a load, may come in between.  A load consumes a skip marker, moves an unreadable
file away, and posts a restore that replaces the state whole.

**TimelineSubscriber.** `Grows` and `Shrinks` apply one diff each and keep what
the code keeps of a batch (lowest and highest index changed, cleared, appended,
appends only); `EndsBatch` sends the snapshot or defers it while the screen is
hidden.  The screen may coalesce queued snapshots.  `drawn` is what the widgets
show; a redraw happens for the indices named as changed.  `request` is the watch
channel: only its last value is seen.

**TimelinePagination.** `TakesRequest` is the worker, with its guard
(`inFlight`); a duplicate is dropped silently.  `Starts`, `Answers`, `Frees`,
`Tells` are the stretches of the task; the guard is freed before the update is
sent, and the screen reads it again when it handles the update.

**RoomsList.** `live` is what the SDK would say of a room now, `known` what the
loop last read (`all_known_rooms`).  A diff becomes `todo`, the changes of
`ALL_JOINED_ROOMS` and the updates that the loop then does one by one, as the
widget may handle each before the next.  The rooms of a `Reset` or an `Append` are
taken one at a time, in any order (`RemovesRoom`, `AppendsRoom`); an appended room is
read when its turn comes, and in `known` from then on.  `MoveDiff` is the remove-then-insert pair
that `optimize_remove_then_add_into_update` turns into an update; `Truncate` is so
many `RemoveDiff`s.  The widget takes one update per step; `draining` keeps the UI
thread's other handlers out until the queue was seen empty.  A name is one the
keywords match, one they do not, or none.

## 3. Runs, bounds, fairness

Parts of one run do not interact: one is chosen in the initial state and the
others stand still.  They share a run because they are small.

| run | question | instance |
|---|---|---|
| `room_parts` | *session:* do claims lock and records advance under every message and click? *threads:* do tabs, builds, rebuilds and leaves keep table, cache and tabs in step? | every native message of two bindings of a request, clashing legacy ones, two more requests against caps of 1 account and 2 approvals, 3 revisions; 1 thread, 3 opens, 1 failure, 1 rebuild, 1 leave; fair |
| `verdicts` | Can a switch, or a room that is left and joined again, lead to two verdicts, or give back a claim whose verdict went out?  Is `OneTimeVerdict` implemented? | 2 accounts, 2 clicks; 2 switches that may fail, with restores; or 1 leave or list rebuild with decisions and expiry |
| `verdict_live` | Does every claim get an outcome, does the fold catch up? | fair, no switch or leave |
| `verdict_attempt` | (violated) Does a send attempt still hold its claim? | 1 click |
| `discovery` | *lifecycle:* can an old answer be applied after leave, return, rebuild, switch? *markers:* is every open route backed by an answer of this run of the program? | 2 accounts, 1 room, 2 nonces, 1 switch, 2 leaves; or 1 account, 6 answers, saves, 1 restart, no refresh asked for |
| `discovery_live` | Are all rooms asked for ever, and requests bounded? | 2 rooms, batch 1, 1 permit, fair |
| `discovery_floor` | (violated) Is the v2 floor of a room durable? | 1 room, 1 list rebuild |
| `thread_reopen` | (violated) Does a reopened thread work? | 3 opens, no failures, rebuilds or leaves |
| `account_session` | Is a switched session whole, is the UI ever talking to nobody, are guards freed, does an expired token lead to a login, is the background quiet? | 2 accounts; services that fail and lifecycle events at any time; or tokens that expire; or accounts that are added; fair |
| `client_parts` | *markers:* can answers roll a room back? *logout:* two in each other's way; *oidc:* two flows and three clicks in each other's way; *file:* types of `AppStateFile` over crashes; *items*, *search:* snapshots and searches; *pages:* who waits is answered | 2 accounts × 2 rooms against caps of 1; 2 logouts, 2 flows, 2 sessions, 1 crash, 3 items, 3 diffs, 2 updates, 3 pages; fair |
| `rooms_list` | Do the lists show what the SDK lists, and does every listed room have its details? | a room or a space with 3 changes, 2 diffs queued, 1 leave, 1 creation, 1 change of keywords |
| `app_state` | (violated) Do the accounts' saved states stay apart? | 2 accounts, 2 sessions |

*Why these bounds are enough.* The interesting cases need two of something: two
claims on one request, two accounts, two generations, an old and a new request
for one room, an old and a new build of one thread, two logouts, two flows; each
instance has two of what its properties tell apart (three opens: one to be
closed, one to race, one to stay; three changes of a room: to be invited, joined,
and changed once more).  Caps are set to 1 or 2 so that they are met.  Rooms and
threads do not interact except through caps, the batch and the queue, so one is
enough where none of these is asked about.  Clocks run at least as far as the
last deadline.  In the lifecycle part of `discovery` no marker is found, so the
clock of the markers' age may start at its end.  `CHECK_DEADLOCK FALSE` is set
where the bounds let an instance stop (no opens, switches, changes or ticks left).

*Fairness.* `VerdictFairness`: a spawned task runs to its end (the SDK bounds a
send by its own timeout), its result is handled, a pane folds its whole timeline
at each update.  Nothing is assumed of users, publisher, switches or the clock.
`DiscoveryFairness`: the App's interval timer fires for ever, time passes, tasks
end (they are under `timeout`), results are handled, joined rooms are listed.
`FairTimelines`: the worker serves its queue, a build ends, the sync adds a
joined room back, posted updates are processed, signals keep arriving
(`finish_create` and every sync set one).  `SessionFairness`: tokio polls the
main task, the worker, the reconciliation that holds the lock and the listeners;
the UI thread handles its actions; users, tokens and services do what they like.
`FairLogout`: each machine's awaits are under timeouts.  `FairOidc`: a flow ends by
its timeout, and the screen hears it.  No fairness is assumed for a retry of the
user, and a failed build may be the way a build ends as often as `MaxFailures`
allows.

*Exceptions named in the properties, and assumptions of the parts.*

* `OneVerdictPerRequest` and `OneTimeVerdict` speak of rooms whose session state
  was not dropped (`forgotten`): the session is not persisted, so after a switch
  or a restore an uncertain verdict may be given again.
* `TakenIsHeld` and `OpenTabIsServed` except a room that was back before the UI
  heard it was left (`crossed`): the UI then invalidates the new timelines'
  states, and the endpoints are gone with them.
* `OnlyNewestTokenIsCurrent` speaks of one table: a room dropped by a list rebuild
  counts generations from 0 again, and there the code does let an old build
  through.
* `BackgroundIsQuiet` is checked for sessions, not across the restart of the
  runtime by a logout, which resets the wish and the flags under a reconciliation.
* The *search* part of `client_parts` lets the timeline grow only, and hides the
  screen only after the task has seen its last request.  Otherwise: show, jump and
  hide before the task polls lose the jump, and a length that is equal again by
  chance has the search start too far down.
* The parts of `rooms_list` take place in an order the code relies on and nothing
  enforces (`StepByStep`, `HiddenBeforeRemoved`, `InTime`, `NoneHidden`, stated in
  `RoomsList`); see below what TLC finds without them.  `SteadySpec` and `ListedSpec`
  are the specifications with some of them that section 4 proves about.

### Where code and documents disagree

* `verdict_attempt` — the second check before the send looks at account and
  membership only, so a verdict goes out though its request was decided or
  expired during the preparation; the navigation specification wants claim,
  pending and unexpired to hold at the attempt.  (The publisher is what refuses
  such a verdict.)
* `discovery_floor` — while the rooms list is rebuilt, `sync_approval_membership`
  takes every room for one that was left and drops its v2 floor, which the model
  specification calls durable; a v1 marker is confirmed afterwards.
* `thread_reopen` — a tab reopened before the worker has taken the close of the
  last one attaches to the timeline about to be dropped, and keeps a state
  nobody feeds; the thread lifecycle specification promises a fresh one.
* `app_state` — a switch keeps the agent registry in memory, and the next save
  writes it to the file of the new account when that had nothing to restore; a
  test's comment says one account's state can never overwrite another's.

### What else the models show of the code

Not stated as properties, since nothing in the repository promises otherwise, but
met in counterexamples to stronger ones:

* *Switch.* A switch requested when the main task has returned never frees its
  guard.  Accounts are never removed from the manager.  A request sent between
  the worker's return and its successor panics the UI thread (`DroppedOnlyInHandover`
  says when this can be).  A second login while one is in the channel of a
  switched session blocks the worker.
* *Expiry.* `TOKEN_EXPIRED` is never reset, and in a session that was switched to
  nobody waits for the next login: `FirstExpiryAwaitsLogin` holds for the session
  that was logged in to.
* *Sync.* An error heard in the background, or during a reconciliation, need not
  be followed by a restart when the client comes back.  After a login that
  follows an expiry the assumed state may be stale.
* *Logout.* A failure beyond the point of no return is shown as a recoverable one
  if a second logout has reset the flag meanwhile.
* *OIDC.* A start that is refused because a flow is active is not told to the
  screen.
* *App state.* A save between the login and the restore writes the default state
  over the saved one; a load that meets a truncated file moves it away.
* *Timelines.* A search for an event that is not in a fully paginated timeline
  leaves its pane waiting until it is closed.  Retry on the notification of a
  failed build, after the tab was closed, builds a timeline that nobody shows.
* *Rooms list.* A room seen to go from joined to invited or knocked in one diff
  is in both lists of the widget, and joined again has its details replaced.  An
  invite that the listener adds late brings back an invite that was accepted or
  declined, or an older name.  `Created` handled late does the same with a name,
  and gives a created space an entry in the list of rooms.  A `HideRoom` handled
  after the `RemoveRoom` of the same leave, or before a `Clear`, leaves a mark
  that keeps the room hidden when it is joined again.

## 4. Proofs

Nothing but the named assumptions on the constants is assumed: types of the
messages, marker events and answers, bounds that are numbers (waits, lives, caps and
batches positive), `None` and `Nowhere` that are none of the values they stand
beside (`NoneAssumption`, `DiscoveryBounds`, `SubscriberAssumption`), and finiteness
of the set of threads.  `DiscoveryAnswers` says that an answer that is present carries
one event, and tells of v2 only if that event does.  TLC evaluates each of them on
the instances.  Modules whose proofs share lemmas share a proof module:
`ApprovalVerdictsProofs` (session and verdict path), `ApprovalDiscoveryProofs` (markers
and discovery), `TimelineProofs` (subscriber and pagination), `AccountFlowsProofs`
(logout, OIDC, app state).

**Session** (`ApprovalVerdictsProofs`).  The inductive invariant is `TypeOK`,
`ClaimsLockPendingRequests` and `LegacyHasNoRequest`.  The claims' invariant alone
is not inductive: admitting a record must not meet a claim waiting for it, and
filling a record with its request must not make a legacy record claimable.  One
lemma per method; `OneClaim` and `LegacyReadOnly` follow from it (two claims of a
request carry the digest of the same record), and the two action properties are
proved step by step from it.  The *caps* (`CapsInv`): a record is only admitted below
the cap of its account, by counting what is kept; that claims stay within their cap
is not guarded there, and follows from the lock: two claims of one record would
be one, so the claims inject into the records of their account.

**Verdict path** (same module).  Every action of the path does one of eight things to
the session, the sends, the publisher's messages and the dropped places
(`CoreStep`): publish, fold, click, move a send, handle a result, drop places, tick,
or nothing.  The invariants are proved over these eight.  `SendsInv`: a send that is
not over, of a room that was not dropped, holds its claim or its request was decided
(`LiveSendsHold`), and no two such sends name one request (`OneLiveSend`).  Each needs
the other: a claim may be given back by the result of a failed send only since no
other live send rests on it, and a second click finds no claim only if no live send
is left.  `OneVerdictPerRequest` is its corollary.  `FoldInv`: what an honest publisher
has said of a request is one path of `Transition`, and the fold is a point of it, so
that no order of the messages is taken for a fork.  From the same invariant the
*refinement* (`VerdictsAreOneTime`): initial states map to `OneTimeVerdict`'s, and each
of the eight steps is a step of the promise or a stutter, request by request
(`KeyStep`), where several requests are dropped at once.

**Markers** (`ApprovalDiscoveryProofs`).  The invariant is stated of an index value
(`Good`): type, `Confirmed` and `Floored`.  `Confirmed` needs `Floored`: a marker
confirmed again is above its floor only because its own protocol is not below
it.  Each operator is shown to keep `Good` and to roll nothing back (`Keeps`), and
the theorems compose these lemmas, here and for discovery.

**Discovery** (same module), in three parts, each an invariant of
the whole specification with its restores, restarts and switches.

* *The schedule* (`ScheduleInv`).  `Accounted`: a request whose answer the schedule
  would take lives for as long as the schedule waits for it, and its room was
  not dropped since it was asked; this is what makes the nonce and the generation
  enough, and `StaleNeverApplied` follows.  It rests on `Follows`: whatever drops
  places (a leave, a rebuilt list, another account) leaves a room either as it was or
  new, with another generation or no nonce.  `Prompt`: a room that was wanted is due
  soon, or its request is marked to be asked again; `RefreshIsPrompt`.
* *The evidence* (`IndexInv`).  `Backed`: each confirmation was said by the last
  accepted answer for its place.  It is kept since no operator confirms or changes
  a place other than its own (`Spares`), and since saved and loaded indices confirm
  nothing (`Saved`).  `RoutesAreEvidenced` and, with the lemmas on markers,
  `ConfirmedIsCurrent` follow.
* *The bound* (`LinkedInv`).  Each request that is still worked on is awaited, for as
  long as it lives; two of them are never for the same room and nonce, and the schedule waits for one batch at
  most; so requests inject into the rooms in flight.  It is proved for accounts whose
  rooms fit the schedule (`RoomsFit`), and false beyond: `sync_membership` clears all
  rooms when there are more than `MAX_ROOMS` (`approval_discovery.rs:72`), while
  their requests are under way, and may ask as many again.

**Threads** (`ThreadTimelinesProofs`).  `OnlyNewestTokenIsCurrent` needs `Tokens`: no
token is ahead of the table's counter, and a token of this table with the
pending generation belongs to the newest attempt.  `ClosedStaysClosed` needs
`Closings`: behind every `Create` still queued for a thread closed since there is
a `Close`, so that whatever the worker begins for it, it also forgets; and a room
that is out of the list has no table.  `TakenIsHeld` needs `HeldInv`: the state of a
thread is in its open tab or in the cache, never in both, and of the generation of
the room as the UI knows it, so that no show or hide finds it invalidated; a closed
tab has left a `Close` in the queue.

**Sync** (`SyncLifecycleProofs`).  `QuietInv`: work is held by the lock's holder only;
a service that runs is assumed to run, or a reconciliation is about to record
it; and if a stop is wished for while one is assumed to run, somebody is in the
queue who will see that.  Each action of `SyncLifecycle` keeps it, and so
(`QuietSession`, in `AccountSessionProofs`) does each action of `AccountSession`,
whose services come and go at any time.  `ForegroundInv` is its counterpart for a
wish to run, and holds for one session only: nobody takes the service away
(`Undisturbed`), and a start that is wished for has somebody in the queue.

**Account session** (`AccountSessionProofs`).  `WholeInv` says of each position of the
main task on its way through a switch which of client, service and active
account is the goal already.  `HandoverInv`: a worker that is about to return has
left a target behind.

**Logout** (`AccountFlowsProofs`).  `FlowInv` has two parts.  `FlagInv`: the point of no
return stands for a machine beyond it or one that broke, or everybody has ended;
the flag of progress for a machine that is at work or broke.  `CleanInv`: behind the
one `LogoutSuccess` that can be on its way nothing of the session is left, and the
UI is logged in until it is handled.  `KeptInv`, for the logouts that fail, is
`ForegroundInv` as far as a logout lets it stand: as long as nobody went past the
point of no return the service is undisturbed, though a logout at work has stopped it
under the assumed state; once all have failed, their restarts have made up for it.

**OIDC** (same module).  A slot that is taken belongs to a flow that has not
cleaned up; only its own cleanup or a `Cancel` empties it.

**Pagination** (`TimelineProofs`).  `PageInv`: the flag has exactly one
holder, which will free it and tell; a `Running` on its way has its end behind it;
a screen that was dropped hears nothing.  `AnswerIsComing` is inductive only with
these: a screen that reads the flag late waits for whoever holds it then.

**Subscriber** (same module).  `DrawnIsCurrent` speaks of the screen only, and what
makes it true is on its way.  `ChainInv`: there is a chain of snapshots from the
screen's items to the task's, one per update in the channel, such that each update
tells of everything that differs between its two (`Carries`); and what differs between
the last snapshot told and the items is in the batch or in the deferral (`Pends`).
The chain is a sequence that the invariant says exists; lemmas lengthen it by an
update, shorten it when one is handled, and join two links when two snapshots are
merged.  An empty snapshot that is skipped leaves the screen ahead of the chain's first
snapshot, which `StartOf` allows.

*Searches* (`GrowingSpec`, of a timeline that grows: `Shrinks` is left out, and a screen
is hidden only after the task has seen its last request).  `GrowingInv` adds to the
chain that each snapshot is shorter than the task's items or is them, and that an
answer points at the target in the snapshot it follows (`ToldInv`); that the task
knows where the one target is (`TargetInv`); that the task sees each close before the
next open (`OpenInv`), without which an answer overtakes deferred changes; and that a
request names fewer items than there are once the target is among them (`SearchInv`),
so that the task's search starts high enough.  `FoundIsThere` and `SearchIsNotInVain`
follow.  They do not hold of `SubscriberSpec`: see the exceptions of section 3.

**Rooms list** (`RoomsListProofs`).  What is on its way is a sequence, and what it
comes to is said by the end of a *run*: `Leads(T, s, x, y)` says that the members of `s`,
one after the other, lead from `x` to `y` by the steps in `T`.  Lemmas lengthen a run at
its end, shorten it at its head and join two; that a step keeps to the end of a run
is an induction over its length, done without an operator as parameter: of a set of
numbers that is missing some, the least one is below it in the well-founded order
of finite subsets (`SetInduction`).  Three runs, each an invariant:

* `DiffsOK`, of every order of events: the diffs lead from the rooms that are known, or
  are to be appended, to those that are listed.  So `Set`, `Move` and `Remove` name rooms
  that are known, where the code indexes its vector, and `Insert` and `Append`
  others (`ListAlwaysSound`).
* `DetailsOK`, if states are seen step by step (`SteadySpec`): for each room the queued
  updates, then the loop's remaining changes, lead from whether the widget has an
  entry and `ALL_JOINED_ROOMS` the details to a state in which an entry has its
  details, and details are those of a room known as joined.  A step of such a run
  inserts details only where neither is left, and adds an entry only where there are
  details; so an entry without details has its removal ahead.  The invite listener, placeholders, leaves and rebuilt lists are all in it.
* `ViewsOK`, for `ListedSpec`: for each room the queued updates and the remaining steps
  lead from the widget's entry (none, joined with what is known of it, or invited; hidden
  or not) to the one that the loop means it to have, which fits what the loop last
  read (`Fits`).  `FreshOK` says that this is current or that a diff will have it
  read again, and `LeavingOK` that the removal of a room being left is still on its way, so
  that its `HideRoom` is undone.  That each list draws the rooms whose entries belong in
  it is part of it (`Sees`).  When all is settled, the runs are empty.

`DetailsAlwaysServe` needs of the four orders only `StepByStep`; `ShownAlwaysListed` needs
`HiddenBeforeRemoved` and `NoneHidden` too, and leaves the listener and created rooms
out.

**Types.**  Every conjunct of `RoomTypesOK` and `PartsTypeOK`, the runs' type
invariants, is a theorem of its part.  Two of them hold more than types: `AppStateTypeOK`
needs that everything in the inbox is a restore of some state or a clearing, and
`SubscriberTypeOK` that every index of a batch, of a deferral and of a drawn item stays
within the longest timeline or is `usize::MAX` (`BoundsInv`); only `found` does not,
since after a `PopBack` it may be left behind the end, and a later `PushFront` moves it
on.

| theorem | property |
|---|---|
| `SessionInvariant`, `VerdictsInvariant`, `MarkersInvariant`, `DiscoveryInvariant`, `TimelinesInvariant` | the inductive invariants |
| `SessionTypeCorrect`, `VerdictsTypeCorrect`, `MarkersTypeCorrect`, `TimelinesTypeCorrect` | `TypeOK`, `VerdictsTypeOK`, `MarkersTypeOK`, `TimelinesTypeOK` |
| `ClaimsLock`, `OneClaim`, `LegacyReadOnly`, `CapsAlwaysHold` | `ClaimsLockPendingRequests`, `OneClaimPerRequest`, `LegacyIsReadOnly`, `CapacityRespected` |
| `CanonicalStateAdvances`, `UncertainClaimsStayLocked` | `NeverRegressesOrForks`, `UnknownOutcomeStaysLocked` |
| `OneVerdictAlways`, `SendsNeverCompete`, `FoldAlwaysPublished` | `OneVerdictPerRequest`, `SendsInv`, `FoldIsPublished` |
| `VerdictsAreOneTime` | `ImplementsOneTimeVerdict` |
| `ConfirmationsAreCurrent`, `MarkersLieOnFloors`, `MarkersNeverRollBack` | `ConfirmedIsCurrent`, `MarkersHaveFloors`, `NoRollback` |
| `RefreshAlwaysPrompt`, `StaleIsNeverApplied` | `RefreshIsPrompt`, `StaleNeverApplied` |
| `RoutesAlwaysEvidenced`, `DiscoveryConfirmsCurrent` | `RoutesAreEvidenced`, `ConfirmedIsCurrent` with restores and restarts |
| `OutstandingAlwaysBounded` | `OutstandingBounded`, if `RoomsFit` |
| `NewestAttemptWins`, `ClosedThreadsStayClosed`, `TakenAlwaysHeld` | `OnlyNewestTokenIsCurrent`, `ClosedStaysClosed`, `TakenIsHeld` |
| `QuietOnce`, `QuietSession` | `BackgroundIsQuiet`, of one session and of any number |
| `ForegroundOnce`, `FailedLogoutsKeepSession` | `ForegroundSyncs`, `FailedLogoutKeepsSession` |
| `SwitchedAlwaysWhole`, `DroppedForSwitches` | `SwitchedIsWhole`, `DroppedOnlyInHandover` |
| `FlagAlwaysReset`, `LoginScreenAlwaysClean` | `FlagIsReset`, `LoginScreenIsClean` |
| `HandleAlwaysKept` | `CancelHandleIsKept` |
| `AnswerAlwaysComes`, `OnePageAlways` | `AnswerIsComing`, `OnePageAtATime` |
| `DrawnAlwaysCurrent` | `DrawnIsCurrent` |
| `FoundAlwaysThere`, `SearchNeverInVain` | `FoundIsThere`, `SearchIsNotInVain`, of `GrowingSpec` |
| `ListAlwaysSound` | `ListType`, `DiffsOK` |
| `DetailsAlwaysServe` | `DetailsServeTheList`, of `SteadySpec` |
| `ShownAlwaysListed` | `ShownIsListed`, of `ListedSpec` |
| `LogoutTypeCorrect`, `OidcTypeCorrect`, `AppStateTypeCorrect` | `LogoutTypeOK`, `OidcTypeOK`, `AppStateTypeOK` |
| `PaginationTypeCorrect`, `SubscriberTypeCorrect` | `PaginationTypeOK`, `SubscriberTypeOK` |

*Only model-checked:*

* liveness (`FoldCatchesUp`, `ClaimIsResolved`, `EveryRoomIsAsked`, `OpenTabIsServed`,
  `SwitchResolves`, `FirstExpiryAwaitsLogin`, `LogoutEnds`, `WaitingEnds`), which rests
  on fairness and `ENABLED`, beyond the prover;
* `ShownIsListed` with the invite listener and the placeholders of created rooms, under
  `InTime`: `rooms_list` has them, `ListedSpec` does not;
* `PartsTypeOK` and `RoomTypesOK` as conjunctions: each conjunct is a theorem of its
  part, but a proof module for the MC modules that put the parts side by side would
  say nothing more;
* the properties of the runs that TLC finds violated.

## 5. Plan

1. Proofs: `ShownIsListed` with the invite listener and the placeholders, under
   `InTime`.
2. **ApprovalPanes** — the panes over the shared session: epochs that start again
   after `remove_room` or `clear_account`, button contexts, expiry timers.
   Property: a drawn button is never about another state than the record's for
   longer than one update.
3. `RoomsList`: the order within the lists (two copies of one order that apply the
   same diffs), spaces, rooms replaced by their successors.
4. **Caches** (profiles, avatars, media, previews): one fetch at a time, entries
   that are not stuck in `requested`.
5. Sending in a room screen: drafts, uploads, edits and their late results.

## 6. What is not modelled

The SDK, the homeserver, the publisher and other agents are external: only what
this code sends them and what it makes of their answers occurs.  Encryption,
the wording of messages, drawing and layout carry no property here.  Of the
modelled components these are left out: in `ThreadTimelines` the mobile stack of
views, logout and account switches (closing all tabs is what a switch does to
them); in `ApprovalVerdicts` the panes' drawing and logout; in `ApprovalDiscovery`
torn files (`AppStateFile` has them) and u64 overflow of nonces and generations; in
`AccountSession` the loops of room list and spaces, which only end; in
`TimelineSubscriber` receipts, typing, pins and thread summaries; in
`AppStateFile` the window, proxy and session files; in `RoomsList` the order, what
an entry shows, the selected space, `TombstonedRoom`, the `HideRoom` of replaced
rooms, the space service, the clearing by a logout, and a timeline that cannot be
built (which ends the loop for an `Insert` or `Set`, and skips the room for an
`Append`).

Components without a module: the caches; agent operations, verification, updater,
TSP and translation, which are mostly requests and answers of other services; and
the widgets (`mentionable_text_input.rs`, `room_settings_modal.rs`,
`room_input_bar.rs`, `add_room.rs`, `login_screen.rs` but for its OIDC card), which
are most of the repository's lines: forms and drawing whose state is their own and
lives on one thread, where a handler is a sequential function a unit test reaches.
This is also why the definitions map to a small share of the lines.
