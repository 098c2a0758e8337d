-------------------------- MODULE ApprovalVerdicts --------------------------
(***************************************************************************)
(* How one owner verdict travels: the publisher's messages reach the room, *)
(* a pane folds them, a click claims the request in the shared session and *)
(* hands the verdict to the worker, a task prepares and sends it across    *)
(* several awaits, and the UI thread applies the result (app.rs).  An      *)
(* account switch, a room that is left, and the restored app state cut in  *)
(* between any two of these steps.                                         *)
(*                                                                         *)
(* A fold ingests the timeline's messages one at a time here; in the code  *)
(* one fold holds the session's lock for all of them.                      *)
(***************************************************************************)
EXTENDS ApprovalSession, Sequences

CONSTANTS
    Members,          \* <<account, room>>: who is joined where at the start
    MaxSends, MaxSwitches, MaxLeaves

ASSUME VerdictBounds ==
    /\ Members \subseteq Accounts \X Rooms
    /\ MaxSends \in Nat /\ MaxSwitches \in Nat /\ MaxLeaves \in Nat

VerdictAction == {"ApproveOnce", "Deny"}
Places == Accounts \X Rooms

\* queued: in the worker's channel;  lost: in a channel nobody reads any more;
\* preparing, sending: inside the spawned task;  failed, unknown, sent: the
\* outcome, posted to the UI thread.
Stage == {"queued", "lost", "preparing", "sending", "failed", "unknown", "sent"}
UiAction == {"Starting", "Switched", "Failed", "Restore"}

VARIABLES
    published,        \* the messages the publisher put into the room
    sends,            \* click number -> the verdict it submitted
    client,           \* the account of the installed client, or None
    joined,           \* the places where an account is joined
    listed,           \* the rooms on the UI's list of joined rooms
    inFlight,         \* ACCOUNT_SWITCH_IN_FLIGHT
    mainLoop,         \* where the session task is in a switch
    target,           \* the account it switches to
    restoring,        \* an app state is being loaded from disk
    uiQueue,          \* lifecycle actions posted to the UI thread, in order
    approvalAccount, approvalJoined, suspended,  \* fields of App
    purges,           \* rooms whose removal was posted to the UI thread
    switches, leaves, \* how many there were, for the bounds
    forgotten         \* history: places whose session state was dropped

appVars    == <<approvalAccount, approvalJoined, suspended>>
switchVars == <<inFlight, mainLoop, target, restoring, uiQueue, switches>>
leaveVars  == <<purges, leaves>>
roomVars   == <<joined, listed>>
verdictVars == <<records, claims, epochs, now, published, sends, client, joined,
                 listed, inFlight, mainLoop, target, restoring, uiQueue, approvalAccount,
                 approvalJoined, suspended, purges, switches, leaves, forgotten>>

InitVerdicts ==
    /\ Init
    /\ published = {} /\ sends = << >>
    /\ client \in Accounts /\ joined = Members /\ listed = {}
    /\ inFlight = FALSE /\ mainLoop = "serving" /\ target = None
    /\ restoring \in BOOLEAN /\ uiQueue = << >>
    /\ approvalAccount = None /\ approvalJoined = {} /\ suspended = FALSE
    /\ purges = {} /\ switches = 0 /\ leaves = 0 /\ forgotten = {}

-----------------------------------------------------------------------------
(* The publisher (external): one request, then statuses along Transition.  *)

PublishRequest(m) ==
    /\ m.isRequest
    /\ \A p \in published : p.request # m.request
    /\ published' = published \cup {m}
    /\ UNCHANGED <<sessionVars, now, sends, client, roomVars, appVars, switchVars,
                   leaveVars, forgotten>>

PublishStatus(p, m) ==
    /\ ~m.isRequest /\ p.request = m.request /\ p.binding = m.binding /\ ~m.legacy
    /\ \A q \in published : q.request = m.request => q.revision <= p.revision
    /\ m.revision = p.revision + 1
    /\ Transition(p.state, p.decision, m.state, m.decision)
    /\ published' = published \cup {m}
    /\ UNCHANGED <<sessionVars, now, sends, client, roomVars, appVars, switchVars,
                   leaveVars, forgotten>>

\* fold_approval_events: a pane of the current account folds its timeline.  A
\* pane stays for a moment after its room was left.
Fold(r, m) ==
    /\ <<client, r>> \in Members /\ m \in published
    /\ IngestMessage(client, r, m)
    /\ UNCHANGED <<now, published, sends, client, roomVars, appVars, switchVars,
                   leaveVars, forgotten>>

-----------------------------------------------------------------------------
(* The click, and the worker's task.                                       *)

\* A request submitted behind a SwitchAccount request is never received: the
\* worker returns and drops its channel.  A failed switch leaves no channel.
Click(c, act) ==
    /\ client = c.account
    /\ Cardinality(DOMAIN sends) < MaxSends
    /\ TryClaim(c)
    /\ sends' = Put(sends, Cardinality(DOMAIN sends) + 1,
                    [claim |-> c, action |-> act, handled |-> FALSE,
                     stage |-> IF mainLoop \in {"requested", "stopping", "dead"}
                               THEN "lost" ELSE "queued"])
    /\ UNCHANGED <<now, published, client, roomVars, appVars, switchVars,
                   leaveVars, forgotten>>

\* native_approval_send_is_current
SendIsCurrent(c) ==
    /\ ~inFlight
    /\ client = c.account
    /\ <<client, c.room>> \in joined

SendStep(i, from, to) ==
    /\ sends[i].stage = from
    /\ sends' = [sends EXCEPT ![i].stage = to]
    /\ UNCHANGED <<sessionVars, now, published, client, roomVars, appVars,
                   switchVars, leaveVars, forgotten>>

WorkerTakes(i) ==
    /\ mainLoop \in {"serving", "requested"}
    /\ \/ SendIsCurrent(sends[i].claim) /\ SendStep(i, "queued", "preparing")
       \/ SendStep(i, "queued", "failed")   \* no timeline, or not current

\* Mutated form of PreparationFails: the task ends without posting a result.
PreparationFailsSilently(i) == SendStep(i, "preparing", "lost")

PreparationFails(i) == SendStep(i, "preparing", "failed")

PreparationEnds(i) ==
    \/ SendIsCurrent(sends[i].claim) /\ SendStep(i, "preparing", "sending")
    \/ ~SendIsCurrent(sends[i].claim) /\ SendStep(i, "preparing", "failed")

\* Mutated form of SendReturns: an error of the send counts as one before it.
SendReturnsFailed(i) ==
    SendStep(i, "sending", "sent") \/ SendStep(i, "sending", "failed")

SendReturns(i) ==
    SendStep(i, "sending", "sent") \/ SendStep(i, "sending", "unknown")

ResultOf(stage) ==
    CASE stage = "failed"  -> "ConfirmedPreSendFailure"
      [] stage = "unknown" -> "OutcomeUnknown"
      [] OTHER             -> "Sent"

\* handle_approval_results, for the result of send i.
HandleSendResult(i) ==
    LET c == sends[i].claim  result == ResultOf(sends[i].stage)
    IN  /\ sends[i].stage \in {"failed", "unknown", "sent"} /\ ~sends[i].handled
        /\ \/ client = c.account /\ RecordSendResult(c, result)
           \/ /\ \/ client # c.account
                 \/ c \notin DOMAIN claims
                 \/ result = "ConfirmedPreSendFailure" /\ ~MayRelease(c)
              /\ UNCHANGED sessionVars
        /\ sends' = [sends EXCEPT ![i].handled = TRUE]
        /\ UNCHANGED <<now, published, client, roomVars, appVars, switchVars,
                       leaveVars, forgotten>>

-----------------------------------------------------------------------------
(* What drops session state.                                               *)

Drop(places) == Forget(places) /\ forgotten' = forgotten \cup places

RuntimePlaces == {p \in Places : p[1] = approvalAccount}

\* sync_approval_membership: on the ten-second timer and before discovery
\* results and navigation are handled.
SyncMembership ==
    LET account == IF suspended THEN None ELSE client
        loaded == {r \in listed : <<account, r>> \in joined}
        left == IF approvalAccount = account
                THEN {p \in RuntimePlaces : p[2] \in approvalJoined \ loaded}
                ELSE RuntimePlaces
    IN  /\ Drop(left)
        /\ approvalAccount' = account
        /\ approvalJoined' = loaded
        /\ UNCHANGED <<now, published, sends, client, roomVars, suspended,
                       switchVars, leaveVars>>

\* The account leaves the room or is removed from it, and may come back.  The
\* rooms list hears of the current account's removals and tells the App.
LeaveRoom(p) ==
    /\ p \in joined /\ leaves < MaxLeaves
    /\ joined' = joined \ {p} /\ leaves' = leaves + 1
    /\ IF p[1] = client
       THEN purges' = purges \cup {p[2]} /\ listed' = listed \ {p[2]}
       ELSE UNCHANGED <<purges, listed>>
    /\ UNCHANGED <<sessionVars, now, published, sends, client, appVars,
                   switchVars, forgotten>>
RejoinRoom(p) ==
    /\ p \in Members \ joined
    /\ joined' = joined \cup {p}
    /\ UNCHANGED <<sessionVars, now, published, sends, client, listed, appVars,
                   switchVars, leaveVars, forgotten>>

\* room_list_service_loop: a Reset or Clear of the room list empties the UI's
\* list at once; the rooms come back one by one.
ListResets ==
    /\ leaves < MaxLeaves /\ listed # {}
    /\ listed' = {} /\ leaves' = leaves + 1
    /\ UNCHANGED <<sessionVars, now, published, sends, client, joined, appVars,
                   switchVars, purges, forgotten>>
ListAdds(r) ==
    /\ <<client, r>> \in joined /\ r \notin listed
    /\ listed' = listed \cup {r}
    /\ UNCHANGED <<sessionVars, now, published, sends, client, joined, appVars,
                   switchVars, leaveVars, forgotten>>

\* purge_room_ui_state: for the account of the App now, whichever left.
PurgeRoom(r) ==
    /\ r \in purges /\ purges' = purges \ {r}
    /\ Drop({p \in RuntimePlaces : p[2] = r})
    /\ approvalJoined' = IF approvalAccount = None THEN approvalJoined
                         ELSE approvalJoined \ {r}
    /\ UNCHANGED <<now, published, sends, client, roomVars, approvalAccount,
                   suspended, switchVars, leaves>>

-----------------------------------------------------------------------------
(* The account switch.                                                     *)

RequestSwitch(a) ==
    /\ client \notin {a, None} /\ mainLoop = "serving" /\ ~inFlight
    /\ switches < MaxSwitches
    /\ inFlight' = TRUE /\ mainLoop' = "requested" /\ target' = a
    /\ switches' = switches + 1
    /\ UNCHANGED <<sessionVars, now, published, sends, client, roomVars, appVars,
                   restoring, uiQueue, leaveVars, forgotten>>

MainStep(from, to, post) ==
    /\ mainLoop = from /\ mainLoop' = to
    /\ uiQueue' = Append(uiQueue, post)
    /\ UNCHANGED <<sessionVars, now, published, sends, joined, appVars, inFlight,
                   target, switches, leaveVars, forgotten>>

\* Requests submitted before the switch are received first.
WorkerTakesSwitch ==
    /\ \A i \in DOMAIN sends : sends[i].stage # "queued"
    /\ MainStep("requested", "stopping", "Starting")
    /\ UNCHANGED <<client, listed, restoring>>

MainTearsDown ==
    /\ MainStep("stopping", "torn", "Starting")
    /\ client' = None /\ listed' = {}
    /\ UNCHANGED restoring

RestoreSessionFails ==
    MainStep("torn", "dead", "Failed") /\ UNCHANGED <<client, listed, restoring>>

\* The new client is installed before the sync service is built for it.
MainInstalls ==
    /\ mainLoop = "torn" /\ mainLoop' = "installed" /\ client' = target
    /\ UNCHANGED <<sessionVars, now, published, sends, roomVars, appVars, inFlight,
                   target, restoring, uiQueue, switches, leaveVars, forgotten>>

SyncServiceFails ==
    MainStep("installed", "dead", "Failed") /\ UNCHANGED <<client, listed, restoring>>

MainLoadsAppState ==
    /\ mainLoop = "installed" /\ mainLoop' = "starting" /\ restoring' = TRUE
    /\ UNCHANGED <<sessionVars, now, published, sends, client, roomVars, appVars,
                   inFlight, target, uiQueue, switches, leaveVars, forgotten>>

MainResumes ==
    MainStep("starting", "serving", "Switched") /\ UNCHANGED <<client, listed, restoring>>

\* handle_load_app_state: a state is found and posted, or there is none.
AppStateLoaded ==
    /\ restoring /\ restoring' = FALSE
    /\ uiQueue' \in {uiQueue, Append(uiQueue, "Restore")}
    /\ UNCHANGED <<sessionVars, now, published, sends, client, roomVars, appVars,
                   inFlight, mainLoop, target, switches, leaveVars, forgotten>>

Handles(post) ==
    /\ uiQueue # << >> /\ Head(uiQueue) = post /\ uiQueue' = Tail(uiQueue)
    /\ UNCHANGED <<now, published, sends, client, roomVars, mainLoop, target,
                   restoring, switches, leaveVars>>

UiStarting ==
    /\ Handles("Starting") /\ Drop(RuntimePlaces)
    /\ approvalAccount' = None /\ approvalJoined' = {} /\ suspended' = TRUE
    /\ UNCHANGED inFlight

UiSwitchEnds ==
    /\ Handles("Switched") \/ Handles("Failed")
    /\ inFlight' = FALSE /\ suspended' = FALSE
    /\ UNCHANGED <<sessionVars, approvalAccount, approvalJoined, forgotten>>

\* The restored AppState brings a session of its own, which is empty.
UiRestores ==
    /\ Handles("Restore") /\ Drop(Places)
    /\ approvalAccount' = None /\ approvalJoined' = {}
    /\ UNCHANGED <<suspended, inFlight>>

-----------------------------------------------------------------------------
ClockTicks ==
    /\ Tick
    /\ UNCHANGED <<published, sends, client, roomVars, appVars, switchVars, leaveVars,
                   forgotten>>

SendProgress(i) ==
    \/ WorkerTakes(i) \/ PreparationFails(i) \/ PreparationEnds(i)
    \/ SendReturns(i) \/ HandleSendResult(i)

NextVerdicts ==
    \/ \E m \in Messages : PublishRequest(m)
    \/ \E m \in Messages, p \in published : PublishStatus(p, m)
    \/ \E r \in Rooms, m \in Messages : Fold(r, m)
    \/ \E c \in ClaimKey, act \in VerdictAction : Click(c, act)
    \/ \E i \in DOMAIN sends : SendProgress(i)
    \/ SyncMembership
    \/ \E p \in Places : LeaveRoom(p) \/ RejoinRoom(p)
    \/ ListResets
    \/ \E r \in Rooms : PurgeRoom(r) \/ ListAdds(r)
    \/ \E a \in Accounts : RequestSwitch(a)
    \/ WorkerTakesSwitch \/ MainTearsDown \/ RestoreSessionFails
    \/ MainInstalls \/ SyncServiceFails \/ MainLoadsAppState \/ MainResumes
    \/ AppStateLoaded \/ UiStarting \/ UiSwitchEnds \/ UiRestores
    \/ ClockTicks

SpecVerdicts == InitVerdicts /\ [][NextVerdicts]_verdictVars

\* The tokio runtime runs a spawned task to its end and matrix-sdk bounds a
\* send with its own timeout; every action posted to the UI thread is handled;
\* a pane folds every item of its timeline at each update.
VerdictFairness ==
    /\ \A i \in 1..MaxSends :
          WF_verdictVars(i \in DOMAIN sends /\ SendProgress(i))
    /\ \A r \in Rooms, m \in Messages : WF_verdictVars(Fold(r, m))

-----------------------------------------------------------------------------
Send == [claim : ClaimKey, action : VerdictAction, handled : BOOLEAN, stage : Stage]

VerdictsTypeOK ==
    /\ TypeOK
    /\ published \subseteq Messages
    /\ sends \in [DOMAIN sends -> Send] /\ DOMAIN sends \subseteq 1..MaxSends
    /\ client \in Accounts \cup {None} /\ joined \subseteq Members
    /\ listed \subseteq Rooms
    /\ inFlight \in BOOLEAN
    /\ mainLoop \in {"serving", "requested", "stopping", "torn",
                     "installed", "starting", "dead"}
    /\ target \in Accounts \cup {None} /\ restoring \in BOOLEAN
    /\ uiQueue \in Seq(UiAction)
    /\ approvalAccount \in Accounts \cup {None} /\ approvalJoined \subseteq Rooms
    /\ suspended \in BOOLEAN
    /\ purges \subseteq Rooms
    /\ switches \in 0..MaxSwitches /\ leaves \in 0..MaxLeaves
    /\ forgotten \subseteq Places

PlaceOf(c) == <<c.account, c.room>>
\* The verdict may have reached the homeserver.
Started(i) == sends[i].stage \in {"sending", "unknown", "sent"}

\* One verdict per request: for as long as the session has not dropped a
\* room's state, at most one send is ever started for a request of the room,
\* so no two verdicts, agreeing or not, can reach the publisher.
OneVerdictPerRequest ==
    \A i, j \in DOMAIN sends :
        /\ Started(i) /\ Started(j)
        /\ KeyOf(sends[i].claim) = KeyOf(sends[j].claim)
        /\ PlaceOf(sends[i].claim) \notin forgotten
        => i = j

\* The path from the click to the result implements what OneTimeVerdict
\* promises.
Dropped(k) == <<k.account, k.room>> \in forgotten
PhaseOf(k) ==
    IF Dropped(k) THEN "dropped"
    ELSE IF k \in DOMAIN records /\ Terminal(records[k].state) THEN "closed"
    ELSE IF \E c \in DOMAIN claims : KeyOf(c) = k THEN "held"
    ELSE "open"
SentOf(k) ==
    IF Dropped(k) THEN 0
    ELSE Cardinality({i \in DOMAIN sends : Started(i) /\ KeyOf(sends[i].claim) = k})

Promise == INSTANCE OneTimeVerdict WITH Keys <- RequestKey,
                phase <- [k \in RequestKey |-> PhaseOf(k)],
                sent <- [k \in RequestKey |-> SentOf(k)]

ImplementsOneTimeVerdict == Promise!OneTimeSpec

\* The fold of an honest publisher's messages, in any order and repeated, is
\* one of them and never a conflict.
FoldIsPublished ==
    \A k \in DOMAIN records :
        /\ ~records[k].conflicted
        /\ \E m \in published :
              /\ m.request = k.request /\ m.binding = records[k].binding
              /\ m.revision = records[k].revision
              /\ m.state = records[k].state /\ m.decision = records[k].decision

\* Whatever the order, the fold reaches at least every revision published
\* (while nothing is dropped: the run allows no switch, leave or restore).
FoldCatchesUp ==
    \A p \in Members, m \in Messages :
        LET k == [account |-> p[1], room |-> p[2], request |-> m.request]
        IN  (m \in published /\ client = p[1])
              ~> (k \in DOMAIN records /\ records[k].revision >= m.revision)

\* A card does not stay `submitting' for ever: the claim gets an outcome, is
\* given back, or is overtaken by a decision or by the request's expiry.
ClaimIsResolved ==
    \A c \in ClaimKey :
        (c \in DOMAIN claims /\ claims[c] = "Claimed")
          ~> \/ c \notin DOMAIN claims
             \/ claims[c] # "Claimed"
             \/ now >= records[KeyOf(c)].expiresAt

\* "send attempted implies shared claim AND exact owner AND pending AND
\* unexpired" (specs/task-approval-state-navigation.spec.md).
SendAttemptHoldsClaim ==
    [][\A i \in DOMAIN sends :
          ~Started(i) /\ sends'[i].stage = "sending" =>
             LET c == sends[i].claim
             IN  /\ c \in DOMAIN claims
                 /\ records[KeyOf(c)].state = "Pending"
                 /\ now < records[KeyOf(c)].expiresAt]_verdictVars
=============================================================================
