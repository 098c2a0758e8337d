------------------------------ MODULE LogoutFlow ------------------------------
(***************************************************************************)
(* Logging out (logout_state_machine.rs): one state machine per request    *)
(* stops the sync service, asks the homeserver to end the session, and     *)
(* past a point of no return clears the client and restarts the tokio      *)
(* runtime.  The confirmation modal (logout_confirm_modal.rs) follows it;  *)
(* "Abort" only closes the modal, so that a second machine can be started  *)
(* while the first one waits for the homeserver.                           *)
(***************************************************************************)
EXTENDS SyncLifecycle

CONSTANT MaxLogouts  \* bound: logout requests

ASSUME LogoutAssumption == MaxLogouts \in Nat \ {0}

VARIABLES
    logouts,    \* the stage of every logout requested, in order
    ponr,       \* LOGOUT_POINT_OF_NO_RETURN
    inProgress, \* LOGOUT_IN_PROGRESS
    requestable,\* REQUEST_SENDER is there
    loggedIn,   \* what the UI shows
    modal,      \* the confirmation modal
    news        \* actions posted to the UI thread

uiSide == <<loggedIn, modal>>
logoutVars == <<syncVars, logouts, ponr, inProgress, requestable, uiSide, news>>

Before == {"queued", "stopping", "server", "restarting"}
Beyond == {"beyond", "tabs", "tabsClosed", "clearing", "cleared"}
Ended == {"done", "failed", "broken", "killed"}
Stage == Before \union Beyond \union Ended
News == [kind : {"CloseAllTabs", "ClearAppState", "LogoutFailure", "RequiresRestart",
                 "LogoutSuccess"}, of : 1..MaxLogouts]

LogoutTypeOK ==
    /\ SyncTypeOK
    /\ logouts \in Seq(Stage) /\ Len(logouts) <= MaxLogouts
    /\ {ponr, inProgress, requestable, loggedIn} \subseteq BOOLEAN
    /\ modal \in {"closed", "asking", "waiting", "failed", "restart"}
    /\ news \in Seq(News)

LogoutInit ==
    /\ SyncInit
    /\ logouts = <<>>
    /\ ponr = FALSE /\ inProgress = FALSE /\ loggedIn = FALSE
    /\ requestable = TRUE
    /\ modal = "closed"
    /\ news = <<>>

Tell(kind, i) == news' = Append(news, [kind |-> kind, of |-> i])
Goes(i, from, to) == logouts[i] = from /\ logouts' = [logouts EXCEPT ![i] = to]

----------------------------------------------------------------------------
(* The state machine.                                                      *)

\* handle_error resets the flag, unless the session is gone.
StaysInProgress == inProgress /\ ponr

\* The machine fails, and says so: with a session whose parts are gone the
\* application must be restarted.
Fails(i, from, to, kind) ==
    /\ Goes(i, from, to)
    /\ inProgress' = StaysInProgress
    /\ Tell(kind, i)
    /\ UNCHANGED <<ponr, requestable, uiSide>>

\* execute() starts over with the flags, then looks for a client to log out.
Begins(i) ==
    /\ ponr' = FALSE
    /\ IF service # None
         THEN Goes(i, "queued", "stopping") /\ inProgress' = TRUE /\ UNCHANGED news
         ELSE Goes(i, "queued", "failed") /\ inProgress' = FALSE /\ Tell("RequiresRestart", i)
    /\ UNCHANGED <<syncVars, requestable, uiSide>>

\* The service is stopped, and the logout sent to the homeserver.
StopsService(i) ==
    /\ service # None
    /\ Goes(i, "stopping", "server")
    /\ run' = "idle"
    /\ heard' = FALSE
    /\ UNCHANGED <<desired, assumed, service, lockQueue, held, listener, ponr, inProgress,
                   requestable, uiSide, news>>

\* Mutated form of FindsNothing: the machine waits for a service.
FindsNothingYet(i) == FALSE

\* The service, or the client to log out, is gone.
FindsNothing(i) ==
    /\ service = None
    /\ \/ Fails(i, "stopping", "failed", "RequiresRestart")
       \/ Fails(i, "server", "failed", "RequiresRestart")
    /\ UNCHANGED syncVars

\* Logged out; or the token is no longer known, or the homeserver out of reach
\* within the timeout: the local logout goes on all the same.
ServerLogsOut(i) ==
    /\ Goes(i, "server", "beyond")
    /\ ponr' = TRUE
    /\ UNCHANGED <<syncVars, inProgress, requestable, uiSide, news>>

\* Mutated form of RunAfterRefusal: the service stays stopped.
RunAfterRefusalIdle == run

RunAfterRefusal == IF service = None THEN run ELSE "running"

\* Any other answer: the session goes on, and so does its service, if any.
ServerRefuses(i) ==
    /\ Goes(i, "server", "restarting")
    /\ UNCHANGED <<syncVars, ponr, inProgress, requestable, uiSide, news>>

RestartsService(i) ==
    /\ Fails(i, "restarting", "failed", "LogoutFailure")
    /\ run' = RunAfterRefusal
    /\ UNCHANGED <<desired, assumed, service, lockQueue, held, listener, heard>>

\* The tabs of a desktop are closed by the UI thread, within a timeout.
AsksForTabs(i) ==
    /\ Goes(i, "beyond", "tabs")
    /\ Tell("CloseAllTabs", i)
    /\ UNCHANGED <<syncVars, ponr, inProgress, requestable, uiSide>>

\* clear_app_state: the statics are taken, then the UI thread clears its own.
Clears(i) ==
    /\ Goes(i, "tabsClosed", "clearing") \/ Goes(i, "beyond", "clearing")
    /\ DropService
    /\ requestable' = FALSE
    /\ Tell("ClearAppState", i)
    /\ UNCHANGED <<ponr, inProgress, uiSide>>

TimesOut(i) ==
    /\ Fails(i, "tabs", "broken", "LogoutFailure") \/ Fails(i, "clearing", "broken", "LogoutFailure")
    /\ UNCHANGED syncVars

\* Mutated form of Killed: the runtime waits for nobody, and drops nobody.
KilledNone(i) == [logouts EXCEPT ![i] = "done"]

\* The other logouts, that run on the same runtime, end with it.
Killed(i) == [j \in DOMAIN logouts |->
                 IF j = i THEN "done" ELSE IF logouts[j] \in Ended THEN logouts[j] ELSE "killed"]

\* Every task of the runtime is dropped, with the locks it holds, and a fresh
\* main task started.
RestartsRuntime(i) ==
    /\ logouts[i] = "cleared"
    /\ logouts' = Killed(i)
    /\ lockQueue' = <<>>
    /\ held' = None
    /\ listener' = "ended"
    /\ requestable' = TRUE
    /\ inProgress' = FALSE
    /\ Tell("LogoutSuccess", i)
    /\ UNCHANGED <<desired, assumed, service, run, heard, ponr, uiSide>>

Machine(i) ==
    \/ Begins(i) \/ StopsService(i) \/ FindsNothing(i) \/ ServerLogsOut(i) \/ ServerRefuses(i)
    \/ RestartsService(i) \/ AsksForTabs(i) \/ Clears(i) \/ TimesOut(i) \/ RestartsRuntime(i)

----------------------------------------------------------------------------
(* The UI thread.                                                          *)

OpensModal == modal = "closed" /\ modal' = "asking" /\ UNCHANGED logouts
ClosesModal == modal # "closed" /\ modal' = "closed" /\ UNCHANGED logouts

\* Without a sender the request goes nowhere, and the modal waits all the same.
Confirms ==
    /\ modal = "asking"
    /\ modal' = "waiting"
    /\ Len(logouts) < MaxLogouts
    /\ logouts' = IF requestable THEN Append(logouts, "queued") ELSE logouts

UsesModal ==
    /\ loggedIn
    /\ OpensModal \/ ClosesModal \/ Confirms
    /\ UNCHANGED <<syncVars, ponr, inProgress, requestable, loggedIn, news>>

\* What the modal shows after an action: it hears none while it is closed.
ModalAfter(kind) ==
    CASE kind = "LogoutSuccess" -> "closed"
      [] kind = "RequiresRestart" /\ modal # "closed" -> "restart"
      [] kind = "LogoutFailure" /\ modal # "closed" -> IF ponr THEN "restart" ELSE "failed"
      [] OTHER -> modal

\* The machine's request was carried out, if it still waits for that.
Notified(kind, i) ==
    CASE kind = "CloseAllTabs" /\ logouts[i] = "tabs" -> [logouts EXCEPT ![i] = "tabsClosed"]
      [] kind = "ClearAppState" /\ logouts[i] = "clearing" -> [logouts EXCEPT ![i] = "cleared"]
      [] OTHER -> logouts

HandlesNews ==
    /\ news # <<>>
    /\ news' = Tail(news)
    /\ modal' = ModalAfter(Head(news).kind)
    /\ logouts' = Notified(Head(news).kind, Head(news).of)
    /\ loggedIn' = (loggedIn /\ Head(news).kind # "LogoutSuccess")
    /\ UNCHANGED <<syncVars, ponr, inProgress, requestable>>

\* The main task of a fresh runtime logs in.
LogsInAgain ==
    /\ ~loggedIn
    /\ requestable
    /\ \E a \in Users : SetUp(a)
    /\ loggedIn' = TRUE
    /\ UNCHANGED <<logouts, ponr, inProgress, requestable, modal, news>>

Syncs == /\ Apply \/ ListenerHears \/ ServiceFails \/ \E wish \in BOOLEAN : SetDesired(wish)
         /\ UNCHANGED <<logouts, ponr, inProgress, requestable, uiSide, news>>

LogoutNext ==
    \/ \E i \in DOMAIN logouts : Machine(i)
    \/ UsesModal \/ HandlesNews \/ LogsInAgain \/ Syncs

LogoutSpec == LogoutInit /\ [][LogoutNext]_logoutVars

\* The machines' tasks are polled and their waits bounded by timeouts, and the
\* UI thread handles its actions.
FairLogout ==
    /\ LogoutSpec
    /\ \A i \in 1..MaxLogouts : WF_logoutVars(i \in DOMAIN logouts /\ Machine(i))
    /\ WF_logoutVars(HandlesNews)

----------------------------------------------------------------------------
(* Properties.                                                             *)

Active(i) == logouts[i] \notin Ended
Idle == \A i \in DOMAIN logouts : ~Active(i)
Broken == \E i \in DOMAIN logouts : logouts[i] = "broken"

\* Every logout that was asked for ends, with two of them in each other's way
\* (execute, and the kill by the other's restart of the runtime).
LogoutEnds ==
    \A i \in 1..MaxLogouts :
        (i \in DOMAIN logouts) ~> (i \in DOMAIN logouts /\ ~Active(i))

\* The flag that hides the end of the background tasks does not stay behind:
\* without a logout at work it stands only after one that broke the session.
FlagIsReset == (inProgress /\ Idle) => Broken

\* The login screen that a logout leads to finds nothing of the session: no
\* service, and no other logout under way that could take the next session
\* down (clear_app_state, shutdown_background_tasks).
LoginScreenIsClean ==
    ~loggedIn => /\ service = None
                 /\ \A i \in DOMAIN logouts : logouts[i] \in Ended \union {"queued"}

\* Logouts that failed before the point of no return leave a session that
\* still syncs in the foreground, whoever started and stopped it meanwhile.
FailedLogoutKeepsSession ==
    (loggedIn /\ \A i \in DOMAIN logouts : logouts[i] = "failed") => ForegroundSyncs
=============================================================================
