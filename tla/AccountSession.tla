--------------------------- MODULE AccountSession ----------------------------
(***************************************************************************)
(* The session of the client: the main task that logs in, monitors the     *)
(* session and tears it down (start_matrix_client_login_and_sync), the     *)
(* worker that takes the requests of the UI (matrix_worker_task), the      *)
(* switch from one account to another, the expiry of an access token, and  *)
(* what the UI thread (app.rs) sees of them.  SyncLifecycle, which this    *)
(* module extends, starts and stops the sync service of the session.       *)
(*                                                                         *)
(* A login stands for every way to get a client: the restored session,     *)
(* password, CLI, SSO, OIDC and registration all end in the channel that   *)
(* the main task reads.                                                    *)
(***************************************************************************)
EXTENDS SyncLifecycle, FiniteSets

CONSTANTS
    Wishes,       \* the lifecycle events that can come: FALSE is the background
    Faults,       \* which of "service" and "token" can fail
    MaxRequests,  \* bound: requests in the worker's channel
    MaxPosted     \* bound: unhandled actions with which the user goes on clicking

ASSUME SessionAssumption == /\ Wishes \subseteq BOOLEAN
                            /\ Faults \subseteq {"service", "token"}
                            /\ MaxRequests \in Nat \ {0}
                            /\ MaxPosted \in Nat \ {0}

VARIABLES
    main,       \* where the main task is
    client,     \* CLIENT
    accounts,   \* AccountManager.accounts
    active,     \* AccountManager.active_account_id
    target,     \* ACCOUNT_SWITCH_TARGET
    goal,       \* target_user_id of the switch that the main task carries out
    loginBox,   \* the main task's login channel, of capacity one
    reauth,     \* the token expired: the main task resets the session
    resetSent,  \* a SessionResetAction waits for the main task
    watching,   \* handle_session_changes of the session runs
    token,      \* whether the homeserver still takes the session's token
    tokenFlag,  \* TOKEN_EXPIRED
    sender,     \* REQUEST_SENDER is there
    receiver,   \* who holds the other end of it
    requests,   \* the requests in that channel
    worker,     \* what the worker does
    linked,     \* where its login sender leads: to the main task, or to nobody
    ui,         \* App::auth_ui_state
    adding,     \* AppState::adding_account
    inFlight,   \* ACCOUNT_SWITCH_IN_FLIGHT
    posted,     \* the actions posted to the UI thread
    panicked    \* a request was sent to a dropped receiver

accountVars == <<client, accounts, active, target, goal>>
tokenVars == <<reauth, resetSent, watching, token, tokenFlag>>
mainVars == <<main, accountVars, tokenVars>>
channelVars == <<loginBox, sender, receiver, requests, worker, linked>>
uiVars == <<ui, adding, inFlight, panicked>>
sessionVars == <<syncVars, mainVars, channelVars, uiVars, posted>>

Requests == [kind : {"switch", "login", "add"}, account : Users]
Actions == {"LoginSuccess", "LoginFailure", "AddAccountSuccess", "Switched", "Failed"}

SessionTypeOK ==
    /\ SyncTypeOK
    /\ main \in {"login", "building", "starting", "monitoring", "leaving", "resetting",
                 "restoring", "restarting", "switched", "returned"}
    /\ {client, target, goal, active, loginBox} \subseteq Users \union {None}
    /\ accounts \subseteq Users
    /\ token \in {"good", "bad"}
    /\ receiver \in {"main", "worker", "dropped"}
    /\ requests \in Seq(Requests)
    /\ worker \in {"running", "adding", "stopping", "returning", "ended"}
    /\ ui \in {"checking", "out", "in"}
    /\ posted \in Seq(Actions)
    /\ linked \in {"main", "nobody", "full"}
    /\ {reauth, resetSent, watching, tokenFlag, sender, adding, inFlight, panicked}
           \subseteq BOOLEAN

\* The program starts: the worker runs, and the main task has a saved session
\* to restore or shows the login screen.
SessionInit ==
    /\ SyncInit
    /\ main = "login"
    /\ client = None /\ target = None /\ goal = None /\ active = None
    /\ accounts = {}
    /\ loginBox \in Users \union {None}
    /\ reauth = FALSE /\ resetSent = FALSE /\ watching = FALSE /\ tokenFlag = FALSE
    /\ adding = FALSE /\ inFlight = FALSE /\ panicked = FALSE
    /\ token = "good"
    /\ sender = TRUE
    /\ linked = "main"
    /\ receiver = "worker"
    /\ requests = <<>>
    /\ worker = "running"
    /\ ui = IF loginBox = None THEN "out" ELSE "checking"
    /\ posted = <<>>

Post(action) == posted' = Append(posted, action)

----------------------------------------------------------------------------
(* The main task: login.                                                   *)

LoginIsDue == main = "login" /\ loginBox # None

\* A login request is taken, or the saved session restored.
LogsIn ==
    /\ LoginIsDue
    /\ client' = loginBox
    /\ accounts' = accounts \union {loginBox}
    /\ active' = IF accounts = {} THEN loginBox ELSE active
    /\ main' = "building"
    /\ loginBox' = None
    /\ token' = "good"
    /\ UNCHANGED <<syncVars, target, goal, reauth, resetSent, watching, tokenFlag, sender,
                   receiver, requests, worker, linked, uiVars, posted>>

LoginFails ==
    /\ LoginIsDue
    /\ loginBox' = None
    /\ Post("LoginFailure")
    /\ UNCHANGED <<syncVars, mainVars, sender, receiver, requests, worker, linked, uiVars>>

\* No login can come any more: the task posts a failure and returns.
LoginHangsUp ==
    /\ main = "login"
    /\ loginBox = None
    /\ linked # "main"
    /\ main' = "returned"
    /\ Post("LoginFailure")
    /\ UNCHANGED <<syncVars, accountVars, tokenVars, channelVars, uiVars>>

\* SyncService::build succeeds, and the session is set up.
SetsUp ==
    /\ main = "building"
    /\ InstallService(client)
    /\ Post("LoginSuccess")
    /\ main' = "starting"
    /\ watching' = TRUE
    /\ resetSent' = FALSE
    /\ UNCHANGED <<accountVars, reauth, tokenFlag, channelVars, uiVars, token>>

BuildFails ==
    /\ main = "building"
    /\ client' = None
    /\ Post("LoginFailure")
    /\ main' = "login"
    /\ UNCHANGED <<syncVars, accounts, active, target, goal, tokenVars, channelVars, uiVars>>

----------------------------------------------------------------------------
(* The main task: a monitored session, and what ends it.                   *)

\* Mutated form of Monitors: a session switched to is not monitored.
MonitorsFirst == main = "monitoring"

Monitors == main \in {"monitoring", "switched"}

\* The session was reset: in the first session the task will clean up and ask
\* for a login, in one that was switched to it posts a failure.
SeesReset ==
    /\ Monitors
    /\ resetSent
    /\ resetSent' = FALSE
    /\ main' = "leaving"
    /\ reauth' = (reauth \/ main = "monitoring")
    /\ IF main = "switched" THEN Post("Failed") ELSE UNCHANGED posted
    /\ UNCHANGED <<syncVars, accountVars, watching, tokenFlag, channelVars, uiVars, token>>

\* The worker, the room list loop or the space loop has ended.
SeesEnd(ended) ==
    /\ Monitors
    /\ ended
    /\ main' = "leaving"
    /\ watching' = FALSE
    /\ UNCHANGED <<syncVars, accountVars, reauth, resetSent, tokenFlag, channelVars, uiVars,
                   posted, token>>

\* Mutated form of ActiveAfter: only the first account is made active.
ActiveAfterFirst(a) == IF accounts = {} THEN a ELSE active

\* set_active_account
ActiveAfter(a) == IF a \in accounts THEN a ELSE active

\* A switch is due: the state of the old account is dropped, the new one made
\* active, and a fresh channel stored for the requests to come.
TearsDown ==
    /\ main = "leaving"
    /\ target # None
    /\ DropService
    /\ client' = None
    /\ goal' = target
    /\ active' = ActiveAfter(target)
    /\ target' = None
    /\ sender' = TRUE
    /\ receiver' = "main"
    /\ requests' = <<>>
    /\ worker' = "ended"
    /\ linked' = "nobody"
    /\ main' = "restoring"
    /\ UNCHANGED <<accounts, tokenVars, loginBox, uiVars, posted>>

\* Mutated form of AfterSession: the task returns with the expired session.
AfterSessionReturns == IF reauth THEN "returned" ELSE "login"

\* Else the expired session is reset, or the next login awaited.
AfterSession == IF reauth THEN "resetting" ELSE "login"

LeavesSession ==
    /\ main = "leaving"
    /\ target = None
    /\ main' = AfterSession
    /\ UNCHANGED <<syncVars, accountVars, tokenVars, channelVars, uiVars, posted>>

\* reset_runtime_state_for_relogin: the service is taken, then stopped ...
TakesExpiredService ==
    /\ main = "resetting"
    /\ service # None
    /\ TakeService
    /\ worker' = IF worker = "stopping" THEN "returning" ELSE worker
    /\ UNCHANGED <<desired, assumed, mainVars, loginBox, sender, receiver, requests, linked,
                   uiVars, posted>>

\* ... and the rest of the session cleared.
ResetsSession ==
    /\ main = "resetting"
    /\ service = None
    /\ assumed' = FALSE
    /\ client' = None
    /\ reauth' = FALSE
    /\ main' = "login"
    /\ Post("LoginFailure")
    /\ UNCHANGED <<desired, service, run, lockQueue, held, listener, heard, accounts, active,
                   target, goal, resetSent, watching, tokenFlag, channelVars, uiVars, token>>

----------------------------------------------------------------------------
(* The main task: the session switched to.                                 *)

\* Mutated form of DropsChannel: the UI keeps its sender.
DropsReceiver == receiver' = "dropped" /\ UNCHANGED sender

\* No worker will come for the channel stored: REQUEST_SENDER is cleared.
DropsChannel == receiver' = "dropped" /\ sender' = FALSE

RestoreFails ==
    /\ main = "restoring"
    /\ DropsChannel
    /\ Post("Failed")
    /\ main' = AfterSession
    /\ goal' = None
    /\ UNCHANGED <<syncVars, client, accounts, active, target, tokenVars, loginBox, requests,
                   worker, linked, uiVars>>

\* The session is restored, but its sync service cannot be built.
RebuildFails ==
    /\ main = "restoring"
    /\ client' = goal
    /\ DropsChannel
    /\ Post("Failed")
    /\ main' = "returned"
    /\ goal' = None
    /\ UNCHANGED <<syncVars, accounts, active, target, tokenVars, loginBox, requests,
                   worker, linked, uiVars>>

Restores ==
    /\ main = "restoring"
    /\ client' = goal
    /\ InstallService(goal)
    /\ main' = "restarting"
    /\ goal' = None
    /\ token' = "good"
    /\ UNCHANGED <<accounts, active, target, reauth, resetSent, watching, tokenFlag,
                   channelVars, uiVars, posted>>

\* A reconciliation ends.  The one the main task awaits lets it go on: it
\* monitors the session, after a switch with a new worker.
Reconciles ==
    /\ Apply
    /\ LET goesOn == Len(lockQueue') < Len(lockQueue) /\ Head(lockQueue) = "main"
       IN  \/ /\ goesOn
              /\ main = "restarting"
              /\ main' = "switched"
              /\ worker' = "running"
              /\ receiver' = "worker"
              /\ watching' = TRUE
              /\ resetSent' = FALSE
              /\ Post("Switched")
              /\ UNCHANGED <<accountVars, reauth, tokenFlag, loginBox, sender, requests,
                             linked, token>>
           \/ /\ goesOn
              /\ main = "starting"
              /\ main' = "monitoring"
              /\ UNCHANGED <<accountVars, tokenVars, channelVars, posted>>
           \/ ~goesOn /\ UNCHANGED <<mainVars, channelVars, posted>>
    /\ UNCHANGED uiVars

----------------------------------------------------------------------------
(* The worker.                                                             *)

Takes(kind) == /\ worker = "running"
              /\ receiver = "worker"
              /\ requests # <<>>
              /\ Head(requests).kind = kind
              /\ requests' = Tail(requests)

\* A switch to the active account is ignored; else the target is set, and the
\* service of the old account told to stop.
TakesSwitch ==
    /\ Takes("switch")
    /\ IF Head(requests).account = active
         THEN UNCHANGED <<target, worker>>
         ELSE /\ target' = Head(requests).account
              /\ worker' = IF service = None THEN "returning" ELSE "stopping"
    /\ UNCHANGED <<syncVars, main, client, accounts, active, goal, tokenVars, loginBox, sender,
                   receiver, linked, uiVars, posted>>

\* The service has stopped, whoever had it started: the worker returns, and
\* its end of the channel goes with it.
WorkerReturns ==
    /\ worker \in {"stopping", "returning"}
    /\ worker' = "ended"
    /\ receiver' = "dropped"
    /\ requests' = <<>>
    /\ linked' = "nobody"
    /\ IF worker = "stopping" THEN run' = "idle" /\ heard' = FALSE ELSE UNCHANGED <<run, heard>>
    /\ UNCHANGED <<desired, assumed, service, lockQueue, held, listener, mainVars, loginBox,
                   sender, uiVars, posted>>

\* A login goes to the main task; the send waits for room in its channel.
\* The worker of a session switched to has a channel that nobody reads, until
\* the main task drops its end.
TakesLogin ==
    /\ Takes("login")
    /\ \/ /\ linked = "main" /\ loginBox = None
          /\ loginBox' = Head(requests).account
          /\ UNCHANGED <<linked, posted>>
       \/ /\ linked = "nobody" /\ main = "switched"
          /\ linked' = "full"
          /\ UNCHANGED <<loginBox, posted>>
       \/ /\ linked # "main" /\ main # "switched"
          /\ Post("LoginFailure")
          /\ UNCHANGED <<loginBox, linked>>
    /\ UNCHANGED <<syncVars, mainVars, sender, receiver, worker, uiVars>>

\* An account is added by the worker itself, which takes nothing meanwhile.
TakesAdd ==
    /\ worker = "running"
    /\ receiver = "worker"
    /\ requests # <<>>
    /\ Head(requests).kind = "add"
    /\ worker' = "adding"
    /\ UNCHANGED <<syncVars, mainVars, loginBox, sender, receiver, requests, linked, uiVars,
                   posted>>

AddsAccount ==
    /\ worker = "adding"
    /\ worker' = "running"
    /\ requests' = Tail(requests)
    /\ \/ /\ accounts' = accounts \union {Head(requests).account}
          /\ active' = IF accounts = {} THEN Head(requests).account ELSE active
          /\ Post("AddAccountSuccess")
       \/ Post("LoginFailure") /\ UNCHANGED <<accounts, active>>
    /\ UNCHANGED <<syncVars, main, client, target, goal, tokenVars, loginBox, sender, receiver,
                   linked, uiVars>>

----------------------------------------------------------------------------
(* The session's token, and the listener of the service.                   *)

\* The homeserver rejects the token from now on.
TokenGoesBad ==
    /\ "token" \in Faults
    /\ token = "good"
    /\ client # None
    /\ token' = "bad"
    /\ UNCHANGED <<syncVars, main, accountVars, reauth, resetSent, watching, tokenFlag,
                   channelVars, uiVars, posted>>

\* handle_session_changes reports it, once.
ReportsToken ==
    /\ watching
    /\ token = "bad"
    /\ watching' = FALSE
    /\ tokenFlag' = TRUE
    /\ resetSent' = TRUE
    /\ Post("LoginFailure")
    /\ UNCHANGED <<syncVars, main, accountVars, reauth, token, channelVars, uiVars>>

\* The listener hears an error: one of the token stops the service for good.
Listens ==
    /\ \/ token = "good" /\ ListenerHears /\ UNCHANGED tokenFlag
       \/ /\ token = "bad"
          /\ ErrorIsNew
          /\ assumed' = FALSE
          /\ tokenFlag' = TRUE
          /\ run' = "idle"
          /\ listener' = "ended"
          /\ UNCHANGED <<desired, service, lockQueue, held, heard>>
    /\ UNCHANGED <<main, accountVars, reauth, resetSent, watching, token, channelVars, uiVars,
                   posted>>

\* Any other update after a token was rejected ends the listener.
ListenerEnds ==
    /\ tokenFlag
    /\ listener = "watching"
    /\ run = "running"
    /\ listener' = "ended"
    /\ UNCHANGED <<desired, assumed, service, run, lockQueue, held, heard, mainVars,
                   channelVars, uiVars, posted>>

----------------------------------------------------------------------------
(* The UI thread.                                                          *)

\* The oldest action is handled.
Handles ==
    /\ posted # <<>>
    /\ posted' = Tail(posted)
    /\ LET action == Head(posted)
           failure == action = "LoginFailure" /\ ~adding
       IN  /\ inFlight' = (inFlight /\ action \notin {"Switched", "Failed"})
           /\ adding' = (adding /\ action \notin {"LoginSuccess", "AddAccountSuccess"})
           /\ ui' = IF action = "LoginSuccess" THEN "in" ELSE IF failure THEN "out" ELSE ui
    /\ UNCHANGED <<syncVars, mainVars, channelVars, panicked>>

\* submit_async_request: nothing happens without a sender; the thread panics
\* when the receiver is gone.
Submit(request) ==
    /\ Len(requests) < MaxRequests
    /\ Len(posted) < MaxPosted
    /\ panicked' = (sender /\ receiver = "dropped")
    /\ requests' = IF sender /\ receiver # "dropped" THEN Append(requests, request) ELSE requests
    /\ UNCHANGED <<syncVars, mainVars, loginBox, sender, receiver, worker, linked, ui, adding,
                   posted>>

Choices == accounts \ {active}

\* request_switch_account, for an account of the menu.
ClicksSwitch ==
    /\ ui = "in"
    /\ ~inFlight
    /\ inFlight' = TRUE
    /\ \E a \in Choices : Submit([kind |-> "switch", account |-> a])

ClicksLogin ==
    /\ \/ ui = "out" /\ ~adding /\ \E a \in Users : Submit([kind |-> "login", account |-> a])
       \/ adding /\ \E a \in Users \ accounts : Submit([kind |-> "add", account |-> a])
    /\ UNCHANGED inFlight

\* The screen to add an account is opened, or left.
TogglesAdding ==
    /\ ui = "in"
    /\ adding' = ~adding
    /\ UNCHANGED <<syncVars, mainVars, channelVars, ui, inFlight, panicked, posted>>

\* Any other request of the UI, that a worker would take.
SubmitsOther ==
    /\ sender
    /\ receiver = "dropped"
    /\ panicked' = TRUE
    /\ UNCHANGED <<syncVars, mainVars, channelVars, ui, adding, inFlight, posted>>

\* The app resumes, or goes to the foreground or the background.
ChangesLifecycle ==
    /\ \E wish \in Wishes : SetDesired(wish)
    /\ UNCHANGED <<mainVars, channelVars, uiVars, posted>>

Fails ==
    /\ "service" \in Faults \/ token = "bad"
    /\ ServiceFails
    /\ UNCHANGED <<mainVars, channelVars, uiVars, posted>>

----------------------------------------------------------------------------
MainTask == \/ LogsIn \/ LoginFails \/ LoginHangsUp \/ SetsUp \/ BuildFails
            \/ SeesReset \/ SeesEnd(worker = "ended") \/ TearsDown \/ LeavesSession
            \/ TakesExpiredService \/ ResetsSession
            \/ RestoreFails \/ RebuildFails \/ Restores

WorkerTask == TakesSwitch \/ WorkerReturns \/ TakesLogin \/ TakesAdd \/ AddsAccount

Environment == \/ TokenGoesBad \/ Fails \/ ChangesLifecycle
               \/ SeesEnd(worker = "running")  \* a loop of the session has ended
               \/ ClicksSwitch \/ ClicksLogin \/ TogglesAdding \/ SubmitsOther

SessionNext ==
    /\ ~panicked
    /\ \/ MainTask \/ WorkerTask \/ Reconciles \/ ReportsToken \/ Listens \/ ListenerEnds
       \/ Handles \/ Environment

SessionSpec == SessionInit /\ [][SessionNext]_sessionVars

\* tokio polls each task that can go on, and the UI thread its actions.
SessionFairness ==
    /\ WF_sessionVars(~panicked /\ MainTask)
    /\ WF_sessionVars(~panicked /\ WorkerTask)
    /\ WF_sessionVars(~panicked /\ Reconciles)
    /\ WF_sessionVars(~panicked /\ ReportsToken)
    /\ WF_sessionVars(~panicked /\ Listens)
    /\ WF_sessionVars(~panicked /\ Handles)

FairSession == SessionSpec /\ SessionFairness

----------------------------------------------------------------------------
(* Properties.                                                             *)

\* A session that was switched to is one account's throughout: the client,
\* the service and the account shown as active (TearsDown, Restores).
SwitchedIsWhole ==
    main \in {"restarting", "switched"} => client = service /\ service = active

\* A request meets a dropped receiver only between the worker's return for a
\* switch and the channel that replaces it, or when the main task is gone or
\* will never see the switch.
DroppedOnlyInHandover ==
    (sender /\ receiver = "dropped") => (worker = "ended" /\ target # None)

\* A request to switch frees its guard, unless the main task returns.
SwitchResolves == inFlight ~> (~inFlight \/ main = "returned" \/ panicked)

\* When the token of the session that was logged in to expires, and no switch
\* comes in between, the main task waits for the next login (SeesReset,
\* reset_runtime_state_for_relogin).
FirstExpiryAwaitsLogin ==
    (resetSent /\ main = "monitoring" /\ linked = "main")
        ~> ((main = "login" /\ linked = "main") \/ target # None \/ panicked)
=============================================================================
