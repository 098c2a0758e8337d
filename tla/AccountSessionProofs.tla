------------------------- MODULE AccountSessionProofs -------------------------
(***************************************************************************)
(* What AccountSession keeps of SyncLifecycle's argument: logins, switches *)
(* and expired tokens replace the service while reconciliations are under  *)
(* way, and none of them leaves a client in the background that syncs.     *)
(***************************************************************************)
EXTENDS AccountSession, SyncLifecycleProofs

LEMMA QuietSessionInit ==
    ASSUME SessionInit
    PROVE  QuietInv
  BY QuietInit DEF SessionInit

\* The main task touches the service when it installs, drops or takes it.
LEMMA QuietMain ==
    ASSUME QuietInv, MainTask
    PROVE  QuietInv'
  <1>1. CASE SetsUp
    BY <1>1, QuietInstall DEF SetsUp
  <1>2. CASE Restores
    BY <1>2, QuietInstall DEF Restores
  <1>3. CASE TearsDown
    BY <1>3, QuietTake DEF TearsDown, DropService
  <1>4. CASE TakesExpiredService
    <2>1. TakeService /\ assumed' = assumed /\ desired' = desired
      BY <1>4 DEF TakesExpiredService
    <2> QED
      BY <2>1, QuietTake DEF QuietInv, QueueType
  <1>5. CASE ResetsSession
    <2>1. /\ run' = run /\ assumed' = FALSE
          /\ UNCHANGED <<desired, service, lockQueue, held>>
      BY <1>5 DEF ResetsSession
    <2>2. run # "running"
      BY <1>5 DEF ResetsSession, QuietInv, RunningIsAssumed
    <2> QED
      BY <2>1, <2>2, QuietHalt
  <1>6. CASE LogsIn \/ LoginFails \/ LoginHangsUp \/ BuildFails \/ SeesReset
              \/ SeesEnd(worker = "ended") \/ LeavesSession \/ RestoreFails \/ RebuildFails
    <2>1. UNCHANGED syncVars
      BY <1>6 DEF LogsIn, LoginFails, LoginHangsUp, BuildFails, SeesReset, SeesEnd,
                  LeavesSession, RestoreFails, RebuildFails
    <2> QED
      BY <2>1, QuietStutter DEF syncVars
  <1> QED
    BY <1>1, <1>2, <1>3, <1>4, <1>5, <1>6 DEF MainTask

\* The worker touches it when it has it stopped for a switch.
LEMMA QuietWorker ==
    ASSUME QuietInv, WorkerTask
    PROVE  QuietInv'
  <1>1. CASE WorkerReturns
    <2>1. UNCHANGED <<desired, assumed, service, lockQueue, held>>
      BY <1>1 DEF WorkerReturns
    <2>2. CASE run' = "idle"
      BY <2>1, <2>2, QuietHalt
    <2>3. CASE run' = run
      BY <2>1, <2>3, QuietStutter
    <2> QED
      BY <1>1, <2>2, <2>3 DEF WorkerReturns
  <1>2. CASE TakesSwitch \/ TakesLogin \/ TakesAdd \/ AddsAccount
    <2>1. UNCHANGED syncVars
      BY <1>2 DEF TakesSwitch, TakesLogin, TakesAdd, AddsAccount
    <2> QED
      BY <2>1, QuietStutter DEF syncVars
  <1> QED
    BY <1>1, <1>2 DEF WorkerTask

\* The listener restarts the service after an error, or stops it for good.
LEMMA QuietSessionListens ==
    ASSUME QuietInv, Listens
    PROVE  QuietInv'
  <1>1. CASE ListenerHears
    BY <1>1, QuietListens
  <1>2. CASE /\ assumed' = FALSE /\ run' = "idle"
             /\ UNCHANGED <<desired, service, lockQueue, held, heard>>
    BY <1>2, QuietHalt
  <1> QED
    BY <1>1, <1>2 DEF Listens

LEMMA QuietEnvironment ==
    ASSUME QuietInv, Environment
    PROVE  QuietInv'
  <1>1. CASE ChangesLifecycle
    <2>1. PICK wish \in Wishes : SetDesired(wish)
      BY <1>1 DEF ChangesLifecycle
    <2> QED
      BY <2>1, QuietWish, SessionAssumption
  <1>2. CASE Fails
    BY <1>2, QuietHalt DEF Fails, ServiceFails
  <1>3. CASE TokenGoesBad \/ SeesEnd(worker = "running") \/ ClicksSwitch \/ ClicksLogin
              \/ TogglesAdding \/ SubmitsOther
    <2>1. UNCHANGED syncVars
      BY <1>3 DEF TokenGoesBad, SeesEnd, ClicksSwitch, ClicksLogin, TogglesAdding,
                  SubmitsOther, Submit
    <2> QED
      BY <2>1, QuietStutter DEF syncVars
  <1> QED
    BY <1>1, <1>2, <1>3 DEF Environment

LEMMA QuietNext ==
    ASSUME QuietInv, [SessionNext]_sessionVars
    PROVE  QuietInv'
  <1>1. CASE MainTask
    BY <1>1, QuietMain
  <1>2. CASE WorkerTask
    BY <1>2, QuietWorker
  <1>3. CASE Reconciles
    BY <1>3, QuietApply DEF Reconciles
  <1>4. CASE Listens
    BY <1>4, QuietSessionListens
  <1>5. CASE ReportsToken \/ Handles \/ UNCHANGED sessionVars
    <2>1. UNCHANGED syncVars
      BY <1>5 DEF ReportsToken, Handles, sessionVars
    <2> QED
      BY <2>1, QuietStutter DEF syncVars
  <1>6. CASE ListenerEnds
    BY <1>6, QuietStutter DEF ListenerEnds
  <1>7. CASE Environment
    BY <1>7, QuietEnvironment
  <1> QED
    BY <1>1, <1>2, <1>3, <1>4, <1>5, <1>6, <1>7 DEF SessionNext

\* However often accounts are switched, tokens expire and services fail while
\* reconciliations wait for the lock: once they have settled, a client in the
\* background does not sync (apply_sync_service_desired_state).
THEOREM QuietSession == SessionSpec => []BackgroundIsQuiet
  <1>1. SessionInit => QuietInv
    BY QuietSessionInit
  <1>2. QuietInv /\ [SessionNext]_sessionVars => QuietInv'
    BY QuietNext
  <1>3. QuietInv => BackgroundIsQuiet
    BY QuietImplies
  <1> QED
    BY <1>1, <1>2, <1>3, PTL DEF SessionSpec

----------------------------------------------------------------------------
(* Switches.                                                               *)

\* The requests of the UI, and those to switch name accounts that are there.
RequestsType ==
    /\ requests \in Seq(Requests)
    /\ worker = "adding" => requests # <<>>
    /\ \A i \in DOMAIN requests : requests[i].kind = "switch" => requests[i].account \in accounts

\* The account to switch to is there, was made the active one, and then got
\* the client and the service.
GoalIsActive ==
    /\ target # None => target \in accounts
    /\ main \in {"restoring", "restarting", "switched"} => accounts # {}
    /\ main = "restoring" => goal = active
    /\ SwitchedIsWhole

WholeInv == RequestsType /\ GoalIsActive

\* The accounts that are known, and the one that the main task is to log in.
AccountsType ==
    /\ accounts \subseteq Users
    /\ loginBox \in Users \union {None}

\* A step that neither takes a request nor touches the session keeps both.
LEMMA WholeStutter ==
    ASSUME WholeInv, UNCHANGED <<requests, worker, accounts, target, main, goal, active, client,
                                 service>>
    PROVE  WholeInv'
  BY DEF WholeInv, RequestsType, GoalIsActive, SwitchedIsWhole

\* A step of the main task on its way to a session that was not switched to.
LEMMA WholeElsewhere ==
    ASSUME WholeInv, UNCHANGED <<requests, target>>, worker' # "adding" \/ worker' = worker,
           accounts \subseteq accounts', main' \notin {"restoring", "restarting", "switched"}
    PROVE  WholeInv'
  <1>1. RequestsType'
    BY DEF WholeInv, RequestsType
  <1>2. GoalIsActive'
    BY DEF WholeInv, GoalIsActive, SwitchedIsWhole
  <1> QED
    BY <1>1, <1>2 DEF WholeInv

\* A request leaves the queue.
LEMMA WholeTail ==
    ASSUME WholeInv, requests # <<>>, requests' = Tail(requests), worker' # "adding",
           accounts \subseteq accounts'
    PROVE  RequestsType'
  <1>1. requests \in Seq(Requests) /\ requests # <<>>
    BY DEF WholeInv, RequestsType
  <1>2. requests' \in Seq(Requests) /\ Len(requests') = Len(requests) - 1
    BY <1>1
  <1>3. \A i \in DOMAIN requests' : /\ i + 1 \in DOMAIN requests
                                    /\ requests'[i] = requests[i + 1]
    BY <1>1, <1>2
  <1> QED
    BY <1>2, <1>3 DEF WholeInv, RequestsType

LEMMA WholeMain ==
    ASSUME WholeInv, MainTask
    PROVE  WholeInv'
  <1>1. CASE LogsIn
    BY <1>1, WholeElsewhere DEF LogsIn
  <1>2. CASE LoginHangsUp \/ BuildFails \/ SeesReset \/ SeesEnd(worker = "ended") \/ ResetsSession
    BY <1>2, WholeElsewhere DEF LoginHangsUp, BuildFails, SeesReset, SeesEnd, ResetsSession,
                                channelVars, accountVars, syncVars
  <1>3. CASE LeavesSession
    <2>1. main' \in {"login", "resetting"} /\ UNCHANGED <<requests, target, worker, accounts>>
      BY <1>3 DEF LeavesSession, AfterSession, channelVars, accountVars
    <2> QED
      BY <2>1, WholeElsewhere
  <1>4. CASE RestoreFails
    <2>1. main' \in {"login", "resetting"} /\ UNCHANGED <<requests, target, worker, accounts>>
      BY <1>4 DEF RestoreFails, AfterSession
    <2> QED
      BY <2>1, WholeElsewhere
  <1>5. CASE RebuildFails
    BY <1>5, WholeElsewhere DEF RebuildFails
  <1>6. CASE SetsUp
    BY <1>6, WholeElsewhere DEF SetsUp, channelVars, accountVars
  <1>7. CASE TakesExpiredService
    <2>1. /\ main' = "resetting" /\ UNCHANGED <<requests, target, accounts>>
          /\ worker' = worker \/ worker' = "returning"
      BY <1>7 DEF TakesExpiredService, mainVars, accountVars
    <2> QED
      BY <2>1, WholeElsewhere
  <1>8. CASE LoginFails
    BY <1>8, WholeStutter DEF LoginFails, mainVars, accountVars, syncVars
  <1>9. CASE TearsDown
    <2>1. RequestsType'
      BY <1>9 DEF TearsDown, RequestsType
    <2>2. target \in accounts /\ goal' = target /\ active' = target /\ main' = "restoring"
      BY <1>9 DEF TearsDown, ActiveAfter, WholeInv, GoalIsActive
    <2>3. accounts' = accounts /\ target' = None
      BY <1>9 DEF TearsDown
    <2> QED
      BY <2>1, <2>2, <2>3 DEF WholeInv, GoalIsActive, SwitchedIsWhole
  <1>10. CASE Restores
    <2>1. /\ main = "restoring" /\ main' = "restarting"
          /\ client' = goal /\ service' = goal
          /\ UNCHANGED <<requests, worker, accounts, active, target>>
      BY <1>10 DEF Restores, InstallService, channelVars
    <2>2. RequestsType'
      BY <2>1 DEF WholeInv, RequestsType
    <2> QED
      BY <2>1, <2>2 DEF WholeInv, GoalIsActive, SwitchedIsWhole
  <1> QED
    BY <1>1, <1>2, <1>3, <1>4, <1>5, <1>6, <1>7, <1>8, <1>9, <1>10 DEF MainTask

LEMMA WholeWorker ==
    ASSUME WholeInv, WorkerTask
    PROVE  WholeInv'
  <1>1. CASE TakesSwitch
    <2>1. /\ requests # <<>> /\ requests' = Tail(requests) /\ worker' # "adding"
          /\ UNCHANGED <<main, client, accounts, active, goal, service>>
          /\ target' = target \/ target' = Head(requests).account
          /\ Head(requests).kind = "switch"
      BY <1>1 DEF TakesSwitch, Takes, syncVars
    <2>2. RequestsType'
      BY <2>1, WholeTail
    <2>3. Head(requests).account \in accounts
      <3>1. requests \in Seq(Requests) /\ requests # <<>>
        BY <2>1 DEF WholeInv, RequestsType
      <3>2. 1 \in DOMAIN requests /\ Head(requests) = requests[1]
        BY <3>1
      <3> QED
        BY <2>1, <3>2 DEF WholeInv, RequestsType
    <2> QED
      BY <2>1, <2>2, <2>3 DEF WholeInv, GoalIsActive, SwitchedIsWhole
  <1>2. CASE WorkerReturns
    <2>1. /\ requests' = <<>> /\ worker' = "ended"
          /\ UNCHANGED <<main, accounts, target, goal, active, client, service>>
      BY <1>2 DEF WorkerReturns, mainVars, accountVars
    <2> QED
      BY <2>1 DEF WholeInv, RequestsType, GoalIsActive, SwitchedIsWhole
  <1>3. CASE TakesLogin
    <2>1. /\ requests # <<>> /\ requests' = Tail(requests) /\ worker' # "adding"
          /\ UNCHANGED <<main, accounts, target, goal, active, client, service>>
      BY <1>3 DEF TakesLogin, Takes, mainVars, accountVars, syncVars
    <2>2. RequestsType'
      BY <2>1, WholeTail
    <2> QED
      BY <2>1, <2>2 DEF WholeInv, GoalIsActive, SwitchedIsWhole
  <1>4. CASE TakesAdd
    <2>1. /\ requests # <<>>
          /\ UNCHANGED <<requests, main, accounts, target, goal, active, client, service>>
      BY <1>4 DEF TakesAdd, mainVars, accountVars, syncVars
    <2> QED
      BY <2>1 DEF WholeInv, RequestsType, GoalIsActive, SwitchedIsWhole
  <1>5. CASE AddsAccount
    <2>1. /\ requests # <<>> /\ requests' = Tail(requests) /\ worker' # "adding"
          /\ UNCHANGED <<main, target, goal, client, service>>
          /\ accounts \subseteq accounts'
          /\ active' = active \/ accounts = {}
      BY <1>5 DEF AddsAccount, syncVars, WholeInv, RequestsType
    <2>2. RequestsType'
      BY <2>1, WholeTail
    <2> QED
      BY <2>1, <2>2 DEF WholeInv, GoalIsActive, SwitchedIsWhole
  <1> QED
    BY <1>1, <1>2, <1>3, <1>4, <1>5 DEF WorkerTask

\* The UI's requests: only accounts of the menu are switched to.
LEMMA WholeSubmit ==
    ASSUME WholeInv, NEW r \in Requests, Submit(r), r.kind = "switch" => r.account \in accounts
    PROVE  WholeInv'
  <1>1. /\ UNCHANGED <<worker, accounts, target, main, goal, active, client, service>>
        /\ requests' = Append(requests, r) \/ requests' = requests
    BY DEF Submit, mainVars, accountVars, syncVars
  <1>2. CASE requests' = requests
    BY <1>1, <1>2, WholeStutter
  <1>3. CASE requests' = Append(requests, r)
    <2>1. requests \in Seq(Requests)
      BY DEF WholeInv, RequestsType
    <2>2. requests' \in Seq(Requests) /\ requests' # <<>>
      BY <1>3, <2>1
    <2>3. \A i \in DOMAIN requests' :
             requests'[i] = r \/ (i \in DOMAIN requests /\ requests'[i] = requests[i])
      BY <1>3, <2>1
    <2>4. RequestsType'
      BY <1>1, <2>2, <2>3 DEF WholeInv, RequestsType
    <2> QED
      BY <1>1, <2>4 DEF WholeInv, GoalIsActive, SwitchedIsWhole
  <1> QED
    BY <1>1, <1>2, <1>3

LEMMA WholeEnvironment ==
    ASSUME WholeInv, AccountsType, Environment
    PROVE  WholeInv'
  <1>1. CASE SeesEnd(worker = "running")
    BY <1>1, WholeElsewhere DEF SeesEnd, channelVars, accountVars
  <1>2. CASE ClicksSwitch
    <2>1. PICK a \in Choices : Submit([kind |-> "switch", account |-> a])
      BY <1>2 DEF ClicksSwitch
    <2>2. a \in Users /\ a \in accounts
      BY <2>1 DEF Choices, AccountsType
    <2>3. [kind |-> "switch", account |-> a] \in Requests
      BY <2>2 DEF Requests
    <2> QED
      BY <2>1, <2>2, <2>3, WholeSubmit
  <1>3. CASE ClicksLogin
    <2>1. PICK kind \in {"login", "add"}, a \in Users : Submit([kind |-> kind, account |-> a])
      BY <1>3 DEF ClicksLogin
    <2>2. [kind |-> kind, account |-> a] \in Requests
      BY <2>1 DEF Requests
    <2> QED
      BY <2>1, <2>2, WholeSubmit
  <1>4. CASE TokenGoesBad \/ Fails \/ ChangesLifecycle \/ TogglesAdding \/ SubmitsOther
    BY <1>4, WholeStutter DEF TokenGoesBad, Fails, ServiceFails, ChangesLifecycle, SetDesired,
           TogglesAdding, SubmitsOther, mainVars, accountVars, channelVars, syncVars
  <1> QED
    BY <1>1, <1>2, <1>3, <1>4 DEF Environment

\* A reconciliation that the main task awaits ends its set-up.
LEMMA WholeReconciles ==
    ASSUME WholeInv, Reconciles
    PROVE  WholeInv'
  <1>1. service' = service
    BY DEF Reconciles, Apply, ApplyLooks, Release, ApplyCalls, ApplyRecords
  <1>2. CASE UNCHANGED <<mainVars, channelVars, posted>>
    BY <1>1, <1>2, WholeStutter DEF mainVars, accountVars, channelVars
  <1>3. CASE /\ main = "restarting" /\ main' = "switched" /\ worker' = "running"
             /\ UNCHANGED <<requests, accountVars>>
    BY <1>1, <1>3 DEF accountVars, WholeInv, RequestsType, GoalIsActive, SwitchedIsWhole
  <1>4. CASE main' = "monitoring" /\ UNCHANGED <<accountVars, channelVars>>
    BY <1>4, WholeElsewhere DEF accountVars, channelVars
  <1> QED
    BY <1>2, <1>3, <1>4 DEF Reconciles

\* Logins are the users' ones, and the accounts those that logged in.
LEMMA AccountsNext ==
    ASSUME WholeInv, AccountsType, [SessionNext]_sessionVars
    PROVE  AccountsType'
  <1>1. CASE LogsIn
    BY <1>1 DEF LogsIn, LoginIsDue, AccountsType
  <1>2. CASE LoginFails
    BY <1>2 DEF LoginFails, mainVars, accountVars, AccountsType
  <1>3. requests # <<>> => Head(requests).account \in Users
    <2>1. requests \in Seq(Requests)
      BY DEF WholeInv, RequestsType
    <2>2. requests # <<>> => Head(requests) \in Requests
      BY <2>1
    <2> QED
      BY <2>2 DEF Requests
  <1>4. CASE TakesLogin
    BY <1>3, <1>4 DEF TakesLogin, Takes, mainVars, accountVars, AccountsType
  <1>5. CASE AddsAccount
    BY <1>3, <1>5 DEF AddsAccount, WholeInv, RequestsType, AccountsType
  <1>6. CASE UNCHANGED <<accounts, loginBox>>
    BY <1>6 DEF AccountsType
  <1>7. CASE MainTask
    <2>1. LogsIn \/ LoginFails \/ UNCHANGED <<accounts, loginBox>>
      BY <1>7 DEF MainTask, LoginHangsUp, SetsUp, BuildFails, SeesReset, SeesEnd, TearsDown,
             LeavesSession, TakesExpiredService, ResetsSession, RestoreFails, RebuildFails,
             Restores, mainVars, accountVars, channelVars
    <2> QED
      BY <1>1, <1>2, <1>6, <2>1
  <1>8. CASE WorkerTask
    <2>1. TakesLogin \/ AddsAccount \/ UNCHANGED <<accounts, loginBox>>
      BY <1>8 DEF WorkerTask, TakesSwitch, WorkerReturns, TakesAdd, mainVars, accountVars
    <2> QED
      BY <1>4, <1>5, <1>6, <2>1
  <1>9. CASE Reconciles \/ ReportsToken \/ Listens \/ ListenerEnds \/ Handles
    BY <1>6, <1>9 DEF Reconciles, ReportsToken, Listens, ListenerEnds, Handles, mainVars,
           accountVars, channelVars
  <1>10. CASE Environment
    BY <1>6, <1>10 DEF Environment, TokenGoesBad, Fails, ChangesLifecycle, SeesEnd, ClicksSwitch,
           ClicksLogin, TogglesAdding, SubmitsOther, Submit, mainVars, accountVars, channelVars
  <1>11. CASE UNCHANGED sessionVars
    BY <1>6, <1>11 DEF sessionVars, mainVars, accountVars, channelVars
  <1> QED
    BY <1>7, <1>8, <1>9, <1>10, <1>11 DEF SessionNext

LEMMA WholeNext ==
    ASSUME WholeInv, AccountsType, [SessionNext]_sessionVars
    PROVE  WholeInv'
  <1>1. CASE MainTask
    BY <1>1, WholeMain
  <1>2. CASE WorkerTask
    BY <1>2, WholeWorker
  <1>3. CASE Reconciles
    BY <1>3, WholeReconciles
  <1>4. CASE ReportsToken \/ Listens \/ ListenerEnds \/ Handles \/ UNCHANGED sessionVars
    BY <1>4, WholeStutter DEF ReportsToken, Listens, ListenerHears, ListenerEnds, Handles,
           sessionVars, mainVars, accountVars, channelVars, syncVars
  <1>5. CASE Environment
    BY <1>5, WholeEnvironment
  <1> QED
    BY <1>1, <1>2, <1>3, <1>4, <1>5 DEF SessionNext

\* Whatever tokens, services and builds fail on the way, and however requests
\* to switch follow each other: a session that was switched to has the client,
\* the service and the active account of one user (TearsDown, Restores).
THEOREM SwitchedAlwaysWhole == SessionSpec => []SwitchedIsWhole
  <1>1. SessionInit => WholeInv /\ AccountsType
    BY DEF SessionInit, SyncInit, WholeInv, RequestsType, GoalIsActive, SwitchedIsWhole,
           AccountsType
  <1>2. WholeInv /\ AccountsType /\ [SessionNext]_sessionVars => (WholeInv /\ AccountsType)'
    BY WholeNext, AccountsNext
  <1>3. WholeInv => SwitchedIsWhole
    BY DEF WholeInv, GoalIsActive
  <1> QED
    BY <1>1, <1>2, <1>3, PTL DEF SessionSpec

----------------------------------------------------------------------------
(* The hand-over from one worker to the next.                              *)

\* A worker stops for a switch only, so that there is one when it has dropped
\* its end of the channel.
HandoverInv ==
    /\ worker \in {"stopping", "returning"} => target # None
    /\ DroppedOnlyInHandover

LEMMA HandoverStutter ==
    ASSUME HandoverInv, UNCHANGED <<worker, target, sender, receiver>>
    PROVE  HandoverInv'
  BY DEF HandoverInv, DroppedOnlyInHandover

LEMMA HandoverMain ==
    ASSUME HandoverInv, MainTask
    PROVE  HandoverInv'
  <1>1. CASE TearsDown
    BY <1>1 DEF TearsDown, HandoverInv, DroppedOnlyInHandover
  <1>2. CASE RestoreFails \/ RebuildFails
    BY <1>2 DEF RestoreFails, RebuildFails, DropsChannel, HandoverInv, DroppedOnlyInHandover
  <1>3. CASE TakesExpiredService
    BY <1>3 DEF TakesExpiredService, mainVars, accountVars, HandoverInv, DroppedOnlyInHandover
  <1>4. CASE LogsIn \/ LoginFails \/ LoginHangsUp \/ SetsUp \/ BuildFails \/ SeesReset
              \/ SeesEnd(worker = "ended") \/ LeavesSession \/ ResetsSession \/ Restores
    BY <1>4, HandoverStutter DEF LogsIn, LoginFails, LoginHangsUp, SetsUp, BuildFails, SeesReset,
           SeesEnd, LeavesSession, ResetsSession, Restores, mainVars, accountVars, channelVars
  <1> QED
    BY <1>1, <1>2, <1>3, <1>4 DEF MainTask

LEMMA HandoverWorker ==
    ASSUME HandoverInv, WholeInv, AccountsType, WorkerTask
    PROVE  HandoverInv'
  <1>1. CASE TakesSwitch
    <2>1. requests \in Seq(Requests) /\ requests # <<>>
      BY <1>1 DEF TakesSwitch, Takes, WholeInv, RequestsType
    <2>2. Head(requests).account \in Users
      <3>1. Head(requests) \in Requests
        BY <2>1
      <3> QED
        BY <3>1 DEF Requests
    <2>3. Head(requests).account # None
      BY <2>2, SyncAssumption
    <2> QED
      BY <1>1, <2>3 DEF TakesSwitch, Takes, HandoverInv, DroppedOnlyInHandover
  <1>2. CASE WorkerReturns
    BY <1>2 DEF WorkerReturns, mainVars, accountVars, HandoverInv, DroppedOnlyInHandover
  <1>3. CASE TakesLogin
    BY <1>3, HandoverStutter DEF TakesLogin, mainVars, accountVars
  <1>4. CASE TakesAdd \/ AddsAccount
    BY <1>4 DEF TakesAdd, AddsAccount, mainVars, accountVars, HandoverInv, DroppedOnlyInHandover
  <1> QED
    BY <1>1, <1>2, <1>3, <1>4 DEF WorkerTask

LEMMA HandoverNext ==
    ASSUME HandoverInv, WholeInv, AccountsType, [SessionNext]_sessionVars
    PROVE  HandoverInv'
  <1>1. CASE MainTask
    BY <1>1, HandoverMain
  <1>2. CASE WorkerTask
    BY <1>2, HandoverWorker
  <1>3. CASE Reconciles
    <2>1. \/ UNCHANGED <<worker, target, sender, receiver>>
          \/ /\ worker' = "running" /\ receiver' = "worker"
             /\ UNCHANGED <<target, sender>>
      BY <1>3 DEF Reconciles, mainVars, accountVars, channelVars
    <2> QED
      BY <2>1, HandoverStutter DEF HandoverInv, DroppedOnlyInHandover
  <1>4. CASE \/ ReportsToken \/ Listens \/ ListenerEnds \/ Handles \/ Environment
             \/ UNCHANGED sessionVars
    BY <1>4, HandoverStutter DEF ReportsToken, Listens, ListenerEnds, Handles, Environment,
           TokenGoesBad, Fails, ChangesLifecycle, SeesEnd, ClicksSwitch, ClicksLogin,
           TogglesAdding, SubmitsOther, Submit, sessionVars, mainVars, accountVars, channelVars
  <1> QED
    BY <1>1, <1>2, <1>3, <1>4 DEF SessionNext

\* A request of the UI can meet a dropped receiver only while a switch is on its
\* way from the worker that returned to the main task, whatever else fails
\* (submit_async_request panics on it, matrix_worker_task).
THEOREM DroppedForSwitches == SessionSpec => []DroppedOnlyInHandover
  <1> DEFINE Inv == HandoverInv /\ WholeInv /\ AccountsType
  <1>1. SessionInit => Inv
    BY DEF SessionInit, SyncInit, WholeInv, RequestsType, GoalIsActive, SwitchedIsWhole,
           AccountsType, HandoverInv, DroppedOnlyInHandover
  <1>2. Inv /\ [SessionNext]_sessionVars => Inv'
    BY WholeNext, AccountsNext, HandoverNext
  <1>3. Inv => DroppedOnlyInHandover
    BY DEF HandoverInv
  <1> QED
    BY <1>1, <1>2, <1>3, PTL DEF SessionSpec
=============================================================================
