-------------------------- MODULE AccountFlowsProofs ---------------------------
(***************************************************************************)
(* Proofs about logging out and logging in through the browser: the flag   *)
(* of a logout in progress does not stay behind, the login screen it leads *)
(* to finds nothing of the old session, logouts that failed leave one that *)
(* still syncs, and the handle that cancels an OIDC flow is kept until the *)
(* flow is over or cancelled.  All of it for any number of logouts, flows, *)
(* requests and outcomes that overlap.  And the types of both, and of the  *)
(* app state that sessions load and save.                                  *)
(***************************************************************************)
EXTENDS LogoutFlow, OidcFlow, AppStateFile, SyncLifecycleProofs, TLAPS

----------------------------------------------------------------------------
(* Logging out.                                                            *)

\* What the logouts and the actions are, as far as the proofs need it.
Kinds == {"CloseAllTabs", "ClearAppState", "LogoutFailure", "RequiresRestart", "LogoutSuccess"}
Told == [kind : Kinds, of : Nat]
FlowType == logouts \in Seq(Stage) /\ news \in Seq(Told)

LEMMA StageNames ==
    /\ Stage = Before \union Beyond \union Ended
    /\ "failed" \in Ended /\ "broken" \in Ended /\ "done" \in Ended /\ "killed" \in Ended
    /\ \A s \in Before \union Beyond : s \notin Ended
    /\ \A s \in Before : s \notin Beyond
  BY DEF Stage, Before, Beyond, Ended

\* One logout goes to its next stage.
LEMMA GoesFacts ==
    ASSUME FlowType, NEW i \in DOMAIN logouts, NEW from, NEW to \in Stage, Goes(i, from, to)
    PROVE  /\ logouts' \in Seq(Stage)
           /\ DOMAIN logouts' = DOMAIN logouts
           /\ logouts[i] = from /\ logouts'[i] = to
           /\ \A j \in DOMAIN logouts : j # i => logouts'[j] = logouts[j]
  BY DEF Goes, FlowType

LEMMA TellFacts ==
    ASSUME FlowType, NEW kind \in Kinds, NEW i \in DOMAIN logouts, Tell(kind, i)
    PROVE  /\ news' \in Seq(Told)
           /\ Len(news) + 1 \in DOMAIN news' /\ news'[Len(news) + 1].kind = kind
           /\ \A n \in DOMAIN news : n \in DOMAIN news' /\ news'[n] = news[n] /\ n # Len(news) + 1
           /\ \A n \in DOMAIN news' : n \in DOMAIN news \/ n = Len(news) + 1
  <1> DEFINE new == [kind |-> kind, of |-> i]
  <1>1. i \in Nat
    BY DEF FlowType
  <1>2. new \in Told /\ new.kind = kind
    BY <1>1 DEF Told
  <1>3. news' = Append(news, new) /\ news \in Seq(Told)
    BY DEF Tell, FlowType
  <1> HIDE DEF new
  <1> QED
    BY <1>2, <1>3

LEMMA KilledFacts ==
    ASSUME FlowType, NEW i \in DOMAIN logouts, logouts' = Killed(i)
    PROVE  /\ logouts' \in Seq(Stage)
           /\ DOMAIN logouts' = DOMAIN logouts
           /\ \A j \in DOMAIN logouts' : logouts'[j] \in Ended
  <1>1. /\ DOMAIN logouts' = DOMAIN logouts
        /\ \A j \in DOMAIN logouts' : logouts'[j] \in Ended
    BY StageNames DEF Killed
  <1>2. logouts' \in [1..Len(logouts) -> Stage] /\ Len(logouts) \in Nat
    <2>1. DOMAIN logouts = 1..Len(logouts) /\ Len(logouts) \in Nat
      BY DEF FlowType
    <2> QED
      BY <1>1, <2>1, StageNames DEF Killed
  <1> QED
    BY <1>1, <1>2

\* The actions that say that somebody was logged out.
Successes == {n \in DOMAIN news : news[n].kind = "LogoutSuccess"}

\* An action other than that leaves them as they are.
LEMMA TellOther ==
    ASSUME FlowType, NEW kind \in Kinds, kind # "LogoutSuccess", NEW i \in DOMAIN logouts,
           Tell(kind, i)
    PROVE  news' \in Seq(Told) /\ Successes' = Successes
  BY TellFacts DEF Successes

\* The oldest action is taken from the rest of them.
LEMMA TailFacts ==
    ASSUME FlowType, news # <<>>, news' = Tail(news)
    PROVE  /\ news' \in Seq(Told)
           /\ Head(news) = news[1] /\ 1 \in DOMAIN news
           /\ \A n \in DOMAIN news' : n + 1 \in DOMAIN news /\ news'[n] = news[n + 1] /\ n + 1 # 1
           /\ DOMAIN news' \subseteq Nat
  BY DEF FlowType

----------------------------------------------------------------------------
(* The invariant.                                                          *)

\* Past the point of no return somebody is, or nobody is on the way there; and
\* the flag of a logout in progress stands for one at work, or a broken one.
FlagInv ==
    /\ ponr => \/ \E i \in DOMAIN logouts : logouts[i] \in Beyond \union {"broken"}
               \/ \A i \in DOMAIN logouts : logouts[i] \in Ended \union {"queued"}
    /\ inProgress => \E i \in DOMAIN logouts : logouts[i] \notin Ended \/ logouts[i] = "broken"

\* Nothing of the session is left, and nobody works on its end.
Clean == /\ service = None
         /\ \A i \in DOMAIN logouts : logouts[i] \in Ended \union {"queued"}

\* The one action that says that somebody was logged out finds the UI logged in.
CleanInv ==
    /\ ~loggedIn => Clean
    /\ \A m, n \in Successes : m = n /\ loggedIn /\ Clean
    /\ (\E i \in DOMAIN logouts : logouts[i] \in {"clearing", "cleared"}) => service = None

FlowInv == FlowType /\ FlagInv /\ CleanInv

\* A logout at work goes on to a stage at work, and leaves the flags.
LEMMA GoesOn ==
    ASSUME FlowInv, NEW i \in DOMAIN logouts, NEW from \in Stage, NEW to \in Stage, Goes(i, from, to),
           from \notin Ended \union {"queued"}, to \notin Ended \union {"queued"},
           from \in Beyond => to \in Beyond,
           to \in {"clearing", "cleared"} => service' = None,
           service' = service \/ service' = None,
           news' \in Seq(Told), Successes' = Successes, UNCHANGED <<inProgress, loggedIn>>,
           ponr' = ponr \/ to \in Beyond
    PROVE  FlowInv'
  <1>1. /\ logouts' \in Seq(Stage)
        /\ DOMAIN logouts' = DOMAIN logouts
        /\ logouts[i] = from /\ logouts'[i] = to
        /\ \A j \in DOMAIN logouts : j # i => logouts'[j] = logouts[j]
    BY GoesFacts DEF FlowInv
  <1>2. FlowType'
    BY <1>1 DEF FlowType
  <1>3. FlagInv'
    BY <1>1, StageNames DEF FlowInv, FlagInv
  <1>4. ~Clean
    BY <1>1 DEF Clean
  <1>5. CleanInv'
    BY <1>1, <1>4 DEF FlowInv, CleanInv
  <1> QED
    BY <1>2, <1>3, <1>5 DEF FlowInv

\* A logout fails.
LEMMA FailsWell ==
    ASSUME FlowInv, NEW i \in DOMAIN logouts, NEW from \in Stage, NEW to \in {"failed", "broken"},
           NEW kind \in Kinds, kind # "LogoutSuccess", Fails(i, from, to, kind),
           (from \in Beyond /\ to = "broken") \/ from \in {"stopping", "server", "restarting"},
           UNCHANGED service
    PROVE  FlowInv'
  <1>1. /\ logouts' \in Seq(Stage)
        /\ DOMAIN logouts' = DOMAIN logouts
        /\ logouts[i] = from /\ logouts'[i] = to
        /\ \A j \in DOMAIN logouts : j # i => logouts'[j] = logouts[j]
    BY GoesFacts, StageNames DEF FlowInv, Fails
  <1>2. news' \in Seq(Told) /\ Successes' = Successes
    BY TellOther DEF FlowInv, Fails
  <1>3. inProgress' = (inProgress /\ ponr) /\ UNCHANGED <<ponr, loggedIn>>
    BY DEF Fails, StaysInProgress, uiSide
  <1>4. FlowType'
    BY <1>1, <1>2 DEF FlowType
  <1>5. from \notin Ended \union {"queued"}
    BY DEF Ended, Beyond
  <1>6. ponr => \E j \in DOMAIN logouts' : logouts'[j] \in Beyond \union {"broken"}
    BY <1>1, <1>5, StageNames DEF FlowInv, FlagInv, Before, Beyond
  <1>7. FlagInv'
    BY <1>3, <1>6, StageNames DEF FlagInv
  <1>8. ~Clean
    BY <1>1, <1>5 DEF Clean
  <1>9. CleanInv'
    BY <1>1, <1>2, <1>3, <1>8 DEF FlowInv, CleanInv
  <1> QED
    BY <1>4, <1>7, <1>9 DEF FlowInv

LEMMA BeginsWell ==
    ASSUME FlowInv, NEW i \in DOMAIN logouts, Begins(i)
    PROVE  FlowInv'
  <1>1. ponr' = FALSE /\ UNCHANGED <<service, loggedIn>>
    BY DEF Begins, syncVars, uiSide
  <1>2. CASE service # None
    <2>1. Goes(i, "queued", "stopping") /\ UNCHANGED news
      BY <1>2 DEF Begins
    <2>2. /\ logouts' \in Seq(Stage)
          /\ DOMAIN logouts' = DOMAIN logouts
          /\ logouts'[i] = "stopping"
          /\ \A j \in DOMAIN logouts : j # i => logouts'[j] = logouts[j]
      BY <2>1, GoesFacts DEF FlowInv, Stage, Before
    <2>3. FlowType' /\ Successes' = Successes
      BY <2>1, <2>2 DEF FlowInv, FlowType, Successes
    <2>4. FlagInv'
      BY <1>1, <2>2 DEF FlagInv, Ended
    <2>5. CleanInv'
      BY <1>1, <1>2, <2>2, <2>3 DEF FlowInv, CleanInv, Clean
    <2> QED
      BY <2>3, <2>4, <2>5 DEF FlowInv
  <1>3. CASE service = None
    <2>1. Goes(i, "queued", "failed") /\ inProgress' = FALSE /\ Tell("RequiresRestart", i)
      BY <1>3 DEF Begins
    <2>2. /\ logouts' \in Seq(Stage)
          /\ DOMAIN logouts' = DOMAIN logouts
          /\ logouts'[i] = "failed" /\ "failed" \in Ended
          /\ \A j \in DOMAIN logouts : j # i => logouts'[j] = logouts[j]
      BY <2>1, GoesFacts, StageNames DEF FlowInv
    <2>3. news' \in Seq(Told) /\ Successes' = Successes
      BY <2>1, TellOther DEF FlowInv, Kinds
    <2>4. FlowType' /\ FlagInv'
      <3>1. FlagInv'
        BY <1>1, <2>1, Zenon DEF FlagInv
      <3> QED
        BY <2>2, <2>3, <3>1 DEF FlowType
    <2>5. Clean => Clean'
      BY <1>1, <2>2 DEF Clean
    <2>6. service' = None
      BY <1>1, <1>3
    <2>7. \A m, n \in Successes : m = n /\ loggedIn /\ Clean
      BY DEF FlowInv, CleanInv
    <2>8. CleanInv'
      BY <1>1, <2>3, <2>5, <2>6, <2>7 DEF FlowInv, CleanInv
    <2> QED
      BY <2>4, <2>8 DEF FlowInv
  <1> QED
    BY <1>2, <1>3

\* The runtime is restarted, and every logout ends with it.
LEMMA RestartsWell ==
    ASSUME FlowInv, NEW i \in DOMAIN logouts, RestartsRuntime(i)
    PROVE  FlowInv'
  <1>1. /\ logouts' \in Seq(Stage) /\ DOMAIN logouts' = DOMAIN logouts
        /\ \A j \in DOMAIN logouts' : logouts'[j] \in Ended
    BY KilledFacts DEF FlowInv, RestartsRuntime
  <1>2. logouts[i] = "cleared" /\ Tell("LogoutSuccess", i) /\ inProgress' = FALSE
        /\ UNCHANGED <<service, loggedIn>>
    BY DEF RestartsRuntime, uiSide
  <1>3. ~Clean
    BY <1>2 DEF Clean, Ended
  <1>4. Successes = {} /\ loggedIn /\ service = None
    BY <1>2, <1>3 DEF FlowInv, CleanInv
  <1>5. news' \in Seq(Told) /\ \A m, n \in Successes' : m = n
    BY <1>2, <1>4, TellFacts DEF FlowInv, Successes, Kinds
  <1>6. FlowType' /\ FlagInv'
    BY <1>1, <1>2, <1>5 DEF FlowType, FlagInv
  <1>7. Clean'
    BY <1>1, <1>2, <1>4 DEF Clean
  <1>8. loggedIn' /\ service' = None
    BY <1>2, <1>4
  <1>9. CleanInv'
    BY <1>5, <1>7, <1>8, Zenon DEF CleanInv
  <1> QED
    BY <1>6, <1>9 DEF FlowInv

LEMMA MachineWell ==
    ASSUME FlowInv, NEW i \in DOMAIN logouts, Machine(i)
    PROVE  FlowInv'
  <1>1. CASE Begins(i)
    BY <1>1, BeginsWell
  <1>2. CASE RestartsRuntime(i)
    BY <1>2, RestartsWell
  <1>3. CASE FindsNothing(i)
    BY <1>3, FailsWell DEF FindsNothing, syncVars, Kinds, Stage, Before
  <1>4. CASE RestartsService(i)
    BY <1>4, FailsWell DEF RestartsService, Kinds, Stage, Before
  <1>5. CASE TimesOut(i)
    BY <1>5, FailsWell DEF TimesOut, syncVars, Kinds, Stage, Beyond
  <1>6. CASE StopsService(i) \/ ServerLogsOut(i) \/ ServerRefuses(i)
    <2>1. /\ UNCHANGED <<service, news, inProgress, loggedIn>>
          /\ \/ Goes(i, "stopping", "server") /\ UNCHANGED ponr
             \/ Goes(i, "server", "beyond")
             \/ Goes(i, "server", "restarting") /\ UNCHANGED ponr
      BY <1>6 DEF StopsService, ServerLogsOut, ServerRefuses, syncVars, uiSide
    <2>2. news' \in Seq(Told) /\ Successes' = Successes
      BY <2>1 DEF FlowInv, FlowType, Successes
    <2> QED
      BY <2>1, <2>2, GoesOn DEF Stage, Before, Beyond, Ended
  <1>7. CASE AsksForTabs(i)
    <2>1. news' \in Seq(Told) /\ Successes' = Successes
      BY <1>7, TellOther DEF AsksForTabs, FlowInv, Kinds
    <2>2. Goes(i, "beyond", "tabs") /\ UNCHANGED <<service, ponr, inProgress, loggedIn>>
      BY <1>7 DEF AsksForTabs, syncVars, uiSide
    <2> QED
      BY <2>1, <2>2, GoesOn DEF Stage, Beyond, Ended
  <1>8. CASE Clears(i)
    <2>1. news' \in Seq(Told) /\ Successes' = Successes
      BY <1>8, TellOther DEF Clears, FlowInv, Kinds
    <2>2. /\ Goes(i, "tabsClosed", "clearing") \/ Goes(i, "beyond", "clearing")
          /\ service' = None /\ UNCHANGED <<ponr, inProgress, loggedIn>>
      BY <1>8 DEF Clears, DropService, TakeService, uiSide
    <2> QED
      BY <2>1, <2>2, GoesOn DEF Stage, Beyond, Ended
  <1> QED
    BY <1>1, <1>2, <1>3, <1>4, <1>5, <1>6, <1>7, <1>8 DEF Machine

\* A request more, in the queue of the worker.
LEMMA ModalWell ==
    ASSUME FlowInv, UsesModal
    PROVE  FlowInv'
  <1>1. UNCHANGED <<service, ponr, inProgress, loggedIn, news>>
    BY DEF UsesModal, syncVars
  <1>2. Successes' = Successes
    BY <1>1 DEF Successes
  <1>3. CASE logouts' = logouts
    <2>1. FlowType' /\ FlagInv'
      BY <1>1, <1>3 DEF FlowInv, FlowType, FlagInv
    <2>2. CleanInv'
      BY <1>1, <1>2, <1>3 DEF FlowInv, CleanInv, Clean
    <2> QED
      BY <2>1, <2>2 DEF FlowInv
  <1>4. CASE logouts' = Append(logouts, "queued")
    <2>1. logouts \in Seq(Stage) /\ "queued" \in Stage /\ "queued" \notin Ended
      BY DEF FlowInv, FlowType, Stage, Before, Ended
    <2>2. /\ logouts' \in Seq(Stage)
          /\ \A j \in DOMAIN logouts : j \in DOMAIN logouts' /\ logouts'[j] = logouts[j]
          /\ \A j \in DOMAIN logouts' : logouts'[j] = "queued" \/ j \in DOMAIN logouts
      BY <1>4, <2>1
    <2>3. FlowType'
      BY <1>1, <2>2 DEF FlowInv, FlowType
    <2>4. FlagInv'
      <3>1. ponr => \/ \E i \in DOMAIN logouts' : logouts'[i] \in Beyond \union {"broken"}
                    \/ \A i \in DOMAIN logouts' : logouts'[i] \in Ended \union {"queued"}
        BY <2>2 DEF FlowInv, FlagInv
      <3>2. inProgress => \E i \in DOMAIN logouts' : \/ logouts'[i] \notin Ended
                                                     \/ logouts'[i] = "broken"
        BY <2>2 DEF FlowInv, FlagInv
      <3> QED
        BY <1>1, <3>1, <3>2 DEF FlagInv
    <2>5. Clean => Clean'
      BY <1>1, <2>2 DEF Clean
    <2>6. CleanInv'
      BY <1>1, <1>2, <2>2, <2>5 DEF FlowInv, CleanInv
    <2> QED
      BY <2>3, <2>4, <2>6 DEF FlowInv
  <1> QED
    BY <1>3, <1>4 DEF UsesModal, OpensModal, ClosesModal, Confirms

\* An action is handled: a logout that waited for it goes on, or the login
\* screen is shown.
LEMMA NewsWell ==
    ASSUME FlowInv, HandlesNews
    PROVE  FlowInv'
  <1>1. /\ news' \in Seq(Told)
        /\ Head(news) = news[1] /\ 1 \in DOMAIN news
        /\ \A n \in DOMAIN news' : n + 1 \in DOMAIN news /\ news'[n] = news[n + 1] /\ n + 1 # 1
        /\ DOMAIN news' \subseteq Nat
    BY TailFacts DEF FlowInv, HandlesNews
  <1>2. UNCHANGED <<service, ponr, inProgress>>
    BY DEF HandlesNews, syncVars
  <1>3. /\ logouts' \in Seq(Stage) /\ DOMAIN logouts' = DOMAIN logouts
        /\ \A j \in DOMAIN logouts :
              \/ logouts'[j] = logouts[j]
              \/ logouts[j] = "tabs" /\ logouts'[j] = "tabsClosed"
              \/ logouts[j] = "clearing" /\ logouts'[j] = "cleared"
    <2> DEFINE i == Head(news).of
    <2>1. \/ logouts' = logouts
          \/ logouts[i] = "tabs" /\ logouts' = [logouts EXCEPT ![i] = "tabsClosed"]
          \/ logouts[i] = "clearing" /\ logouts' = [logouts EXCEPT ![i] = "cleared"]
      BY DEF HandlesNews, Notified
    <2>2. logouts \in Seq(Stage) /\ "tabsClosed" \in Stage /\ "cleared" \in Stage
      BY DEF FlowInv, FlowType, Stage, Beyond
    <2> QED
      BY <2>1, <2>2
  <1>4. FlowType'
    BY <1>1, <1>3 DEF FlowType
  <1>5. FlagInv'
    <2>1. \A j \in DOMAIN logouts :
             /\ logouts[j] \in Beyond \union {"broken"} => logouts'[j] \in Beyond \union {"broken"}
             /\ logouts[j] \in Ended \union {"queued"} => logouts'[j] = logouts[j]
             /\ logouts[j] \notin Ended => logouts'[j] \notin Ended
             /\ logouts[j] = "broken" => logouts'[j] = "broken"
      BY <1>3 DEF Beyond, Ended
    <2> QED
      BY <1>2, <1>3, <2>1 DEF FlowInv, FlagInv
  <1>6. Clean => Clean'
    BY <1>2, <1>3 DEF Clean, Ended
  <1>7. (\E j \in DOMAIN logouts' : logouts'[j] \in {"clearing", "cleared"}) => service' = None
    BY <1>2, <1>3 DEF FlowInv, CleanInv
  <1>8. \A n \in Successes' : n + 1 \in Successes /\ n + 1 # 1 /\ n \in Nat
    BY <1>1 DEF Successes
  <1>9. CASE Head(news).kind = "LogoutSuccess"
    <2>1. 1 \in Successes
      BY <1>1, <1>9 DEF Successes
    <2>2. Clean /\ Successes' = {}
      BY <1>8, <2>1 DEF FlowInv, CleanInv
    <2> QED
      BY <1>4, <1>5, <1>6, <1>7, <2>2 DEF FlowInv, CleanInv
  <1>10. CASE Head(news).kind # "LogoutSuccess"
    <2>1. loggedIn' <=> loggedIn
      BY <1>10 DEF HandlesNews
    <2>2. \A m, n \in Successes' : m = n /\ loggedIn' /\ Clean'
      <3>1. \A m, n \in Successes' : m + 1 = n + 1 /\ loggedIn /\ Clean
        BY <1>8 DEF FlowInv, CleanInv
      <3> QED
        BY <1>6, <1>8, <2>1, <3>1
    <2>3. ~loggedIn' => Clean'
      BY <1>6, <2>1 DEF FlowInv, CleanInv
    <2> QED
      BY <1>4, <1>5, <1>7, <2>2, <2>3 DEF FlowInv, CleanInv
  <1> QED
    BY <1>9, <1>10

LEMMA FlowNext ==
    ASSUME FlowInv, [LogoutNext]_logoutVars
    PROVE  FlowInv'
  <1>1. CASE \E i \in DOMAIN logouts : Machine(i)
    BY <1>1, MachineWell
  <1>2. CASE UsesModal
    BY <1>2, ModalWell
  <1>3. CASE HandlesNews
    BY <1>3, NewsWell
  <1>4. CASE LogsInAgain
    <2>1. UNCHANGED <<logouts, ponr, inProgress, news>> /\ ~loggedIn /\ loggedIn' = TRUE
      BY <1>4 DEF LogsInAgain
    <2>2. Clean /\ Successes = {}
      BY <2>1 DEF FlowInv, CleanInv
    <2>3. FlowType' /\ FlagInv' /\ Successes' = Successes
      BY <2>1 DEF FlowInv, FlowType, FlagInv, Successes
    <2>4. ~\E i \in DOMAIN logouts' : logouts'[i] \in {"clearing", "cleared"}
      BY <2>1, <2>2 DEF Clean, Ended
    <2> QED
      BY <2>1, <2>2, <2>3, <2>4 DEF FlowInv, CleanInv
  <1>5. CASE Syncs \/ UNCHANGED logoutVars
    <2>1. UNCHANGED <<service, logouts, ponr, inProgress, loggedIn, news>>
      BY <1>5 DEF Syncs, Apply, ApplyLooks, Release, ApplyCalls, ApplyRecords, ListenerHears,
             ServiceFails, SetDesired, logoutVars, syncVars, uiSide
    <2>2. FlowType' /\ FlagInv' /\ Successes' = Successes /\ Clean' = Clean
      BY <2>1 DEF FlowInv, FlowType, FlagInv, Successes, Clean
    <2> QED
      BY <2>1, <2>2 DEF FlowInv, CleanInv
  <1> QED
    BY <1>1, <1>2, <1>3, <1>4, <1>5 DEF LogoutNext

LEMMA FlowInit == ASSUME LogoutInit PROVE FlowInv
  <1>1. FlowType /\ FlagInv
    BY DEF LogoutInit, FlowType, FlagInv
  <1>2. Clean /\ Successes = {}
    BY DEF LogoutInit, SyncInit, Clean, Successes
  <1> QED
    BY <1>1, <1>2 DEF FlowInv, CleanInv, LogoutInit

\* However many logouts overlap: without one at work the flag of a logout in
\* progress stands only after one that broke the session (handle_error).
THEOREM FlagAlwaysReset == LogoutSpec => []FlagIsReset
  <1>1. FlowInv => FlagIsReset
    BY DEF FlowInv, FlagInv, FlagIsReset, Idle, Active, Broken
  <1> QED
    BY <1>1, FlowInit, FlowNext, PTL DEF LogoutSpec

\* The login screen finds no service, and no logout that could take the next
\* session down (clear_app_state, shutdown_background_tasks).
THEOREM LoginScreenAlwaysClean == LogoutSpec => []LoginScreenIsClean
  <1>1. FlowInv => LoginScreenIsClean
    BY DEF FlowInv, CleanInv, Clean, LoginScreenIsClean
  <1> QED
    BY <1>1, FlowInit, FlowNext, PTL DEF LogoutSpec

----------------------------------------------------------------------------
(* Logouts that failed.                                                    *)

\* Nobody went past the point of no return; and nobody is at work.
Unharmed == \A i \in DOMAIN logouts : logouts[i] \in Before \union {"failed"}
AllFailed == \A i \in DOMAIN logouts : logouts[i] = "failed"

\* ForegroundInv, as far as a logout at work lets it stand: nobody took the
\* service away before the point of no return, but it was stopped.
KeptInv ==
    /\ QueueType /\ HeldIsLocked /\ StartIsComing
    /\ Unharmed => Undisturbed
    /\ AllFailed => AssumedRuns

\* The service's own steps, and the first of a new session.
LEMMA KeptSync ==
    ASSUME KeptInv, SyncNext, logouts' = logouts
    PROVE  KeptInv'
  <1>1. QueueType' /\ HeldIsLocked' /\ StartIsComing'
    BY QueueNext, LockedNext, StartNext DEF KeptInv
  <1>2. Unharmed' = Unharmed /\ AllFailed' = AllFailed
    BY DEF Unharmed, AllFailed
  <1>3. AllFailed => Unharmed
    BY DEF Unharmed, AllFailed
  <1>4. Unharmed' => Undisturbed'
    BY <1>2, UndisturbedNext DEF KeptInv
  <1>5. AllFailed' => AssumedRuns'
    BY <1>2, <1>3, AssumedNext DEF KeptInv
  <1> QED
    BY <1>1, <1>4, <1>5 DEF KeptInv

\* Whoever leaves the wish, the lock and the service as they are.
LEMMA KeptElsewhere ==
    ASSUME KeptInv, UNCHANGED <<desired, assumed, service, lockQueue, held>>,
           Unharmed' => Unharmed, AllFailed' => AssumedRuns'
    PROVE  KeptInv'
  <1>1. QueueType' /\ HeldIsLocked' /\ StartIsComing'
    BY DEF KeptInv, QueueType, HeldIsLocked, StartIsComing
  <1>2. Undisturbed' = Undisturbed
    BY DEF Undisturbed
  <1> QED
    BY <1>1, <1>2 DEF KeptInv

\* A logout goes on, or fails, with nothing but the service's state touched.
LEMMA KeptGoes ==
    ASSUME KeptInv, FlowType, NEW i \in DOMAIN logouts, NEW from \in Stage, NEW to \in Stage,
           Goes(i, from, to), from \in Before \/ to \notin Before \union {"failed"},
           UNCHANGED <<desired, assumed, service, lockQueue, held>>,
           to = "failed" => service = None \/ run' = "running"
    PROVE  KeptInv'
  <1>1. /\ DOMAIN logouts' = DOMAIN logouts
        /\ logouts[i] = from /\ logouts'[i] = to
        /\ \A j \in DOMAIN logouts : j # i => logouts'[j] = logouts[j]
    BY GoesFacts
  <1>2. Unharmed' => Unharmed
    BY <1>1 DEF Unharmed
  <1>3. AllFailed' => AssumedRuns'
    <2> SUFFICES ASSUME AllFailed' PROVE AssumedRuns'
      OBVIOUS
    <2>1. to = "failed" /\ Unharmed'
      BY <1>1 DEF AllFailed, Unharmed
    <2>2. Undisturbed
      BY <1>2, <2>1 DEF KeptInv
    <2> QED
      BY <2>1, <2>2 DEF Undisturbed, AssumedRuns
  <1> QED
    BY <1>2, <1>3, KeptElsewhere

LEMMA KeptClears ==
    ASSUME KeptInv, FlowType, NEW i \in DOMAIN logouts, Clears(i)
    PROVE  KeptInv'
  <1>1. i \in DOMAIN logouts' /\ logouts'[i] = "clearing"
    BY GoesFacts DEF Clears, Stage, Beyond
  <1>2. ~Unharmed' /\ ~AllFailed'
    BY <1>1 DEF Unharmed, AllFailed, Before
  <1>3. /\ service' = None /\ assumed' = FALSE /\ desired' = desired
        /\ lockQueue' = Orphans /\ held' = Orphaned
    BY DEF Clears, DropService, TakeService
  <1>4. QueueType' /\ HeldIsLocked'
    BY <1>3, Orphaning DEF KeptInv, QueueType, HeldIsLocked
  <1>5. StartIsComing'
    BY <1>3 DEF StartIsComing
  <1> QED
    BY <1>2, <1>4, <1>5 DEF KeptInv

LEMMA KeptRestarts ==
    ASSUME KeptInv, FlowInv, NEW i \in DOMAIN logouts, RestartsRuntime(i)
    PROVE  KeptInv'
  <1>1. DOMAIN logouts' = DOMAIN logouts /\ logouts'[i] = "done"
    BY DEF RestartsRuntime, Killed
  <1>2. ~Unharmed' /\ ~AllFailed'
    BY <1>1 DEF Unharmed, AllFailed, Before
  <1>3. service = None
    BY DEF RestartsRuntime, FlowInv, CleanInv
  <1>4. /\ lockQueue' = <<>> /\ held' = None
        /\ UNCHANGED <<desired, assumed, service>>
    BY DEF RestartsRuntime
  <1>5. QueueType' /\ HeldIsLocked' /\ StartIsComing'
    BY <1>3, <1>4 DEF KeptInv, QueueType, HeldIsLocked, StartIsComing
  <1> QED
    BY <1>2, <1>5 DEF KeptInv

LEMMA KeptMachine ==
    ASSUME KeptInv, FlowInv, NEW i \in DOMAIN logouts, Machine(i)
    PROVE  KeptInv'
  <1>0. FlowType
    BY DEF FlowInv
  <1>1. CASE Begins(i)
    <2>1. /\ UNCHANGED <<desired, assumed, service, lockQueue, held>>
          /\ \/ Goes(i, "queued", "stopping")
             \/ Goes(i, "queued", "failed") /\ service = None
      BY <1>1 DEF Begins, syncVars
    <2> QED
      BY <1>0, <2>1, KeptGoes DEF Stage, Before, Ended
  <1>2. CASE FindsNothing(i)
    <2>1. /\ UNCHANGED <<desired, assumed, service, lockQueue, held>> /\ service = None
          /\ Goes(i, "stopping", "failed") \/ Goes(i, "server", "failed")
      BY <1>2 DEF FindsNothing, Fails, syncVars
    <2> QED
      BY <1>0, <2>1, KeptGoes DEF Stage, Before, Ended
  <1>3. CASE RestartsService(i)
    <2>1. /\ UNCHANGED <<desired, assumed, service, lockQueue, held>>
          /\ Goes(i, "restarting", "failed") /\ (service = None \/ run' = "running")
      BY <1>3 DEF RestartsService, Fails, RunAfterRefusal
    <2> QED
      BY <1>0, <2>1, KeptGoes DEF Stage, Before, Ended
  <1>4. CASE TimesOut(i)
    <2>1. /\ UNCHANGED <<desired, assumed, service, lockQueue, held>>
          /\ Goes(i, "tabs", "broken") \/ Goes(i, "clearing", "broken")
      BY <1>4 DEF TimesOut, Fails, syncVars
    <2> QED
      BY <1>0, <2>1, KeptGoes DEF Stage, Before, Beyond, Ended
  <1>5. CASE StopsService(i) \/ ServerLogsOut(i) \/ ServerRefuses(i) \/ AsksForTabs(i)
    <2>1. /\ UNCHANGED <<desired, assumed, service, lockQueue, held>>
          /\ \/ Goes(i, "stopping", "server") \/ Goes(i, "server", "beyond")
             \/ Goes(i, "server", "restarting") \/ Goes(i, "beyond", "tabs")
      BY <1>5 DEF StopsService, ServerLogsOut, ServerRefuses, AsksForTabs, syncVars
    <2> QED
      BY <1>0, <2>1, KeptGoes DEF Stage, Before, Beyond
  <1>6. CASE Clears(i)
    BY <1>0, <1>6, KeptClears
  <1>7. CASE RestartsRuntime(i)
    BY <1>7, KeptRestarts
  <1> QED
    BY <1>1, <1>2, <1>3, <1>4, <1>5, <1>6, <1>7 DEF Machine

LEMMA KeptNext ==
    ASSUME KeptInv, FlowInv, [LogoutNext]_logoutVars
    PROVE  KeptInv'
  <1>0. logouts \in Seq(Stage)
    BY DEF FlowInv, FlowType
  <1>1. CASE \E i \in DOMAIN logouts : Machine(i)
    BY <1>1, KeptMachine
  <1>2. CASE UsesModal
    <2>1. UNCHANGED syncVars /\ (logouts' = logouts \/ logouts' = Append(logouts, "queued"))
      BY <1>2 DEF UsesModal, OpensModal, ClosesModal, Confirms
    <2>2. /\ \A j \in DOMAIN logouts : j \in DOMAIN logouts' /\ logouts'[j] = logouts[j]
          /\ logouts' # logouts => \E j \in DOMAIN logouts' : logouts'[j] = "queued"
      <3>1. CASE logouts' = logouts
        BY <3>1
      <3>2. CASE logouts' = Append(logouts, "queued")
        <4>1. Len(logouts) + 1 \in DOMAIN logouts' /\ logouts'[Len(logouts) + 1] = "queued"
          BY <1>0, <3>2
        <4> QED
          BY <1>0, <3>2, <4>1
      <3> QED
        BY <2>1, <3>1, <3>2
    <2>3. Unharmed' => Unharmed
      BY <2>2 DEF Unharmed
    <2>4. AllFailed' => AssumedRuns'
      <3>1. AllFailed' => logouts' = logouts
        BY <2>2 DEF AllFailed
      <3>2. logouts' = logouts => (AllFailed' => AllFailed)
        BY DEF AllFailed
      <3>3. AssumedRuns' = AssumedRuns
        BY <2>1 DEF syncVars, AssumedRuns
      <3> QED
        BY <3>1, <3>2, <3>3 DEF KeptInv
    <2> QED
      BY <2>1, <2>3, <2>4, KeptElsewhere DEF syncVars
  <1>3. CASE HandlesNews
    <2>1. /\ DOMAIN logouts' = DOMAIN logouts /\ UNCHANGED syncVars
          /\ \A j \in DOMAIN logouts : logouts'[j] = logouts[j] \/ logouts'[j] \in {"tabsClosed", "cleared"}
      BY <1>3 DEF HandlesNews, Notified
    <2>2. (Unharmed' => Unharmed) /\ (AllFailed' => AllFailed)
      BY <2>1 DEF Unharmed, AllFailed, Before
    <2>3. AssumedRuns' = AssumedRuns
      BY <2>1 DEF syncVars, AssumedRuns
    <2> QED
      BY <2>1, <2>2, <2>3, KeptElsewhere DEF syncVars, KeptInv
  <1>4. CASE LogsInAgain \/ Syncs
    BY <1>4, KeptSync DEF LogsInAgain, Syncs, SyncNext
  <1>5. CASE UNCHANGED logoutVars
    <2>1. UNCHANGED <<syncVars, logouts>>
      BY <1>5 DEF logoutVars
    <2>2. AssumedRuns' = AssumedRuns /\ Unharmed' = Unharmed /\ AllFailed' = AllFailed
      BY <2>1 DEF syncVars, AssumedRuns, Unharmed, AllFailed
    <2> QED
      BY <2>1, <2>2, KeptElsewhere DEF syncVars, KeptInv
  <1> QED
    BY <1>1, <1>2, <1>3, <1>4, <1>5 DEF LogoutNext

LEMMA KeptInit == ASSUME LogoutInit PROVE KeptInv
  <1>1. SyncInit
    BY DEF LogoutInit
  <1>2. QueueType
    BY <1>1, QuietInit DEF QuietInv
  <1>3. HeldIsLocked /\ StartIsComing /\ Undisturbed /\ AssumedRuns
    BY <1>1 DEF SyncInit, HeldIsLocked, StartIsComing, Undisturbed, AssumedRuns
  <1> QED
    BY <1>2, <1>3 DEF KeptInv

\* Logouts that failed before the point of no return, however many overlapped and
\* whatever started, stopped and reconciled the service meanwhile, leave a session
\* that syncs in the foreground once all has settled (handle_error, the restart of
\* the sync service).
THEOREM FailedLogoutsKeepSession == LogoutSpec => []FailedLogoutKeepsSession
  <1>1. KeptInv => FailedLogoutKeepsSession
    BY ForegroundImplies DEF KeptInv, AllFailed, FailedLogoutKeepsSession
  <1> QED
    BY <1>1, FlowInit, FlowNext, KeptInit, KeptNext, PTL DEF LogoutSpec

----------------------------------------------------------------------------
(* The types of a logout: no more of them than were requested, and every   *)
(* action is about one of those.                                           *)

Modals == {"closed", "asking", "waiting", "failed", "restart"}
Flags == /\ ponr \in BOOLEAN /\ inProgress \in BOOLEAN
         /\ requestable \in BOOLEAN /\ loggedIn \in BOOLEAN
RequestsType == logouts \in Seq(Stage) /\ Len(logouts) <= MaxLogouts
LogoutTypes == SyncTypeOK /\ RequestsType /\ Flags /\ modal \in Modals /\ news \in Seq(News)

LEMMA LogoutTypesAre == LogoutTypes <=> LogoutTypeOK
  <1>1. Flags <=> {ponr, inProgress, requestable, loggedIn} \subseteq BOOLEAN
    BY Zenon DEF Flags
  <1> QED
    BY <1>1 DEF LogoutTypes, LogoutTypeOK, RequestsType, Modals

LEMMA GoesTypes ==
    ASSUME RequestsType, NEW i, NEW from, NEW to \in Stage, Goes(i, from, to)
    PROVE  RequestsType'
  <1>1. logouts \in Seq(Stage) /\ Len(logouts) <= MaxLogouts
    BY DEF RequestsType
  <1>2. logouts' = [logouts EXCEPT ![i] = to]
    BY DEF Goes
  <1>3. logouts \in [1..Len(logouts) -> Stage] /\ Len(logouts) \in Nat
    BY <1>1
  <1>4. logouts' \in [1..Len(logouts) -> Stage]
    BY <1>2, <1>3, Zenon
  <1>5. logouts' \in Seq(Stage) /\ Len(logouts') = Len(logouts)
    BY <1>3, <1>4
  <1> QED
    BY <1>1, <1>5 DEF RequestsType

LEMMA TellTypes ==
    ASSUME RequestsType, news \in Seq(News), NEW kind \in Kinds, NEW i \in DOMAIN logouts,
           Tell(kind, i)
    PROVE  news' \in Seq(News)
  <1>1. i \in 1..MaxLogouts
    BY LogoutAssumption DEF RequestsType
  <1>2. [kind |-> kind, of |-> i] \in News
    BY <1>1 DEF News, Kinds
  <1> QED
    BY <1>2 DEF Tell

LEMMA FailsTypes ==
    ASSUME LogoutTypes, NEW i \in DOMAIN logouts, NEW from, NEW to \in Stage, NEW kind \in Kinds,
           Fails(i, from, to, kind), SyncTypeOK'
    PROVE  LogoutTypes'
  <1>1. RequestsType' /\ news' \in Seq(News)
    BY GoesTypes, TellTypes DEF LogoutTypes, Fails
  <1>2. Flags' /\ modal' \in Modals
    BY Zenon DEF Fails, StaysInProgress, LogoutTypes, Flags, uiSide
  <1> QED
    BY <1>1, <1>2 DEF LogoutTypes

\* Most steps change the service and one logout, and may say so.
LEMMA StepTypes ==
    ASSUME LogoutTypes, NEW i \in DOMAIN logouts, NEW from, NEW to \in Stage, Goes(i, from, to),
           SyncTypeOK', Flags', UNCHANGED modal,
           news' = news \/ \E kind \in Kinds : Tell(kind, i)
    PROVE  LogoutTypes'
  <1>1. RequestsType' /\ news' \in Seq(News)
    BY GoesTypes, TellTypes DEF LogoutTypes
  <1> QED
    BY <1>1 DEF LogoutTypes

LEMMA SyncStays == SyncTypeOK /\ UNCHANGED syncVars => SyncTypeOK'
  BY DEF SyncTypeOK, syncVars

LEMMA MachineTypes ==
    ASSUME LogoutTypes, NEW i \in DOMAIN logouts, Machine(i)
    PROVE  LogoutTypes'
  <1> USE DEF LogoutTypes
  <1>s. /\ {"stopping", "failed", "server", "beyond", "restarting"} \subseteq Stage
        /\ {"tabs", "clearing", "broken", "done"} \subseteq Stage
    BY DEF Stage, Before, Beyond, Ended
  <1>1. CASE Begins(i)
    <2>1. SyncTypeOK' /\ Flags' /\ UNCHANGED modal
      BY <1>1, SyncStays DEF Begins, Flags, uiSide
    <2>2. \/ Goes(i, "queued", "stopping") /\ UNCHANGED news
          \/ Goes(i, "queued", "failed") /\ Tell("RequiresRestart", i)
      BY <1>1 DEF Begins
    <2> QED
      BY <1>s, <2>1, <2>2, StepTypes DEF Kinds
  <1>2. CASE StopsService(i)
    <2>1. SyncTypeOK'
      BY <1>2 DEF StopsService, SyncTypeOK
    <2>2. Flags' /\ UNCHANGED <<modal, news>> /\ Goes(i, "stopping", "server")
      BY <1>2 DEF StopsService, Flags, uiSide
    <2> QED
      BY <1>s, <2>1, <2>2, StepTypes
  <1>3. CASE FindsNothing(i)
    BY <1>3, <1>s, SyncStays, FailsTypes DEF FindsNothing, Kinds
  <1>4. CASE ServerLogsOut(i)
    <2>1. Flags' /\ UNCHANGED <<modal, news>> /\ Goes(i, "server", "beyond")
      BY <1>4 DEF ServerLogsOut, Flags, uiSide
    <2> QED
      BY <1>4, <1>s, <2>1, SyncStays, StepTypes DEF ServerLogsOut
  <1>5. CASE ServerRefuses(i)
    <2>1. Flags' /\ UNCHANGED <<modal, news>> /\ Goes(i, "server", "restarting")
      BY <1>5 DEF ServerRefuses, Flags, uiSide
    <2> QED
      BY <1>5, <1>s, <2>1, SyncStays, StepTypes DEF ServerRefuses
  <1>6. CASE RestartsService(i)
    <2>1. SyncTypeOK'
      BY <1>6 DEF RestartsService, RunAfterRefusal, SyncTypeOK
    <2> QED
      BY <1>6, <1>s, <2>1, FailsTypes DEF RestartsService, Kinds
  <1>7. CASE AsksForTabs(i)
    <2>1. Flags' /\ UNCHANGED modal /\ Goes(i, "beyond", "tabs") /\ Tell("CloseAllTabs", i)
      BY <1>7 DEF AsksForTabs, Flags, uiSide
    <2> QED
      BY <1>7, <1>s, <2>1, SyncStays, StepTypes DEF AsksForTabs, Kinds
  <1>8. CASE Clears(i)
    <2>1. SyncTypeOK'
      <3>1. TakeService /\ assumed' = FALSE /\ desired' = desired
        BY <1>8 DEF Clears, DropService
      <3>2. assumed' \in BOOLEAN /\ desired' \in BOOLEAN
        BY <3>1 DEF SyncTypeOK
      <3> QED
        BY <3>1, <3>2, TakeTypes
    <2>2. /\ Flags' /\ UNCHANGED modal /\ Tell("ClearAppState", i)
          /\ Goes(i, "tabsClosed", "clearing") \/ Goes(i, "beyond", "clearing")
      BY <1>8 DEF Clears, Flags, uiSide
    <2> QED
      BY <1>s, <2>1, <2>2, StepTypes DEF Kinds
  <1>9. CASE TimesOut(i)
    BY <1>9, <1>s, SyncStays, FailsTypes DEF TimesOut, Kinds
  <1>10. CASE RestartsRuntime(i)
    <2>1. SyncTypeOK'
      BY <1>10 DEF RestartsRuntime, SyncTypeOK
    <2>2. logouts' \in Seq(Stage) /\ DOMAIN logouts' = DOMAIN logouts
      <3>1. logouts' = [j \in DOMAIN logouts |->
                           IF j = i THEN "done"
                           ELSE IF logouts[j] \in Ended THEN logouts[j] ELSE "killed"]
        BY <1>10 DEF RestartsRuntime, Killed
      <3>2. "done" \in Stage /\ "killed" \in Stage /\ \A j \in DOMAIN logouts : logouts[j] \in Stage
        BY DEF Stage, Ended, RequestsType
      <3> QED
        BY <3>1, <3>2 DEF RequestsType
    <2>3. RequestsType'
      BY <2>2 DEF RequestsType
    <2>4. news' \in Seq(News)
      BY <1>10, TellTypes DEF RestartsRuntime, Kinds
    <2>5. Flags' /\ UNCHANGED modal
      BY <1>10 DEF RestartsRuntime, Flags, uiSide
    <2> QED
      BY <2>1, <2>3, <2>4, <2>5
  <1> QED
    BY <1>1, <1>2, <1>3, <1>4, <1>5, <1>6, <1>7, <1>8, <1>9, <1>10 DEF Machine

LEMMA ModalTypes ==
    ASSUME LogoutTypes, UsesModal
    PROVE  LogoutTypes'
  <1>1. SyncTypeOK' /\ Flags' /\ news' \in Seq(News)
    BY SyncStays DEF UsesModal, LogoutTypes, Flags
  <1>2. RequestsType'
    <2>1. "queued" \in Stage
      BY DEF Stage, Before
    <2> QED
      BY <2>1, LogoutAssumption
         DEF UsesModal, OpensModal, ClosesModal, Confirms, LogoutTypes, RequestsType
  <1>3. modal' \in Modals
    BY DEF UsesModal, OpensModal, ClosesModal, Confirms, Modals
  <1> QED
    BY <1>1, <1>2, <1>3 DEF LogoutTypes

LEMMA NewsTypes ==
    ASSUME LogoutTypes, HandlesNews
    PROVE  LogoutTypes'
  <1>1. SyncTypeOK'
    BY SyncStays DEF HandlesNews, LogoutTypes
  <1>2. Flags'
    BY DEF HandlesNews, LogoutTypes, Flags
  <1>3. news' \in Seq(News)
    BY DEF HandlesNews, LogoutTypes
  <1>4. modal' \in Modals
    BY DEF HandlesNews, ModalAfter, LogoutTypes, Modals
  <1>5. RequestsType'
    <2> DEFINE i == Head(news).of
    <2>1. /\ "tabsClosed" \in Stage /\ "cleared" \in Stage
          /\ \/ logouts' = logouts
             \/ logouts' = [logouts EXCEPT ![i] = "tabsClosed"]
             \/ logouts' = [logouts EXCEPT ![i] = "cleared"]
      BY DEF HandlesNews, Notified, Stage, Beyond
    <2> HIDE DEF i
    <2> QED
      BY <2>1 DEF LogoutTypes, RequestsType
  <1> QED
    BY <1>1, <1>2, <1>3, <1>4, <1>5 DEF LogoutTypes

LEMMA LogoutTypesNext ==
    ASSUME LogoutTypes, [LogoutNext]_logoutVars
    PROVE  LogoutTypes'
  <1>1. CASE LogsInAgain
    <2>1. SyncTypeOK'
      BY <1>1, SetUpTypes DEF LogsInAgain, LogoutTypes
    <2>2. RequestsType' /\ Flags' /\ modal' \in Modals /\ news' \in Seq(News)
      BY <1>1 DEF LogsInAgain, LogoutTypes, RequestsType, Flags
    <2> QED
      BY <2>1, <2>2 DEF LogoutTypes
  <1>2. CASE Syncs
    <2>1. SyncTypeOK'
      BY <1>2, ApplyTypes, ErrorTypes, WishTypes DEF Syncs, LogoutTypes
    <2>2. RequestsType' /\ Flags' /\ modal' \in Modals /\ news' \in Seq(News)
      BY <1>2 DEF Syncs, LogoutTypes, RequestsType, Flags, uiSide
    <2> QED
      BY <2>1, <2>2 DEF LogoutTypes
  <1>3. CASE UNCHANGED logoutVars
    <2>1. SyncTypeOK'
      BY <1>3, SyncStays DEF logoutVars, LogoutTypes
    <2>2. RequestsType' /\ Flags' /\ modal' \in Modals /\ news' \in Seq(News)
      BY <1>3 DEF logoutVars, LogoutTypes, RequestsType, Flags, uiSide
    <2> QED
      BY <2>1, <2>2 DEF LogoutTypes
  <1> QED
    BY <1>1, <1>2, <1>3, MachineTypes, ModalTypes, NewsTypes DEF LogoutNext

\* The types of a logout: no more logouts than the bound, and no action about
\* another (logout_state_machine.rs).
THEOREM LogoutTypeCorrect == LogoutSpec => []LogoutTypeOK
  <1>1. LogoutInit => LogoutTypes
    <2> SUFFICES ASSUME LogoutInit PROVE LogoutTypes
      OBVIOUS
    <2>1. SyncTypeOK
      <3>1. SyncInit /\ lockQueue = <<>> /\ <<>> \in Seq(Callers)
        BY DEF LogoutInit, SyncInit
      <3>2. desired \in BOOLEAN /\ assumed \in BOOLEAN /\ heard \in BOOLEAN
        BY <3>1 DEF SyncInit
      <3>3. service = None /\ held = None /\ run = "idle" /\ listener = "ended"
        BY <3>1 DEF SyncInit
      <3> QED
        BY <3>1, <3>2, <3>3 DEF SyncTypeOK
    <2>2. Flags /\ modal \in Modals /\ news \in Seq(News)
      <3>1. news = <<>> /\ <<>> \in Seq(News) /\ modal \in Modals
        BY DEF LogoutInit, Modals
      <3>2. Flags
        BY DEF LogoutInit, Flags
      <3> QED
        BY <3>1, <3>2
    <2>3. RequestsType
      BY LogoutAssumption DEF LogoutInit, RequestsType
    <2> QED
      BY <2>1, <2>2, <2>3 DEF LogoutTypes
  <1>2. LogoutTypes /\ [LogoutNext]_logoutVars => LogoutTypes'
    BY LogoutTypesNext
  <1> QED
    BY <1>1, <1>2, LogoutTypesAre, PTL DEF LogoutSpec

----------------------------------------------------------------------------
(* Logging in through the browser.                                         *)

\* The flow in the slot loses it for its own end, or for a Cancel.
KeptOrDue ==
    (slot # 0 /\ slot' # slot) =>
        \/ slot' = 0 /\ clicks # <<>> /\ Head(clicks) = "Cancel" /\ clicks' = Tail(clicks)
        \/ flows'[slot] \in {"over", "in"}

LEMMA CleanUpFreesItsOwn ==
    ASSUME NEW f \in DOMAIN flows, CleansUp(f)
    PROVE  KeptOrDue
  <1>1. CASE slot # f
    BY <1>1 DEF CleansUp, FreesSlot, KeptOrDue
  <1>2. CASE slot = f
    <2>1. flows'[f] = IF flows[f] = "cleaning" THEN "over" ELSE "in"
      BY DEF CleansUp
    <2> QED
      BY <1>2, <2>1 DEF KeptOrDue
  <1> QED
    BY <1>1, <1>2

\* "A late cleanup from an older flow cannot drop the cancel handle for a newer
\* loopback server" (finish_flow), and no flow is started over another
\* (try_start_flow).
THEOREM HandleAlwaysKept == OidcSpec => CancelHandleIsKept
  <1>1. ASSUME [OidcNext]_oidcVars PROVE KeptOrDue
    <2>1. CASE \E f \in DOMAIN flows : CleansUp(f)
      BY <2>1, CleanUpFreesItsOwn
    <2>2. CASE TakesStart
      BY <2>2 DEF TakesStart, KeptOrDue
    <2>3. CASE TakesCancel
      BY <2>3 DEF TakesCancel, KeptOrDue
    <2>4. CASE \E f \in DOMAIN flows :
                 \/ OpensBrowser(f) \/ BuildingFails(f) \/ Cancels(f) \/ TimeoutComes(f)
                 \/ Finishes(f) \/ BrowserReturns(f)
      BY <2>4 DEF OpensBrowser, BuildingFails, Cancels, TimeoutComes, Finishes, BrowserReturns,
             Moves, KeptOrDue
    <2>5. CASE \/ ClicksContinue \/ ClicksCancel \/ ProbeAnswers \/ ResetsScreen \/ HearsOutcome
               \/ UNCHANGED oidcVars
      BY <2>5 DEF ClicksContinue, ClicksCancel, Click, ProbeAnswers, ResetsScreen, HearsOutcome,
             oidcVars, KeptOrDue
    <2> QED
      BY <1>1, <2>1, <2>2, <2>3, <2>4, <2>5 DEF OidcNext, OidcTask
  <1> QED
    BY <1>1, PTL DEF OidcSpec, CancelHandleIsKept, KeptOrDue
FlowStages == {"building", "waiting", "finishing", "cleaning", "over", "loggedIn", "in"}
Clicks == {"Start", "Cancel"}
Outcomes == {"Started", "Cancelled", "Failed", "LoggedIn"}
FlowsType == /\ flows \in Seq(FlowStages)
             /\ slot \in 0..Len(flows)
             /\ fired \subseteq DOMAIN flows
ScreenType == card \in {"hidden", "ready", "waiting"} /\ flight \in BOOLEAN
OidcTypes == FlowsType /\ ScreenType /\ clicks \in Seq(Clicks) /\ outcomes \in Seq(Outcomes)

LEMMA MovesTypes ==
    ASSUME OidcTypes, NEW f \in DOMAIN flows, NEW from, NEW to \in FlowStages,
           NEW action \in Seq(Outcomes), Moves(f, from, to, action)
    PROVE  OidcTypes'
  <1>1. FlowsType'
    <2>1. flows \in Seq(FlowStages) /\ flows' = [flows EXCEPT ![f] = to]
      BY DEF OidcTypes, FlowsType, Moves
    <2>2. flows' \in Seq(FlowStages) /\ Len(flows') = Len(flows) /\ DOMAIN flows' = DOMAIN flows
      BY <2>1
    <2> QED
      BY <2>2 DEF OidcTypes, FlowsType, Moves
  <1>2. outcomes' \in Seq(Outcomes)
    BY DEF OidcTypes, Moves
  <1> QED
    BY <1>1, <1>2 DEF OidcTypes, Moves, ScreenType

LEMMA StartTypes ==
    ASSUME OidcTypes, TakesStart
    PROVE  OidcTypes'
  <1>1. clicks' \in Seq(Clicks)
    BY DEF TakesStart, OidcTypes
  <1>2. FlowsType'
    <2>1. CASE slot # 0
      BY <2>1 DEF TakesStart, OidcTypes, FlowsType
    <2>2. CASE slot = 0
      <3>1. flows' = Append(flows, "building") /\ slot' = Len(flows') /\ UNCHANGED fired
        BY <2>2 DEF TakesStart
      <3>2. flows \in Seq(FlowStages) /\ "building" \in FlowStages
        BY DEF OidcTypes, FlowsType, FlowStages
      <3>3. flows' \in Seq(FlowStages) /\ Len(flows') \in Nat /\ DOMAIN flows \subseteq DOMAIN flows'
        BY <3>1, <3>2
      <3> QED
        BY <3>1, <3>3 DEF OidcTypes, FlowsType
    <2> QED
      BY <2>1, <2>2
  <1> QED
    BY <1>1, <1>2 DEF TakesStart, OidcTypes, ScreenType

LEMMA SlotTypes ==
    ASSUME OidcTypes, TakesCancel \/ \E f \in DOMAIN flows : CleansUp(f)
    PROVE  OidcTypes'
  <1>1. FlowsType => Fires \subseteq DOMAIN flows
    BY DEF FlowsType, Fires
  <1>2. CASE TakesCancel
    <2>1. clicks' \in Seq(Clicks)
      BY <1>2 DEF TakesCancel, OidcTypes
    <2>2. FlowsType'
      BY <1>1, <1>2 DEF TakesCancel, OidcTypes, FlowsType
    <2> QED
      BY <1>2, <2>1, <2>2 DEF TakesCancel, OidcTypes, ScreenType
  <1>3. ASSUME NEW f \in DOMAIN flows, CleansUp(f) PROVE OidcTypes'
    <2>1. PICK to \in FlowStages : flows' = [flows EXCEPT ![f] = to]
      BY <1>3 DEF CleansUp, FlowStages
    <2>2. flows' \in Seq(FlowStages) /\ Len(flows') = Len(flows) /\ DOMAIN flows' = DOMAIN flows
      BY <2>1 DEF OidcTypes, FlowsType
    <2>3. slot' \in {slot, 0} /\ (fired' = fired \/ fired' = fired \union Fires)
      BY <1>3 DEF CleansUp
    <2>4. FlowsType'
      BY <1>1, <2>2, <2>3 DEF OidcTypes, FlowsType
    <2> QED
      BY <1>3, <2>4 DEF CleansUp, OidcTypes, ScreenType
  <1> QED
    BY <1>2, <1>3

LEMMA ScreenTypes ==
    ASSUME OidcTypes,
           ClicksContinue \/ ClicksCancel \/ ProbeAnswers \/ ResetsScreen \/ HearsOutcome
    PROVE  OidcTypes'
  <1>1. FlowsType'
    BY DEF OidcTypes, FlowsType, ClicksContinue, ClicksCancel, Click, ProbeAnswers, ResetsScreen,
           HearsOutcome
  <1>2. CASE ClicksContinue \/ ClicksCancel
    <2>1. PICK request \in Clicks : Click(request)
      BY <1>2 DEF ClicksContinue, ClicksCancel, Clicks
    <2>2. clicks' \in Seq(Clicks)
      BY <2>1 DEF Click, OidcTypes
    <2> QED
      BY <1>1, <2>1, <2>2 DEF Click, OidcTypes, ScreenType
  <1>3. CASE ProbeAnswers
    BY <1>1, <1>3 DEF ProbeAnswers, OidcTypes, ScreenType
  <1>4. CASE ResetsScreen
    BY <1>1, <1>4 DEF ResetsScreen, OidcTypes, ScreenType
  <1>5. CASE HearsOutcome
    <2>1. outcomes' \in Seq(Outcomes) /\ clicks' \in Seq(Clicks)
      BY <1>5 DEF HearsOutcome, OidcTypes
    <2>2. ScreenType'
      BY <1>5 DEF HearsOutcome, OidcTypes, ScreenType
    <2> QED
      BY <1>1, <2>1, <2>2 DEF OidcTypes
  <1> QED
    BY <1>2, <1>3, <1>4, <1>5

\* The types of a login through the browser: the flow in the slot and the ones
\* that were cancelled are flows that were started (OidcFlowSlot).
THEOREM OidcTypeCorrect == OidcSpec => []OidcTypeOK
  <1>1. OidcInit => OidcTypes
    <2> SUFFICES ASSUME OidcInit PROVE OidcTypes
      OBVIOUS
    <2>1. flows = <<>> /\ clicks = <<>> /\ outcomes = <<>> /\ slot = 0 /\ fired = {}
      BY DEF OidcInit
    <2>2. FlowsType
      BY <2>1 DEF FlowsType
    <2>3. ScreenType
      BY DEF OidcInit, ScreenType
    <2> QED
      BY <2>1, <2>2, <2>3 DEF OidcTypes
  <1>2. OidcTypes /\ [OidcNext]_oidcVars => OidcTypes'
    <2> SUFFICES ASSUME OidcTypes, [OidcNext]_oidcVars PROVE OidcTypes'
      OBVIOUS
    <2>1. CASE \E f \in DOMAIN flows :
                 \/ OpensBrowser(f) \/ BuildingFails(f) \/ Cancels(f) \/ TimeoutComes(f)
                 \/ Finishes(f) \/ BrowserReturns(f)
      <3>1. PICK f \in DOMAIN flows :
                 \/ OpensBrowser(f) \/ BuildingFails(f) \/ Cancels(f) \/ TimeoutComes(f)
                 \/ Finishes(f) \/ BrowserReturns(f)
        BY <2>1
      <3>2. /\ <<>> \in Seq(Outcomes) /\ <<"Started">> \in Seq(Outcomes)
            /\ <<"Cancelled">> \in Seq(Outcomes) /\ <<"Failed">> \in Seq(Outcomes)
            /\ <<"LoggedIn">> \in Seq(Outcomes)
        BY DEF Outcomes
      <3>3. {"waiting", "cleaning", "finishing", "loggedIn"} \subseteq FlowStages
        BY DEF FlowStages
      <3>4. \E from, to, action : /\ to \in FlowStages /\ action \in Seq(Outcomes)
                                  /\ Moves(f, from, to, action)
        BY <3>1, <3>2, <3>3 DEF OpensBrowser, BuildingFails, Cancels, TimeoutComes, Finishes,
           BrowserReturns
      <3> QED
        BY <3>4, MovesTypes
    <2>2. CASE UNCHANGED oidcVars
      BY <2>2 DEF oidcVars, OidcTypes, FlowsType, ScreenType
    <2> QED
      BY <2>1, <2>2, StartTypes, SlotTypes, ScreenTypes DEF OidcNext, OidcTask
  <1>3. OidcTypes => OidcTypeOK
    BY DEF OidcTypes, OidcTypeOK, FlowsType, ScreenType, FlowStages, Clicks, Outcomes
  <1> QED
    BY <1>1, <1>2, <1>3, PTL DEF OidcSpec

----------------------------------------------------------------------------
(* The app state and its files.                                            *)

Contents == {Missing, Torn} \union {Whole(state) : state \in States}
Load == [session : 1..MaxSessions, owner : Owners]
Posts == {Clearing} \union {Restore(l.session, state) : l \in Load, state \in States \ {Default}}
FileType == files \in [Owners -> Contents] /\ writing \in Owners \union {Nobody}
SessionType == /\ user \in Owners \union {Nobody} /\ session \in 0..MaxSessions
               /\ loads \subseteq Load /\ skip \subseteq Owners /\ crashes \in 0..MaxCrashes
StateTypes == memory \in States /\ FileType /\ SessionType /\ inbox \in Seq(Posts)

\* What is posted are restores of a state worth restoring, and clearings.
LEMMA PostsAre ==
    ASSUME NEW post \in Posts
    PROVE  /\ post = Clearing \/ (post.kind = "restore" /\ post.state \in States \ {Default})
           /\ Clearing.kind = "clear"
  BY DEF Posts, Restore, Clearing

LEMMA ContentsAre ==
    /\ Missing \in Contents /\ Torn \in Contents
    /\ \A state \in States : Whole(state) \in Contents
    /\ \A c \in Contents : c.state \in States
  <1>1. Missing.state \in States /\ Torn.state \in States
    BY DEF Missing, Torn, Default, States
  <1>2. \A state \in States : Whole(state).state = state
    BY DEF Whole
  <1> QED
    BY <1>1, <1>2 DEF Contents

LEMMA SavesTypes ==
    ASSUME FileType, SessionType, NEW state \in States, Saves(state)
    PROVE  memory' \in States /\ FileType'
  BY ContentsAre DEF Saves, FileType, SessionType

LEMMA EndsSaveTypes ==
    ASSUME StateTypes, EndsSave
    PROVE  StateTypes'
  <1>1. \A a \in Owners : (IF files[a] = Torn THEN Whole(memory) ELSE files[a]) \in Contents
    BY ContentsAre DEF StateTypes, FileType
  <1>2. FileType'
    BY <1>1 DEF StateTypes, FileType, EndsSave
  <1> QED
    BY <1>2 DEF StateTypes, SessionType, EndsSave

LEMMA SavingTypes ==
    ASSUME StateTypes, EditsState \/ Persists
    PROVE  StateTypes'
  <1>1. user \in Owners
    BY DEF EditsState, Persists, StateTypes, SessionType
  <1>2. PICK state \in States : Saves(state)
    BY <1>1 DEF EditsState, Persists, StateTypes, States
  <1>3. memory' \in States /\ FileType'
    BY <1>2, SavesTypes DEF StateTypes
  <1> QED
    BY <1>3 DEF EditsState, Persists, StateTypes, SessionType

LEMMA HandlesTypes ==
    ASSUME StateTypes, HandlesRestore \/ HandlesClearing
    PROVE  StateTypes'
  <1>1. inbox \in Seq(Posts) /\ inbox # <<>> /\ inbox' = Tail(inbox)
    BY DEF HandlesRestore, HandlesClearing, StateTypes
  <1>2. Head(inbox) \in Posts /\ inbox' \in Seq(Posts)
    BY <1>1
  <1>3. SessionType'
    BY DEF HandlesRestore, HandlesClearing, StateTypes, SessionType
  <1>4. CASE HandlesRestore
    <2>1. Head(inbox).state \in States
      BY <1>2, <1>4, PostsAre DEF HandlesRestore
    <2>2. memory' \in States /\ FileType'
      BY <1>4, <2>1, SavesTypes DEF HandlesRestore, StateTypes, FileType
    <2> QED
      BY <1>2, <1>3, <2>2 DEF StateTypes
  <1>5. CASE HandlesClearing
    <2>1. memory' \in States /\ FileType'
      BY <1>5 DEF HandlesClearing, StateTypes, FileType, Default, States
    <2> QED
      BY <1>2, <1>3, <2>1 DEF StateTypes
  <1> QED
    BY <1>4, <1>5

LEMMA SessionTypes ==
    ASSUME StateTypes, (\E a \in Owners : BeginsSession(a)) \/ LeavesForSwitch \/ LogsOutExplicitly
    PROVE  StateTypes'
  <1>1. memory' \in States /\ FileType'
    BY DEF BeginsSession, LeavesForSwitch, LogsOutExplicitly, StateTypes, FileType
  <1>2. inbox' \in Seq(Posts)
    <2>1. inbox \in Seq(Posts) /\ Clearing \in Posts
      BY DEF StateTypes, Posts
    <2> QED
      BY <2>1 DEF BeginsSession, LeavesForSwitch, LogsOutExplicitly
  <1>3. SessionType'
    <2>1. ASSUME NEW a \in Owners, BeginsSession(a) PROVE SessionType'
      <3>1. session + 1 \in 1..MaxSessions
        BY <2>1, AppStateAssumption DEF BeginsSession, StateTypes, SessionType
      <3>2. [session |-> session + 1, owner |-> a] \in Load
        BY <3>1 DEF Load
      <3> QED
        BY <2>1, <3>1, <3>2, AppStateAssumption DEF BeginsSession, StateTypes, SessionType
    <2> QED
      BY <2>1 DEF LeavesForSwitch, LogsOutExplicitly, StateTypes, SessionType
  <1> QED
    BY <1>1, <1>2, <1>3 DEF StateTypes

LEMMA LoadsTypes ==
    ASSUME StateTypes, NEW l \in loads, Loads(l)
    PROVE  StateTypes'
  <1> DEFINE found == IF l.owner \in skip THEN Missing ELSE files[l.owner]
  <1>1. l \in Load /\ l.owner \in Owners
    BY DEF StateTypes, SessionType, Load
  <1>2. found \in Contents /\ found.state \in States
    BY <1>1, ContentsAre DEF StateTypes, FileType
  <1>3. /\ files' = IF found = Torn THEN [files EXCEPT ![l.owner] = Missing] ELSE files
        /\ inbox' = IF found.state = Default THEN inbox
                    ELSE Append(inbox, Restore(l.session, found.state))
    BY DEF Loads
  <1> HIDE DEF found
  <1>4. FileType'
    BY <1>1, <1>3, ContentsAre DEF Loads, StateTypes, FileType
  <1>5. inbox' \in Seq(Posts)
    <2>1. CASE found.state = Default
      BY <1>3, <2>1 DEF StateTypes
    <2>2. CASE found.state # Default
      <3>1. Restore(l.session, found.state) \in Posts
        BY <1>1, <1>2, <2>2 DEF Posts
      <3> QED
        BY <1>3, <2>2, <3>1 DEF StateTypes
    <2> QED
      BY <2>1, <2>2
  <1> QED
    BY <1>4, <1>5 DEF Loads, StateTypes, SessionType

LEMMA CrashTypes ==
    ASSUME StateTypes, Crashes
    PROVE  StateTypes'
  <1>1. crashes' \in 0..MaxCrashes
    BY AppStateAssumption DEF Crashes, StateTypes, SessionType
  <1>2. inbox' \in Seq(Posts) /\ memory' \in States
    BY DEF Crashes, States, Default
  <1> QED
    BY <1>1, <1>2 DEF Crashes, StateTypes, FileType, SessionType

\* The types of the app state, over crashes, late loads and switches: a restore
\* carries a state of some accounts' agents, never the default one (load_app_state).
THEOREM AppStateTypeCorrect == AppStateSpec => []AppStateTypeOK
  <1>1. AppStateInit => StateTypes
    <2> SUFFICES ASSUME AppStateInit PROVE StateTypes
      OBVIOUS
    <2>1. FileType
      BY ContentsAre DEF AppStateInit, FileType
    <2>2. user = Nobody /\ session = 0 /\ crashes = 0 /\ loads = {} /\ skip = {}
      BY DEF AppStateInit
    <2>3. SessionType
      BY <2>2, AppStateAssumption DEF SessionType
    <2>4. memory \in States /\ inbox \in Seq(Posts)
      BY DEF AppStateInit, States, Default
    <2> QED
      BY <2>1, <2>3, <2>4 DEF StateTypes
  <1>2. StateTypes /\ [AppStateNext]_appStateVars => StateTypes'
    <2> SUFFICES ASSUME StateTypes, [AppStateNext]_appStateVars PROVE StateTypes'
      OBVIOUS
    <2>1. CASE UNCHANGED appStateVars
      BY <2>1 DEF appStateVars, StateTypes, FileType, SessionType
    <2> QED
      BY <2>1, EndsSaveTypes, SavingTypes, HandlesTypes, SessionTypes, LoadsTypes, CrashTypes
         DEF AppStateNext
  <1>3. StateTypes => AppStateTypeOK
    <2> SUFFICES ASSUME StateTypes PROVE AppStateTypeOK
      OBVIOUS
    <2>1. \A i \in DOMAIN inbox : inbox[i] = Clearing \/ inbox[i].state \in States \ {Default}
      <3>1. \A i \in DOMAIN inbox : inbox[i] \in Posts
        BY DEF StateTypes
      <3> QED
        BY <3>1, PostsAre
    <2> QED
      BY <2>1 DEF StateTypes, FileType, SessionType, AppStateTypeOK, Contents, Load
  <1> QED
    BY <1>1, <1>2, <1>3, PTL DEF AppStateSpec
=============================================================================
