------------------------------- MODULE OidcFlow --------------------------------
(***************************************************************************)
(* Logging in through the browser (OIDC): the login screen asks the worker *)
(* for a flow (login_screen.rs), the worker keeps at most one active flow  *)
(* and the handle that cancels it (OidcFlowSlot, sliding_sync.rs), and a   *)
(* task per flow waits for the browser, the handle or a timeout            *)
(* (start_oidc_login) and cleans up after it has posted its outcome.       *)
(*                                                                         *)
(* What the homeserver, the browser and the user do is up to the           *)
(* environment.  A client that was logged in goes to the main task, and is *)
(* no longer of concern here.                                              *)
(***************************************************************************)
EXTENDS Naturals, Sequences

CONSTANTS
    MaxFlows,  \* bound: flows started
    MaxClicks  \* bound: requests of the screen that the worker has not taken

ASSUME OidcAssumption == MaxFlows \in Nat \ {0} /\ MaxClicks \in Nat \ {0}

VARIABLES
    slot,      \* OIDC_FLOW_SLOT.active_flow: the flow's id, or 0
    flows,     \* the stage of every flow, by id
    fired,     \* the flows whose cancel_tx was fired or dropped
    clicks,    \* StartOidcLogin and CancelOidcLogin, on their way to the worker
    card,      \* what the screen's OIDC card shows
    flight,    \* LoginScreen::oidc_in_flight
    outcomes   \* LoginActions on their way to the screen

oidcVars == <<slot, flows, fired, clicks, card, flight, outcomes>>

OidcTypeOK ==
    /\ slot \in 0..Len(flows)
    /\ flows \in Seq({"building", "waiting", "finishing", "cleaning", "over",
                       "loggedIn", "in"})
    /\ fired \subseteq DOMAIN flows
    /\ clicks \in Seq({"Start", "Cancel"})
    /\ card \in {"hidden", "ready", "waiting"}
    /\ flight \in BOOLEAN
    /\ outcomes \in Seq({"Started", "Cancelled", "Failed", "LoggedIn"})

OidcInit ==
    /\ slot = 0
    /\ flows = <<>> /\ clicks = <<>> /\ outcomes = <<>>
    /\ fired = {}
    /\ card = "hidden"
    /\ flight = FALSE

----------------------------------------------------------------------------
(* The worker.                                                             *)

\* try_start_flow: a second flow is refused, and the screen is not told.
TakesStart ==
    /\ clicks # <<>> /\ Head(clicks) = "Start"
    /\ clicks' = Tail(clicks)
    /\ IF slot # 0
         THEN UNCHANGED <<slot, flows>>
         ELSE /\ flows' = Append(flows, "building")
              /\ slot' = Len(flows')
    /\ UNCHANGED <<fired, card, flight, outcomes>>

\* Mutated form of Fires: a flow that is not there is cancelled.
FiresAlways == {slot}

\* cancel_active_flow
Fires == {slot} \ {0}

TakesCancel ==
    /\ clicks # <<>> /\ Head(clicks) = "Cancel"
    /\ clicks' = Tail(clicks)
    /\ fired' = fired \union Fires
    /\ slot' = 0
    /\ UNCHANGED <<flows, card, flight, outcomes>>

----------------------------------------------------------------------------
(* The task of flow f.                                                     *)

Moves(f, from, to, action) ==
    /\ flows[f] = from
    /\ flows' = [flows EXCEPT ![f] = to]
    /\ outcomes' = outcomes \o action
    /\ UNCHANGED <<slot, fired, clicks, card, flight>>

\* The client, the loopback server and the URL are made, and the browser opens.
OpensBrowser(f) == Moves(f, "building", "waiting", <<"Started">>)
BuildingFails(f) == Moves(f, "building", "cleaning", <<"Failed">>)

\* The wait is a race of the browser, the cancel handle and the timeout.
BrowserReturns(f) == \/ Moves(f, "waiting", "finishing", <<>>)
                     \/ Moves(f, "waiting", "cleaning", <<"Cancelled">>)
Cancels(f) == f \in fired /\ Moves(f, "waiting", "cleaning", <<"Cancelled">>)

\* Mutated form of TimeoutComes: the task waits for the browser alone.
TimeoutNever(f) == FALSE

TimeoutComes(f) == Moves(f, "waiting", "cleaning", <<"Failed">>)

\* finish_login exchanges the code; the client goes to the main task, which
\* tells the screen how its login went.
Finishes(f) == \/ Moves(f, "finishing", "loggedIn", <<"LoggedIn">>)
               \/ Moves(f, "finishing", "cleaning", <<"Failed">>)

\* Mutated form of FreesSlot: whoever cleans up frees the slot.
FreesSlotAlways(f) == TRUE

\* finish_flow frees the slot if it is still this flow's.
FreesSlot(f) == slot = f

CleansUp(f) ==
    /\ flows[f] \in {"cleaning", "loggedIn"}
    /\ flows' = [flows EXCEPT ![f] = IF flows[f] = "cleaning" THEN "over" ELSE "in"]
    /\ slot' = IF FreesSlot(f) THEN 0 ELSE slot
    /\ fired' = IF FreesSlot(f) THEN fired \union Fires ELSE fired
    /\ UNCHANGED <<clicks, card, flight, outcomes>>

OidcTask(f) ==
    \/ OpensBrowser(f) \/ BuildingFails(f) \/ Cancels(f) \/ TimeoutComes(f)
    \/ Finishes(f) \/ CleansUp(f)

----------------------------------------------------------------------------
(* The login screen.                                                       *)

Click(request) ==
    /\ Len(clicks) < MaxClicks
    /\ clicks' = Append(clicks, request)
    /\ UNCHANGED <<slot, flows, fired, card, flight, outcomes>>

ClicksContinue == card = "ready" /\ ~flight /\ Len(flows) + Len(clicks) < MaxFlows /\ Click("Start")
ClicksCancel == card = "waiting" /\ Click("Cancel")

\* The homeserver's probe answers, whatever the card shows: the homeserver
\* offers OIDC, or not.
ProbeAnswers ==
    /\ card' \in {"ready", "hidden"}
    /\ UNCHANGED <<slot, flows, fired, clicks, flight, outcomes>>

\* reset_oidc_screen_state: the screen is left, or shown for another purpose.
ResetsScreen ==
    /\ card' = "hidden"
    /\ flight' = FALSE
    /\ UNCHANGED <<slot, flows, fired, clicks, outcomes>>

\* An action of the worker is handled; LoggedIn resets the screen once the main
\* task has set up the session, and leaves it as it is if that fails.
HearsOutcome ==
    /\ outcomes # <<>>
    /\ outcomes' = Tail(outcomes)
    /\ CASE Head(outcomes) = "Started" -> card' = "waiting" /\ flight' = TRUE
         [] Head(outcomes) \in {"Cancelled", "Failed"} -> card' = "ready" /\ flight' = FALSE
         [] OTHER -> \/ card' = "hidden" /\ flight' = FALSE
                     \/ UNCHANGED <<card, flight>>
    /\ UNCHANGED <<slot, flows, fired, clicks>>

OidcNext ==
    \/ TakesStart \/ TakesCancel
    \/ \E f \in DOMAIN flows : OidcTask(f) \/ BrowserReturns(f)
    \/ ClicksContinue \/ ClicksCancel \/ ProbeAnswers \/ ResetsScreen \/ HearsOutcome

OidcSpec == OidcInit /\ [][OidcNext]_oidcVars

\* The tasks are polled, their waits bounded by a timeout, and the screen handles
\* its actions; the browser may never come back.
FairOidc ==
    /\ OidcSpec
    /\ \A f \in 1..MaxFlows : WF_oidcVars(f \in DOMAIN flows /\ OidcTask(f))
    /\ WF_oidcVars(HearsOutcome)

----------------------------------------------------------------------------
(* Properties.                                                             *)

\* The handle that cancels a flow goes with that flow or with a Cancel: "a late
\* cleanup from an older flow cannot drop the cancel handle for a newer loopback
\* server" (OidcFlowSlot), and no flow is started over another.
CancelHandleIsKept ==
    [][(slot # 0 /\ slot' # slot) =>
          \/ slot' = 0 /\ clicks # <<>> /\ Head(clicks) = "Cancel" /\ clicks' = Tail(clicks)
          \/ flows'[slot] \in {"over", "in"}]_oidcVars

\* The screen does not wait for a browser for ever: unless somebody is logged
\* in, Continue is offered again, however late the older flows end.
WaitingEnds == flight ~> (~flight \/ \E f \in DOMAIN flows : flows[f] \in {"loggedIn", "in"})
=============================================================================
