--------------------------- MODULE MCAccountSession ---------------------------
(***************************************************************************)
(* Instances of AccountSession for TLC, of which one is chosen at the      *)
(* start: the service fails, and the app goes to the background at any     *)
(* time; tokens expire, in the foreground; or accounts are added.          *)
(***************************************************************************)
EXTENDS AccountSession

MC_Anytime == {TRUE, FALSE}
MC_Everything == {"service", "token"}

VARIABLE part

MC_Init == SessionInit /\ part \in {"service", "token", "adding"}

NoWish == lockQueue' # Append(lockQueue, "ui") /\ desired'

MC_Next ==
    /\ SessionNext
    /\ part = "service" => token' = "good" /\ ~adding'
    /\ part = "token" => /\ NoWish /\ ~adding'
                         /\ run' = "error" => (run = "error" \/ token = "bad")
    /\ part = "adding" => NoWish /\ token' = "good" /\ run' # "error"
    /\ UNCHANGED part

MC_Spec == MC_Init /\ [][MC_Next]_<<part, sessionVars>> /\ SessionFairness
=============================================================================
