---------------------------- MODULE MCVerdictParts ----------------------------
(***************************************************************************)
(* Two parts of the verdict path for TLC, of which one is chosen at the    *)
(* start, when the owner's account is the active one: accounts are         *)
(* switched while the request stays undecided and unexpired; or it is      *)
(* decided, or expires, and the room is left, in one account.              *)
(***************************************************************************)
EXTENDS MCApprovalVerdicts

VARIABLE part

VerdictPartsInit ==
    /\ InitVerdicts
    /\ client = MC_Owner
    /\ part \in {"switch", "leave"}
    /\ part = "leave" => ~restoring

verdictPartVars == <<part, verdictVars>>

VerdictPartsNext ==
    \/ /\ part = "switch" /\ NextVerdicts
       /\ published' \subseteq MC_Ask /\ leaves' = 0 /\ now' = 0
       /\ UNCHANGED part
    \/ /\ part = "leave" /\ NextVerdicts
       /\ published' \subseteq MC_Path /\ switches' = 0
       /\ UNCHANGED part

VerdictPartsSpec == VerdictPartsInit /\ [][VerdictPartsNext]_verdictPartVars
=============================================================================
