--------------------------- MODULE MCDiscoveryParts ---------------------------
(***************************************************************************)
(* Two parts of the discovery of markers for TLC, of which one is chosen   *)
(* at the start: rooms are left and the account is switched while no       *)
(* marker is found, so that the clock of the markers may stand; or the     *)
(* markers of one account's room change, and the program is restarted,     *)
(* while the room is asked by the timer alone.                             *)
(***************************************************************************)
EXTENDS MCApprovalDiscovery

VARIABLE part

MC_First == CHOOSE a \in Accounts : TRUE
MC_Nonce == CHOOSE n \in Nonces : TRUE

DiscoveryPartsInit ==
    /\ DiscoveryInit
    /\ client = MC_First
    /\ \/ part = "lifecycle" /\ now = MaxTime
       \/ part = "markers" /\ now = 0

discoveryPartVars == <<part, discoveryVars>>

DiscoveryPartsNext ==
    \/ /\ part = "lifecycle" /\ DiscoveryNext
       /\ restarts' = 0 /\ \A t \in tasks' : t.answer \in MC_Plain \cup {Failure}
       /\ UNCHANGED part
    \/ /\ part = "markers" /\ DiscoveryNext
       /\ switches' = 0 /\ leaves' = 0 /\ wanted' = {} /\ UNCHANGED client
       /\ \A t \in tasks' : t.nonce = MC_Nonce
       /\ UNCHANGED part

DiscoveryPartsSpec == DiscoveryPartsInit /\ [][DiscoveryPartsNext]_discoveryPartVars
=============================================================================
