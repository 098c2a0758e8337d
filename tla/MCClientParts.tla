----------------------------- MODULE MCClientParts -----------------------------
(***************************************************************************)
(* The smaller parts of the client for TLC, side by side: one part is      *)
(* chosen at the start, and runs alone.                                    *)
(***************************************************************************)
EXTENDS ApprovalMarkers, LogoutFlow, OidcFlow, AppStateFile, TimelineSubscriber,
        TimelinePagination

MC_Contents == {[publisher |-> b, active |-> Routes] : b \in Publishers}

\* Every well-formed marker event of the contents, and a malformed one per protocol.
MC_Events ==
    {[protocol |-> n, generation |-> g, content |-> c, wellFormed |-> TRUE] :
        n \in Protocols, g \in 1..MaxGeneration, c \in Contents}
    \cup {[protocol |-> n, generation |-> 1, content |-> c, wellFormed |-> FALSE] :
        n \in Protocols, c \in Contents}

VARIABLE part

allVars == <<part, markerVars, logoutVars, oidcVars, appStateVars, subscriberVars, pageVars>>

PartsInit ==
    /\ part \in {"markers", "logout", "oidc", "file", "items", "search", "pages"}
    /\ MarkersInit /\ now = 0 /\ LogoutInit /\ OidcInit /\ AppStateInit
    /\ SubscriberInit /\ PaginationInit
    /\ part \notin {"items", "search"} => items = <<>>

\* What stays as it is while a part runs.
noMarkers == <<part, logoutVars, oidcVars, appStateVars, subscriberVars, pageVars>>
noLogout == <<part, markerVars, oidcVars, appStateVars, subscriberVars, pageVars>>
noOidc == <<part, markerVars, logoutVars, appStateVars, subscriberVars, pageVars>>
noFile == <<part, markerVars, logoutVars, oidcVars, subscriberVars, pageVars>>
noItems == <<part, markerVars, logoutVars, oidcVars, appStateVars, pageVars>>
noPages == <<part, markerVars, logoutVars, oidcVars, appStateVars, subscriberVars>>

\* Batches of every kind, while nothing is searched for.
AnyBatch == Grows \/ Shrinks \/ EndsBatch \/ SeesRequest \/ Screen

PartsNext ==
    \/ part = "markers" /\ MarkersNext /\ UNCHANGED noMarkers
    \/ part = "logout" /\ LogoutNext /\ UNCHANGED noLogout
    \/ part = "oidc" /\ OidcNext /\ UNCHANGED noOidc
    \/ part = "file" /\ AppStateNext /\ UNCHANGED noFile
    \/ part = "items" /\ AnyBatch /\ UNCHANGED noItems
    \/ part = "search" /\ GrowingNext /\ UNCHANGED noItems
    \/ part = "pages" /\ PaginationNext /\ UNCHANGED noPages

----------------------------------------------------------------------------
(* FairLogout and FairOidc: an action of each to a condition, as only the    *)
(* conditions of the part that runs can bind.                                *)

Machines(i) == i \in DOMAIN logouts /\ Machine(i)
OidcTasks(f) == f \in DOMAIN flows /\ OidcTask(f)

Fair1 == \/ part = "logout" /\ Machines(1) /\ UNCHANGED noLogout
         \/ part = "oidc" /\ OidcTasks(1) /\ UNCHANGED noOidc
Fair2 == \/ part = "logout" /\ Machines(2) /\ UNCHANGED noLogout
         \/ part = "oidc" /\ OidcTasks(2) /\ UNCHANGED noOidc
Fair3 == \/ part = "logout" /\ HandlesNews /\ UNCHANGED noLogout
         \/ part = "oidc" /\ HearsOutcome /\ UNCHANGED noOidc

FairParts ==
    /\ PartsInit /\ [][PartsNext]_allVars
    /\ WF_allVars(Fair1) /\ WF_allVars(Fair2) /\ WF_allVars(Fair3)

\* The types of the parts that have no other run.
PartsTypeOK == /\ MarkersTypeOK /\ LogoutTypeOK /\ OidcTypeOK /\ AppStateTypeOK
               /\ SubscriberTypeOK /\ PaginationTypeOK
=============================================================================
