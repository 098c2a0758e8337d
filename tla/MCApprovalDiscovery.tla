------------------------- MODULE MCApprovalDiscovery -------------------------
(***************************************************************************)
(* Instances of ApprovalDiscovery for TLC.                                 *)
(***************************************************************************)
EXTENDS ApprovalDiscovery

MC_Places == Accounts \X Rooms
MC_Content == [publisher |-> CHOOSE b \in Publishers : TRUE, active |-> Routes]
MC_Contents == {MC_Content, [MC_Content EXCEPT !.active = {}]}

MC_Event(n, g, c, ok) ==
    [protocol |-> n, generation |-> g, content |-> c, wellFormed |-> ok]

\* A v1 marker, a v2 marker, a newer one that withdraws the routes, a malformed one.
MC_Events ==
    {MC_Event(1, 1, MC_Content, TRUE), MC_Event(2, 1, MC_Content, TRUE),
     MC_Event(2, 2, [MC_Content EXCEPT !.active = {}], TRUE),
     MC_Event(2, 1, MC_Content, FALSE)}

MC_Present(e) == [outcome |-> "Present", observedV2 |-> e.protocol = 2, marker |-> {e}]
MC_Absent == [outcome |-> "Absent", observedV2 |-> FALSE, marker |-> {}]
MC_Unreadable == [outcome |-> "Failed", observedV2 |-> TRUE, marker |-> {}]

MC_Answers == {MC_Present(e) : e \in MC_Events} \cup {MC_Absent, MC_Unreadable}

\* Only what the schedule tells apart: a success or a failure.
MC_Plain == {MC_Absent}

\* The owner stays in the rooms and with the account, and the program runs on.
MC_Stays == DiscoveryNext /\ switches' = 0 /\ leaves' = 0 /\ restarts' = 0
MC_LiveSpec == DiscoveryInit /\ [][MC_Stays]_discoveryVars /\ DiscoveryFairness
=============================================================================
