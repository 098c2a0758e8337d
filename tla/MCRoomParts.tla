----------------------------- MODULE MCRoomParts ------------------------------
(***************************************************************************)
(* The thread timelines of a room and the approval session for TLC, side   *)
(* by side: one of them is chosen at the start, and runs alone.            *)
(***************************************************************************)
EXTENDS ThreadTimelines, ApprovalSession

MC_Owner == CHOOSE a \in Accounts : TRUE
MC_Bindings == {[digest |-> d, owner |-> MC_Owner, origin |-> o] :
                   d \in Digests, o \in Origins}
MC_Verdicts == {<<"Pending", None>>, <<"Approved", "Allow">>, <<"Denied", "Deny">>,
                <<"Expired", "Deny">>, <<"Consumed", "Allow">>, <<"Consumed", "Deny">>}

MC_Bare == CHOOSE b \in MC_Bindings : TRUE
MC_Request == CHOOSE q \in Requests : TRUE
\* Every native message of two bindings of one request, legacy statuses that
\* clash, and bare messages of the other requests, for the caps of the maps.
MC_Adversarial ==
    {RequestMessage(MC_Request, b, t) : b \in MC_Bindings, t \in 1..MaxTime}
    \cup {StatusMessage(MC_Request, b, v[1], v[2], n) :
             b \in MC_Bindings, v \in MC_Verdicts, n \in 1..MaxRevision}
    \cup {LegacyStatus(MC_Request, b, v[1], v[2], n, e) :
             b \in MC_Bindings, v \in {<<"Pending", None>>, <<"Denied", "Deny">>},
             n \in {1, 2}, e \in Events \cup {None}}
    \cup UNION {{RequestMessage(q, MC_Bare, 1), StatusMessage(q, MC_Bare, "Denied", "Deny", 2)} :
             q \in Requests \ {MC_Request}}

VARIABLE part

roomPartVars == <<part, timelineVars, vars>>
noThreads == <<part, vars>>
noSession == <<part, timelineVars>>

RoomPartsInit == part \in {"threads", "session"} /\ TimelinesInit /\ Init

RoomPartsNext ==
    \/ part = "threads" /\ TimelinesNext /\ UNCHANGED noThreads
    \/ part = "session" /\ Next /\ UNCHANGED noSession

\* FairTimelines, for as long as the thread timelines run.
FairRoomParts ==
    /\ RoomPartsInit /\ [][RoomPartsNext]_roomPartVars
    /\ WF_roomPartVars(part = "threads" /\ Worker /\ UNCHANGED noThreads)
    /\ WF_roomPartVars(part = "threads" /\ Building /\ UNCHANGED noThreads)
    /\ WF_roomPartVars(part = "threads" /\ AddRoom /\ UNCHANGED noThreads)
    /\ WF_roomPartVars(part = "threads" /\ LearnRoomLeft /\ UNCHANGED noThreads)
    /\ \A t \in Threads :
          WF_roomPartVars(part = "threads" /\ ShowOnSignal(t) /\ UNCHANGED noThreads)

\* The types of both parts.
RoomTypesOK == TypeOK /\ TimelinesTypeOK
=============================================================================
