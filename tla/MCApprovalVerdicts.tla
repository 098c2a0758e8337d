-------------------------- MODULE MCApprovalVerdicts --------------------------
(***************************************************************************)
(* Instances of ApprovalVerdicts for TLC.                                  *)
(***************************************************************************)
EXTENDS ApprovalVerdicts

\* The approval room is private to the owner.
MC_Owner == CHOOSE a \in Accounts : TRUE
MC_Members == {MC_Owner} \X Rooms
MC_Binding == [digest |-> CHOOSE d \in Digests : TRUE, owner |-> MC_Owner,
               origin |-> CHOOSE o \in Origins : TRUE]

\* One request, that expires at the last tick, and every status of it.
MC_Native ==
    UNION {{RequestMessage(q, MC_Binding, MaxTime),
            StatusMessage(q, MC_Binding, "Approved", "Allow", 2),
            StatusMessage(q, MC_Binding, "Denied", "Deny", 2),
            StatusMessage(q, MC_Binding, "Expired", "Deny", 2),
            StatusMessage(q, MC_Binding, "Consumed", "Allow", 3),
            StatusMessage(q, MC_Binding, "Consumed", "Deny", 3)} : q \in Requests}

\* The request, a decision and its consumption, for the larger instances.
MC_Path ==
    UNION {{RequestMessage(q, MC_Binding, MaxTime),
            StatusMessage(q, MC_Binding, "Denied", "Deny", 2),
            StatusMessage(q, MC_Binding, "Consumed", "Deny", 3)} : q \in Requests}
MC_Ask == {m \in MC_Path : m.isRequest}

\* The owner stays in the room and with the account.
MC_Stays == NextVerdicts /\ switches' = 0 /\ leaves' = 0
MC_LiveSpec == InitVerdicts /\ [][MC_Stays]_verdictVars /\ VerdictFairness
=============================================================================
