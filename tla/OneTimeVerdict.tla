---------------------------- MODULE OneTimeVerdict ----------------------------
(***************************************************************************)
(* What the approval path promises for a request, whoever clicks, folds,   *)
(* switches accounts or leaves rooms: an open request is held by one click *)
(* at a time; it is open again only if nothing was sent for that click; a  *)
(* verdict is sent at most once, and only for a click that held it; and a  *)
(* decided request stays closed.  Nothing more is promised of a request    *)
(* whose state was dropped.  One step may concern several requests.        *)
(* ApprovalVerdicts implements this.                                       *)
(***************************************************************************)
EXTENDS Naturals

CONSTANT Keys  \* the requests, each of an account and a room

VARIABLES phase,  \* of every request
          sent    \* how many sends of a verdict were started for it

OneTimeInit == phase = [k \in Keys |-> "open"] /\ sent = [k \in Keys |-> 0]

Becomes(k, from, to) == phase[k] \in from /\ phase'[k] = to /\ sent'[k] = sent[k]

Hold(k) == sent[k] = 0 /\ Becomes(k, {"open"}, "held")
GiveBack(k) == sent[k] = 0 /\ Becomes(k, {"held"}, "open")
Close(k) == Becomes(k, {"open", "held"}, "closed")
Drop(k) == phase'[k] = "dropped" /\ sent'[k] = 0

\* The decision of somebody else may overtake the send.
StartSend(k) == /\ phase[k] \in {"held", "closed"}
                /\ sent[k] = 0 /\ sent'[k] = 1
                /\ phase'[k] = phase[k]

Stays(k) == phase'[k] = phase[k] /\ sent'[k] = sent[k]

OneTimeNext ==
    \A k \in Keys : Stays(k) \/ Hold(k) \/ GiveBack(k) \/ Close(k) \/ StartSend(k) \/ Drop(k)

OneTimeSpec == OneTimeInit /\ [][OneTimeNext]_<<phase, sent>>
=============================================================================
