--------------------------- MODULE ApprovalSession ---------------------------
(***************************************************************************)
(* The shared, ephemeral state behind Robrix's owner-approval cards        *)
(* (src/approval_state.rs, ApprovalSession).  A room's timeline is folded, *)
(* message by message and in any order, into one record per request; a     *)
(* click on a card claims the request before a verdict is sent; the worker *)
(* reports how the send ended.                                             *)
(*                                                                         *)
(* A message is what parse_projection lets through: malformed content      *)
(* leaves the session alone and does not occur here.  The identity of an   *)
(* agent, its project and its publisher is one value, the `origin'.        *)
(***************************************************************************)
EXTENDS Naturals, FiniteSets, Functions

CONSTANTS
    Accounts, Rooms, Requests, Digests, Origins, Events,
    None,             \* the absent optional value
    Messages,         \* the parsed messages the room's timeline can contain
    MAX_ACCOUNTS, MAX_APPROVALS,
    MaxRevision, MaxTime, MaxEpoch

States    == {"Pending", "Approved", "Denied", "Expired", "Consumed"}
Decisions == {"Allow", "Deny"}
Terminal(s) == s # "Pending"

Binding == [digest : Digests, owner : Accounts, origin : Origins]

\* Which decision a state carries.
StateDecision(s, d) ==
    \/ s = "Pending" /\ d = None
    \/ s = "Approved" /\ d = "Allow"
    \/ s \in {"Denied", "Expired"} /\ d = "Deny"
    \/ s = "Consumed" /\ d \in Decisions

\* Mutated form of Transition: a request is consumed with either decision.
TransitionFlipsDecision(s, d, t, e) ==
    \/ s = "Pending" /\ Terminal(t)
    \/ s \in {"Approved", "Denied", "Expired"} /\ t = "Consumed"

\* A decided request may only become consumed, with the decision it has.
Transition(s, d, t, e) ==
    \/ s = "Pending" /\ Terminal(t)
    \/ s \in {"Approved", "Denied", "Expired"} /\ t = "Consumed" /\ d = e

Message ==
    {m \in [request : Requests, binding : Binding, isRequest : BOOLEAN,
            state : States, decision : Decisions \cup {None},
            revision : 1..MaxRevision, expiresAt : (1..MaxTime) \cup {None},
            legacy : BOOLEAN, original : Events \cup {None}] :
        /\ StateDecision(m.state, m.decision)
        /\ m.isRequest => /\ m.state = "Pending" /\ m.revision = 1
                          /\ m.expiresAt # None /\ ~m.legacy
        /\ ~m.isRequest => m.expiresAt = None
        /\ ~m.legacy => m.original = None}

RequestMessage(q, b, expiry) ==
    [request |-> q, binding |-> b, isRequest |-> TRUE, state |-> "Pending",
     decision |-> None, revision |-> 1, expiresAt |-> expiry,
     legacy |-> FALSE, original |-> None]
StatusMessage(q, b, s, d, revision) ==
    [request |-> q, binding |-> b, isRequest |-> FALSE, state |-> s,
     decision |-> d, revision |-> revision, expiresAt |-> None,
     legacy |-> FALSE, original |-> None]
LegacyStatus(q, b, s, d, revision, event) ==
    [StatusMessage(q, b, s, d, revision) EXCEPT !.legacy = TRUE, !.original = event]

ASSUME MessagesAssumption == Messages \subseteq Message
ASSUME BoundsAssumption ==
    /\ MAX_ACCOUNTS \in Nat \ {0} /\ MAX_APPROVALS \in Nat \ {0}
    /\ MaxRevision \in Nat \ {0} /\ MaxTime \in Nat \ {0} /\ MaxEpoch \in Nat
ASSUME NoneAssumption ==
    None \notin Decisions \cup Events \cup Nat

RequestKey == [account : Accounts, room : Rooms, request : Requests]
ClaimKey   == [account : Accounts, room : Rooms, request : Requests,
               digest : Digests]
ClaimState == {"Claimed", "OutcomeUnknown", "Sent"}
SendResult == {"ConfirmedPreSendFailure", "OutcomeUnknown", "Sent"}

Record == [binding : Binding, state : States,
           decision : Decisions \cup {None}, revision : 1..MaxRevision,
           expiresAt : (1..MaxTime) \cup {None}, hasRequest : BOOLEAN,
           legacy : BOOLEAN, original : Events \cup {None},
           conflicted : BOOLEAN]

VARIABLES
    records,   \* request key -> Record, a partial function
    claims,    \* claim key -> ClaimState, a partial function
    epochs,    \* <<account, room>> -> number of changes; 0 where absent
    now        \* the wall clock

sessionVars == <<records, claims, epochs>>
vars == <<records, claims, epochs, now>>

-----------------------------------------------------------------------------
KeyOf(c) == [account |-> c.account, room |-> c.room, request |-> c.request]

Put(f, k, v) == [x \in DOMAIN f \cup {k} |-> IF x = k THEN v ELSE f[x]]

Changed(a, r) ==
    /\ epochs[<<a, r>>] < MaxEpoch
    /\ epochs' = [epochs EXCEPT ![<<a, r>>] = @ + 1]

\* Mutated form of AtCapacity: the caps are off by one.
AtCapacityOffByOne(a) ==
    LET accounts == {k.account : k \in DOMAIN records}
    IN  \/ Cardinality(accounts) > MAX_ACCOUNTS /\ a \notin accounts
        \/ Cardinality({k \in DOMAIN records : k.account = a}) > MAX_APPROVALS

AtCapacity(a) ==
    LET accounts == {k.account : k \in DOMAIN records}
    IN  \/ Cardinality(accounts) >= MAX_ACCOUNTS /\ a \notin accounts
        \/ Cardinality({k \in DOMAIN records : k.account = a}) >= MAX_APPROVALS

\* Mutated form of IsActionable: a claimed request can be clicked again.
IsActionableThoughClaimed(k) ==
    /\ k \in DOMAIN records
    /\ records[k].hasRequest /\ ~records[k].legacy /\ ~records[k].conflicted
    /\ records[k].state = "Pending" /\ records[k].binding.owner = k.account
    /\ records[k].expiresAt # None /\ now < records[k].expiresAt

\* A claim of any digest but the record's does not lock the request.
IsActionable(k) ==
    /\ k \in DOMAIN records
    /\ records[k].hasRequest
    /\ ~records[k].legacy
    /\ ~records[k].conflicted
    /\ records[k].state = "Pending"
    /\ records[k].binding.owner = k.account
    /\ records[k].expiresAt # None
    /\ now < records[k].expiresAt
    /\ ~ \E c \in DOMAIN claims :
            KeyOf(c) = k /\ c.digest = records[k].binding.digest

-----------------------------------------------------------------------------
(***************************************************************************)
(* ingest_message.  The record k and the message m decide which of four    *)
(* things happens: admitted, filled in, advanced, or marked conflicted.    *)
(* Any other message is a duplicate or is refused, and changes nothing.    *)
(***************************************************************************)
ProvenanceDiffers(r, m) ==
    /\ r.legacy \/ m.legacy
    /\ r.legacy # m.legacy \/ r.original # m.original

SameProjection(r, m) ==
    r.state = m.state /\ r.decision = m.decision /\ r.legacy = m.legacy

\* Mutated form of Conflicts: a status that arrives late is a conflict.
ConflictsWhenLate(r, m) ==
    \/ r.binding # m.binding
    \/ ~m.isRequest /\ m.revision <= r.revision /\ ~SameProjection(r, m)

Conflicts(r, m) ==
    \/ r.binding # m.binding
    \/ /\ m.isRequest
       /\ ~r.legacy /\ r.hasRequest /\ r.expiresAt # m.expiresAt
    \/ /\ ~m.isRequest
       /\ \/ ProvenanceDiffers(r, m)
          \/ m.revision = r.revision /\ ~SameProjection(r, m)
          \/ /\ m.revision > r.revision
             /\ ~Transition(r.state, r.decision, m.state, m.decision)

Fills(r, m) ==
    r.binding = m.binding /\ m.isRequest /\ ~r.legacy /\ ~r.hasRequest

\* Mutated form of Advances: a decided request is never consumed.
AdvancesWhilePending(r, m) ==
    /\ r.binding = m.binding /\ ~m.isRequest
    /\ m.revision > r.revision
    /\ r.state = "Pending" /\ Terminal(m.state)

Advances(r, m) ==
    /\ r.binding = m.binding /\ ~m.isRequest
    /\ ~ProvenanceDiffers(r, m)
    /\ m.revision > r.revision
    /\ Transition(r.state, r.decision, m.state, m.decision)

\* Mutated form of Admit: the revision counts from zero.
AdmitFromZero(k, m) ==
    /\ k \notin DOMAIN records
    /\ ~AtCapacity(k.account)
    /\ records' = Put(records, k,
         [binding |-> m.binding, state |-> m.state, decision |-> m.decision,
          revision |-> m.revision - 1, expiresAt |-> m.expiresAt,
          hasRequest |-> m.isRequest, legacy |-> m.legacy,
          original |-> m.original, conflicted |-> FALSE])
    /\ Changed(k.account, k.room)
    /\ UNCHANGED claims

Admit(k, m) ==
    /\ k \notin DOMAIN records
    /\ ~AtCapacity(k.account)
    /\ records' = Put(records, k,
         [binding |-> m.binding, state |-> m.state, decision |-> m.decision,
          revision |-> m.revision, expiresAt |-> m.expiresAt,
          hasRequest |-> m.isRequest, legacy |-> m.legacy,
          original |-> m.original, conflicted |-> FALSE])
    /\ Changed(k.account, k.room)
    /\ UNCHANGED claims

MarkConflicted(k, m) ==
    /\ k \in DOMAIN records /\ Conflicts(records[k], m)
    /\ records' = [records EXCEPT ![k].conflicted = TRUE]
    /\ Changed(k.account, k.room)
    /\ UNCHANGED claims

FillRequest(k, m) ==
    /\ k \in DOMAIN records /\ Fills(records[k], m)
    /\ records' = [records EXCEPT ![k].hasRequest = TRUE,
                                  ![k].expiresAt = m.expiresAt]
    /\ Changed(k.account, k.room)
    /\ UNCHANGED claims

\* Mutated form of Advance: a decision leaves the claims of its request alone.
AdvanceKeepsClaims(k, m) ==
    /\ k \in DOMAIN records /\ Advances(records[k], m)
    /\ records' = [records EXCEPT ![k].revision = m.revision,
                                  ![k].state = m.state,
                                  ![k].decision = m.decision,
                                  ![k].legacy = @ \/ m.legacy]
    /\ Changed(k.account, k.room)
    /\ UNCHANGED claims

Advance(k, m) ==
    /\ k \in DOMAIN records /\ Advances(records[k], m)
    /\ records' = [records EXCEPT ![k].revision = m.revision,
                                  ![k].state = m.state,
                                  ![k].decision = m.decision,
                                  ![k].legacy = @ \/ m.legacy]
    /\ claims' = IF Terminal(m.state)
                 THEN Restrict(claims, {c \in DOMAIN claims : KeyOf(c) # k})
                 ELSE claims
    /\ Changed(k.account, k.room)

IngestMessage(a, r, m) ==
    LET k == [account |-> a, room |-> r, request |-> m.request]
    IN  Admit(k, m) \/ MarkConflicted(k, m) \/ FillRequest(k, m) \/ Advance(k, m)

\* Mutated form of TryClaim: the digest of the card is not compared.
TryClaimAnyDigest(c) ==
    /\ IsActionable(KeyOf(c))
    /\ Cardinality(DOMAIN claims) < MAX_ACCOUNTS * MAX_APPROVALS
    /\ claims' = Put(claims, c, "Claimed")
    /\ Changed(c.account, c.room)
    /\ UNCHANGED records

(***************************************************************************)
(* try_claim, when it grants; a refused claim changes nothing.             *)
(***************************************************************************)
TryClaim(c) ==
    /\ IsActionable(KeyOf(c))
    /\ records[KeyOf(c)].binding.digest = c.digest
    /\ Cardinality(DOMAIN claims) < MAX_ACCOUNTS * MAX_APPROVALS
    /\ claims' = Put(claims, c, "Claimed")
    /\ Changed(c.account, c.room)
    /\ UNCHANGED records

\* Mutated form of MayRelease: an earlier unknown outcome is forgotten.
MayReleaseUncertain(c) ==
    /\ c \in DOMAIN claims
    /\ KeyOf(c) \in DOMAIN records
    /\ records[KeyOf(c)].state = "Pending"
    /\ ~records[KeyOf(c)].conflicted
    /\ records[KeyOf(c)].expiresAt # None
    /\ now < records[KeyOf(c)].expiresAt

(***************************************************************************)
(* record_send_result.  A pre-send failure gives the claim back only while *)
(* no other outcome was recorded and the request could still be decided.   *)
(***************************************************************************)
MayRelease(c) ==
    /\ c \in DOMAIN claims /\ claims[c] = "Claimed"
    /\ KeyOf(c) \in DOMAIN records
    /\ records[KeyOf(c)].state = "Pending"
    /\ ~records[KeyOf(c)].conflicted
    /\ records[KeyOf(c)].expiresAt # None
    /\ now < records[KeyOf(c)].expiresAt

ReleaseClaim(c) ==
    /\ MayRelease(c)
    /\ claims' = Restrict(claims, DOMAIN claims \ {c})
    /\ Changed(c.account, c.room)
    /\ UNCHANGED records

RetainClaim(c, outcome) ==
    /\ c \in DOMAIN claims
    /\ claims' = [claims EXCEPT ![c] = outcome]
    /\ Changed(c.account, c.room)
    /\ UNCHANGED records

RecordSendResult(c, result) ==
    \/ result = "ConfirmedPreSendFailure" /\ ReleaseClaim(c)
    \/ result # "ConfirmedPreSendFailure" /\ RetainClaim(c, result)

-----------------------------------------------------------------------------
(***************************************************************************)
(* remove_room and clear_account forget records, claims and epochs alike.  *)
(***************************************************************************)
Forget(places) ==
    /\ records' = Restrict(records,
                    {k \in DOMAIN records : <<k.account, k.room>> \notin places})
    /\ claims' = Restrict(claims,
                    {c \in DOMAIN claims : <<c.account, c.room>> \notin places})
    /\ epochs' = [p \in Accounts \X Rooms |-> IF p \in places THEN 0 ELSE epochs[p]]

RemoveRoom(a, r) == Forget({<<a, r>>})
ClearAccount(a)  == Forget({a} \X Rooms)

Tick == /\ now < MaxTime
        /\ now' = now + 1
        /\ UNCHANGED sessionVars

Init == /\ records = << >> /\ claims = << >>
        /\ epochs = [p \in Accounts \X Rooms |-> 0]
        /\ now = 0

\* The session with every caller free: any message, any click, any outcome.
Next ==
    \/ /\ \/ \E a \in Accounts, r \in Rooms, m \in Messages : IngestMessage(a, r, m)
          \/ \E c \in ClaimKey : TryClaim(c)
          \/ \E c \in DOMAIN claims, s \in SendResult : RecordSendResult(c, s)
          \/ \E a \in Accounts, r \in Rooms : RemoveRoom(a, r)
          \/ \E a \in Accounts : ClearAccount(a)
       /\ UNCHANGED now
    \/ Tick

Spec == Init /\ [][Next]_vars

-----------------------------------------------------------------------------
TypeOK ==
    /\ records \in [DOMAIN records -> Record] /\ DOMAIN records \subseteq RequestKey
    /\ claims \in [DOMAIN claims -> ClaimState] /\ DOMAIN claims \subseteq ClaimKey
    /\ epochs \in [Accounts \X Rooms -> Nat]
    /\ now \in 0..MaxTime

\* Every live claim belongs to a request its own account may still be asked
\* about: the record is there, names the claim's digest and the claiming
\* account as owner, is a native request and is undecided.  (A claim that
\* outlives its request would lock, or later release, another one.)
ClaimsLockPendingRequests ==
    \A c \in DOMAIN claims :
        /\ KeyOf(c) \in DOMAIN records
        /\ LET r == records[KeyOf(c)]
           IN  /\ r.binding.digest = c.digest /\ r.binding.owner = c.account
               /\ r.hasRequest /\ ~r.legacy /\ r.state = "Pending"

\* At most one claim is live for a request, whatever digests the panes name:
\* two panes that show the same card cannot both have a verdict under way.
OneClaimPerRequest ==
    \A c, d \in DOMAIN claims : KeyOf(c) = KeyOf(d) => c = d

\* A request known only from a migrated (legacy) status stays read-only: no
\* later native request or status turns it into one that can be claimed.
LegacyIsReadOnly ==
    \A k \in DOMAIN records : records[k].legacy =>
        /\ ~records[k].hasRequest /\ records[k].expiresAt = None
        /\ \A c \in DOMAIN claims : KeyOf(c) # k

\* The caps of the maps hold, and the claim cap of try_claim is never what
\* refuses a click: there are never more claims than records.
CapacityRespected ==
    /\ Cardinality({k.account : k \in DOMAIN records}) <= MAX_ACCOUNTS
    /\ \A a \in Accounts :
         Cardinality({k \in DOMAIN records : k.account = a}) <= MAX_APPROVALS
    /\ Cardinality(DOMAIN claims) <= Cardinality(DOMAIN records)

OnlyAdvances ==
    \A k \in DOMAIN records \cap DOMAIN records' :
        LET r == records[k]  s == records'[k]
        IN  /\ s.revision >= r.revision
            /\ s.revision = r.revision => s.state = r.state /\ s.decision = r.decision
            /\ Terminal(r.state) => Terminal(s.state) /\ s.decision = r.decision
            /\ r.binding = s.binding
            /\ r.conflicted => s.conflicted

\* Canonical state never regresses or forks: while a record is kept its
\* revision only grows, a decided request keeps its decision, its binding is
\* fixed, and a conflict, once seen, is never forgiven.
NeverRegressesOrForks == [][OnlyAdvances]_vars

KeepsUncertainClaims ==
    \A c \in DOMAIN claims :
        /\ claims[c] # "Claimed"
        /\ KeyOf(c) \in DOMAIN records'
        /\ ~Terminal(records'[KeyOf(c)].state)
        => c \in DOMAIN claims' /\ claims'[c] # "Claimed"

\* A claim whose send may have reached the server is never given back while
\* its request is undecided and kept: no later result unlocks it.
UnknownOutcomeStaysLocked == [][KeepsUncertainClaims]_vars
=============================================================================
