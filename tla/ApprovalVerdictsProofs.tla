------------------------ MODULE ApprovalVerdictsProofs ------------------------
(***************************************************************************)
(* Proofs about ApprovalSession and ApprovalVerdicts, for every set of     *)
(* accounts, rooms, requests and messages, and every bound.                *)
(*                                                                         *)
(* The session: its types, its caps, the lock that a claim is, and that a  *)
(* canonical record only moves forward.  The path of a verdict: its types, *)
(* one verdict per request, the fold of an honest publisher, and that the  *)
(* path implements OneTimeVerdict.                                         *)
(***************************************************************************)
EXTENDS ApprovalVerdicts, FiniteSetTheorems, TLAPS

-----------------------------------------------------------------------------
(* The session.                                                            *)

\* The strengthening: types, the lock that a claim is, and read-only legacy
\* records.  Admitting a record uses the lock (no claim waits for a record
\* that is not there), claiming uses the record's type.
LegacyHasNoRequest ==
    \A k \in DOMAIN records : records[k].legacy =>
        ~records[k].hasRequest /\ records[k].expiresAt = None

SessionInv == TypeOK /\ ClaimsLockPendingRequests /\ LegacyHasNoRequest

LEMMA KeyType == \A c \in ClaimKey : KeyOf(c) \in RequestKey
  BY DEF KeyOf, RequestKey, ClaimKey

LEMMA MessageType ==
    ASSUME NEW m \in Messages
    PROVE  /\ m \in [request : Requests, binding : Binding, isRequest : BOOLEAN,
                     state : States, decision : Decisions \cup {None},
                     revision : 1..MaxRevision, expiresAt : (1..MaxTime) \cup {None},
                     legacy : BOOLEAN, original : Events \cup {None}]
           /\ m.legacy => ~m.isRequest
           /\ ~m.isRequest => m.expiresAt = None
           /\ m.isRequest => m.state = "Pending"
  BY MessagesAssumption DEF Message

LEMMA InitSession == Init => SessionInv
  <1> SUFFICES ASSUME Init PROVE SessionInv
    OBVIOUS
  <1>1. DOMAIN records = {} /\ DOMAIN claims = {}
    BY DEF Init
  <1>2. 0 \in Nat /\ 0 \in 0..MaxTime
    BY BoundsAssumption
  <1> QED
    BY <1>1, <1>2 DEF Init, SessionInv, TypeOK, ClaimsLockPendingRequests,
                      LegacyHasNoRequest

LEMMA ChangedType ==
    ASSUME NEW a \in Accounts, NEW r \in Rooms, Changed(a, r),
           epochs \in [Accounts \X Rooms -> Nat]
    PROVE  epochs' \in [Accounts \X Rooms -> Nat]
  BY DEF Changed

\* A step that ingests one message.
LEMMA IngestStep ==
    ASSUME SessionInv, UNCHANGED now, NEW a \in Accounts, NEW r \in Rooms,
           NEW m \in Messages, IngestMessage(a, r, m)
    PROVE  SessionInv'
  <1> DEFINE k == [account |-> a, room |-> r, request |-> m.request]
  <1>m. /\ m.request \in Requests /\ m.binding \in Binding /\ m.isRequest \in BOOLEAN
        /\ m.state \in States /\ m.decision \in Decisions \cup {None}
        /\ m.revision \in 1..MaxRevision /\ m.expiresAt \in (1..MaxTime) \cup {None}
        /\ m.legacy \in BOOLEAN /\ m.original \in Events \cup {None}
        /\ m.legacy => ~m.isRequest
        /\ ~m.isRequest => m.expiresAt = None
    BY MessageType
  <1>k. k \in RequestKey /\ k.account = a /\ k.room = r
    BY <1>m DEF RequestKey
  <1>t. /\ records \in [DOMAIN records -> Record] /\ DOMAIN records \subseteq RequestKey
        /\ claims \in [DOMAIN claims -> ClaimState] /\ DOMAIN claims \subseteq ClaimKey
        /\ epochs \in [Accounts \X Rooms -> Nat] /\ now \in 0..MaxTime
    BY DEF SessionInv, TypeOK
  <1> HIDE DEF k
  <1>1. CASE Admit(k, m)
    <2> DEFINE rec == [binding |-> m.binding, state |-> m.state,
                       decision |-> m.decision, revision |-> m.revision,
                       expiresAt |-> m.expiresAt, hasRequest |-> m.isRequest,
                       legacy |-> m.legacy, original |-> m.original,
                       conflicted |-> FALSE]
    <2>1. /\ rec \in Record
          /\ rec.legacy => ~rec.hasRequest /\ rec.expiresAt = None
      BY <1>m DEF Record
    <2> HIDE DEF rec
    <2>2. k \notin DOMAIN records /\ records' = Put(records, k, rec) /\ claims' = claims
      BY <1>1 DEF Admit, rec
    <2>3. /\ records' \in [DOMAIN records' -> Record]
          /\ DOMAIN records' = DOMAIN records \cup {k}
          /\ records'[k] = rec
          /\ \A x \in DOMAIN records : records'[x] = records[x]
      <3>1. /\ Put(records, k, rec) \in [DOMAIN Put(records, k, rec) -> Record]
            /\ DOMAIN Put(records, k, rec) = DOMAIN records \cup {k}
            /\ Put(records, k, rec)[k] = rec
            /\ \A x \in DOMAIN records : x # k => Put(records, k, rec)[x] = records[x]
        BY <1>k, <1>t, <2>1 DEF Put
      <3> QED
        BY <2>2, <3>1
    <2>4. epochs' \in [Accounts \X Rooms -> Nat]
      BY <1>1, <1>k, <1>t, ChangedType DEF Admit
    <2>5. TypeOK'
      BY <1>k, <1>t, <2>2, <2>3, <2>4 DEF TypeOK
    <2>6. ClaimsLockPendingRequests'
      BY <2>2, <2>3 DEF SessionInv, ClaimsLockPendingRequests, KeyOf
    <2>7. LegacyHasNoRequest'
      BY <2>1, <2>3 DEF SessionInv, LegacyHasNoRequest
    <2> QED
      BY <2>5, <2>6, <2>7 DEF SessionInv
  <1>2. CASE MarkConflicted(k, m)
    <2>1. /\ k \in DOMAIN records /\ claims' = claims
          /\ records' = [records EXCEPT ![k].conflicted = TRUE]
      BY <1>2 DEF MarkConflicted
    <2>2. /\ DOMAIN records' = DOMAIN records
          /\ records' \in [DOMAIN records' -> Record]
          /\ \A x \in DOMAIN records :
                /\ records'[x].binding = records[x].binding
                /\ records'[x].hasRequest = records[x].hasRequest
                /\ records'[x].legacy = records[x].legacy
                /\ records'[x].state = records[x].state
                /\ records'[x].expiresAt = records[x].expiresAt
      <3> DEFINE new == [records[k] EXCEPT !.conflicted = TRUE]
      <3>1. /\ new \in Record
            /\ new.binding = records[k].binding /\ new.hasRequest = records[k].hasRequest
            /\ new.legacy = records[k].legacy /\ new.state = records[k].state
            /\ new.expiresAt = records[k].expiresAt
        BY <1>t, <2>1 DEF Record
      <3>2. records' = [records EXCEPT ![k] = new]
        BY <2>1
      <3> QED
        BY <1>t, <2>1, <3>1, <3>2
    <2>3. epochs' \in [Accounts \X Rooms -> Nat]
      BY <1>2, <1>k, <1>t, ChangedType DEF MarkConflicted
    <2>4. TypeOK'
      BY <1>t, <2>1, <2>2, <2>3 DEF TypeOK
    <2> QED
      BY <2>1, <2>2, <2>4
         DEF SessionInv, ClaimsLockPendingRequests, LegacyHasNoRequest, KeyOf
  <1>3. CASE FillRequest(k, m)
    <2>1. /\ k \in DOMAIN records /\ claims' = claims
          /\ m.isRequest /\ ~records[k].legacy /\ ~records[k].hasRequest
          /\ records' = [records EXCEPT ![k].hasRequest = TRUE,
                                        ![k].expiresAt = m.expiresAt]
      BY <1>3 DEF FillRequest, Fills
    <2>2. /\ DOMAIN records' = DOMAIN records
          /\ records' \in [DOMAIN records' -> Record]
          /\ \A x \in DOMAIN records :
                /\ records'[x].binding = records[x].binding
                /\ records'[x].legacy = records[x].legacy
                /\ records'[x].state = records[x].state
                /\ x # k => records'[x] = records[x]
          /\ records'[k].hasRequest
      <3> DEFINE new == [records[k] EXCEPT !.hasRequest = TRUE,
                                           !.expiresAt = m.expiresAt]
      <3>1. /\ new \in Record
            /\ new.binding = records[k].binding /\ new.hasRequest
            /\ new.legacy = records[k].legacy /\ new.state = records[k].state
        BY <1>m, <1>t, <2>1 DEF Record
      <3>2. records' = [records EXCEPT ![k] = new]
        BY <2>1
      <3> QED
        BY <1>t, <2>1, <3>1, <3>2
    <2>3. epochs' \in [Accounts \X Rooms -> Nat]
      BY <1>3, <1>k, <1>t, ChangedType DEF FillRequest
    <2>4. TypeOK'
      BY <1>t, <2>1, <2>2, <2>3 DEF TypeOK
    <2>5. ClaimsLockPendingRequests'
      BY <2>1, <2>2, ZenonT(40) DEF SessionInv, ClaimsLockPendingRequests, KeyOf
    <2>6. LegacyHasNoRequest'
      BY <2>1, <2>2 DEF SessionInv, LegacyHasNoRequest
    <2> QED
      BY <2>4, <2>5, <2>6 DEF SessionInv
  <1>4. CASE Advance(k, m)
    <2>1. /\ k \in DOMAIN records
          /\ records[k].legacy = m.legacy
          /\ Terminal(m.state)
          /\ records' = [records EXCEPT ![k].revision = m.revision,
                                        ![k].state = m.state,
                                        ![k].decision = m.decision,
                                        ![k].legacy = @ \/ m.legacy]
          /\ claims' = Restrict(claims, {c \in DOMAIN claims : KeyOf(c) # k})
      <3>1. records[k] \in Record /\ k \in DOMAIN records
        BY <1>4, <1>t DEF Advance
      <3>2. records[k].legacy \in BOOLEAN /\ m.legacy \in BOOLEAN
        BY <1>m, <3>1 DEF Record
      <3>3. records[k].legacy = m.legacy
        BY <1>4, <3>2 DEF Advance, Advances, ProvenanceDiffers
      <3>4. Terminal(m.state)
        BY <1>4 DEF Advance, Advances, Transition, Terminal
      <3> QED
        BY <1>4, <3>1, <3>3, <3>4 DEF Advance
    <2>2. /\ DOMAIN records' = DOMAIN records
          /\ records' \in [DOMAIN records' -> Record]
          /\ \A x \in DOMAIN records :
                /\ records'[x].binding = records[x].binding
                /\ records'[x].legacy = records[x].legacy
                /\ records'[x].hasRequest = records[x].hasRequest
                /\ records'[x].expiresAt = records[x].expiresAt
                /\ x # k => records'[x] = records[x]
      <3> DEFINE new == [records[k] EXCEPT !.revision = m.revision, !.state = m.state,
                                           !.decision = m.decision,
                                           !.legacy = @ \/ m.legacy]
      <3>a. records[k] \in Record /\ records[k].legacy \in BOOLEAN
        BY <1>t, <2>1 DEF Record
      <3>b. (records[k].legacy \/ m.legacy) = records[k].legacy
        BY <2>1, <3>a
      <3>1. /\ new \in Record
            /\ new.binding = records[k].binding /\ new.hasRequest = records[k].hasRequest
            /\ new.legacy = records[k].legacy
            /\ new.expiresAt = records[k].expiresAt
        BY <1>m, <3>a, <3>b DEF Record
      <3>2. records' = [records EXCEPT ![k] = new]
        BY <2>1
      <3> QED
        BY <1>t, <2>1, <3>1, <3>2
    <2>3. /\ claims' \in [DOMAIN claims' -> ClaimState]
          /\ \A c \in DOMAIN claims' : c \in DOMAIN claims /\ KeyOf(c) # k
      BY <1>t, <2>1 DEF Restrict
    <2>4. epochs' \in [Accounts \X Rooms -> Nat]
      BY <1>4, <1>k, <1>t, ChangedType DEF Advance
    <2>5. TypeOK'
      BY <1>t, <2>2, <2>3, <2>4 DEF TypeOK
    <2>6. ClaimsLockPendingRequests'
      <3> SUFFICES ASSUME NEW c \in DOMAIN claims'
                   PROVE  /\ KeyOf(c) \in DOMAIN records'
                          /\ LET r2 == records'[KeyOf(c)]
                             IN  /\ r2.binding.digest = c.digest
                                 /\ r2.binding.owner = c.account
                                 /\ r2.hasRequest /\ ~r2.legacy /\ r2.state = "Pending"
        BY DEF ClaimsLockPendingRequests, KeyOf
      <3>1. c \in DOMAIN claims /\ KeyOf(c) # k
        BY <2>3
      <3>2. KeyOf(c) \in DOMAIN records /\ records'[KeyOf(c)] = records[KeyOf(c)]
        BY <2>2, <3>1 DEF SessionInv, ClaimsLockPendingRequests
      <3> QED
        BY <2>2, <3>1, <3>2 DEF SessionInv, ClaimsLockPendingRequests
    <2>7. LegacyHasNoRequest'
      BY <2>2 DEF SessionInv, LegacyHasNoRequest
    <2> QED
      BY <2>5, <2>6, <2>7 DEF SessionInv
  <1> QED
    BY <1>1, <1>2, <1>3, <1>4 DEF IngestMessage, k

\* A granted claim, a result, and the two operations that forget.
LEMMA ClaimStep ==
    ASSUME SessionInv, UNCHANGED now, NEW c \in ClaimKey, TryClaim(c)
    PROVE  SessionInv'
  <1>t. /\ claims \in [DOMAIN claims -> ClaimState] /\ DOMAIN claims \subseteq ClaimKey
        /\ epochs \in [Accounts \X Rooms -> Nat] /\ now \in 0..MaxTime
        /\ c.account \in Accounts /\ c.room \in Rooms
    BY DEF SessionInv, TypeOK, ClaimKey
  <1>1. /\ records' = records /\ claims' = Put(claims, c, "Claimed")
        /\ Changed(c.account, c.room)
    BY DEF TryClaim
  <1>2. /\ claims' \in [DOMAIN claims' -> ClaimState]
        /\ DOMAIN claims' = DOMAIN claims \cup {c}
    BY <1>t, <1>1 DEF Put, ClaimState
  <1>3. epochs' \in [Accounts \X Rooms -> Nat]
    BY <1>t, <1>1, ChangedType
  <1>4. TypeOK'
    BY <1>1, <1>2, <1>3 DEF SessionInv, TypeOK
  <1>5. /\ KeyOf(c) \in DOMAIN records
        /\ records[KeyOf(c)].binding.digest = c.digest
        /\ records[KeyOf(c)].binding.owner = c.account
        /\ records[KeyOf(c)].hasRequest /\ ~records[KeyOf(c)].legacy
        /\ records[KeyOf(c)].state = "Pending"
    BY DEF TryClaim, IsActionable, KeyOf
  <1>6. ClaimsLockPendingRequests'
    BY <1>1, <1>2, <1>5 DEF SessionInv, ClaimsLockPendingRequests, KeyOf
  <1>7. LegacyHasNoRequest'
    BY <1>1 DEF SessionInv, LegacyHasNoRequest
  <1> QED
    BY <1>4, <1>6, <1>7 DEF SessionInv

LEMMA ResultStep ==
    ASSUME SessionInv, UNCHANGED now, NEW c, NEW result \in SendResult,
           RecordSendResult(c, result)
    PROVE  SessionInv'
  <1>t. /\ claims \in [DOMAIN claims -> ClaimState] /\ DOMAIN claims \subseteq ClaimKey
        /\ epochs \in [Accounts \X Rooms -> Nat]
    BY DEF SessionInv, TypeOK
  <1>1. /\ records' = records /\ c \in DOMAIN claims /\ Changed(c.account, c.room)
        /\ claims' \in [DOMAIN claims' -> ClaimState]
        /\ DOMAIN claims' \subseteq DOMAIN claims
    <2>1. CASE result = "ConfirmedPreSendFailure" /\ ReleaseClaim(c)
      BY <1>t, <2>1 DEF ReleaseClaim, MayRelease, Restrict
    <2>2. CASE result # "ConfirmedPreSendFailure" /\ RetainClaim(c, result)
      <3>1. result \in ClaimState
        BY <2>2 DEF SendResult, ClaimState
      <3> QED
        BY <1>t, <2>2, <3>1 DEF RetainClaim
    <2> QED
      BY <2>1, <2>2 DEF RecordSendResult
  <1>2. epochs' \in [Accounts \X Rooms -> Nat]
    <2>1. c.account \in Accounts /\ c.room \in Rooms
      BY <1>t, <1>1 DEF ClaimKey
    <2> QED
      BY <1>t, <1>1, <2>1, ChangedType
  <1> QED
    BY <1>1, <1>2 DEF SessionInv, TypeOK, ClaimsLockPendingRequests,
                      LegacyHasNoRequest, KeyOf

LEMMA ForgetStep ==
    ASSUME SessionInv, UNCHANGED now, NEW places, Forget(places)
    PROVE  SessionInv'
  <1>t. /\ records \in [DOMAIN records -> Record] /\ DOMAIN records \subseteq RequestKey
        /\ claims \in [DOMAIN claims -> ClaimState] /\ DOMAIN claims \subseteq ClaimKey
        /\ epochs \in [Accounts \X Rooms -> Nat] /\ now \in 0..MaxTime
    BY DEF SessionInv, TypeOK
  <1>1. /\ records' \in [DOMAIN records' -> Record]
        /\ DOMAIN records' = {k \in DOMAIN records : <<k.account, k.room>> \notin places}
        /\ \A k \in DOMAIN records' : records'[k] = records[k]
    BY <1>t DEF Forget, Restrict
  <1>2. /\ claims' \in [DOMAIN claims' -> ClaimState]
        /\ DOMAIN claims' = {c \in DOMAIN claims : <<c.account, c.room>> \notin places}
    BY <1>t DEF Forget, Restrict
  <1>3. epochs' \in [Accounts \X Rooms -> Nat]
    BY <1>t DEF Forget
  <1>4. TypeOK'
    BY <1>t, <1>1, <1>2, <1>3 DEF TypeOK
  <1>5. ClaimsLockPendingRequests'
    <2> SUFFICES ASSUME NEW c \in DOMAIN claims'
                 PROVE  /\ KeyOf(c) \in DOMAIN records'
                        /\ LET r2 == records'[KeyOf(c)]
                           IN  /\ r2.binding.digest = c.digest
                               /\ r2.binding.owner = c.account
                               /\ r2.hasRequest /\ ~r2.legacy /\ r2.state = "Pending"
      BY DEF ClaimsLockPendingRequests, KeyOf
    <2>1. c \in DOMAIN claims /\ <<c.account, c.room>> \notin places
      BY <1>2
    <2>2. KeyOf(c) \in DOMAIN records /\ KeyOf(c) \in DOMAIN records'
      BY <1>1, <2>1 DEF SessionInv, ClaimsLockPendingRequests, KeyOf
    <2> QED
      BY <1>1, <2>1, <2>2 DEF SessionInv, ClaimsLockPendingRequests
  <1>6. LegacyHasNoRequest'
    BY <1>1 DEF SessionInv, LegacyHasNoRequest
  <1> QED
    BY <1>4, <1>5, <1>6 DEF SessionInv

LEMMA SessionStep == SessionInv /\ [Next]_vars => SessionInv'
  <1> SUFFICES ASSUME SessionInv, [Next]_vars PROVE SessionInv'
    OBVIOUS
  <1>1. ASSUME UNCHANGED now, NEW a \in Accounts, NEW r \in Rooms, NEW m \in Messages,
               IngestMessage(a, r, m)
        PROVE  SessionInv'
    BY <1>1, IngestStep
  <1>2. ASSUME UNCHANGED now, NEW c \in ClaimKey, TryClaim(c) PROVE SessionInv'
    BY <1>2, ClaimStep
  <1>3. ASSUME UNCHANGED now, NEW c \in DOMAIN claims, NEW s \in SendResult,
               RecordSendResult(c, s)
        PROVE  SessionInv'
    BY <1>3, ResultStep
  <1>4. ASSUME UNCHANGED now, NEW a \in Accounts, NEW r \in Rooms, RemoveRoom(a, r)
        PROVE  SessionInv'
    BY <1>4, ForgetStep DEF RemoveRoom
  <1>5. ASSUME UNCHANGED now, NEW a \in Accounts, ClearAccount(a) PROVE SessionInv'
    BY <1>5, ForgetStep DEF ClearAccount
  <1>6. CASE Tick
    <2>1. now' \in 0..MaxTime
      BY <1>6, BoundsAssumption DEF Tick, SessionInv, TypeOK
    <2> QED
      BY <1>6, <2>1 DEF Tick, sessionVars, SessionInv, TypeOK,
                        ClaimsLockPendingRequests, LegacyHasNoRequest
  <1>7. CASE UNCHANGED vars
    BY <1>7 DEF vars, SessionInv, TypeOK, ClaimsLockPendingRequests, LegacyHasNoRequest
  <1> QED
    BY <1>1, <1>2, <1>3, <1>4, <1>5, <1>6, <1>7 DEF Next

\* ApprovalSession keeps its invariant under every sequence of calls.
THEOREM SessionInvariant == Spec => []SessionInv
  BY InitSession, SessionStep, PTL DEF Spec

\* The maps of ApprovalSession only ever hold well-formed entries.
THEOREM SessionTypeCorrect == Spec => []TypeOK
  <1>1. SessionInv => TypeOK
    BY DEF SessionInv
  <1> QED
    BY <1>1, SessionInvariant, PTL

\* Every live claim belongs to an undecided native request of its own account.
THEOREM ClaimsLock == Spec => []ClaimsLockPendingRequests
  <1>1. SessionInv => ClaimsLockPendingRequests
    BY DEF SessionInv
  <1> QED
    BY <1>1, SessionInvariant, PTL

LEMMA OneClaimFact == SessionInv => OneClaimPerRequest
  <1> SUFFICES ASSUME SessionInv, NEW c \in DOMAIN claims, NEW d \in DOMAIN claims,
                      KeyOf(c) = KeyOf(d)
               PROVE  c = d
    BY DEF OneClaimPerRequest
  <1>1. c \in ClaimKey /\ d \in ClaimKey
    BY DEF SessionInv, TypeOK
  <1>2. c.digest = d.digest
    BY DEF SessionInv, ClaimsLockPendingRequests
  <1>3. c.account = d.account /\ c.room = d.room /\ c.request = d.request
    BY DEF KeyOf
  <1> QED
    BY <1>1, <1>2, <1>3 DEF ClaimKey

\* Two panes never hold claims on one request, whatever digests they name.
THEOREM OneClaim == Spec => []OneClaimPerRequest
  BY OneClaimFact, SessionInvariant, PTL

\* A request known only from a legacy status can never be claimed.
THEOREM LegacyReadOnly == Spec => []LegacyIsReadOnly
  <1>1. SessionInv => LegacyIsReadOnly
    BY DEF SessionInv, LegacyIsReadOnly, LegacyHasNoRequest, ClaimsLockPendingRequests
  <1> QED
    BY <1>1, SessionInvariant, PTL

LEMMA UnchangedRecordsAdvance ==
    ASSUME SessionInv, \A k \in DOMAIN records \cap DOMAIN records' : records'[k] = records[k]
    PROVE  OnlyAdvances
  <1> SUFFICES ASSUME NEW k \in DOMAIN records \cap DOMAIN records'
               PROVE  records[k].revision >= records[k].revision
    BY DEF OnlyAdvances
  <1>1. records[k].revision \in 1..MaxRevision
    BY DEF SessionInv, TypeOK, Record
  <1> QED
    BY <1>1, BoundsAssumption

LEMMA IngestOnlyAdvances ==
    ASSUME SessionInv, NEW a \in Accounts, NEW r \in Rooms,
           NEW m \in Messages, IngestMessage(a, r, m)
    PROVE  OnlyAdvances
  <1> DEFINE k == [account |-> a, room |-> r, request |-> m.request]
  <1>t. /\ records \in [DOMAIN records -> Record]
        /\ m.revision \in 1..MaxRevision
    BY MessageType DEF SessionInv, TypeOK
  <1> HIDE DEF k
  <1>1. CASE Admit(k, m)
    <2>1. \A x \in DOMAIN records : x # k /\ records'[x] = records[x]
      BY <1>1, <1>t DEF Admit, Put
    <2> QED
      BY <2>1, UnchangedRecordsAdvance
  <1>2. ASSUME k \in DOMAIN records, NEW new,
               records' = [records EXCEPT ![k] = new],
               /\ new.revision >= records[k].revision
               /\ new.revision = records[k].revision =>
                     new.state = records[k].state /\ new.decision = records[k].decision
               /\ Terminal(records[k].state) =>
                     Terminal(new.state) /\ new.decision = records[k].decision
               /\ new.binding = records[k].binding
               /\ records[k].conflicted => new.conflicted
        PROVE  OnlyAdvances
    <2> SUFFICES ASSUME NEW x \in DOMAIN records, x # k
                 PROVE  records[x].revision >= records[x].revision
      BY <1>2, <1>t DEF OnlyAdvances
    <2>1. records[x].revision \in Nat
      BY <1>t, BoundsAssumption DEF Record
    <2> QED
      BY <2>1
  <1>n. k \in DOMAIN records => records[k].revision \in Nat /\ m.revision \in Nat
    BY <1>t, BoundsAssumption DEF Record
  <1>3. CASE MarkConflicted(k, m)
    <2> DEFINE new == [records[k] EXCEPT !.conflicted = TRUE]
    <2>1. k \in DOMAIN records /\ records[k] \in Record
      BY <1>3, <1>t DEF MarkConflicted
    <2>2. /\ new.revision = records[k].revision /\ new.state = records[k].state
          /\ new.decision = records[k].decision /\ new.binding = records[k].binding
          /\ new.conflicted
      BY <2>1 DEF Record
    <2>3. records' = [records EXCEPT ![k] = new]
      BY <1>3 DEF MarkConflicted
    <2>4. /\ new.revision >= records[k].revision
          /\ Terminal(records[k].state) => Terminal(new.state)
      BY <1>n, <2>1, <2>2
    <2> HIDE DEF new
    <2> QED
      BY <1>2, <2>1, <2>2, <2>3, <2>4
  <1>4. CASE FillRequest(k, m)
    <2> DEFINE new == [records[k] EXCEPT !.hasRequest = TRUE, !.expiresAt = m.expiresAt]
    <2>1. k \in DOMAIN records /\ records[k] \in Record
      BY <1>4, <1>t DEF FillRequest
    <2>2. /\ new.revision = records[k].revision /\ new.state = records[k].state
          /\ new.decision = records[k].decision /\ new.binding = records[k].binding
          /\ new.conflicted = records[k].conflicted
      BY <2>1 DEF Record
    <2>3. records' = [records EXCEPT ![k] = new]
      BY <1>4 DEF FillRequest
    <2>4. /\ new.revision >= records[k].revision
          /\ Terminal(records[k].state) => Terminal(new.state)
      BY <1>n, <2>1, <2>2
    <2> HIDE DEF new
    <2> QED
      BY <1>2, <2>1, <2>2, <2>3, <2>4
  <1>5. CASE Advance(k, m)
    <2> DEFINE new == [records[k] EXCEPT !.revision = m.revision, !.state = m.state,
                                         !.decision = m.decision,
                                         !.legacy = @ \/ m.legacy]
    <2>1. /\ k \in DOMAIN records /\ records[k] \in Record
          /\ m.revision > records[k].revision
          /\ Transition(records[k].state, records[k].decision, m.state, m.decision)
      BY <1>5, <1>t DEF Advance, Advances
    <2>2. /\ new.revision = m.revision /\ new.state = m.state
          /\ new.decision = m.decision /\ new.binding = records[k].binding
          /\ new.conflicted = records[k].conflicted
      BY <2>1 DEF Record
    <2>3. records' = [records EXCEPT ![k] = new]
      BY <1>5 DEF Advance
    <2>4. Terminal(records[k].state) => Terminal(m.state) /\ m.decision = records[k].decision
      BY <2>1 DEF Transition, Terminal
    <2> HIDE DEF new
    <2>5. new.revision >= records[k].revision /\ new.revision # records[k].revision
      BY <1>n, <2>1, <2>2
    <2> QED
      BY <1>2, <2>1, <2>2, <2>3, <2>4, <2>5
  <1> QED
    BY <1>1, <1>3, <1>4, <1>5 DEF IngestMessage, k

LEMMA StepOnlyAdvances == SessionInv /\ [Next]_vars => [OnlyAdvances]_vars
  <1> SUFFICES ASSUME SessionInv, Next PROVE OnlyAdvances
    BY DEF vars
  <1>1. ASSUME NEW a \in Accounts, NEW r \in Rooms, NEW m \in Messages,
               IngestMessage(a, r, m)
        PROVE  OnlyAdvances
    BY <1>1, IngestOnlyAdvances
  <1>2. ASSUME NEW c, TryClaim(c) PROVE OnlyAdvances
    BY <1>2, UnchangedRecordsAdvance DEF TryClaim
  <1>3. ASSUME NEW c, NEW s, RecordSendResult(c, s) PROVE OnlyAdvances
    BY <1>3, UnchangedRecordsAdvance DEF RecordSendResult, ReleaseClaim, RetainClaim
  <1>4. ASSUME NEW places, Forget(places) PROVE OnlyAdvances
    <2>1. \A k \in DOMAIN records' : records'[k] = records[k]
      BY <1>4 DEF Forget, Restrict
    <2> QED
      BY <2>1, UnchangedRecordsAdvance
  <1>5. CASE Tick
    BY <1>5, UnchangedRecordsAdvance DEF Tick, sessionVars
  <1> QED
    BY <1>1, <1>2, <1>3, <1>4, <1>5 DEF Next, RemoveRoom, ClearAccount

\* The canonical state of a kept request never regresses, forks or forgets a
\* conflict, whatever messages arrive in whatever order.
THEOREM CanonicalStateAdvances == Spec => NeverRegressesOrForks
  BY SessionInvariant, StepOnlyAdvances, PTL DEF Spec, NeverRegressesOrForks

LEMMA StepKeepsUncertainClaims == SessionInv /\ [Next]_vars => [KeepsUncertainClaims]_vars
  <1> SUFFICES ASSUME SessionInv, Next, NEW c \in DOMAIN claims, claims[c] # "Claimed",
                      KeyOf(c) \in DOMAIN records',
                      ~Terminal(records'[KeyOf(c)].state)
               PROVE  c \in DOMAIN claims' /\ claims'[c] # "Claimed"
    BY DEF KeepsUncertainClaims, vars
  <1>t. /\ claims \in [DOMAIN claims -> ClaimState]
        /\ records \in [DOMAIN records -> Record]
    BY DEF SessionInv, TypeOK
  <1>1. ASSUME NEW a \in Accounts, NEW r \in Rooms, NEW m \in Messages,
               IngestMessage(a, r, m)
        PROVE  c \in DOMAIN claims' /\ claims'[c] # "Claimed"
    <2> DEFINE k == [account |-> a, room |-> r, request |-> m.request]
    <2>1. CASE Admit(k, m) \/ MarkConflicted(k, m) \/ FillRequest(k, m)
      BY <2>1 DEF Admit, MarkConflicted, FillRequest
    <2>2. CASE Advance(k, m)
      <3>1. k \in DOMAIN records /\ records[k] \in Record
        BY <2>2, <1>t DEF Advance
      <3>2. records'[k].state = m.state
        BY <2>2, <3>1, <1>t DEF Advance, Record
      <3>3. CASE KeyOf(c) = k
        <4>1. ~Terminal(m.state)
          BY <3>2, <3>3
        <4> QED
          BY <2>2, <4>1 DEF Advance
      <3>4. CASE KeyOf(c) # k
        <4> HIDE DEF k
        <4> QED
          BY <2>2, <3>4 DEF Advance, Restrict
      <3> QED
        BY <3>3, <3>4
    <2> QED
      BY <1>1, <2>1, <2>2 DEF IngestMessage
  <1>2. ASSUME NEW d, TryClaim(d) PROVE c \in DOMAIN claims' /\ claims'[c] # "Claimed"
    <2>1. c # d
      BY <1>2 DEF TryClaim, IsActionable
    <2> QED
      BY <1>2, <2>1 DEF TryClaim, Put
  <1>3. ASSUME NEW d, NEW s, s \in SendResult, RecordSendResult(d, s)
        PROVE  c \in DOMAIN claims' /\ claims'[c] # "Claimed"
    <2>1. CASE ReleaseClaim(d)
      BY <2>1 DEF ReleaseClaim, MayRelease, Restrict
    <2>2. CASE s # "ConfirmedPreSendFailure" /\ RetainClaim(d, s)
      BY <1>3, <1>t, <2>2 DEF RetainClaim, SendResult
    <2> QED
      BY <1>3, <2>1, <2>2 DEF RecordSendResult
  <1>4. ASSUME NEW places, Forget(places)
        PROVE  c \in DOMAIN claims' /\ claims'[c] # "Claimed"
    <2>1. <<c.account, c.room>> \notin places
      BY <1>4 DEF Forget, Restrict, KeyOf
    <2> QED
      BY <1>4, <2>1 DEF Forget, Restrict
  <1>5. CASE Tick
    BY <1>5 DEF Tick, sessionVars
  <1> QED
    BY <1>1, <1>2, <1>3, <1>4, <1>5 DEF Next, RemoveRoom, ClearAccount

\* A claim whose verdict may have been sent is not given back by any later
\* result while its request is undecided.
THEOREM UncertainClaimsStayLocked == Spec => UnknownOutcomeStaysLocked
  BY SessionInvariant, StepKeepsUncertainClaims, PTL DEF Spec, UnknownOutcomeStaysLocked

-----------------------------------------------------------------------------
(* The caps.                                                               *)

AccountsIn(D) == {k.account : k \in D}
OfAccount(D, a) == {k \in D : k.account = a}

\* D may be the keys of the records.
WithinCaps(D) ==
    /\ IsFiniteSet(D)
    /\ Cardinality(AccountsIn(D)) <= MAX_ACCOUNTS
    /\ \A a \in Accounts : Cardinality(OfAccount(D, a)) <= MAX_APPROVALS

LEMMA KeysAreFinite ==
    ASSUME NEW D, IsFiniteSet(D)
    PROVE  /\ IsFiniteSet(AccountsIn(D)) /\ Cardinality(AccountsIn(D)) \in Nat
           /\ \A a : /\ IsFiniteSet(OfAccount(D, a))
                     /\ Cardinality(OfAccount(D, a)) \in Nat
  <1> DEFINE f == [k \in D |-> k.account]
  <1>1. f \in Surjection(D, AccountsIn(D))
    BY DEF AccountsIn, Surjection
  <1>2. IsFiniteSet(AccountsIn(D))
    BY <1>1, FS_Surjection
  <1>3. ASSUME NEW a PROVE IsFiniteSet(OfAccount(D, a))
    <2>1. OfAccount(D, a) \in SUBSET D
      BY DEF OfAccount
    <2> QED
      BY <2>1, FS_Subset
  <1> QED
    BY <1>2, <1>3, FS_CardinalityType

LEMMA FewerKeys ==
    ASSUME NEW D, WithinCaps(D), NEW E \in SUBSET D
    PROVE  WithinCaps(E)
  <1>1. /\ IsFiniteSet(D) /\ IsFiniteSet(E)
        /\ AccountsIn(E) \in SUBSET AccountsIn(D)
        /\ \A a : OfAccount(E, a) \in SUBSET OfAccount(D, a)
    BY FS_Subset DEF WithinCaps, AccountsIn, OfAccount
  <1>2. /\ Cardinality(AccountsIn(E)) <= Cardinality(AccountsIn(D))
        /\ \A a : Cardinality(OfAccount(E, a)) <= Cardinality(OfAccount(D, a))
    BY <1>1, KeysAreFinite, FS_Subset
  <1>3. /\ Cardinality(AccountsIn(E)) \in Nat /\ Cardinality(AccountsIn(D)) \in Nat
        /\ \A a : Cardinality(OfAccount(E, a)) \in Nat /\ Cardinality(OfAccount(D, a)) \in Nat
    BY <1>1, KeysAreFinite
  <1> QED
    BY <1>1, <1>2, <1>3, BoundsAssumption DEF WithinCaps

LEMMA OneMoreKey ==
    ASSUME NEW D, WithinCaps(D), NEW k \in RequestKey, k \notin D,
           ~(Cardinality(AccountsIn(D)) >= MAX_ACCOUNTS /\ k.account \notin AccountsIn(D)),
           ~(Cardinality(OfAccount(D, k.account)) >= MAX_APPROVALS)
    PROVE  WithinCaps(D \cup {k})
  <1>1. IsFiniteSet(D) /\ IsFiniteSet(D \cup {k})
    BY FS_AddElement DEF WithinCaps
  <1>2. AccountsIn(D \cup {k}) = AccountsIn(D) \cup {k.account}
    BY DEF AccountsIn
  <1>3. Cardinality(AccountsIn(D \cup {k})) =
            IF k.account \in AccountsIn(D) THEN Cardinality(AccountsIn(D))
                                           ELSE Cardinality(AccountsIn(D)) + 1
    BY <1>1, <1>2, KeysAreFinite, FS_AddElement
  <1>4. Cardinality(AccountsIn(D)) \in Nat /\ Cardinality(AccountsIn(D)) <= MAX_ACCOUNTS
    BY <1>1, KeysAreFinite DEF WithinCaps
  <1>5. Cardinality(AccountsIn(D \cup {k})) <= MAX_ACCOUNTS
    BY <1>3, <1>4, BoundsAssumption
  <1>6. ASSUME NEW a \in Accounts
        PROVE  Cardinality(OfAccount(D \cup {k}, a)) <= MAX_APPROVALS
    <2>1. CASE a = k.account
      <3>1. OfAccount(D \cup {k}, a) = OfAccount(D, a) \cup {k} /\ k \notin OfAccount(D, a)
        BY <2>1 DEF OfAccount
      <3>2. Cardinality(OfAccount(D \cup {k}, a)) = Cardinality(OfAccount(D, a)) + 1
        BY <1>1, <3>1, KeysAreFinite, FS_AddElement
      <3>3. Cardinality(OfAccount(D, a)) \in Nat
        BY <1>1, KeysAreFinite
      <3> QED
        BY <2>1, <3>2, <3>3, BoundsAssumption
    <2>2. CASE a # k.account
      <3>1. OfAccount(D \cup {k}, a) = OfAccount(D, a)
        BY <2>2 DEF OfAccount
      <3> QED
        BY <3>1 DEF WithinCaps
    <2> QED
      BY <2>1, <2>2
  <1> QED
    BY <1>1, <1>5, <1>6 DEF WithinCaps

CapsInv == SessionInv /\ WithinCaps(DOMAIN records)

LEMMA InitCaps == Init => WithinCaps(DOMAIN records)
  <1> SUFFICES ASSUME Init PROVE WithinCaps({})
    BY DEF Init
  <1>1. AccountsIn({}) = {} /\ \A a : OfAccount({}, a) = {}
    BY DEF AccountsIn, OfAccount
  <1> QED
    BY <1>1, FS_EmptySet, BoundsAssumption DEF WithinCaps

LEMMA IngestWithinCaps ==
    ASSUME CapsInv, NEW a \in Accounts, NEW r \in Rooms, NEW m \in Messages,
           IngestMessage(a, r, m)
    PROVE  WithinCaps(DOMAIN records')
  <1> DEFINE k == [account |-> a, room |-> r, request |-> m.request]
  <1>1. k \in RequestKey
    BY MessageType DEF RequestKey
  <1> HIDE DEF k
  <1>2. CASE Admit(k, m)
    <2>1. /\ k \notin DOMAIN records /\ DOMAIN records' = DOMAIN records \cup {k}
          /\ ~AtCapacity(k.account)
      BY <1>2 DEF Admit, Put
    <2> QED
      BY <1>1, <2>1, OneMoreKey DEF AtCapacity, CapsInv, AccountsIn, OfAccount
  <1>3. CASE MarkConflicted(k, m) \/ FillRequest(k, m) \/ Advance(k, m)
    <2>1. DOMAIN records' = DOMAIN records
      BY <1>3 DEF MarkConflicted, FillRequest, Advance, CapsInv, SessionInv, TypeOK
    <2> QED
      BY <2>1 DEF CapsInv
  <1> QED
    BY <1>2, <1>3 DEF IngestMessage, k

LEMMA CapsStep == CapsInv /\ [Next]_vars => CapsInv'
  <1> SUFFICES ASSUME CapsInv, [Next]_vars PROVE WithinCaps(DOMAIN records')
    BY SessionStep DEF CapsInv
  <1>1. ASSUME NEW a \in Accounts, NEW r \in Rooms, NEW m \in Messages,
               IngestMessage(a, r, m)
        PROVE  WithinCaps(DOMAIN records')
    BY <1>1, IngestWithinCaps
  <1>2. ASSUME NEW places, Forget(places) PROVE WithinCaps(DOMAIN records')
    <2>1. DOMAIN records' \in SUBSET DOMAIN records
      BY <1>2 DEF Forget, Restrict
    <2> QED
      BY <2>1, FewerKeys DEF CapsInv
  <1>3. CASE records' = records
    BY <1>3 DEF CapsInv
  <1> QED
    BY <1>1, <1>2, <1>3
       DEF Next, RemoveRoom, ClearAccount, TryClaim, RecordSendResult, ReleaseClaim,
           RetainClaim, Tick, sessionVars, vars

\* A claim's request has a record, and no other claim has that request.
LEMMA ClaimsCount ==
    ASSUME CapsInv
    PROVE  Cardinality(DOMAIN claims) <= Cardinality(DOMAIN records)
  <1> DEFINE f == [c \in DOMAIN claims |-> KeyOf(c)]
  <1>1. \A c \in DOMAIN claims : KeyOf(c) \in DOMAIN records
    BY DEF CapsInv, SessionInv, ClaimsLockPendingRequests
  <1>2. \A c, d \in DOMAIN claims : KeyOf(c) = KeyOf(d) => c = d
    BY OneClaimFact DEF CapsInv, OneClaimPerRequest
  <1>3. f \in Injection(DOMAIN claims, DOMAIN records)
    BY <1>1, <1>2 DEF Injection, IsInjective
  <1> QED
    BY <1>3, FS_Injection DEF CapsInv, WithinCaps

\* The caps of the session's maps hold whatever messages arrive, and the cap
\* on claims is never what refuses a click.
THEOREM CapsAlwaysHold == Spec => []CapacityRespected
  <1>1. Init => CapsInv
    BY InitSession, InitCaps DEF CapsInv
  <1>2. CapsInv => CapacityRespected
    BY ClaimsCount DEF CapsInv, WithinCaps, AccountsIn, OfAccount, CapacityRespected
  <1> QED
    BY <1>1, <1>2, CapsStep, PTL DEF Spec


-----------------------------------------------------------------------------
(* The inductive invariant.                                                *)

\* A click gets the next number.
SendsAreNumbered == \E n \in 0..MaxSends : DOMAIN sends = 1..n

\* A send is over when its failure was handled; any other may still send, or
\* may have sent.
Live(i) == ~(sends[i].stage = "failed" /\ sends[i].handled)
Kept(i) == PlaceOf(sends[i].claim) \notin forgotten
Decided(k) == k \in DOMAIN records /\ Terminal(records[k].state)

\* The claim stays for as long as the send is live, or somebody decided.
LiveSendsHold ==
    \A i \in DOMAIN sends :
        Live(i) /\ Kept(i) =>
            \/ sends[i].claim \in DOMAIN claims
            \/ Decided(KeyOf(sends[i].claim))

OneLiveSend ==
    \A i, j \in DOMAIN sends :
        /\ Live(i) /\ Live(j) /\ Kept(i)
        /\ KeyOf(sends[i].claim) = KeyOf(sends[j].claim)
        => i = j

SendsInv == LiveSendsHold /\ OneLiveSend

\* What the publisher has said of a request is one path of Transition.
HonestPublisher ==
    /\ \A m \in published : ~m.legacy
    /\ \A m, n \in published :
          m.request = n.request =>
             /\ m.binding = n.binding
             /\ m.revision = n.revision => m = n
             /\ m.revision > n.revision =>
                   Transition(n.state, n.decision, m.state, m.decision)

\* What the fold keeps of a request it has folded, too.
FoldIsHonest ==
    \A k \in DOMAIN records :
        /\ ~records[k].legacy
        /\ records[k].hasRequest =>
              \E m \in published :
                 m.request = k.request /\ m.isRequest /\ m.expiresAt = records[k].expiresAt

FoldInv == HonestPublisher /\ FoldIsPublished /\ FoldIsHonest

VerdictsInv == VerdictsTypeOK /\ SendsAreNumbered /\ SessionInv /\ SendsInv /\ FoldInv

-----------------------------------------------------------------------------
(* What each step does to the session, the sends, the publisher's messages *)
(* and the places forgotten: one of eight things.                          *)

CoreStays == UNCHANGED <<records, claims, epochs, now, published, sends, forgotten>>

Publishes ==
    \E m \in Messages :
        /\ \/ m.isRequest /\ \A p \in published : p.request # m.request
           \/ \E p \in published :
                 /\ ~m.isRequest /\ p.request = m.request /\ p.binding = m.binding
                 /\ ~m.legacy
                 /\ \A q \in published : q.request = m.request => q.revision <= p.revision
                 /\ m.revision = p.revision + 1
                 /\ Transition(p.state, p.decision, m.state, m.decision)
        /\ published' = published \cup {m}
        /\ UNCHANGED <<records, claims, epochs, now, sends, forgotten>>

Folds ==
    \E r \in Rooms, m \in published :
        /\ <<client, r>> \in Members
        /\ IngestMessage(client, r, m)
        /\ UNCHANGED <<now, published, sends, forgotten>>

Clicks ==
    \E c \in ClaimKey, act \in VerdictAction, stage \in {"lost", "queued"} :
        /\ Cardinality(DOMAIN sends) < MaxSends
        /\ TryClaim(c)
        /\ sends' = Put(sends, Cardinality(DOMAIN sends) + 1,
                        [claim |-> c, action |-> act, handled |-> FALSE, stage |-> stage])
        /\ UNCHANGED <<now, published, forgotten>>

SendMoves ==
    \E i \in DOMAIN sends, to \in {"preparing", "failed", "sending", "unknown", "sent"} :
        /\ \/ sends[i].stage = "queued" /\ to \in {"preparing", "failed"}
           \/ sends[i].stage = "preparing" /\ to \in {"sending", "failed"}
           \/ sends[i].stage = "sending" /\ to \in {"unknown", "sent"}
        /\ sends' = [sends EXCEPT ![i].stage = to]
        /\ UNCHANGED <<records, claims, epochs, now, published, forgotten>>

ResultHandled ==
    \E i \in DOMAIN sends :
        LET c == sends[i].claim  result == ResultOf(sends[i].stage)
        IN  /\ sends[i].stage \in {"failed", "unknown", "sent"} /\ ~sends[i].handled
            /\ RecordSendResult(c, result) \/ UNCHANGED <<records, claims, epochs>>
            /\ sends' = [sends EXCEPT ![i].handled = TRUE]
            /\ UNCHANGED <<now, published, forgotten>>

Drops == \E places \in SUBSET Places : Drop(places) /\ UNCHANGED <<now, published, sends>>

ClockMoves == Tick /\ UNCHANGED <<published, sends, forgotten>>

CoreStep ==
    \/ CoreStays \/ Publishes \/ Folds \/ Clicks \/ SendMoves \/ ResultHandled
    \/ Drops \/ ClockMoves

LEMMA StepsOfTheCore == VerdictsTypeOK /\ [NextVerdicts]_verdictVars => CoreStep
  <1> SUFFICES ASSUME VerdictsTypeOK, [NextVerdicts]_verdictVars PROVE CoreStep
    OBVIOUS
  <1> USE DEF CoreStep, sessionVars
  <1>1. ASSUME NEW m \in Messages, PublishRequest(m) PROVE CoreStep
    BY <1>1 DEF PublishRequest, Publishes
  <1>2. ASSUME NEW m \in Messages, NEW p \in published, PublishStatus(p, m) PROVE CoreStep
    BY <1>2 DEF PublishStatus, Publishes
  <1>3. ASSUME NEW r \in Rooms, NEW m \in Messages, Fold(r, m) PROVE CoreStep
    BY <1>3 DEF Fold, Folds
  <1>4. ASSUME NEW c \in ClaimKey, NEW act \in VerdictAction, Click(c, act) PROVE CoreStep
    <2>1. (IF mainLoop \in {"requested", "stopping", "dead"} THEN "lost" ELSE "queued")
            \in {"lost", "queued"}
      OBVIOUS
    <2>2. Clicks
      BY <1>4, <2>1 DEF Click, Clicks
    <2> QED
      BY <2>2
  <1>5. ASSUME NEW i \in DOMAIN sends, SendProgress(i) PROVE CoreStep
    <2>1. CASE WorkerTakes(i)
      BY <2>1 DEF WorkerTakes, SendStep, SendMoves
    <2>2. CASE PreparationFails(i)
      BY <2>2 DEF PreparationFails, SendStep, SendMoves
    <2>3. CASE PreparationEnds(i)
      BY <2>3 DEF PreparationEnds, SendStep, SendMoves
    <2>4. CASE SendReturns(i)
      BY <2>4 DEF SendReturns, SendStep, SendMoves
    <2>5. CASE HandleSendResult(i)
      <3>1. ResultHandled
        BY <2>5 DEF HandleSendResult, ResultHandled
      <3> QED
        BY <3>1
    <2> QED
      BY <1>5, <2>1, <2>2, <2>3, <2>4, <2>5 DEF SendProgress
  <1>p. RuntimePlaces \subseteq Places
    BY DEF RuntimePlaces
  <1>6. CASE SyncMembership
    <2>1. \E places \in SUBSET RuntimePlaces : Drop(places)
      BY <1>6 DEF SyncMembership
    <2> QED
      BY <1>6, <1>p, <2>1 DEF SyncMembership, Drops
  <1>7. ASSUME NEW r \in Rooms, PurgeRoom(r) PROVE CoreStep
    <2>1. {p \in RuntimePlaces : p[2] = r} \in SUBSET Places
      BY <1>p
    <2> QED
      BY <1>7, <2>1 DEF PurgeRoom, Drops
  <1>8. CASE UiStarting \/ UiRestores
    BY <1>8, <1>p DEF UiStarting, UiRestores, Handles, Drops
  <1>9. CASE ClockTicks
    BY <1>9 DEF ClockTicks, ClockMoves
  <1>10. ASSUME NEW p \in Places, LeaveRoom(p) \/ RejoinRoom(p) PROVE CoreStep
    BY <1>10 DEF LeaveRoom, RejoinRoom, CoreStays
  <1>11. ASSUME NEW r \in Rooms, ListAdds(r) PROVE CoreStep
    BY <1>11 DEF ListAdds, CoreStays
  <1>12. ASSUME NEW a \in Accounts, RequestSwitch(a) PROVE CoreStep
    BY <1>12 DEF RequestSwitch, CoreStays
  <1>13. CASE ListResets \/ WorkerTakesSwitch \/ MainTearsDown \/ RestoreSessionFails
              \/ MainInstalls \/ SyncServiceFails \/ MainLoadsAppState \/ MainResumes
              \/ AppStateLoaded \/ UiSwitchEnds
    BY <1>13 DEF ListResets, WorkerTakesSwitch, MainTearsDown, RestoreSessionFails,
                 MainInstalls, SyncServiceFails, MainLoadsAppState, MainResumes,
                 AppStateLoaded, UiSwitchEnds, Handles, MainStep, CoreStays
  <1>14. CASE UNCHANGED verdictVars
    BY <1>14 DEF verdictVars, CoreStays
  <1> QED
    BY <1>1, <1>2, <1>3, <1>4, <1>5, <1>6, <1>7, <1>8, <1>9, <1>10, <1>11, <1>12, <1>13,
       <1>14 DEF NextVerdicts

-----------------------------------------------------------------------------
(* Types.                                                                  *)

LEMMA ResultType == \A stage : ResultOf(stage) \in SendResult
  BY DEF ResultOf, SendResult

LEMMA CoreSession == SessionInv /\ VerdictsTypeOK /\ CoreStep => SessionInv'
  <1> SUFFICES ASSUME SessionInv, VerdictsTypeOK, CoreStep PROVE SessionInv'
    OBVIOUS
  <1>1. CASE UNCHANGED vars
    BY <1>1, SessionStep
  <1>2. CASE Folds
    <2>1. PICK r \in Rooms, m \in published :
             <<client, r>> \in Members /\ IngestMessage(client, r, m) /\ UNCHANGED now
      BY <1>2 DEF Folds
    <2>2. client \in Accounts /\ m \in Messages
      BY <2>1, VerdictBounds DEF VerdictsTypeOK
    <2> QED
      BY <2>1, <2>2, IngestStep
  <1>3. CASE Clicks
    <2>1. PICK c \in ClaimKey : TryClaim(c) /\ UNCHANGED now
      BY <1>3 DEF Clicks
    <2> QED
      BY <2>1, ClaimStep
  <1>4. CASE ResultHandled
    <2>1. PICK i \in DOMAIN sends :
             /\ \/ RecordSendResult(sends[i].claim, ResultOf(sends[i].stage))
                \/ UNCHANGED <<records, claims, epochs>>
             /\ UNCHANGED now
      BY <1>4 DEF ResultHandled
    <2>2. CASE UNCHANGED <<records, claims, epochs>>
      BY <1>1, <2>1, <2>2 DEF vars
    <2>3. CASE RecordSendResult(sends[i].claim, ResultOf(sends[i].stage))
      BY <2>1, <2>3, ResultStep, ResultType
    <2> QED
      BY <2>1, <2>2, <2>3
  <1>5. CASE Drops
    <2>1. PICK places : Forget(places) /\ UNCHANGED now
      BY <1>5 DEF Drops, Drop
    <2> QED
      BY <2>1, ForgetStep
  <1>6. CASE ClockMoves
    BY <1>6, SessionStep DEF ClockMoves, Next
  <1>7. CASE CoreStays \/ Publishes \/ SendMoves
    BY <1>1, <1>7 DEF CoreStays, Publishes, SendMoves, vars
  <1> QED
    BY <1>2, <1>3, <1>4, <1>5, <1>6, <1>7 DEF CoreStep

SendsTypeOK ==
    /\ sends \in [DOMAIN sends -> Send] /\ DOMAIN sends \subseteq 1..MaxSends
    /\ SendsAreNumbered

LEMMA NextNumber ==
    ASSUME SendsTypeOK
    PROVE  /\ Cardinality(DOMAIN sends) \in Nat
           /\ Cardinality(DOMAIN sends) + 1 \notin DOMAIN sends
           /\ DOMAIN sends \cup {Cardinality(DOMAIN sends) + 1}
                = 1..Cardinality(DOMAIN sends) + 1
  <1>1. PICK n \in 0..MaxSends : DOMAIN sends = 1..n
    BY DEF SendsTypeOK, SendsAreNumbered
  <1>2. n \in Nat
    BY <1>1, VerdictBounds
  <1>3. Cardinality(DOMAIN sends) = n
    BY <1>1, <1>2, FS_Interval
  <1> QED
    BY <1>1, <1>2, <1>3

LEMMA CoreSends == SendsTypeOK /\ CoreStep => SendsTypeOK'
  <1> SUFFICES ASSUME SendsTypeOK, CoreStep PROVE SendsTypeOK'
    OBVIOUS
  <1>1. CASE UNCHANGED sends
    BY <1>1 DEF SendsTypeOK, SendsAreNumbered
  <1>2. CASE Clicks
    <2> DEFINE n == Cardinality(DOMAIN sends)
    <2>1. PICK c \in ClaimKey, act \in VerdictAction, stage \in {"lost", "queued"} :
             /\ n < MaxSends
             /\ sends' = Put(sends, n + 1, [claim |-> c, action |-> act,
                                            handled |-> FALSE, stage |-> stage])
      BY <1>2 DEF Clicks
    <2>2. /\ n \in Nat /\ n + 1 \in 0..MaxSends /\ n + 1 \in 1..MaxSends
          /\ DOMAIN sends \cup {n + 1} = 1..(n + 1)
      BY <2>1, NextNumber, VerdictBounds
    <2>3. [claim |-> c, action |-> act, handled |-> FALSE, stage |-> stage] \in Send
      BY DEF Send, Stage
    <2> HIDE DEF n
    <2>4. /\ DOMAIN sends' = DOMAIN sends \cup {n + 1}
          /\ sends' \in [DOMAIN sends' -> Send]
      BY <2>1, <2>3 DEF Put, SendsTypeOK
    <2> QED
      BY <2>2, <2>4 DEF SendsTypeOK, SendsAreNumbered
  <1>3. ASSUME NEW i \in DOMAIN sends, NEW s \in Send, sends' = [sends EXCEPT ![i] = s]
        PROVE  SendsTypeOK'
    BY <1>3 DEF SendsTypeOK, SendsAreNumbered
  <1>4. CASE SendMoves
    <2>1. PICK i \in DOMAIN sends, to \in {"preparing", "failed", "sending", "unknown", "sent"} :
             sends' = [sends EXCEPT ![i].stage = to]
      BY <1>4 DEF SendMoves
    <2>2. sends[i] \in Send
      BY <2>1 DEF SendsTypeOK
    <2>3. [sends[i] EXCEPT !.stage = to] \in Send
      BY <2>1, <2>2 DEF Send, Stage
    <2>4. sends' = [sends EXCEPT ![i] = [sends[i] EXCEPT !.stage = to]]
      BY <2>1
    <2> QED
      BY <1>3, <2>3, <2>4
  <1>5. CASE ResultHandled
    <2>1. PICK i \in DOMAIN sends : sends' = [sends EXCEPT ![i].handled = TRUE]
      BY <1>5 DEF ResultHandled
    <2>2. sends[i] \in Send
      BY <2>1 DEF SendsTypeOK
    <2>3. [sends[i] EXCEPT !.handled = TRUE] \in Send
      BY <2>2 DEF Send
    <2>4. sends' = [sends EXCEPT ![i] = [sends[i] EXCEPT !.handled = TRUE]]
      BY <2>1
    <2> QED
      BY <1>3, <2>3, <2>4
  <1> QED
    BY <1>1, <1>2, <1>4, <1>5
       DEF CoreStep, CoreStays, Publishes, Folds, Drops, ClockMoves, Drop, Tick

WorldTypeOK ==
    /\ published \subseteq Messages
    /\ client \in Accounts \cup {None} /\ joined \subseteq Members
    /\ listed \subseteq Rooms
    /\ inFlight \in BOOLEAN
    /\ mainLoop \in {"serving", "requested", "stopping", "torn",
                     "installed", "starting", "dead"}
    /\ target \in Accounts \cup {None} /\ restoring \in BOOLEAN
    /\ uiQueue \in Seq(UiAction)
    /\ approvalAccount \in Accounts \cup {None} /\ approvalJoined \subseteq Rooms
    /\ suspended \in BOOLEAN
    /\ purges \subseteq Rooms
    /\ switches \in 0..MaxSwitches /\ leaves \in 0..MaxLeaves
    /\ forgotten \subseteq Places

LEMMA VerdictTypesSplit ==
    VerdictsTypeOK /\ SendsAreNumbered <=> TypeOK /\ SendsTypeOK /\ WorldTypeOK
  BY DEF VerdictsTypeOK, SendsTypeOK, WorldTypeOK

LEMMA WorldTypes == WorldTypeOK /\ [NextVerdicts]_verdictVars => WorldTypeOK'
  <1> SUFFICES ASSUME WorldTypeOK, [NextVerdicts]_verdictVars PROVE WorldTypeOK'
    OBVIOUS
  <1> USE VerdictBounds DEF roomVars, appVars, switchVars, leaveVars
  <1>p. /\ RuntimePlaces \subseteq Places
        /\ Members \subseteq Places
        /\ \A p \in Members : p[1] \in Accounts /\ p[2] \in Rooms
    BY DEF RuntimePlaces, Places
  <1>q. /\ \A post \in UiAction : Append(uiQueue, post) \in Seq(UiAction)
        /\ uiQueue # << >> => Tail(uiQueue) \in Seq(UiAction)
    BY DEF WorldTypeOK
  <1>1. ASSUME NEW m \in Messages, PublishRequest(m) PROVE WorldTypeOK'
    BY <1>1 DEF PublishRequest, WorldTypeOK
  <1>2. ASSUME NEW m \in Messages, NEW p \in published, PublishStatus(p, m)
        PROVE  WorldTypeOK'
    BY <1>2 DEF PublishStatus, WorldTypeOK
  <1>3. ASSUME NEW r \in Rooms, NEW m \in Messages, Fold(r, m) PROVE WorldTypeOK'
    BY <1>3 DEF Fold, WorldTypeOK
  <1>4. ASSUME NEW c \in ClaimKey, NEW act \in VerdictAction, Click(c, act)
        PROVE  WorldTypeOK'
    BY <1>4 DEF Click, WorldTypeOK
  <1>5. ASSUME NEW i \in DOMAIN sends, SendProgress(i) PROVE WorldTypeOK'
    BY <1>5 DEF SendProgress, WorkerTakes, PreparationFails, PreparationEnds, SendReturns,
                SendStep, HandleSendResult, WorldTypeOK
  <1>6. CASE SyncMembership
    <2>1. /\ approvalAccount' = IF suspended THEN None ELSE client
          /\ approvalJoined' \subseteq listed
          /\ \E places \in SUBSET RuntimePlaces : forgotten' = forgotten \cup places
      BY <1>6 DEF SyncMembership, Drop
    <2> QED
      BY <1>6, <1>p, <2>1 DEF SyncMembership, WorldTypeOK
  <1>7. ASSUME NEW r \in Rooms, PurgeRoom(r) PROVE WorldTypeOK'
    <2>1. forgotten' \subseteq forgotten \cup RuntimePlaces
      BY <1>7 DEF PurgeRoom, Drop
    <2>2. approvalJoined' \subseteq Rooms
      BY <1>7 DEF PurgeRoom, WorldTypeOK
    <2> QED
      BY <1>7, <1>p, <2>1, <2>2 DEF PurgeRoom, WorldTypeOK
  <1>8. CASE UiStarting
    BY <1>8, <1>p, <1>q DEF UiStarting, Handles, Drop, WorldTypeOK
  <1>9. CASE UiRestores
    BY <1>9, <1>p, <1>q DEF UiRestores, Handles, Drop, WorldTypeOK
  <1>10. CASE UiSwitchEnds
    BY <1>10, <1>q DEF UiSwitchEnds, Handles, WorldTypeOK
  <1>11. ASSUME NEW p \in Places, LeaveRoom(p) PROVE WorldTypeOK'
    <2>1. p[2] \in Rooms
      BY DEF Places
    <2>2. purges' \subseteq purges \cup {p[2]} /\ listed' \subseteq listed
      BY <1>11 DEF LeaveRoom
    <2>3. leaves' \in 0..MaxLeaves
      BY <1>11 DEF LeaveRoom, WorldTypeOK
    <2> QED
      BY <1>11, <2>1, <2>2, <2>3 DEF LeaveRoom, WorldTypeOK
  <1>12. ASSUME NEW p \in Places, RejoinRoom(p) PROVE WorldTypeOK'
    BY <1>12 DEF RejoinRoom, WorldTypeOK
  <1>13. CASE ListResets
    BY <1>13 DEF ListResets, WorldTypeOK
  <1>14. ASSUME NEW r \in Rooms, ListAdds(r) PROVE WorldTypeOK'
    BY <1>14 DEF ListAdds, WorldTypeOK
  <1>15. ASSUME NEW a \in Accounts, RequestSwitch(a) PROVE WorldTypeOK'
    BY <1>15 DEF RequestSwitch, WorldTypeOK
  <1>16. CASE WorkerTakesSwitch \/ MainTearsDown \/ RestoreSessionFails
              \/ SyncServiceFails \/ MainResumes
    BY <1>16, <1>q DEF WorkerTakesSwitch, MainTearsDown, RestoreSessionFails,
                       SyncServiceFails, MainResumes, MainStep, WorldTypeOK, UiAction
  <1>17. CASE MainInstalls \/ MainLoadsAppState
    BY <1>17 DEF MainInstalls, MainLoadsAppState, WorldTypeOK
  <1>18. CASE AppStateLoaded
    BY <1>18, <1>q DEF AppStateLoaded, WorldTypeOK, UiAction
  <1>19. CASE ClockTicks
    BY <1>19 DEF ClockTicks, WorldTypeOK
  <1>20. CASE UNCHANGED verdictVars
    BY <1>20 DEF verdictVars, WorldTypeOK
  <1> QED
    BY <1>1, <1>2, <1>3, <1>4, <1>5, <1>6, <1>7, <1>8, <1>9, <1>10, <1>11, <1>12, <1>13,
       <1>14, <1>15, <1>16, <1>17, <1>18, <1>19, <1>20 DEF NextVerdicts

-----------------------------------------------------------------------------
(* One live send per request.                                              *)

\* A decided record stays decided while it is kept, and only a decision
\* takes claims away.
LEMMA IngestKeepsDecisions ==
    ASSUME SessionInv, NEW a \in Accounts, NEW r \in Rooms, NEW m \in Messages,
           IngestMessage(a, r, m)
    PROVE  /\ \A k : Decided(k) => Decided(k)'
           /\ DOMAIN claims' \subseteq DOMAIN claims
           /\ \A c \in DOMAIN claims : c \in DOMAIN claims' \/ Decided(KeyOf(c))'
  <1> DEFINE k == [account |-> a, room |-> r, request |-> m.request]
  <1>t. /\ records \in [DOMAIN records -> Record]
        /\ claims \in [DOMAIN claims -> ClaimState]
    BY DEF SessionInv, TypeOK
  <1>1. \A x : Decided(x) => Decided(x)'
    <2>1. DOMAIN records \subseteq DOMAIN records'
      BY <1>t DEF IngestMessage, Admit, MarkConflicted, FillRequest, Advance, Put
    <2>2. OnlyAdvances
      BY IngestOnlyAdvances
    <2> QED
      BY <2>1, <2>2 DEF Decided, OnlyAdvances
  <1> HIDE DEF k
  <1>2. CASE claims' = claims
    BY <1>1, <1>2
  <1>3. CASE Advance(k, m)
    <2>1. /\ k \in DOMAIN records /\ Terminal(m.state)
          /\ claims' = Restrict(claims, {c \in DOMAIN claims : KeyOf(c) # k})
      BY <1>3 DEF Advance, Advances, Transition, Terminal
    <2>2. Decided(k)'
      BY <1>3, <1>t, <2>1 DEF Advance, Record, Decided
    <2> QED
      BY <1>1, <2>1, <2>2 DEF Restrict
  <1> QED
    BY <1>2, <1>3 DEF IngestMessage, Admit, MarkConflicted, FillRequest, k

\* Who may click holds no live send: its claim would be in the way.
LEMMA ClickIsFirst ==
    ASSUME SessionInv, SendsInv, SendsTypeOK, NEW c \in ClaimKey, TryClaim(c),
           NEW i \in DOMAIN sends, KeyOf(sends[i].claim) = KeyOf(c), Kept(i)
    PROVE  ~Live(i)
  <1> SUFFICES ASSUME Live(i) PROVE FALSE
    OBVIOUS
  <1>1. /\ KeyOf(c) \in DOMAIN records /\ records[KeyOf(c)].state = "Pending"
        /\ ~ \E d \in DOMAIN claims : KeyOf(d) = KeyOf(c)
                                      /\ d.digest = records[KeyOf(c)].binding.digest
    BY DEF TryClaim, IsActionable
  <1>2. sends[i].claim \in DOMAIN claims
    BY <1>1 DEF SendsInv, LiveSendsHold, Decided, Terminal
  <1>3. records[KeyOf(sends[i].claim)].binding.digest = sends[i].claim.digest
    BY <1>2 DEF SessionInv, ClaimsLockPendingRequests
  <1> QED
    BY <1>1, <1>2, <1>3

LEMMA CoreSendsInv ==
    ASSUME SessionInv, VerdictsTypeOK, SendsAreNumbered, SendsInv, CoreStep
    PROVE  SendsInv'
  <1>t. /\ SendsTypeOK
        /\ \A i \in DOMAIN sends : sends[i] \in Send
        /\ \A i \in DOMAIN sends : sends[i].claim \in ClaimKey
        /\ claims \in [DOMAIN claims -> ClaimState]
        /\ records \in [DOMAIN records -> Record]
    BY VerdictTypesSplit DEF SendsTypeOK, Send, SessionInv, TypeOK
  <1>1. CASE UNCHANGED <<records, claims, sends, forgotten>>
    BY <1>1 DEF SendsInv, LiveSendsHold, OneLiveSend, Live, Kept, Decided
  <1>2. CASE Folds
    <2>1. PICK r \in Rooms, m \in published :
             /\ <<client, r>> \in Members /\ IngestMessage(client, r, m)
             /\ UNCHANGED <<sends, forgotten>>
      BY <1>2 DEF Folds
    <2>2. client \in Accounts /\ m \in Messages
      BY <2>1, VerdictBounds DEF VerdictsTypeOK
    <2>3. /\ \A k : Decided(k) => Decided(k)'
          /\ \A c \in DOMAIN claims : c \in DOMAIN claims' \/ Decided(KeyOf(c))'
      BY <2>1, <2>2, IngestKeepsDecisions
    <2>4. OneLiveSend'
      BY <2>1 DEF SendsInv, OneLiveSend, Live, Kept
    <2>5. LiveSendsHold'
      <3> SUFFICES ASSUME NEW i \in DOMAIN sends, Live(i), Kept(i)
                   PROVE  \/ sends[i].claim \in DOMAIN claims'
                          \/ Decided(KeyOf(sends[i].claim))'
        BY <2>1 DEF LiveSendsHold, Live, Kept, Decided
      <3> QED
        BY <2>1, <2>3 DEF SendsInv, LiveSendsHold, Decided, KeyOf
    <2> QED
      BY <2>4, <2>5 DEF SendsInv
  <1>3. CASE Clicks
    <2> DEFINE n == Cardinality(DOMAIN sends) + 1
    <2>1. PICK c \in ClaimKey, act \in VerdictAction, stage \in {"lost", "queued"} :
             /\ TryClaim(c)
             /\ sends' = Put(sends, n, [claim |-> c, action |-> act,
                                        handled |-> FALSE, stage |-> stage])
             /\ UNCHANGED forgotten
      BY <1>3 DEF Clicks
    <2>2. n \notin DOMAIN sends
      BY <1>t, NextNumber
    <2> HIDE DEF n
    <2>3. /\ DOMAIN sends' = DOMAIN sends \cup {n}
          /\ \A i \in DOMAIN sends : sends'[i] = sends[i]
          /\ sends'[n].claim = c /\ ~sends'[n].handled
      BY <2>1, <2>2 DEF Put
    <2>4. records' = records /\ DOMAIN claims' = DOMAIN claims \cup {c}
      BY <2>1 DEF TryClaim, Put
    <2>5. \A i \in DOMAIN sends :
             KeyOf(sends[i].claim) = KeyOf(c) /\ Kept(i) => ~Live(i)
      BY <1>t, <2>1, ClickIsFirst
    <2>6. LiveSendsHold'
      BY <2>1, <2>3, <2>4 DEF SendsInv, LiveSendsHold, Live, Kept, Decided
    <2>7. OneLiveSend'
      <3> SUFFICES ASSUME NEW i \in DOMAIN sends', NEW j \in DOMAIN sends',
                          Live(i)', Live(j)', Kept(i)',
                          KeyOf(sends'[i].claim) = KeyOf(sends'[j].claim)
                   PROVE  i = j
        BY DEF OneLiveSend, KeyOf
      <3>1. PlaceOf(sends'[j].claim) = PlaceOf(sends'[i].claim)
        BY DEF KeyOf, PlaceOf
      <3>2. Kept(j)'
        BY <3>1 DEF Kept
      <3>3. CASE i \in DOMAIN sends /\ j \in DOMAIN sends
        BY <2>1, <2>3, <3>3 DEF SendsInv, OneLiveSend, Live, Kept
      <3>4. CASE i \in DOMAIN sends /\ j = n
        BY <2>1, <2>3, <2>5, <3>4 DEF Live, Kept
      <3>5. CASE j \in DOMAIN sends /\ i = n
        BY <2>1, <2>3, <2>5, <3>2, <3>5 DEF Live, Kept
      <3> QED
        BY <2>3, <3>3, <3>4, <3>5
    <2> QED
      BY <2>6, <2>7 DEF SendsInv
  <1>4. CASE SendMoves
    <2>1. PICK i \in DOMAIN sends, to \in {"preparing", "failed", "sending", "unknown", "sent"} :
             /\ sends[i].stage \in {"queued", "preparing", "sending"}
             /\ sends' = [sends EXCEPT ![i].stage = to]
             /\ UNCHANGED <<records, claims, forgotten>>
      BY <1>4 DEF SendMoves
    <2>2. /\ DOMAIN sends' = DOMAIN sends
          /\ \A j \in DOMAIN sends : sends'[j].claim = sends[j].claim
          /\ \A j \in DOMAIN sends : Live(j)' => Live(j)
      <3>1. sends[i] \in Send
        BY <1>t
      <3>2. /\ [sends[i] EXCEPT !.stage = to].claim = sends[i].claim
            /\ [sends[i] EXCEPT !.stage = to].handled = sends[i].handled
        BY <3>1 DEF Send
      <3>3. sends' = [sends EXCEPT ![i] = [sends[i] EXCEPT !.stage = to]]
        BY <2>1
      <3>4. Live(i)
        BY <2>1 DEF Live
      <3> QED
        BY <1>t, <3>2, <3>3, <3>4 DEF SendsTypeOK, Live
    <2> QED
      BY <2>1, <2>2 DEF SendsInv, LiveSendsHold, OneLiveSend, Kept, Decided
  <1>5. CASE ResultHandled
    <2>1. PICK i \in DOMAIN sends :
             /\ sends[i].stage \in {"failed", "unknown", "sent"} /\ ~sends[i].handled
             /\ \/ RecordSendResult(sends[i].claim, ResultOf(sends[i].stage))
                \/ UNCHANGED <<records, claims, epochs>>
             /\ sends' = [sends EXCEPT ![i].handled = TRUE]
             /\ UNCHANGED forgotten
      BY <1>5 DEF ResultHandled
    <2>2. /\ DOMAIN sends' = DOMAIN sends
          /\ \A j \in DOMAIN sends : sends'[j].claim = sends[j].claim
          /\ \A j \in DOMAIN sends : sends'[j].stage = sends[j].stage
          /\ \A j \in DOMAIN sends : j # i => sends'[j].handled = sends[j].handled
          /\ sends'[i].handled
          /\ Live(i)
      <3>1. sends[i] \in Send
        BY <1>t
      <3>2. /\ [sends[i] EXCEPT !.handled = TRUE].claim = sends[i].claim
            /\ [sends[i] EXCEPT !.handled = TRUE].stage = sends[i].stage
            /\ [sends[i] EXCEPT !.handled = TRUE].handled
        BY <3>1 DEF Send
      <3>3. sends' = [sends EXCEPT ![i] = [sends[i] EXCEPT !.handled = TRUE]]
        BY <2>1
      <3> QED
        BY <1>t, <2>1, <3>2, <3>3 DEF SendsTypeOK, Live
    <2>3. \A j \in DOMAIN sends : Live(j)' => Live(j) /\ (j = i => sends[i].stage # "failed")
      BY <2>1, <2>2 DEF Live
    <2>4. /\ records' = records
          /\ \A c \in DOMAIN claims :
                c \notin DOMAIN claims' => c = sends[i].claim /\ sends[i].stage = "failed"
      <3>1. CASE UNCHANGED <<records, claims, epochs>>
        BY <3>1
      <3>2. CASE RecordSendResult(sends[i].claim, ResultOf(sends[i].stage))
        <4>1. CASE ReleaseClaim(sends[i].claim)
                   /\ ResultOf(sends[i].stage) = "ConfirmedPreSendFailure"
          BY <2>1, <4>1 DEF ReleaseClaim, Restrict, ResultOf
        <4>2. CASE RetainClaim(sends[i].claim, ResultOf(sends[i].stage))
          BY <1>t, <4>2 DEF RetainClaim
        <4> QED
          BY <3>2, <4>1, <4>2 DEF RecordSendResult
      <3> QED
        BY <2>1, <3>1, <3>2
    <2>5. OneLiveSend'
      BY <2>1, <2>2, <2>3 DEF SendsInv, OneLiveSend, Kept
    <2>6. LiveSendsHold'
      <3> SUFFICES ASSUME NEW j \in DOMAIN sends, Live(j)', Kept(j)
                   PROVE  \/ sends[j].claim \in DOMAIN claims'
                          \/ Decided(KeyOf(sends[j].claim))
        BY <2>1, <2>2, <2>4 DEF LiveSendsHold, Kept, Decided
      <3>1. Live(j) /\ (j = i => sends[i].stage # "failed")
        BY <2>3
      <3>2. sends[j].claim \in DOMAIN claims \/ Decided(KeyOf(sends[j].claim))
        BY <3>1 DEF SendsInv, LiveSendsHold
      <3>3. CASE sends[j].claim = sends[i].claim
        <4>1. i = j
          BY <2>2, <3>1, <3>3 DEF SendsInv, OneLiveSend
        <4> QED
          BY <2>4, <3>1, <3>2, <4>1
      <3>4. CASE sends[j].claim # sends[i].claim
        BY <2>4, <3>2, <3>4
      <3> QED
        BY <3>3, <3>4
    <2> QED
      BY <2>5, <2>6 DEF SendsInv
  <1>6. CASE Drops
    <2>1. PICK places : Forget(places) /\ forgotten' = forgotten \cup places /\ UNCHANGED sends
      BY <1>6 DEF Drops, Drop
    <2>2. \A i \in DOMAIN sends : Kept(i)' => Kept(i)
      BY <2>1 DEF Kept
    <2>3. OneLiveSend'
      BY <2>1, <2>2 DEF SendsInv, OneLiveSend, Live
    <2>4. LiveSendsHold'
      <3> SUFFICES ASSUME NEW i \in DOMAIN sends, Live(i), Kept(i)'
                   PROVE  \/ sends[i].claim \in DOMAIN claims'
                          \/ Decided(KeyOf(sends[i].claim))'
        BY <2>1 DEF LiveSendsHold, Live, Decided
      <3>1. /\ PlaceOf(sends[i].claim) \notin places
            /\ sends[i].claim \in DOMAIN claims \/ Decided(KeyOf(sends[i].claim))
        BY <2>1, <2>2 DEF Kept, SendsInv, LiveSendsHold
      <3>2. <<sends[i].claim.account, sends[i].claim.room>> \notin places
            /\ <<KeyOf(sends[i].claim).account, KeyOf(sends[i].claim).room>> \notin places
        BY <3>1 DEF PlaceOf, KeyOf
      <3> QED
        BY <2>1, <3>1, <3>2 DEF Forget, Restrict, Decided
    <2> QED
      BY <2>3, <2>4 DEF SendsInv
  <1> QED
    BY <1>1, <1>2, <1>3, <1>4, <1>5, <1>6
       DEF CoreStep, CoreStays, Publishes, ClockMoves, Tick, sessionVars

-----------------------------------------------------------------------------
(* The fold of an honest publisher's messages.                             *)

LEMMA TransitionChains ==
    ASSUME NEW s, NEW d, NEW t, NEW e, NEW u, NEW f,
           Transition(s, d, t, e), Transition(t, e, u, f)
    PROVE  Transition(s, d, u, f)
  BY DEF Transition, Terminal

LEMMA PublishingStaysHonest ==
    ASSUME published \subseteq Messages, HonestPublisher, Publishes
    PROVE  HonestPublisher'
  <1>1. PICK m \in Messages :
          /\ \/ m.isRequest /\ \A p \in published : p.request # m.request
             \/ \E p \in published :
                   /\ ~m.isRequest /\ p.request = m.request /\ p.binding = m.binding
                   /\ ~m.legacy
                   /\ \A q \in published : q.request = m.request => q.revision <= p.revision
                   /\ m.revision = p.revision + 1
                   /\ Transition(p.state, p.decision, m.state, m.decision)
          /\ published' = published \cup {m}
    BY DEF Publishes
  <1>2. \A q \in Messages : q.revision \in Nat
    BY MessageType, BoundsAssumption
  <1>3. ~m.legacy
    BY <1>1, MessageType
  <1>4. ASSUME NEW q \in published, q.request = m.request
        PROVE  /\ q.binding = m.binding /\ m.revision > q.revision
               /\ Transition(q.state, q.decision, m.state, m.decision)
    <2>1. PICK p \in published :
             /\ p.request = m.request /\ p.binding = m.binding
             /\ q.revision <= p.revision /\ m.revision = p.revision + 1
             /\ Transition(p.state, p.decision, m.state, m.decision)
      BY <1>1, <1>4
    <2>2. q.revision \in Nat /\ p.revision \in Nat
      BY <1>2
    <2>3. q.binding = m.binding /\ m.revision > q.revision
      BY <1>4, <2>1, <2>2 DEF HonestPublisher
    <2>4. q = p \/ Transition(q.state, q.decision, p.state, p.decision)
      BY <1>4, <2>1, <2>2 DEF HonestPublisher
    <2> QED
      BY <2>1, <2>3, <2>4, TransitionChains
  <1>5. \A x \in published' : ~x.legacy
    BY <1>1, <1>3 DEF HonestPublisher
  <1>6. ASSUME NEW x \in published', NEW y \in published', x.request = y.request
        PROVE  /\ x.binding = y.binding
               /\ x.revision = y.revision => x = y
               /\ x.revision > y.revision =>
                     Transition(y.state, y.decision, x.state, x.decision)
    <2>1. x.revision \in Nat /\ y.revision \in Nat
      BY <1>1, <1>2
    <2>2. CASE x \in published /\ y \in published
      BY <1>6, <2>2 DEF HonestPublisher
    <2>3. CASE x = m /\ y = m
      BY <2>1, <2>3
    <2>4. CASE x = m /\ y \in published
      BY <1>4, <1>6, <2>1, <2>4
    <2>5. CASE x \in published /\ y = m
      BY <1>4, <1>6, <2>1, <2>5
    <2> QED
      BY <1>1, <2>2, <2>3, <2>4, <2>5
  <1> QED
    BY <1>5, <1>6 DEF HonestPublisher

\* What a record says was published, and so was what is folded now: neither
\* conflicts with the other.
LEMMA HonestMessagesAgree ==
    ASSUME SessionInv, published \subseteq Messages, FoldInv, NEW k \in DOMAIN records,
           NEW m \in published, m.request = k.request
    PROVE  /\ ~Conflicts(records[k], m)
           /\ records[k].binding = m.binding
  <1>1. PICK n \in published :
          /\ n.request = k.request /\ n.binding = records[k].binding
          /\ n.revision = records[k].revision
          /\ n.state = records[k].state /\ n.decision = records[k].decision
    BY DEF FoldInv, FoldIsPublished
  <1>2. /\ ~m.legacy /\ ~n.legacy /\ ~records[k].legacy
        /\ m.binding = n.binding
        /\ m.revision = n.revision => m = n
        /\ m.revision > n.revision => Transition(n.state, n.decision, m.state, m.decision)
    BY <1>1 DEF FoldInv, HonestPublisher, FoldIsHonest
  <1>3. m.legacy \in BOOLEAN /\ records[k].legacy \in BOOLEAN
    BY MessageType DEF SessionInv, TypeOK, Record
  <1>4. m.isRequest /\ records[k].hasRequest => records[k].expiresAt = m.expiresAt
    <2> SUFFICES ASSUME m.isRequest, records[k].hasRequest
                 PROVE  records[k].expiresAt = m.expiresAt
      OBVIOUS
    <2>1. PICK x \in published :
             x.request = k.request /\ x.isRequest /\ x.expiresAt = records[k].expiresAt
      BY DEF FoldInv, FoldIsHonest
    <2>2. x.revision = 1 /\ m.revision = 1
      BY <2>1, MessagesAssumption DEF Message
    <2> QED
      BY <2>1, <2>2 DEF FoldInv, HonestPublisher
  <1> QED
    BY <1>1, <1>2, <1>3, <1>4 DEF Conflicts, ProvenanceDiffers, SameProjection

LEMMA FoldingStaysHonest ==
    ASSUME SessionInv, published \subseteq Messages, FoldInv, NEW a \in Accounts,
           NEW r \in Rooms, NEW m \in published, IngestMessage(a, r, m)
    PROVE  \A k \in DOMAIN records' :
              /\ ~records'[k].conflicted
              /\ \E n \in published :
                    /\ n.request = k.request /\ n.binding = records'[k].binding
                    /\ n.revision = records'[k].revision
                    /\ n.state = records'[k].state /\ n.decision = records'[k].decision
              /\ ~records'[k].legacy
              /\ records'[k].hasRequest =>
                    \E n \in published :
                       n.request = k.request /\ n.isRequest
                       /\ n.expiresAt = records'[k].expiresAt
  <1> DEFINE key == [account |-> a, room |-> r, request |-> m.request]
             Honest(k, x) ==
                /\ ~x.conflicted
                /\ \E n \in published :
                      /\ n.request = k.request /\ n.binding = x.binding
                      /\ n.revision = x.revision
                      /\ n.state = x.state /\ n.decision = x.decision
                /\ ~x.legacy
                /\ x.hasRequest =>
                      \E n \in published :
                         n.request = k.request /\ n.isRequest /\ n.expiresAt = x.expiresAt
  <1>t. records \in [DOMAIN records -> Record]
    BY DEF SessionInv, TypeOK
  <1>1. \A k \in DOMAIN records : Honest(k, records[k])
    BY DEF FoldInv, FoldIsPublished, FoldIsHonest
  <1>2. key.request = m.request
    OBVIOUS
  <1> HIDE DEF key
  <1>3. ASSUME NEW new, Honest(key, new),
               \/ key \notin DOMAIN records /\ records' = Put(records, key, new)
               \/ key \in DOMAIN records /\ records' = [records EXCEPT ![key] = new]
        PROVE  \A k \in DOMAIN records' : Honest(k, records'[k])
    <2>1. \A k \in DOMAIN records' :
             \/ k \in DOMAIN records /\ records'[k] = records[k]
             \/ k = key /\ records'[k] = new
      BY <1>3, <1>t DEF Put
    <2> QED
      BY <1>1, <1>3, <2>1
  <1>4. CASE Admit(key, m)
    <2> DEFINE new == [binding |-> m.binding, state |-> m.state, decision |-> m.decision,
                       revision |-> m.revision, expiresAt |-> m.expiresAt,
                       hasRequest |-> m.isRequest, legacy |-> m.legacy,
                       original |-> m.original, conflicted |-> FALSE]
    <2>1. Honest(key, new)
      BY <1>2 DEF FoldInv, HonestPublisher
    <2>2. key \notin DOMAIN records /\ records' = Put(records, key, new)
      BY <1>4 DEF Admit
    <2> HIDE DEF new, Honest
    <2>3. \A k \in DOMAIN records' : Honest(k, records'[k])
      BY <1>3, <2>1, <2>2
    <2> QED
      BY <2>3 DEF Honest
  <1>5. CASE MarkConflicted(key, m)
    BY <1>2, <1>5, HonestMessagesAgree DEF MarkConflicted
  <1>6. CASE FillRequest(key, m)
    <2> DEFINE new == [records[key] EXCEPT !.hasRequest = TRUE, !.expiresAt = m.expiresAt]
    <2>1. /\ key \in DOMAIN records /\ records[key] \in Record /\ m.isRequest
          /\ records' = [records EXCEPT ![key] = new]
      BY <1>t, <1>6 DEF FillRequest, Fills
    <2>2. /\ new.conflicted = records[key].conflicted /\ new.binding = records[key].binding
          /\ new.revision = records[key].revision /\ new.state = records[key].state
          /\ new.decision = records[key].decision /\ new.legacy = records[key].legacy
          /\ new.expiresAt = m.expiresAt
      BY <2>1 DEF Record
    <2> HIDE DEF new
    <2>3. Honest(key, new)
      BY <1>1, <1>2, <2>1, <2>2
    <2> HIDE DEF Honest
    <2>4. \A k \in DOMAIN records' : Honest(k, records'[k])
      BY <1>3, <2>1, <2>3
    <2> QED
      BY <2>4 DEF Honest
  <1>7. CASE Advance(key, m)
    <2> DEFINE new == [records[key] EXCEPT !.revision = m.revision, !.state = m.state,
                                           !.decision = m.decision,
                                           !.legacy = @ \/ m.legacy]
    <2>1. /\ key \in DOMAIN records /\ records[key] \in Record
          /\ records' = [records EXCEPT ![key] = new]
      BY <1>t, <1>7 DEF Advance
    <2>2. /\ new.conflicted = records[key].conflicted /\ new.binding = records[key].binding
          /\ new.revision = m.revision /\ new.state = m.state /\ new.decision = m.decision
          /\ new.hasRequest = records[key].hasRequest
          /\ new.expiresAt = records[key].expiresAt
      BY <2>1 DEF Record
    <2>3. records[key].binding = m.binding /\ ~m.legacy
      BY <1>2, <2>1, HonestMessagesAgree DEF FoldInv, HonestPublisher
    <2>l. ~new.legacy
      BY <1>1, <2>1, <2>3 DEF Record
    <2> HIDE DEF new
    <2>4. Honest(key, new)
      BY <1>1, <1>2, <2>1, <2>2, <2>3, <2>l
    <2> HIDE DEF Honest
    <2>5. \A k \in DOMAIN records' : Honest(k, records'[k])
      BY <1>3, <2>1, <2>4
    <2> QED
      BY <2>5 DEF Honest
  <1> QED
    BY <1>4, <1>5, <1>6, <1>7 DEF IngestMessage, key

LEMMA CoreFold ==
    ASSUME SessionInv, VerdictsTypeOK, FoldInv, CoreStep
    PROVE  FoldInv'
  <1>p. published \subseteq Messages
    BY DEF VerdictsTypeOK
  <1>1. CASE published' = published /\ records' = records
    BY <1>1 DEF FoldInv, HonestPublisher, FoldIsPublished, FoldIsHonest
  <1>2. CASE Publishes
    <2>1. HonestPublisher'
      BY <1>2, <1>p, PublishingStaysHonest DEF FoldInv
    <2>2. records' = records /\ published \subseteq published'
      BY <1>2 DEF Publishes
    <2> QED
      BY <2>1, <2>2 DEF FoldInv, FoldIsPublished, FoldIsHonest
  <1>3. CASE Folds
    <2>1. PICK r \in Rooms, m \in published :
             /\ <<client, r>> \in Members /\ IngestMessage(client, r, m)
             /\ published' = published
      BY <1>3 DEF Folds
    <2>2. client \in Accounts
      BY <2>1, VerdictBounds
    <2>3. FoldIsPublished' /\ FoldIsHonest'
      BY <1>p, <2>1, <2>2, FoldingStaysHonest DEF FoldIsPublished, FoldIsHonest
    <2> QED
      BY <2>1, <2>3 DEF FoldInv, HonestPublisher
  <1>4. CASE Drops
    <2>1. PICK places : Forget(places) /\ published' = published
      BY <1>4 DEF Drops, Drop
    <2>2. /\ DOMAIN records' \subseteq DOMAIN records
          /\ \A k \in DOMAIN records' : records'[k] = records[k]
      BY <2>1 DEF Forget, Restrict
    <2> QED
      BY <2>1, <2>2 DEF FoldInv, HonestPublisher, FoldIsPublished, FoldIsHonest
  <1> QED
    BY <1>1, <1>2, <1>3, <1>4
       DEF CoreStep, CoreStays, Clicks, TryClaim, SendMoves, ResultHandled,
           RecordSendResult, ReleaseClaim, RetainClaim, ClockMoves, Tick, sessionVars

-----------------------------------------------------------------------------
(* The invariant, and what it says.                                        *)

LEMMA InitVerdictsInv == InitVerdicts => VerdictsInv
  <1> SUFFICES ASSUME InitVerdicts PROVE VerdictsInv
    OBVIOUS
  <1>1. SessionInv
    BY InitSession DEF InitVerdicts
  <1>2. DOMAIN sends = {} /\ DOMAIN records = {} /\ published = {}
    BY DEF InitVerdicts, Init
  <1>3. SendsTypeOK
    <2>1. DOMAIN sends = 1..0 /\ 0 \in 0..MaxSends
      BY <1>2, VerdictBounds
    <2>2. sends \in [DOMAIN sends -> Send] /\ DOMAIN sends \subseteq 1..MaxSends
      BY <1>2 DEF InitVerdicts
    <2> QED
      BY <2>1, <2>2 DEF SendsTypeOK, SendsAreNumbered
  <1>4. WorldTypeOK
    <2>1. << >> \in Seq(UiAction) /\ 0 \in 0..MaxSwitches /\ 0 \in 0..MaxLeaves
      BY VerdictBounds
    <2> QED
      BY <2>1 DEF InitVerdicts, WorldTypeOK
  <1>5. SendsInv
    BY <1>2 DEF SendsInv, LiveSendsHold, OneLiveSend
  <1>6. FoldInv
    BY <1>2 DEF FoldInv, HonestPublisher, FoldIsPublished, FoldIsHonest
  <1> QED
    BY <1>1, <1>3, <1>4, <1>5, <1>6, VerdictTypesSplit DEF VerdictsInv, SessionInv

LEMMA VerdictsStep == VerdictsInv /\ [NextVerdicts]_verdictVars => VerdictsInv'
  <1> SUFFICES ASSUME VerdictsInv, [NextVerdicts]_verdictVars PROVE VerdictsInv'
    OBVIOUS
  <1>1. CoreStep
    BY StepsOfTheCore DEF VerdictsInv
  <1>2. SessionInv'
    BY <1>1, CoreSession DEF VerdictsInv
  <1>3. SendsTypeOK' /\ WorldTypeOK'
    BY <1>1, CoreSends, WorldTypes, VerdictTypesSplit DEF VerdictsInv
  <1>4. VerdictsTypeOK' /\ SendsAreNumbered'
    BY <1>2, <1>3 DEF SessionInv, SendsTypeOK, WorldTypeOK, VerdictsTypeOK
  <1>5. SendsInv'
    BY <1>1, CoreSendsInv DEF VerdictsInv
  <1>6. FoldInv'
    BY <1>1, CoreFold DEF VerdictsInv
  <1> QED
    BY <1>2, <1>4, <1>5, <1>6 DEF VerdictsInv

\* The verdict path keeps its invariant across clicks, folds, sends, switches,
\* leaves and restores in any order.
THEOREM VerdictsInvariant == SpecVerdicts => []VerdictsInv
  BY InitVerdictsInv, VerdictsStep, PTL DEF SpecVerdicts

\* Type correctness of the verdict path.
THEOREM VerdictsTypeCorrect == SpecVerdicts => []VerdictsTypeOK
  <1>1. VerdictsInv => VerdictsTypeOK
    BY DEF VerdictsInv
  <1> QED
    BY <1>1, VerdictsInvariant, PTL

LEMMA StartedIsLive == \A i : Started(i) => Live(i)
  BY DEF Started, Live

\* At most one verdict is ever started for a request whose state was not
\* dropped, for any number of clicks, panes and accounts.
THEOREM OneVerdictAlways == SpecVerdicts => []OneVerdictPerRequest
  <1>1. VerdictsInv => OneVerdictPerRequest
    BY StartedIsLive DEF VerdictsInv, SendsInv, OneLiveSend, OneVerdictPerRequest, Kept
  <1> QED
    BY <1>1, VerdictsInvariant, PTL

\* A live send's claim is still held, or somebody else decided: no two sends
\* compete for a request.
THEOREM SendsNeverCompete == SpecVerdicts => []SendsInv
  <1>1. VerdictsInv => SendsInv
    BY DEF VerdictsInv
  <1> QED
    BY <1>1, VerdictsInvariant, PTL

\* Whatever order an honest publisher's messages are folded in, and however
\* often, the fold is one of them and never a conflict.
THEOREM FoldAlwaysPublished == SpecVerdicts => []FoldIsPublished
  <1>1. VerdictsInv => FoldIsPublished
    BY DEF VerdictsInv, FoldInv
  <1> QED
    BY <1>1, VerdictsInvariant, PTL

-----------------------------------------------------------------------------
(* The path implements OneTimeVerdict.  A request's abstract state follows *)
(* from three facts: somebody decided, a click holds it, a send began.     *)

Held(k) == \E c \in DOMAIN claims : KeyOf(c) = k
Begun(k) == \E i \in DOMAIN sends : Started(i) /\ KeyOf(sends[i].claim) = k

LEMMA PlaceOfKey == \A c : <<KeyOf(c).account, KeyOf(c).room>> = PlaceOf(c)
  BY DEF KeyOf, PlaceOf

\* Sends are counted up to one.
CountsToOne == \A k : ~Dropped(k) => SentOf(k) = IF Begun(k) THEN 1 ELSE 0

LEMMA SentCount == VerdictsInv => CountsToOne
  <1> SUFFICES ASSUME VerdictsInv, NEW k, ~Dropped(k)
               PROVE  SentOf(k) = IF Begun(k) THEN 1 ELSE 0
    BY DEF CountsToOne
  <1> DEFINE S == {i \in DOMAIN sends : Started(i) /\ KeyOf(sends[i].claim) = k}
  <1>1. SentOf(k) = Cardinality(S)
    BY DEF SentOf
  <1>2. CASE ~Begun(k)
    <2>1. S = {}
      BY <1>2 DEF Begun
    <2> QED
      BY <1>1, <1>2, <2>1, FS_EmptySet
  <1>3. CASE Begun(k)
    <2>1. PICK i \in DOMAIN sends : Started(i) /\ KeyOf(sends[i].claim) = k
      BY <1>3 DEF Begun
    <2>2. \A j \in S : Kept(j)
      BY PlaceOfKey DEF Kept, Dropped
    <2>3. S = {i}
      BY <2>1, <2>2, StartedIsLive DEF VerdictsInv, SendsInv, OneLiveSend
    <2> QED
      BY <1>1, <1>3, <2>3, FS_Singleton
  <1> QED
    BY <1>2, <1>3

LEMMA SentCountAfter == VerdictsInv' => CountsToOne'
  BY SentCount, PTL

LEMMA PhaseFacts ==
    \A k : PhaseOf(k) = IF Dropped(k) THEN "dropped"
                        ELSE IF Decided(k) THEN "closed"
                        ELSE IF Held(k) THEN "held" ELSE "open"
  BY DEF PhaseOf, Decided, Held

\* What a step may do to the request k while its state is kept.
KeyStep(k) ==
    \/ Decided(k) /\ Decided(k)' /\ (Begun(k)' <=> Begun(k))
    \/ /\ ~Decided(k) /\ ~Decided(k)'
       /\ Held(k)' <=> Held(k)
       /\ Begun(k)' <=> Begun(k)
    \/ /\ ~Decided(k) /\ ~Decided(k)' /\ ~Begun(k) /\ ~Begun(k)'
       /\ Held(k)' <=> ~Held(k)
    \/ ~Decided(k) /\ Decided(k)' /\ (Begun(k)' <=> Begun(k))
    \/ /\ Held(k) \/ Decided(k)
       /\ Held(k)' <=> Held(k)
       /\ Decided(k)' <=> Decided(k)
       /\ ~Begun(k) /\ Begun(k)'

LEMMA CoreKeyStep ==
    ASSUME VerdictsInv, CoreStep, NEW k, ~Dropped(k)'
    PROVE  ~Dropped(k) /\ KeyStep(k)
  <1>d. ~Dropped(k)
    BY DEF CoreStep, CoreStays, Publishes, Folds, Clicks, SendMoves, ResultHandled, Drops,
           Drop, ClockMoves, Dropped
  <1> SUFFICES KeyStep(k)
    BY <1>d
  <1>t. /\ SendsTypeOK /\ SessionInv /\ SendsInv
        /\ \A i \in DOMAIN sends : sends[i] \in Send
        /\ claims \in [DOMAIN claims -> ClaimState]
        /\ records \in [DOMAIN records -> Record]
    BY VerdictTypesSplit DEF VerdictsInv, SendsTypeOK, SessionInv, TypeOK
  <1>k. \A c : KeyOf(c) = k => PlaceOf(c) \notin forgotten
    BY <1>d, PlaceOfKey DEF Dropped
  <1>o. ASSUME NEW i \in DOMAIN sends, Live(i), ~Started(i), KeyOf(sends[i].claim) = k
        PROVE  ~Begun(k)
    <2> SUFFICES ASSUME NEW j \in DOMAIN sends, Started(j), KeyOf(sends[j].claim) = k
                 PROVE  FALSE
      BY DEF Begun
    <2>1. i = j
      BY <1>k, <1>o, <1>t, StartedIsLive DEF SendsInv, OneLiveSend, Kept
    <2> QED
      BY <1>o, <2>1
  <1>1. CASE UNCHANGED <<records, claims, sends>>
    BY <1>1 DEF KeyStep, Decided, Held, Begun, Started
  <1>2. CASE Folds
    <2>1. PICK r \in Rooms, m \in published :
             <<client, r>> \in Members /\ IngestMessage(client, r, m) /\ UNCHANGED sends
      BY <1>2 DEF Folds
    <2>2. client \in Accounts /\ m \in Messages
      BY <2>1, VerdictBounds DEF VerdictsInv, VerdictsTypeOK
    <2>3. /\ Decided(k) => Decided(k)'
          /\ DOMAIN claims' \subseteq DOMAIN claims
          /\ \A c \in DOMAIN claims : c \in DOMAIN claims' \/ Decided(KeyOf(c))'
      BY <1>t, <2>1, <2>2, IngestKeepsDecisions
    <2>4. Begun(k)' <=> Begun(k)
      BY <2>1 DEF Begun, Started
    <2>5. ~Decided(k)' => (Held(k)' <=> Held(k))
      BY <2>3 DEF Held, KeyOf, Decided
    <2> QED
      BY <2>3, <2>4, <2>5 DEF KeyStep
  <1>3. CASE Clicks
    <2> DEFINE n == Cardinality(DOMAIN sends) + 1
    <2>1. PICK c \in ClaimKey, act \in VerdictAction, stage \in {"lost", "queued"} :
             /\ TryClaim(c)
             /\ sends' = Put(sends, n, [claim |-> c, action |-> act,
                                        handled |-> FALSE, stage |-> stage])
      BY <1>3 DEF Clicks
    <2>2. n \notin DOMAIN sends
      BY <1>t, NextNumber
    <2> HIDE DEF n
    <2>3. /\ DOMAIN sends' = DOMAIN sends \cup {n}
          /\ \A i \in DOMAIN sends : sends'[i] = sends[i]
          /\ sends'[n].stage = stage
      BY <2>1, <2>2 DEF Put
    <2>4. records' = records /\ DOMAIN claims' = DOMAIN claims \cup {c}
      BY <2>1 DEF TryClaim, Put
    <2>5. Begun(k)' <=> Begun(k)
      BY <2>2, <2>3 DEF Begun, Started
    <2>6. Decided(k)' <=> Decided(k)
      BY <2>4 DEF Decided
    <2>7. CASE KeyOf(c) # k
      <3>1. Held(k)' <=> Held(k)
        BY <2>4, <2>7 DEF Held
      <3> QED
        BY <2>5, <2>6, <3>1 DEF KeyStep
    <2>8. CASE KeyOf(c) = k
      <3>1. ~Decided(k)
        BY <2>1, <2>8 DEF TryClaim, IsActionable, Decided, Terminal
      <3>2. ~Held(k)
        BY <1>t, <2>1, <2>8
           DEF TryClaim, IsActionable, Held, SessionInv, ClaimsLockPendingRequests
      <3>3. Held(k)'
        BY <2>4, <2>8 DEF Held
      <3>4. ~Begun(k)
        BY <1>k, <1>t, <2>1, <2>8, ClickIsFirst, StartedIsLive DEF Begun, Kept
      <3> QED
        BY <2>5, <2>6, <3>1, <3>2, <3>3, <3>4 DEF KeyStep
    <2> QED
      BY <2>7, <2>8
  <1>4. CASE SendMoves
    <2>1. PICK i \in DOMAIN sends, to \in {"preparing", "failed", "sending", "unknown", "sent"} :
             /\ \/ sends[i].stage \in {"queued", "preparing"} /\ to \in {"preparing", "failed"}
                \/ sends[i].stage = "preparing" /\ to = "sending"
                \/ sends[i].stage = "sending" /\ to \in {"unknown", "sent"}
             /\ sends' = [sends EXCEPT ![i].stage = to]
             /\ UNCHANGED <<records, claims>>
      BY <1>4 DEF SendMoves
    <2>2. /\ DOMAIN sends' = DOMAIN sends
          /\ \A j \in DOMAIN sends : sends'[j].claim = sends[j].claim
          /\ \A j \in DOMAIN sends : j # i => sends'[j].stage = sends[j].stage
          /\ sends'[i].stage = to
      <3>1. /\ [sends[i] EXCEPT !.stage = to].claim = sends[i].claim
            /\ [sends[i] EXCEPT !.stage = to].stage = to
        BY <1>t DEF Send
      <3>2. sends' = [sends EXCEPT ![i] = [sends[i] EXCEPT !.stage = to]]
        BY <2>1
      <3> QED
        BY <1>t, <3>1, <3>2 DEF SendsTypeOK
    <2>3. (Held(k)' <=> Held(k)) /\ (Decided(k)' <=> Decided(k))
      BY <2>1 DEF Held, Decided
    <2>4. CASE to = "sending" /\ KeyOf(sends[i].claim) = k
      <3>1. sends[i].stage = "preparing" /\ Live(i) /\ ~Started(i)
        BY <2>1, <2>4 DEF Live, Started
      <3>2. ~Begun(k) /\ Begun(k)'
        BY <1>o, <2>2, <2>4, <3>1 DEF Begun, Started
      <3>3. Held(k) \/ Decided(k)
        BY <1>k, <1>t, <2>4, <3>1 DEF SendsInv, LiveSendsHold, Held, Kept
      <3> QED
        BY <2>3, <3>2, <3>3 DEF KeyStep
    <2>5. CASE ~(to = "sending" /\ KeyOf(sends[i].claim) = k)
      <3>1. Begun(k)' <=> Begun(k)
        BY <2>1, <2>2, <2>5 DEF Begun, Started
      <3> QED
        BY <2>3, <3>1 DEF KeyStep
    <2> QED
      BY <2>4, <2>5
  <1>5. CASE ResultHandled
    <2>1. PICK i \in DOMAIN sends :
             /\ sends[i].stage \in {"failed", "unknown", "sent"} /\ ~sends[i].handled
             /\ \/ RecordSendResult(sends[i].claim, ResultOf(sends[i].stage))
                \/ UNCHANGED <<records, claims, epochs>>
             /\ sends' = [sends EXCEPT ![i].handled = TRUE]
      BY <1>5 DEF ResultHandled
    <2>2. /\ DOMAIN sends' = DOMAIN sends
          /\ \A j \in DOMAIN sends : sends'[j].claim = sends[j].claim
          /\ \A j \in DOMAIN sends : sends'[j].stage = sends[j].stage
      <3>1. /\ [sends[i] EXCEPT !.handled = TRUE].claim = sends[i].claim
            /\ [sends[i] EXCEPT !.handled = TRUE].stage = sends[i].stage
        BY <1>t DEF Send
      <3>2. sends' = [sends EXCEPT ![i] = [sends[i] EXCEPT !.handled = TRUE]]
        BY <2>1
      <3> QED
        BY <1>t, <3>1, <3>2 DEF SendsTypeOK
    <2>3. Begun(k)' <=> Begun(k)
      BY <2>2 DEF Begun, Started
    <2>4. CASE UNCHANGED <<records, claims, epochs>>
      BY <2>3, <2>4 DEF KeyStep, Held, Decided
    <2>5. CASE RetainClaim(sends[i].claim, ResultOf(sends[i].stage))
      <3>1. records' = records /\ DOMAIN claims' = DOMAIN claims
        BY <1>t, <2>5 DEF RetainClaim
      <3> QED
        BY <2>3, <3>1 DEF KeyStep, Held, Decided
    <2>6. CASE ReleaseClaim(sends[i].claim)
               /\ ResultOf(sends[i].stage) = "ConfirmedPreSendFailure"
      <3>1. /\ records' = records /\ DOMAIN claims' = DOMAIN claims \ {sends[i].claim}
            /\ records[KeyOf(sends[i].claim)].state = "Pending"
        BY <2>6 DEF ReleaseClaim, MayRelease, Restrict
      <3>2. sends[i].stage = "failed"
        BY <2>1, <2>6 DEF ResultOf
      <3>3. CASE KeyOf(sends[i].claim) # k
        BY <2>3, <3>1, <3>3 DEF KeyStep, Held, Decided
      <3>4. CASE KeyOf(sends[i].claim) = k
        <4>1. ~Begun(k)
          BY <1>o, <2>1, <3>2, <3>4 DEF Live, Started
        <4>2. ~Decided(k) /\ ~Decided(k)'
          BY <3>1, <3>4 DEF Decided, Terminal
        <4>3. Held(k)
          BY <2>6, <3>4 DEF Held, ReleaseClaim, MayRelease
        <4> QED
          BY <2>3, <4>1, <4>2, <4>3 DEF KeyStep
      <3> QED
        BY <3>3, <3>4
    <2> QED
      BY <2>1, <2>4, <2>5, <2>6 DEF RecordSendResult
  <1>6. CASE Drops
    <2>1. PICK places : /\ Forget(places) /\ forgotten' = forgotten \cup places
                        /\ UNCHANGED sends
      BY <1>6 DEF Drops, Drop
    <2>2. <<k.account, k.room>> \notin places
      BY <2>1 DEF Dropped
    <2>3. \A c : KeyOf(c) = k => <<c.account, c.room>> \notin places
      BY <2>2 DEF KeyOf
    <2>4. Decided(k)' <=> Decided(k)
      BY <2>1, <2>2 DEF Forget, Restrict, Decided
    <2>5. Held(k)' <=> Held(k)
      BY <2>1, <2>3 DEF Forget, Restrict, Held
    <2>6. Begun(k)' <=> Begun(k)
      BY <2>1 DEF Begun, Started
    <2> QED
      BY <2>4, <2>5, <2>6 DEF KeyStep
  <1> QED
    BY <1>d, <1>1, <1>2, <1>3, <1>4, <1>5, <1>6
       DEF CoreStep, CoreStays, Publishes, ClockMoves, Tick, sessionVars

LEMMA KeyStepIsAllowed ==
    ASSUME VerdictsInv, VerdictsInv', CoreStep, NEW k,
           NEW p, NEW q, NEW s, NEW t,
           p = PhaseOf(k), q = PhaseOf(k)', s = SentOf(k), t = SentOf(k)'
    PROVE  \/ q = p /\ t = s
           \/ s = 0 /\ p = "open" /\ q = "held" /\ t = s
           \/ s = 0 /\ p = "held" /\ q = "open" /\ t = s
           \/ p \in {"open", "held"} /\ q = "closed" /\ t = s
           \/ p \in {"held", "closed"} /\ s = 0 /\ t = 1 /\ q = p
           \/ q = "dropped" /\ t = 0
  <1>1. CASE Dropped(k)'
    BY <1>1 DEF PhaseOf, SentOf
  <1>2. CASE ~Dropped(k)'
    <2>1. ~Dropped(k) /\ KeyStep(k)
      BY <1>2, CoreKeyStep
    <2>2. s = (IF Begun(k) THEN 1 ELSE 0)
      BY <2>1, SentCount DEF CountsToOne
    <2>3. t = (IF Begun(k)' THEN 1 ELSE 0)
      BY <1>2, SentCountAfter DEF CountsToOne
    <2>4. p = (IF Decided(k) THEN "closed" ELSE IF Held(k) THEN "held" ELSE "open")
      BY <2>1, PhaseFacts
    <2>5. q = (IF Decided(k)' THEN "closed" ELSE IF Held(k)' THEN "held" ELSE "open")
      BY <1>2 DEF PhaseOf, Decided, Held
    <2> QED
      BY <2>1, <2>2, <2>3, <2>4, <2>5 DEF KeyStep
  <1> QED
    BY <1>1, <1>2

LEMMA OneTimeInitially == InitVerdicts => Promise!OneTimeInit
  <1> SUFFICES ASSUME InitVerdicts, NEW k \in RequestKey
               PROVE  PhaseOf(k) = "open" /\ SentOf(k) = 0
    BY DEF Promise!OneTimeInit
  <1>1. forgotten = {} /\ DOMAIN records = {} /\ DOMAIN claims = {} /\ DOMAIN sends = {}
    BY DEF InitVerdicts, Init
  <1>2. PhaseOf(k) = "open"
    BY <1>1 DEF PhaseOf, Dropped
  <1>3. SentOf(k) = 0
    <2>1. {i \in DOMAIN sends : Started(i) /\ KeyOf(sends[i].claim) = k} = {}
      BY <1>1
    <2> QED
      BY <1>1, <2>1, FS_EmptySet DEF SentOf, Dropped
  <1> QED
    BY <1>2, <1>3

LEMMA OneTimeSteps ==
    ASSUME VerdictsInv, VerdictsInv', CoreStep
    PROVE  Promise!OneTimeNext
  <1> SUFFICES ASSUME NEW k \in RequestKey
               PROVE  \/ Promise!Stays(k) \/ Promise!Hold(k) \/ Promise!GiveBack(k)
                      \/ Promise!Close(k) \/ Promise!StartSend(k) \/ Promise!Drop(k)
    BY DEF Promise!OneTimeNext
  <1>1. \/ PhaseOf(k)' = PhaseOf(k) /\ SentOf(k)' = SentOf(k)
        \/ /\ SentOf(k) = 0 /\ PhaseOf(k) = "open" /\ PhaseOf(k)' = "held"
           /\ SentOf(k)' = SentOf(k)
        \/ /\ SentOf(k) = 0 /\ PhaseOf(k) = "held" /\ PhaseOf(k)' = "open"
           /\ SentOf(k)' = SentOf(k)
        \/ /\ PhaseOf(k) \in {"open", "held"} /\ PhaseOf(k)' = "closed"
           /\ SentOf(k)' = SentOf(k)
        \/ /\ PhaseOf(k) \in {"held", "closed"} /\ SentOf(k) = 0 /\ SentOf(k)' = 1
           /\ PhaseOf(k)' = PhaseOf(k)
        \/ PhaseOf(k)' = "dropped" /\ SentOf(k)' = 0
    BY KeyStepIsAllowed
  <1>2. /\ [x \in RequestKey |-> PhaseOf(x)][k] = PhaseOf(k)
        /\ [x \in RequestKey |-> PhaseOf(x)]'[k] = PhaseOf(k)'
        /\ [x \in RequestKey |-> SentOf(x)][k] = SentOf(k)
        /\ [x \in RequestKey |-> SentOf(x)]'[k] = SentOf(k)'
    OBVIOUS
  <1> QED
    BY <1>1, <1>2 DEF Promise!Stays, Promise!Hold, Promise!GiveBack, Promise!Close,
                      Promise!StartSend, Promise!Drop, Promise!Becomes

\* Clicks, folds, sends and their results implement OneTimeVerdict: a request
\* is held by one click at a time, a verdict is sent at most once and only for
\* a click that held it, and a decided request stays closed.
THEOREM VerdictsAreOneTime == SpecVerdicts => ImplementsOneTimeVerdict
  <1>1. VerdictsInv /\ VerdictsInv' /\ [NextVerdicts]_verdictVars => Promise!OneTimeNext
    BY StepsOfTheCore, OneTimeSteps DEF VerdictsInv
  <1> QED
    BY <1>1, OneTimeInitially, VerdictsInvariant, PTL
       DEF SpecVerdicts, ImplementsOneTimeVerdict, Promise!OneTimeSpec

=============================================================================
