SPECIFICATION FairRoomParts
CONSTANTS
  Threads = {t1}
  MaxOpens = 3
  MaxFailures = 1
  MaxRebuilds = 1
  MaxLeaves = 1
  MaxQueue = 3
  Accounts = {a1, a2}
  Rooms = {r1}
  Requests = {q1, q2, q3}
  Digests = {d1, d2}
  Origins = {o1}
  Events = {e1}
  None = None
  Messages <- MC_Adversarial
  MAX_ACCOUNTS = 1
  MAX_APPROVALS = 2
  MaxRevision = 3
  MaxTime = 2
  MaxEpoch = 6
INVARIANTS
  RoomTypesOK
  OnlyNewestTokenIsCurrent
  ClosedStaysClosed
  TakenIsHeld
  ClaimsLockPendingRequests
  OneClaimPerRequest
  CapacityRespected
PROPERTIES
  OpenTabIsServed
  NeverRegressesOrForks
  UnknownOutcomeStaysLocked
CHECK_DEADLOCK FALSE
