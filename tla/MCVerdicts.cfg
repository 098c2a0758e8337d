SPECIFICATION VerdictPartsSpec
CONSTANTS
  Accounts = {a1, a2}
  Rooms = {r1}
  Requests = {q1}
  Digests = {d1}
  Origins = {o1}
  Events = {e1}
  None = None
  Messages <- MC_Native
  Members <- MC_Members
  MAX_ACCOUNTS = 2
  MAX_APPROVALS = 2
  MaxRevision = 3
  MaxTime = 1
  MaxEpoch = 10
  MaxSends = 2
  MaxSwitches = 2
  MaxLeaves = 1
INVARIANTS
  VerdictsTypeOK
  FoldIsPublished
  OneVerdictPerRequest
PROPERTIES
  ImplementsOneTimeVerdict
CHECK_DEADLOCK FALSE
