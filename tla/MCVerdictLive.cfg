SPECIFICATION MC_LiveSpec
CONSTANTS
  Accounts = {a1}
  Rooms = {r1}
  Requests = {q1}
  Digests = {d1}
  Origins = {o1}
  Events = {e1}
  None = None
  Messages <- MC_Path
  Members <- MC_Members
  MAX_ACCOUNTS = 2
  MAX_APPROVALS = 2
  MaxRevision = 3
  MaxTime = 1
  MaxEpoch = 10
  MaxSends = 2
  MaxSwitches = 0
  MaxLeaves = 0
PROPERTIES
  FoldCatchesUp
  ClaimIsResolved
CHECK_DEADLOCK FALSE
