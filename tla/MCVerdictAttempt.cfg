SPECIFICATION SpecVerdicts
CONSTANTS
  Accounts = {a1}
  Rooms = {r1}
  Requests = {q1}
  Digests = {d1}
  Origins = {o1}
  Events = {e1}
  None = None
  Messages <- MC_Ask
  Members <- MC_Members
  MAX_ACCOUNTS = 2
  MAX_APPROVALS = 2
  MaxRevision = 3
  MaxTime = 1
  MaxEpoch = 10
  MaxSends = 1
  MaxSwitches = 0
  MaxLeaves = 0
PROPERTY
  SendAttemptHoldsClaim
CHECK_DEADLOCK FALSE
