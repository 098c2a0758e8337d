SPECIFICATION FairParts
CONSTANTS
  None = None
  Accounts = {a1, a2}
  Rooms = {r1, r2}
  Routes = {k1}
  Publishers = {b1, b2}
  Contents <- MC_Contents
  MarkerEvents <- MC_Events
  MAX_ACCOUNTS = 1
  MAX_MARKERS = 1
  FRESHNESS = 1
  MaxGeneration = 2
  MaxTime = 2
  MaxTasks = 1
  MaxLogouts = 2
  MaxFlows = 2
  MaxClicks = 2
  Users = {a1}
  Nowhere = Nowhere
  Owners = {a1, a2}
  Nobody = Nobody
  MaxSessions = 2
  MaxCrashes = 1
  Events = {e1, e2}
  Target = e1
  Divider = Divider
  MaxLength = 3
  MaxDiffs = 3
  MaxUpdates = 2
  MaxPages = 3
INVARIANTS
  ConfirmedIsCurrent
  PartsTypeOK
  LoginScreenIsClean
  FailedLogoutKeepsSession
  DrawnIsCurrent
  FoundIsThere
  SearchIsNotInVain
  
PROPERTIES
  NoRollback
  LogoutEnds
  CancelHandleIsKept
  WaitingEnds
CHECK_DEADLOCK FALSE
