SPECIFICATION AppStateSpec
CONSTANTS
  Owners = {a1, a2}
  Nobody = Nobody
  MaxSessions = 2
  MaxCrashes = 0
INVARIANT AccountsStayApart
CHECK_DEADLOCK FALSE
