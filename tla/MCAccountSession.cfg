SPECIFICATION MC_Spec
CONSTANTS
  Users = {a1, a2}
  None = None
  MaxTasks = 2
  MaxRequests = 1
  MaxPosted = 1
  Wishes <- MC_Anytime
  Faults <- MC_Everything
INVARIANTS
  BackgroundIsQuiet
  SwitchedIsWhole
  DroppedOnlyInHandover
PROPERTIES
  SwitchResolves
  FirstExpiryAwaitsLogin
CHECK_DEADLOCK FALSE
