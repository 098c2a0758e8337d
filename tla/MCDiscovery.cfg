SPECIFICATION DiscoveryPartsSpec
CONSTANTS
  None = None
  Accounts = {a1, a2}
  Rooms = {1}
  Members <- MC_Places
  Routes = {k1}
  Publishers = {b1}
  Contents <- MC_Contents
  MarkerEvents <- MC_Events
  Answers <- MC_Answers
  MAX_ACCOUNTS = 1
  MAX_MARKERS = 1
  FRESHNESS = 1
  MaxGeneration = 2
  MaxTime = 2
  BATCH = 1
  CONCURRENCY = 1
  MAX_ROOMS = 2
  LIFE = 1
  POSITIVE = 1
  NEGATIVE = 2
  FAILURE = 1
  Nonces = {n1, n2}
  MaxSwitches = 1
  MaxLeaves = 2
  MaxRestarts = 1
INVARIANTS
  StaleNeverApplied
  RefreshIsPrompt
  RoutesAreEvidenced
