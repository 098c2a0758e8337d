SPECIFICATION MC_LiveSpec
CONSTANTS
  None = None
  Accounts = {a1}
  Rooms = {1, 2}
  Members <- MC_Places
  Routes = {}
  Publishers = {b1}
  Contents = {}
  MarkerEvents = {}
  Answers <- MC_Plain
  MAX_ACCOUNTS = 1
  MAX_MARKERS = 1
  FRESHNESS = 1
  MaxGeneration = 1
  MaxTime = 0
  BATCH = 1
  CONCURRENCY = 1
  MAX_ROOMS = 2
  LIFE = 1
  POSITIVE = 1
  NEGATIVE = 1
  FAILURE = 1
  Nonces = {n1, n2}
  MaxSwitches = 0
  MaxLeaves = 0
  MaxRestarts = 0
PROPERTY EveryRoomIsAsked
INVARIANT OutstandingBounded
