SPECIFICATION RoomsPartsSpec
CONSTANTS
  Rooms = {r1, s1}
  Spaces = {s1}
  States = {"Left", "Invited", "Joined"}
  Tags = {"favorite"}
  MaxChanges = 3
  MaxDiffs = 2
  MaxLeaves = 1
  MaxCreated = 1
  MaxFilters = 1
INVARIANTS
  
  DetailsServeTheList
CHECK_DEADLOCK FALSE
