\* Both cores, one controller, three calls that overlap, but for two stops.
CONSTANTS
  Calls = {1, 2, 3}
  Cores = {sameboy, mgba}
  MgbaCores = {mgba}
  MaxBattery = 2
  Controllers = {1}
  Overlap = "one stop"
SPECIFICATION FairSpec
CHECK_DEADLOCK FALSE
INVARIANTS
  NoOrphanThread
PROPERTIES
  ReleasedAfterEnd
  SaveBeforeRelease
  EveryCallReturnsOrIsAbandoned
