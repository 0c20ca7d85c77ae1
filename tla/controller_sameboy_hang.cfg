\* SameBoy alone, three calls one after the other: do they all return?
CONSTANTS
  Calls = {1, 2, 3}
  Cores = {sameboy}
  MgbaCores = {}
  MaxBattery = 2
  Controllers = {1}
  Overlap = "never"
SPECIFICATION FairSpec
CHECK_DEADLOCK FALSE
PROPERTIES
  EveryCallReturns
