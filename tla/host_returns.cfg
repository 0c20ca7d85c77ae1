\* A game of mGBA with both intervals; every operation, one call after the other.
CONSTANTS
  sameboy = sameboy
  mgba = mgba
  red = red
  blue = blue
  emerald = emerald
  Calls = {1, 2, 3}
  Controllers = {0, 1, 2, 3}
  Cores = {sameboy, mgba}
  MgbaCores = {mgba}
  MaxBattery = 2
  Games = {red, blue, emerald}
  CoreOf <- ThreeGames
  Callers <- OnlyPatient
  MaxWrites = 4
  MaxClock = 1
SPECIFICATION FairSpec
CHECK_DEADLOCK FALSE
INVARIANTS
  TypeOK
PROPERTIES
  EveryHostCallReturns
