\* A library game; the playtime interval may tick while a stop runs.
CONSTANTS
  sameboy = sameboy
  mgba = mgba
  red = red
  blue = blue
  emerald = emerald
  Calls = {1, 2, 3}
  Controllers = {0, 1, 2, 3}
  Cores = {sameboy, mgba}
  MgbaCores = {mgba}
  MaxBattery = 2
  Games = {red, blue, emerald}
  CoreOf <- ThreeGames
  Callers <- OnlyCounting
  MaxWrites = 4
  MaxClock = 1
SPECIFICATION Spec
CHECK_DEADLOCK FALSE
INVARIANTS
  PlaytimeWithinClock
