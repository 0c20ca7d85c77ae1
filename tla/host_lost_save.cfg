\* A second game of the same core is launched while a session plays.
CONSTANTS
  sameboy = sameboy
  mgba = mgba
  red = red
  blue = blue
  emerald = emerald
  Calls = {1, 2, 3}
  Controllers = {0, 1, 2, 3}
  Cores = {sameboy, mgba}
  MgbaCores = {mgba}
  MaxBattery = 2
  Games = {red, blue, emerald}
  CoreOf <- ThreeGames
  Callers <- OnlyRelaunching
  MaxWrites = 4
  MaxClock = 1
SPECIFICATION Spec
CHECK_DEADLOCK FALSE
INVARIANTS
  FinalSaveIsOnDisk
