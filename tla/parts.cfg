\* The ring holds two states of 3 frames each and three are captured; the
\* battery is looked at every 4 ticks; time runs past two stalls of 4 frames;
\* two runActions of the renderer overlap.
SPECIFICATION PartsSpec
CONSTANTS
  CaptureInterval = 3
  RewindLimit = 2
  SaveInterval = 4
  AudioRead = 2
  AudioBuffer = 4
  MaxFrames = 11
  Frame = 2
  CatchUp = 4
  Early = 1
  MaxRuns = 2
  MaxTime = 20
  Commands = {"rewind"}
  MaxActions = 2
  MaxCalls = 3
  MaxGestures = 5
INVARIANTS
  PartsTypeOK RingIsHistory SpeedLeavesNoTrace
  NeverAhead BurstBounded NoDrift NoStuckCommand PausedIsPaused
PROPERTIES
  RewindGoesBack ThreadsAreAsAssumed
CHECK_DEADLOCK FALSE
