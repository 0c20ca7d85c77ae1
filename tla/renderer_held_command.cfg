SPECIFICATION RendererSpec
CONSTANTS
  Commands = {"rewind"}
  MaxActions = 1
  MaxCalls = 4
  MaxGestures = 2
PROPERTY
  HeldUntilReleased
CHECK_DEADLOCK FALSE
