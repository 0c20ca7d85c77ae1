\* Two requests are enough: the second meets the flush of the first.
SPECIFICATION ShellSpec
CONSTANTS
  MaxQuits = 2
  MaxSessions = 1
  MaxInstalls = 1
  MaxVersion = 1
INVARIANTS
  ShutdownAwaitsFlush
CHECK_DEADLOCK FALSE
