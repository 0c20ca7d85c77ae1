\* Two imports that overlap: an operation that was acknowledged is taken back by
\* the list another operation had read before.
SPECIFICATION LibrarySpec
CONSTANTS
  Calls = {1, 2, 3}
  Sources = {"red.gb", "blue.gb"}
  Preferences = {"locale"}
  JsonKeys = {"local-games", "locale"}
  MaxCrashes = 0
INVARIANT AcknowledgedStays
CHECK_DEADLOCK FALSE
