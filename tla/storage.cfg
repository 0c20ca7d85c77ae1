\* Cartridge saves: two ROMs, three saves; the third call of a key queues
\* behind a failed one.  Library: three calls, two of which may be about one
\* ROM file, or three of two preferences; one crash.  Save states: three calls
\* of a slot.
CONSTANTS
  Keys = {k1, k2}
  NoKey = NoKey
  MaxWrites = 3
  Calls = {1, 2, 3}
  Sources = {"red.gb", "blue.gb"}
  Preferences = {"locale", "profiles"}
  JsonKeys = {"local-games", "locale", "profiles"}
  MaxCrashes = 1
  Requests = {1, 2, 3}
  Slots = {autosave}
SPECIFICATION StoresSpec
INVARIANTS
  ListIsConsistent OutcomeIsTrue StatesNeverGoBack
PROPERTIES
  SaveNeverGoesBack ImplementsAtomicSaves FailureIsOwn
  SequenceLosesNothing
  EveryStorageCallReturns
CHECK_DEADLOCK FALSE
