\* Two quits, installs, sessions and one release; an import and a listing of a
\* folder with one found file; two launches of games of two consoles;
\* two changes of the input profile, on a keyboard and a pad, and a library opened; two
\* changes of the preferences and a window opened anew; four steps over a library
\* of two games with two calls under way; two edits of a plugin;
\* an edit of library.json and two changes of what main holds.
SPECIFICATION DeskSpec
CONSTANTS
  MaxQuits = 2
  MaxSessions = 2
  MaxInstalls = 2
  MaxVersion = 1
  Imports = {1}
  Listings = {3}
  FoundRoms = {5}
  MaxRestarts = 1
  Launches = {1, 2}
  Games = {"red", "ruby"}
  Consoles = {"family", "advance"}
  ConsoleOf <- ConsoleOfGame
  MaxSaves = 1
  Pads = {"pad"}
  Inputs = {0, 1, 9}
  Reserved = 9
  Accept = 0
  Cancel = 1
  Systems = {"family", "advance"}
  EntriesOf <- ConsoleEntries
  CommandsOf <- ConsoleCommands
  DefaultOf <- DefaultInput
  MaxChanges = 2
  MaxLoads = 1
  Locales <- ThreeLocales
  MaxVolume = 2
  Default <- DefaultPreferences
  MaxEdits = 2
  MaxReopens = 1
  Titles = {"red", "blue", "gold"}
  Shelf <- ShelfOfTwo
  WithAutosave = {"blue"}
  Awaits = {1, 2}
  MaxMoves = 4
  PluginIds = {"org.family", "org.advance", "org.reference-catalog", "org.advance-catalog", "org.sameboy",
               "org.mgba", "org.8pad", "org.my--pad"}
  WideIds = {"org.8pad", "org.my--pad"}
  ScaffoldIds = {"org.family", "org.8pad", "org.my--pad", "8"}
  Words = {"playback", "a", "b", "l", "primary", "secondary", "left-shoulder",
           "player-one", "player-two", "orbit", "orbit-advance", "select", "localized-game-metadata"}
  LocaleTags = {"en-US", "pt-BR", "zh-CN"}
  Resources <- ResourcesOf
  SupportedApi = {1}
  MaxPlayers = 2
  NormalizedActions = {"primary", "secondary", "left-shoulder"}
  ShortMapping = 2
  Slots = {"left-01", "right-05", "right-07"}
  MaxButton = 3
  MaxAxis = 2
  ManifestChoices <- ManifestFields
  DefinitionChoices <- DefinitionFields
  Grants <- SomeGrants
  Headers <- RomHeaders
  MaxDraftEdits = 2
  EntryChoices <- SavedFields
  Percents = {0, 50, 250}
  MaxSlips = 1
  MaxExchanges = 2
INVARIANTS
  DeskTypeOK OneRequestLosesNothing GamesAreWhole InputIsForTheSession ProfileIsKept
  PreferencesAreKept ShownIsHeld
  AcceptedStands AnswersAreUnderstood
PROPERTIES
  QuitEndsTheProgram PlaysWhatIsDetailed
CHECK_DEADLOCK FALSE
