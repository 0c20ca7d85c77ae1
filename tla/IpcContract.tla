------------------------------- MODULE IpcContract -------------------------------
(***************************************************************************)
(* The contract of the IPC between main and the window: what main answers  *)
(* on a channel from what it holds (the handlers of main.ts over the       *)
(* library, the preferences, the plugins, the ROM selections, the updates  *)
(* and the session host), and what the preload script lets through         *)
(* (ipc.ts).  library.json is the interesting one: main parses whatever an *)
(* older version or another program has left there, and what it makes of   *)
(* it has to pass the check at the other end.                              *)
(*                                                                         *)
(* A text is a text or Malformed, an optional value a set of at most one,  *)
(* and a value of the wrong type where main falls back to a default is     *)
(* one that is absent.                                                     *)
(***************************************************************************)
EXTENDS PluginContracts

CONSTANTS EntryChoices, \* what library.json may hold in a field of a game
          Percents,     \* what autoUpdater reports of a download
          MaxSlips,     \* bound: edits of library.json by others
          MaxExchanges  \* bound: changes of what main holds

(* The mappings of the official consoles are as long as the window asks,   *)
(* their words match the patterns, and autoUpdater reports whole percents. *)
ASSUME IpcAssumption ==
  /\ ShortMapping = 2 /\ Cardinality(NormalizedActions) = 3
  /\ {"primary", "secondary", "left-shoulder"} \subseteq NormalizedActions
  /\ {"a", "b", "l", "player-one"} \subseteq Words
  /\ Percents \subseteq Int

VARIABLES saved,        \* the game in library.json
          artworkFile,  \* is the file of its artwork there?
          locale,       \* the locale of the stored preferences, if any
          selected,     \* the ROM selections that main has registered
          updateState,  \* the state of the updates
          told,         \* the game as the window knows it, if it does
          failed,       \* history: an answer of main was refused by the window
          steady,       \* history: has nothing else changed since it was told?
          slips, exchanges

heldVars == <<saved, artworkFile, locale, selected, updateState>>
ipcVars  == <<heldVars, told, failed, steady, slips, exchanges>>

RomExtension == {".gb", ".gbc", ".gba"}
Catalogs == <<ReferenceGameCatalog, GameBoyAdvanceExampleCatalog>>
PluginConsoles == <<GameBoyAdvanceConsole, GameBoyFamilyConsole>>
Cores == <<MgbaEmulator, SameBoyEmulator>>

Status(status) == [status |-> status]
Error(message) == [status |-> "error", message |-> message]
-----------------------------------------------------------------------------
(* Mutant: the playtime is taken as it is. *)
ParsesLoosely(e) ==
  /\ Malformed \notin e.texts \union e.artworkKey \union e.lastPlayedAt
  /\ e.extension \in RomExtension

(* gamesFromJson: one entry that is not a game makes the library invalid;  *)
(* what is optional and cannot be read is what it is by default.           *)
Parses(e) ==
  /\ Malformed \notin e.texts \union e.artworkKey \union e.lastPlayedAt
  /\ e.extension \in RomExtension /\ \A p \in e.playtime : p >= 0

Or(opt, default) == IF opt = {} THEN default ELSE CHOOSE v \in opt : TRUE

GameFromJson(e) ==
  [e EXCEPT !.favorite = {Or(@, FALSE)}, !.autosave = {Or(@, FALSE)},
            !.playtime = {Or(@, 0)}, !.identifiers = {Or(@, <<>>)}]

(* What add registers of a game. *)
NewEntry ==
  [texts |-> {"text"}, extension |-> ".gb", favorite |-> {FALSE}, autosave |-> {FALSE},
   playtime |-> {0}, identifiers |-> {<<>>}, artworkKey |-> {}, lastPlayedAt |-> {}]

(* LocalGameLibrary.list, and update, which writes back what it has read.  *)
Listed == IF Parses(saved) THEN {GameFromJson(saved)} ELSE {}

(* toLibraryGame: the artwork, if its key is a mere name and its file can  *)
(* be read, and the metadata in the locale of the preferences.             *)
ToLibraryGame(g, l, file) ==
  [texts |-> g.texts, extension |-> g.extension, favorite |-> g.favorite,
   lastPlayedAt |-> g.lastPlayedAt, playtime |-> g.playtime,
   artworkDataUrl |-> IF g.artworkKey \subseteq {"cover.png"} /\ g.artworkKey # {} /\ file
                      THEN {"data:image/png"} ELSE {},
   metadata |-> ResolveGameMetadata(Catalogs, Or(g.identifiers, <<>>), Or(l, "en-US"))]

(* isLibraryGame *)
IsLibraryGame(g) ==
  /\ Malformed \notin g.texts \union g.lastPlayedAt /\ g.extension \in RomExtension
  /\ \A p \in g.playtime : p >= 0
  /\ g.artworkDataUrl \subseteq {"data:image/png", "data:image/webp", "data:image/jpeg"}
  /\ \A m \in g.metadata : IsResolvedGameMetadata(m)
-----------------------------------------------------------------------------
(* The answers to the calls that are about a game of the library.          *)
LibraryAnswers ==
  {Error("unreadable")}
  \union IF Listed = {} THEN {Error("invalid")}
         ELSE {[status |-> "ready", games |-> {ToLibraryGame(g, l, artworkFile) : g \in Listed}] : l \in {locale, {}}}

(* importGame: the game is as add registers it, with the identifiers of    *)
(* its ROM.                                                                *)
IdentifiersForRom(extension, header) ==
  IF extension = ".gba" THEN AdvanceIdentifiers(header) ELSE FamilyIdentifiers(header)

ImportedGame(extension, header) ==
  [GameFromJson(NewEntry) EXCEPT
     !.extension = extension, !.identifiers = {IdentifiersForRom(extension, header)}]

ImportAnswers ==
  {Status("cancelled"), Error("uncopied")}
  \union UNION {{[status |-> "imported", game |-> ToLibraryGame(ImportedGame(x, h), locale, FALSE)] :
                  x \in {".gb", ".gba"}} : h \in IF Listed = {} THEN {} ELSE Headers}

(* readAsset, resolveConsoleAssets and listConsolePlugins: a console with  *)
(* an asset that cannot be read is left out.                               *)
ConsoleEntry(c) ==
  LET a == CHOOSE assets \in c.console.assets : TRUE
  IN [id |-> c.console.id, name |-> "name", generationKey |-> Or(c.console.generationKey, "generationHandheld"),
      heroUrl |-> IF IsAsset(a.consoleHero) THEN "data:image/svg+xml" ELSE Malformed,
      extensions |-> ToSet(c.console.supportedRomExtensions)]

ConsoleAnswers ==
  {[status |-> "plugins", plugins |-> [i \in readable |-> ConsoleEntry(PluginConsoles[i])]] :
     readable \in SUBSET DOMAIN PluginConsoles}

IsConsoleEntry(p) ==
  Malformed \notin {p.id, p.name, p.generationKey, p.heroUrl} /\ Malformed \notin p.extensions

(* Of an unknown console main answers nothing: the handler throws.         *)
InputConfigurations ==
  {[status |-> "mapping", mapping |-> PluginConsoles[i].console.inputMapping] : i \in DOMAIN PluginConsoles}

EmulatorForConsole(c) ==
  LET cores(x) == EmulatorFor(Cores, c.id, c.supportedRomExtensions[x])
  IN UNION {cores(x) : x \in Earliest({x \in DOMAIN c.supportedRomExtensions : cores(x) # {}})}

Capabilities ==
  {[status |-> "capabilities", core |-> Cores[e]] :
     e \in UNION {EmulatorForConsole(PluginConsoles[i].console) : i \in DOMAIN PluginConsoles}}

(* createRomSelectionStore and loadSelectedRom: a file of another kind is  *)
(* not registered; it may be gone, empty or too large by the time it is    *)
(* read.                                                                   *)
Selection(extension) == [extension |-> extension, id |-> "selection", name |-> "name"]

SelectAnswers ==
  {Status("cancelled")} \union {[status |-> "selected", rom |-> Selection(x)] : x \in RomExtension}

SessionError(code) == [status |-> "error", message |-> "message", code |-> code]
LoadAnswers ==
  {SessionError("unavailable"), SessionError("invalid-rom")}
  \union {[status |-> "loaded", rom |-> s] : s \in selected}

(* The session host: execute keeps two keys of a result or three of an     *)
(* error, and captureSaveState hands on the error of the core.             *)
SessionStatus == {"failed", "idle", "paused", "running", "starting", "stopped", "stopping"}
SessionCodes  == {"invalid-rom", "invalid-state", "unavailable", "unexpected"}
SaveSlots     == {"autosave", "slot-1", "slot-2", "slot-3"}

SessionAnswers ==
  {[status |-> "ok", sessionStatus |-> s] : s \in SessionStatus} \union {SessionError(c) : c \in SessionCodes}

StartAnswers == SessionAnswers \union {[status |-> "autosave-available", updatedAt |-> "time"]}

StateListAnswers ==
  {SessionError("invalid-state"), SessionError("unexpected")}
  \union {[status |-> "ok", slots |-> slots] : slots \in SUBSET SaveSlots}

PreferenceAnswers == {Error("unreadable"), [status |-> "ready", locale |-> locale]}
-----------------------------------------------------------------------------
(* What main answers on each channel.                                      *)
Answers(channel) ==
  CASE channel = "importGame"         -> ImportAnswers
    [] channel = "listConsolePlugins" -> ConsoleAnswers
    [] channel = "getInputConfiguration" -> InputConfigurations
    [] channel = "getEmulatorCapabilities" -> Capabilities
    [] channel = "loadRom"            -> LoadAnswers
    [] channel = "session"            -> SessionAnswers
    [] channel = "startLibraryGame"   -> StartAnswers
    [] channel = "listSaveStates"     -> StateListAnswers
    [] channel = "getGlobalPreferences" -> PreferenceAnswers
    [] channel = "getUpdateState"     -> {updateState}

Channels == {"importGame", "listConsolePlugins", "getInputConfiguration",
             "getEmulatorCapabilities", "loadRom", "session", "startLibraryGame",
             "listSaveStates", "getGlobalPreferences", "getUpdateState"}

(* What the preload script accepts on each channel (createPixelCoreApi).   *)
IsUpdateState(u) ==
  CASE u.status \in {"available", "downloaded"} -> u.version # Malformed
    [] u.status = "downloading" -> u.version # Malformed /\ u.percent \in 0..100
    [] OTHER -> u.status \in {"idle", "checking", "not-available", "unsupported", "error"}

IsSelectedRom(rom) == rom.extension \in RomExtension

IsSessionCommandResponse(a) ==
  IF a.status = "error" THEN a.code \in SessionCodes
  ELSE a.status = "ok" /\ a.sessionStatus # Malformed

IsSaveStateListResponse(a) ==
  IF a.status = "error" THEN a.code \in SessionCodes \ {"invalid-rom"}
  ELSE a.status = "ok" /\ a.slots \subseteq SaveSlots

HasUniqueIds(plugins) == IsInjective([i \in DOMAIN plugins |-> plugins[i].id])

Understands(channel, a) ==
  CASE channel = "getUpdateState" -> IsUpdateState(a)
    [] channel = "session" -> IsSessionCommandResponse(a)
    [] channel = "startLibraryGame" -> a.status = "autosave-available" \/ IsSessionCommandResponse(a)
    [] channel = "listSaveStates" -> IsSaveStateListResponse(a)
    [] channel = "loadRom" -> IF a.status = "error" THEN a.code \in {"invalid-rom", "unavailable"}
                              ELSE IsSelectedRom(a.rom)
    [] channel = "getEmulatorCapabilities" -> a.core.typedCapabilities
    [] channel = "getInputConfiguration" -> WindowAcceptsMapping(a.mapping)
    [] channel = "listConsolePlugins" ->
         HasUniqueIds(a.plugins) /\ \A i \in DOMAIN a.plugins : IsConsoleEntry(a.plugins[i])
    [] channel = "selectRom" -> a.status = "selected" => IsSelectedRom(a.rom)
    [] channel = "getGlobalPreferences" -> a.status = "ready" => a.locale \subseteq LocaleTags
    [] channel = "listLibrary" -> a.status = "ready" => \A g \in a.games : IsLibraryGame(g)
    [] OTHER -> a.status \in {"updated", "imported"} => IsLibraryGame(a.game)
-----------------------------------------------------------------------------
UpdateStates ==
  {Status(s) : s \in {"checking", "not-available", "error"}}
  \union {[status |-> s, version |-> "2.0"] : s \in {"available", "downloaded"}}

(* download-progress: the share is clamped.                                *)
ClampPercent(percent) == IF percent < 0 THEN 0 ELSE IF percent > 100 THEN 100 ELSE percent

Downloading(percent) == [status |-> "downloading", version |-> "2.0", percent |-> ClampPercent(percent)]

IpcTypeOK ==
  /\ DOMAIN saved = DOMAIN NewEntry /\ artworkFile \in BOOLEAN /\ locale \in Opt(LocaleTags)
  /\ selected \subseteq {Selection(x) : x \in RomExtension}
  /\ Cardinality(told) <= 1 /\ failed \in BOOLEAN /\ steady \in BOOLEAN
  /\ slips \in 0..MaxSlips /\ exchanges \in 0..MaxExchanges

IpcInit ==
  /\ saved = NewEntry /\ artworkFile = FALSE /\ locale = {} /\ selected = {}
  /\ updateState \in {Status("idle"), Status("unsupported")}
  /\ told = {} /\ failed = FALSE /\ steady = FALSE /\ slips = 0 /\ exchanges = 0

Changed == exchanges < MaxExchanges /\ exchanges' = exchanges + 1

(* The window asks, main answers from what it holds, and the preload       *)
(* script takes the answer or rejects the call: what it asks of an answer  *)
(* does not depend on what main holds by then.                             *)
Receive(channel, answer) == failed' = (failed \/ ~Understands(channel, answer))

ListLibrary ==
  /\ \E a \in LibraryAnswers :
       /\ Receive("listLibrary", a)
       /\ told' = IF failed' \/ a.status = "error" THEN told ELSE a.games
       /\ steady' = (told' # {} /\ told' = {ToLibraryGame(g, locale, artworkFile) : g \in Listed})
  /\ UNCHANGED <<heldVars, slips, exchanges>>

SelectRom ==
  /\ Changed
  /\ \E a \in SelectAnswers :
       /\ Receive("selectRom", a)
       /\ selected' = IF a.status = "selected" THEN {a.rom} ELSE selected
  /\ UNCHANGED <<saved, artworkFile, locale, updateState, told, steady, slips>>

Ask(channel) ==
  /\ \E a \in Answers(channel) : Receive(channel, a)
  /\ UNCHANGED <<heldVars, told, steady, slips, exchanges>>

(* updateFavorite and selectGameArtwork: the library is read, and written  *)
(* back with the change, or either fails.  The artwork is copied first.    *)
Mutation(changed, file) ==
  /\ told # {} /\ Changed
  /\ \/ \E l \in {locale, {}} : \E g \in changed :
          LET answer == [status |-> "updated", game |-> ToLibraryGame(g, l, file)]
          IN /\ saved' = g /\ artworkFile' = file
             /\ Receive("updateFavorite", answer)
             /\ told' = IF failed' THEN told ELSE {answer.game}
             /\ steady' = (steady /\ file = artworkFile /\ l = locale)
     \/ /\ Receive("updateFavorite", Error("unstored"))
        /\ artworkFile' \in {artworkFile, file} /\ steady' = (steady /\ artworkFile' = artworkFile)
        /\ UNCHANGED <<saved, told>>
  /\ UNCHANGED <<locale, selected, updateState, slips>>

SetFavorite(favorite) ==
  Mutation({[g EXCEPT !.favorite = {favorite}] : g \in Listed}, artworkFile)

SetArtwork ==
  Mutation({[g EXCEPT !.artworkKey = {"cover.png"}] : g \in Listed}, TRUE)

(* saveGlobalPreferences; another locale is other metadata.                *)
SaveLocale(l) ==
  /\ Changed /\ locale' = {l} /\ steady' = FALSE
  /\ UNCHANGED <<saved, artworkFile, selected, updateState, told, failed, slips>>

(* autoUpdater reports, and main sends the new state to the window, which  *)
(* drops what it does not understand.                                      *)
UpdateReported ==
  /\ Changed /\ updateState # Status("unsupported")
  /\ updateState' \in UpdateStates \union {Downloading(p) : p \in Percents}
  /\ failed' = (failed \/ ~IsUpdateState(updateState'))
  /\ UNCHANGED <<saved, artworkFile, locale, selected, told, steady, slips>>

(* A session counts its playtime while the window is elsewhere.            *)
CountPlaytime ==
  /\ Changed /\ Listed # {} /\ steady' = FALSE
  /\ LET g == GameFromJson(saved) IN saved' = [g EXCEPT !.playtime = {Or(@, 0) + 1}, !.lastPlayedAt = {"time"}]
  /\ UNCHANGED <<artworkFile, locale, selected, updateState, told, failed, slips>>

(* Another program, or an older version of this one, leaves something else *)
(* in a field of the game in library.json, or removes the artwork.         *)
Slip ==
  /\ slips < MaxSlips /\ slips' = slips + 1 /\ steady' = FALSE
  /\ \/ saved' \in Edits(saved, EntryChoices) /\ UNCHANGED artworkFile
     \/ artworkFile' = FALSE /\ UNCHANGED saved
  /\ UNCHANGED <<locale, selected, updateState, told, failed, exchanges>>

IpcNext ==
  \/ ListLibrary \/ SelectRom \/ \E channel \in Channels : Ask(channel)
  \/ \E favorite \in BOOLEAN : SetFavorite(favorite)
  \/ SetArtwork
  \/ \E l \in LocaleTags : SaveLocale(l)
  \/ UpdateReported \/ CountPlaytime \/ Slip

IpcSpec == IpcInit /\ [][IpcNext]_ipcVars
-----------------------------------------------------------------------------
(* Whatever library.json and the preferences hold, every answer and every  *)
(* event that main makes of it passes the check of the window (ADR 0013);  *)
(* and what the window was told of a game is what a new listing would tell *)
(* it, as long as nothing but its own calls has changed the game: a change *)
(* of one field, which writes all of them back, keeps the others.          *)
AnswersAreUnderstood ==
  /\ ~failed
  /\ steady => told = {ToLibraryGame(g, locale, artworkFile) : g \in Listed}
=============================================================================
