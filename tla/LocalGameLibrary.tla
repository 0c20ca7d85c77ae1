---------------------------- MODULE LocalGameLibrary ----------------------------
(***************************************************************************)
(* The clients of the two JSON files of the desktop host.  library.json is *)
(* the LocalGameLibrary (packages/library): every operation reads the list *)
(* of games, and writes all of it back with its change, without keeping    *)
(* others out in between.  preferences.json has a key for each preference. *)
(*                                                                         *)
(* A call of `add` is the game it registers; the list of games is the set  *)
(* of the calls whose change it contains.                                  *)
(***************************************************************************)
EXTENDS JsonFileStorage

CONSTANTS Sources,     \* the ROM files a game may be registered for
          Preferences, \* the keys of preferences.json
          MaxCrashes   \* bound: crashes in a behaviour

LocalGames == "local-games"
NoCall     == 0
NoSource   == "no source"

LibraryAssumption ==
  /\ JsonKeys = Preferences \union {LocalGames} /\ LocalGames \notin Preferences
  /\ NoCall \notin Calls

VARIABLES document,     \* which of the two files this is
          source,       \* the ROM file an add is about
          game,         \* the game an update is about
          phase,        \* where each call is: idle, listing, storing, ok, error, lost
          knew,         \* history: the calls that had succeeded when it began
          takenBack,    \* history: the calls whose change was in the list and is not
          crashes

libraryVars == <<storageVars, document, source, game, phase, knew, takenBack, crashes>>

LibraryInit ==
  /\ StorageInit
  /\ document \in {"library.json", "preferences.json"}
  /\ source = [c \in Calls |-> NoSource]
  /\ game = [c \in Calls |-> NoCall]
  /\ phase = [c \in Calls |-> "idle"]
  /\ knew = [c \in Calls |-> {}] /\ takenBack = {}
  /\ crashes = 0

Adds == {c \in Calls : source[c] # NoSource}

(* Calls are made in the order of their numbers. *)
Begin(c) ==
  /\ phase[c] = "idle"
  /\ \A d \in Calls : d < c => phase[d] # "idle"
  /\ knew' = [knew EXCEPT ![c] = {d \in Calls : phase[d] = "ok"}]
  /\ UNCHANGED <<document, takenBack, crashes>>

To(c, p) == phase' = [phase EXCEPT ![c] = p]

(* add(input): by an import of a ROM file, or for one that was found in    *)
(* the ROM directory.                                                      *)
Add(c, s) ==
  /\ document = "library.json"
  /\ Begin(c)
  /\ source' = [source EXCEPT ![c] = s]
  /\ To(c, "listing")
  /\ UNCHANGED <<storageVars, game>>

(* setFavorite, markPlayed, addPlaytime, setArtwork, setConfiguration, for *)
(* a game the caller was given.                                            *)
Update(c, g) ==
  /\ document = "library.json"
  /\ g \in stored
  /\ Begin(c)
  /\ game' = [game EXCEPT ![c] = g]
  /\ To(c, "listing")
  /\ UNCHANGED <<storageVars, source>>

(* write and remove of a preference. *)
SetPreference(c, k, v) ==
  /\ document = "preferences.json"
  /\ Begin(c)
  /\ Mutate(c, k, v)
  /\ To(c, "storing")
  /\ UNCHANGED <<source, game>>

(* Mutant: duplicates are not looked for. *)
RefusedIfUnknown(c, games) == c \notin Adds /\ game[c] \notin games

(* The list has a game of that ROM file already, or no longer the game. *)
Refused(c, games) ==
  \/ c \in Adds /\ \E d \in games \intersect Adds : source[d] = source[c]
  \/ c \notin Adds /\ game[c] \notin games

(* list() was answered: the operation is refused, or the list written back *)
(* with its change.                                                        *)
Listed(c) ==
  /\ phase[c] = "listing"
  /\ LET games == json[LocalGames] IN
     \/ /\ ~Refused(c, games)
        /\ Mutate(c, LocalGames, games \union {c})
        /\ To(c, "storing")
     \/ /\ Refused(c, games)
        /\ To(c, "error")
        /\ UNCHANGED storageVars
  /\ UNCHANGED <<document, source, game, knew, takenBack, crashes>>

(* list() failed. *)
NotListed(c) ==
  /\ phase[c] = "listing"
  /\ To(c, "error")
  /\ UNCHANGED <<storageVars, document, source, game, knew, takenBack, crashes>>

(* Mutant: the caller hears of a change when its document is written. *)
AnsweredEarly(c) ==
  /\ phase[c] = "storing"
  /\ reached[c] \in {"written", "ok", "error"}
  /\ To(c, IF reached[c] = "error" THEN "error" ELSE "ok")
  /\ UNCHANGED <<storageVars, document, source, game, knew, takenBack, crashes>>

(* The result of the mutation is the result of the call. *)
Answered(c) ==
  /\ phase[c] = "storing"
  /\ reached[c] \in {"ok", "error"}
  /\ To(c, reached[c])
  /\ UNCHANGED <<storageVars, document, source, game, knew, takenBack, crashes>>

Work(c) ==
  /\ StorageStep(c)
  /\ takenBack' = takenBack \union (json[LocalGames] \ json'[LocalGames])
  /\ UNCHANGED <<document, source, game, phase, knew, crashes>>

(* The process ends at any moment, and is started again. *)
LibraryCrash ==
  /\ crashes < MaxCrashes
  /\ crashes' = crashes + 1
  /\ StorageCrash
  /\ phase' = [c \in Calls |->
       IF phase[c] \in {"listing", "storing"} THEN "lost" ELSE phase[c]]
  /\ UNCHANGED <<document, source, game, knew, takenBack>>

LibraryNext ==
  \/ \E c \in Calls :
       \/ \E s \in Sources : Add(c, s)
       \/ \E g \in Adds : Update(c, g)
       \/ \E k \in Preferences, v \in {{c}, Absent} : SetPreference(c, k, v)
       \/ Listed(c) \/ NotListed(c) \/ Answered(c) \/ Work(c)
  \/ LibraryCrash

Continue(c) == Listed(c) \/ Answered(c) \/ Work(c)

LibrarySpec == LibraryInit /\ [][LibraryNext]_libraryVars
-----------------------------------------------------------------------------
(* Whatever is lost, the list stays consistent.  A ROM file is never in it *)
(* twice, although imports and the scan of the ROM directory overlap and   *)
(* `add` checks a list that may be old when it writes: the later list      *)
(* replaces the earlier one whole.  And no list holds the playtime,        *)
(* favorite or artwork of a game that it does not hold.                    *)
ListIsConsistent ==
  \A c \in json[LocalGames] :
    \/ /\ c \in Adds
       /\ \A d \in json[LocalGames] : source[d] = source[c] => d = c
    \/ c \notin Adds /\ game[c] \in json[LocalGames]

(* What a caller is told is true: a call that succeeded was on disk, and   *)
(* one that failed never was, whichever file operation failed.             *)
OutcomeIsTrue ==
  \A c \in Calls : /\ phase[c] = "ok" => c \in stored
                   /\ phase[c] = "error" => c \notin stored

(* Calls in sequence are safe: an operation that began after another had   *)
(* succeeded is never the one that takes its change back; only operations  *)
(* that overlap lose changes (list, then write, in every method of         *)
(* LocalGameLibrary).  A change that was lost and that a stale list has    *)
(* brought back is another matter.                                         *)
SequenceLosesNothing ==
  [][\A c, d \in Calls :
       /\ c \in json[LocalGames] /\ c \notin json'[LocalGames]
       /\ d \in stored' \ stored
       => c \notin knew[d] \/ c \in takenBack]_libraryVars

(* What the library acknowledged stays: a game that was added, or time     *)
(* that was added to its cumulative playtime, is in the list from then on. *)
AcknowledgedStays ==
  document = "library.json" =>
    \A c \in Calls : phase[c] = "ok" => c \in json[LocalGames]
=============================================================================
