------------------------------- MODULE Navigation -------------------------------
(***************************************************************************)
(* The screens around a game, as the player walks through them by the pad, *)
(* the keys or the mouse: the carousel of the consoles with the global     *)
(* menu (console-carousel.tsx), the library of a console with its          *)
(* categories (console-library.tsx), the choice of an autosave, and what   *)
(* the renderer awaits meanwhile: importGame, launchGame, toggleFavorite   *)
(* and refreshLibrary.  Playing itself is RendererSession's.               *)
(***************************************************************************)
EXTENDS Naturals, Sequences, SequencesExt

CONSTANTS Titles,        \* games that are or may come into the library
          Shelf,       \* those of the console, in the order of the library
          WithAutosave,   \* the games with an autosave of the core
          Awaits,       \* launches, imports and favorites that may be asked for
          MaxMoves     \* bound: steps of the player that call nothing

VARIABLES library,     \* main's library: its games, favorites, last played first
          view,       \* the renderer's copy of it
          heldGame,     \* the game main's session holds, or "none"
          screen,      \* home or library
          menu,        \* is the global menu shown, and open by the ref?
          status,      \* the product's status
          selectedGame,\* selectedGameId
          place,       \* the library's category, cursors and detailed game
          choice,      \* the autosave choice on screen: its game and the option
          call,        \* each call: what it waits for
          announced,   \* history: the game whose detail was opened last
          moves, met,  \* history: has a call met another, a stop or a selection?
          faltered     \* history: has the launch or the stop of the held session failed?

sessionVars == <<heldGame, faltered>>
navVars == <<library, view, sessionVars, screen, menu, status, selectedGame, place, choice,
             call, announced, moves, met>>
viewVars == <<screen, menu, place, announced, moves>>

Categories == <<"library", "favorites", "recent", "settings">>
NoGame     == "none"
NoChoice   == [game |-> NoGame, option |-> "restore"]
Unasked    == [at |-> "unasked", game |-> NoGame, mode |-> "unset"]
FirstPlace == [category |-> 1, cursor |-> [c \in ToSet(Categories) |-> 1], detailed |-> NoGame]

(* The library is mounted, and so keeps its place, while it is on screen. *)
Mounted(s, st) == s = "library" /\ st \in {"ready", "error"}
Walking == status \in {"ready", "error"}

NavigationTypeOK ==
  /\ {library.games, view.games, library.recent, view.recent} \subseteq Seq(Titles)
  /\ library.favorites \subseteq Titles /\ view.favorites \subseteq Titles
  /\ {heldGame, selectedGame, place.detailed, choice.game, announced} \subseteq Titles \union {NoGame}
  /\ screen \in {"home", "library"} /\ menu \in [open : BOOLEAN, ref : BOOLEAN]
  /\ status \in {"ready", "error", "starting", "running"}
  /\ place.category \in DOMAIN Categories
  /\ DOMAIN call = Awaits /\ {met, faltered} \subseteq BOOLEAN

NavigationInit ==
  /\ library = [games |-> Shelf, favorites |-> ToSet(Shelf), recent |-> <<>>]
  /\ view = library /\ heldGame = NoGame
  /\ screen = "home" /\ menu = [open |-> FALSE, ref |-> FALSE]
  /\ status = "ready" /\ selectedGame = Shelf[1]
  /\ place = FirstPlace /\ choice = NoChoice
  /\ call = [c \in Awaits |-> Unasked]
  /\ announced = NoGame /\ moves = 0 /\ met = FALSE /\ faltered = FALSE

(* categoryGames, and the cursor within them. *)
Category  == Categories[place.category]
GamesIn(c) == CASE c = "library"   -> view.games
                [] c = "favorites" -> SelectSeq(view.games, LAMBDA g : g \in view.favorites)
                [] c = "recent"    -> view.recent
                [] OTHER           -> <<>>
GamesShown == GamesIn(Category)
Cursor  == IF place.cursor[Category] <= Len(GamesShown) THEN place.cursor[Category] ELSE Len(GamesShown)
(* What left and right, or a click, may choose: up to two games away.      *)
Beside  == {i \in DOMAIN GamesShown : i # Cursor /\ i \in Cursor - 2 .. Cursor + 2}
Selected == IF GamesShown = <<>> THEN NoGame ELSE GamesShown[Cursor]

Walk == moves < MaxMoves /\ moves' = moves + 1
Waiting == \E c \in Awaits : call[c].at \notin {"unasked", "done"}
BeginAwait(c, at, g, mode) ==
  /\ call[c] = Unasked
  /\ call' = [call EXCEPT ![c] = [at |-> at, game |-> g, mode |-> mode]]
  /\ met' = (met \/ Waiting)
Waits(c, at) == call[c].at = at
Goes(c, at)  == call' = [call EXCEPT ![c].at = at]
(* The status moves on; a library that is no longer shown forgets its place. *)
BecomeStatus(st) == status' = st /\ place' = IF Mounted(screen, st) THEN place ELSE FirstPlace
-----------------------------------------------------------------------------
(* Home: the carousel, and the menu over it.  The carousel closes the menu *)
(* when a console is confirmed, but not the ref the pad is led by.         *)
HomeConfirm ==
  /\ screen = "home" /\ Walking /\ Walk
  /\ screen' = "library" /\ menu' = [menu EXCEPT !.open = FALSE] /\ place' = FirstPlace
  /\ UNCHANGED <<library, view, sessionVars, status, selectedGame, choice, call, announced, met>>

ToggleMenu ==
  /\ screen = "home" /\ Walking /\ Walk
  /\ menu' = [open |-> ~menu.ref, ref |-> ~menu.ref]
  /\ UNCHANGED <<library, view, sessionVars, screen, status, selectedGame, place, choice, call,
                 announced, met>>

(* The library: up and down change the category, left and right the game,  *)
(* without wrapping; a click chooses one of the games around it.           *)
MoveCategory ==
  /\ Mounted(screen, status) /\ Walk
  /\ place' \in {[place EXCEPT !.category = i, !.detailed = NoGame] :
                   i \in {place.category - 1, place.category + 1} \intersect DOMAIN Categories}
  /\ UNCHANGED <<library, view, sessionVars, screen, menu, status, selectedGame, choice, call,
                 announced, met>>

SelectBeside ==
  /\ Mounted(screen, status) /\ Walk
  /\ \E i \in Beside : /\ place' = [place EXCEPT !.cursor[Category] = i, !.detailed = NoGame]
                    /\ selectedGame' = GamesShown[i]
  /\ met' = (met \/ Waiting)
  /\ UNCHANGED <<library, view, sessionVars, screen, menu, status, choice, call, announced>>

LeaveLibrary ==
  /\ Mounted(screen, status) /\ Walk
  /\ \/ /\ Category = "settings" /\ place' = [place EXCEPT !.category = @ - 1]
        /\ UNCHANGED screen
     \/ /\ Category # "settings" /\ place.detailed # NoGame
        /\ place' = [place EXCEPT !.detailed = NoGame] /\ UNCHANGED screen
     \/ /\ Category # "settings" /\ place.detailed = NoGame
        /\ screen' = "home" /\ place' = FirstPlace
  /\ UNCHANGED <<library, view, sessionVars, menu, status, selectedGame, choice, call, announced, met>>

(* The first confirmation opens the detail of the selected game. *)
OpenDetail ==
  /\ Mounted(screen, status) /\ Selected # NoGame /\ place.detailed # Selected /\ Walk
  /\ place' = [place EXCEPT !.detailed = Selected] /\ announced' = Selected
  /\ UNCHANGED <<library, view, sessionVars, screen, menu, status, selectedGame, choice, call, met>>

(* Mutant: any open detail makes the next confirmation a launch. *)
PlaysAny == place.detailed # NoGame

(* The second one, of the game whose detail is open, plays it. *)
Plays == place.detailed = Selected

PlaySelected(c) ==
  /\ Mounted(screen, status) /\ Selected # NoGame /\ Plays
  /\ BeginAwait(c, "audio", Selected, "unset")
  /\ UNCHANGED <<library, view, sessionVars, status, selectedGame, choice, viewVars>>

(* The dialog over the library: the options alternate, back closes it, and *)
(* a confirmation launches the game by the option.  The pad drives it also *)
(* while it is not on screen, unless a game is running.                    *)
ChooseOption(c) ==
  /\ choice # NoChoice /\ status # "running"
  /\ choice' = NoChoice /\ BeginAwait(c, "audio", choice.game, choice.option)
  /\ UNCHANGED <<library, view, sessionVars, status, selectedGame, viewVars>>

AlterChoice ==
  /\ choice # NoChoice /\ status # "running" /\ Walk
  /\ choice' \in {NoChoice, [choice EXCEPT !.option = IF @ = "restore" THEN "fresh" ELSE "restore"]}
  /\ UNCHANGED <<library, view, sessionVars, screen, menu, status, selectedGame, place, call,
                 announced, met>>
-----------------------------------------------------------------------------
(* launchGame: the audio, the launch in main, which refuses a second game  *)
(* of the core, and if it plays, the library anew, which makes the product *)
(* ready for a moment, the capabilities and the input mapping.             *)
AudioStarts(c) ==
  /\ Waits(c, "audio") /\ Goes(c, "launching")
  /\ selectedGame' = call[c].game /\ BecomeStatus("starting")
  /\ UNCHANGED <<library, view, sessionVars, screen, menu, choice, announced, moves, met>>

LaunchAnswers(c) ==
  /\ Waits(c, "launching")
  /\ \/ /\ heldGame = NoGame /\ heldGame' = call[c].game
        /\ library' = [library EXCEPT !.recent = <<call[c].game>> \o Remove(@, call[c].game)]
        /\ BecomeStatus("running") /\ Goes(c, "refreshing") /\ faltered' = FALSE /\ UNCHANGED choice
     \/ /\ call[c].mode = "unset" /\ call[c].game \in WithAutosave
        /\ choice' = [game |-> call[c].game, option |-> "restore"]
        /\ BecomeStatus("ready") /\ Goes(c, "done") /\ UNCHANGED <<library, sessionVars>>
     \/ BecomeStatus("error") /\ Goes(c, "done") /\ UNCHANGED <<library, sessionVars, choice>>
  /\ UNCHANGED <<view, screen, menu, selectedGame, announced, moves, met>>

(* refreshLibrary, of a launch or of an import. *)
Refreshed(c) ==
  /\ Waits(c, "refreshing")
  /\ \/ view' = library /\ BecomeStatus("ready")
     \/ BecomeStatus("error") /\ UNCHANGED view
  /\ selectedGame' = IF call[c].mode = "import" THEN call[c].game ELSE selectedGame
  /\ Goes(c, IF call[c].mode = "import" THEN "done" ELSE "configuring")
  /\ UNCHANGED <<library, sessionVars, screen, menu, choice, announced, moves, met>>

(* Mutant: the status is left as the refresh has set it. *)
LaunchEndsReady == UNCHANGED <<status, place>>

LaunchEnds == BecomeStatus("running")

(* The capabilities or the mapping, of a profile that cannot be read, may  *)
(* be refused: then the status stays as the refresh has set it.            *)
Configured(c) ==
  /\ Waits(c, "configuring") /\ Goes(c, "done")
  /\ \/ LaunchEnds /\ UNCHANGED faltered
     \/ UNCHANGED <<status, place>> /\ faltered' = TRUE
  /\ UNCHANGED <<library, view, heldGame, screen, menu, selectedGame, choice, announced, moves, met>>

(* The player stops the game (RendererSession has the steps of it): the    *)
(* session is gone, or main has none, or keeps it with an error.           *)
StopGame ==
  /\ status = "running" /\ met' = (met \/ Waiting)
  /\ \/ heldGame # NoGame /\ heldGame' = NoGame /\ BecomeStatus("ready") /\ UNCHANGED faltered
     \/ BecomeStatus("error") /\ faltered' = (heldGame # NoGame) /\ UNCHANGED heldGame
  /\ UNCHANGED <<library, view, screen, menu, selectedGame, choice, call, announced, moves>>

(* importGame: a dialog, main's answer, and the library anew. *)
ImportGame(c) ==
  /\ Mounted(screen, status)
  /\ \E g \in Titles : BeginAwait(c, "importing", g, "import")
  /\ UNCHANGED <<library, view, sessionVars, status, selectedGame, choice, viewVars>>

GameImported(c) ==
  /\ Waits(c, "importing")
  /\ \/ /\ library' = [library EXCEPT !.games = IF call[c].game \in ToSet(@) THEN @
                                                ELSE Append(@, call[c].game)]
        /\ Goes(c, "refreshing") /\ UNCHANGED <<status, place>>
     \/ BecomeStatus("error") /\ Goes(c, "done") /\ UNCHANGED library
     \/ Goes(c, "done") /\ UNCHANGED <<library, status, place>>
  /\ UNCHANGED <<view, sessionVars, screen, menu, selectedGame, choice, announced, moves, met>>

(* toggleFavorite: the opposite of what is shown, and main's answer takes  *)
(* the game's place in the list.                                           *)
Favor(c) ==
  /\ Mounted(screen, status) /\ Selected # NoGame
  /\ BeginAwait(c, IF Selected \in view.favorites THEN "unfavoring" ELSE "favoring", Selected, "unset")
  /\ UNCHANGED <<library, view, sessionVars, status, selectedGame, choice, viewVars>>

Favored(c) ==
  /\ call[c].at \in {"favoring", "unfavoring"} /\ Goes(c, "done")
  /\ LET as(l) == [l EXCEPT !.favorites = IF Waits(c, "favoring") THEN @ \union {call[c].game}
                                          ELSE @ \ {call[c].game}] IN
       \/ library' = as(library) /\ view' = as(view)
       \/ UNCHANGED <<library, view>>
  /\ UNCHANGED <<sessionVars, screen, menu, status, selectedGame, place, choice, announced, moves, met>>

NavigationNext ==
  \/ HomeConfirm \/ ToggleMenu \/ MoveCategory \/ SelectBeside \/ LeaveLibrary \/ OpenDetail
  \/ AlterChoice \/ StopGame
  \/ \E c \in Awaits : \/ PlaySelected(c) \/ ChooseOption(c) \/ AudioStarts(c) \/ LaunchAnswers(c) \/ Refreshed(c)
                      \/ Configured(c) \/ ImportGame(c) \/ GameImported(c) \/ Favor(c) \/ Favored(c)

NavigationSpec == NavigationInit /\ [][NavigationNext]_navVars
-----------------------------------------------------------------------------
(* "The first confirmation reveals contextual actions and a second         *)
(* launches the game" (console-library.md): a game that is launched from   *)
(* the library is the one whose detail was opened, although a refresh, an  *)
(* import or a favorite moves the games under the cursor in between.       *)
PlaysWhatIsDetailed ==
  [][\A c \in Awaits : call[c] = Unasked /\ call'[c].at = "audio" /\ call'[c].mode = "unset"
                      => call'[c].game = announced]_navVars

(* When nothing is under way, a session that is shown is held by main,     *)
(* under the name of its game, and one that main holds is shown, unless    *)
(* its launch failed behind main's answer or its stop failed; all unless a *)
(* call met another, a stop or a selection.  The refresh that a launch or  *)
(* an import awaits makes the product ready for a moment, and the end of a *)
(* launch makes it running, whatever happened meanwhile.                   *)
ShownIsHeld ==
  ~Waiting /\ ~met =>
    /\ status = "running" => heldGame # NoGame /\ selectedGame = heldGame
    /\ heldGame # NoGame => status = "running" \/ faltered
=============================================================================
