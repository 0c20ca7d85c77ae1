------------------------------- MODULE GameLaunch -------------------------------
(***************************************************************************)
(* What main.ts does before the session host launches a game: the choice   *)
(* between the autosave and a fresh start (startLibraryGame), the launch   *)
(* of a ROM file (selectRom, startSession), and the console main takes the *)
(* player's input for (activeSessionExtension).  The host is its answers   *)
(* and what it holds; SessionHost has its steps.                           *)
(***************************************************************************)
EXTENDS Naturals

CONSTANTS Launches,  \* calls of startLibraryGame and of startSession
          Games, Consoles, ConsoleOf, \* games, and the console of each
          MaxSaves   \* bound: autosaves written meanwhile

VARIABLES autosave,  \* the autosave of each game, as saveStates.read finds it
          listable,  \* does saveStates.list succeed?
          autosaveEnabled, \* the games whose configuration says so; main never changes it
          activeSession, \* the console of activeSessionExtension
          held,      \* the game of the host's session, and whether it is of the library
          core,      \* the console of the core the host has chosen
          keyed,     \* is activeSaveKey defined?
          launch,    \* each call: what it waits for, its game, mode and autosave
          saves,     \* how many autosaves were written
          stuck,     \* history: has a launch failed in the host beside a session?
          launchesOverlapped \* history: were two launches in the host at once?

hostVars   == <<held, core, keyed, stuck>>
diskVars   == <<autosave, listable, autosaveEnabled, saves>>
launchVars == <<diskVars, activeSession, hostVars, launch, launchesOverlapped>>

NoneYet  == "none"
Modes == {"unset", "fresh", "restore", "file"}
NotCalled  == [at |-> "idle", game |-> NoneYet, mode |-> "unset", found |-> FALSE]
Held  == [game : Games, library : BOOLEAN] \* a library game has autosaves
NoSession == [game |-> NoneYet, library |-> FALSE]
Hosting == {c \in Launches : launch[c].at \in {"stopping", "loading", "launching"}}

LaunchTypeOK ==
  /\ autosave \in [Games -> {"none", "own", "foreign", "unreadable"}]
  /\ {listable, keyed, stuck, launchesOverlapped} \subseteq BOOLEAN
  /\ autosaveEnabled \subseteq Games
  /\ activeSession \in Consoles /\ core \in Consoles \union {NoneYet}
  /\ held \in Held \union {NoSession} /\ saves \in 0..MaxSaves
  /\ launch \in [Launches -> [at : {"idle", "reading", "choosing", "stopping", "loading",
                                    "launching", "ok", "offered", "error"},
                              game : Games \union {NoneYet}, mode : Modes, found : BOOLEAN]]

(* An autosave may be of another core, or damaged. *)
LaunchInit ==
  /\ autosave \in [Games -> {"none", "own", "foreign", "unreadable"}]
  /\ listable \in BOOLEAN /\ autosaveEnabled \in SUBSET Games
  /\ activeSession \in Consoles /\ core = NoneYet /\ held = NoSession
  /\ launch = [c \in Launches |-> NotCalled]
  /\ saves = 0 /\ keyed = FALSE /\ stuck = FALSE /\ launchesOverlapped = FALSE

LaunchAt(c, s) == launch' = [launch EXCEPT ![c].at = s]
Game(c)  == launch[c].game
Mode(c)  == launch[c].mode
-----------------------------------------------------------------------------
(* startLibraryGame finds the game, and loadSelectedRom its ROM, or the    *)
(* call ends with an error.  A ROM file goes by an id from selectRom, whose*)
(* path the selection store keeps until the program ends.                  *)
BeginLaunch(c) ==
  /\ launch[c].at = "idle"
  /\ \E g \in Games, m \in Modes, s \in {"reading", "error"} :
       launch' = [launch EXCEPT ![c] = [at |-> s, game |-> g, mode |-> m, found |-> FALSE]]
  /\ UNCHANGED <<diskVars, activeSession, hostVars, launchesOverlapped>>

(* Mutant: the console the input is for stays as it was. *)
ToHostOnly(c) ==
  /\ launchesOverlapped' = (launchesOverlapped \/ Hosting # {})
  /\ IF core # ConsoleOf[Game(c)] /\ keyed
     THEN LaunchAt(c, "stopping") /\ UNCHANGED core
     ELSE LaunchAt(c, "loading") /\ core' = ConsoleOf[Game(c)]
  /\ UNCHANGED <<activeSession, held, keyed, stuck>>

(* sessionHost.launch up to its first await: a core that is not the one of *)
(* the game goes, and with it its session, if the host knows of one.       *)
ToHost(c) ==
  /\ activeSession' = ConsoleOf[Game(c)]
  /\ launchesOverlapped' = (launchesOverlapped \/ Hosting # {})
  /\ IF core # ConsoleOf[Game(c)] /\ keyed
     THEN LaunchAt(c, "stopping") /\ UNCHANGED core
     ELSE LaunchAt(c, "loading") /\ core' = ConsoleOf[Game(c)]
  /\ UNCHANGED <<held, keyed, stuck>>

(* saveStates.read, for a game with autosaves (the cores all have states): *)
(* an autosave that is not of the core of the game is passed over, one     *)
(* that cannot be read ends the call, whatever its mode.                   *)
ReadAutosave(c) ==
  /\ launch[c].at = "reading" /\ Mode(c) # "file"
  /\ IF Game(c) \in autosaveEnabled /\ autosave[Game(c)] = "unreadable" THEN LaunchAt(c, "error")
     ELSE launch' = [launch EXCEPT ![c].at = "choosing",
                       ![c].found = Game(c) \in autosaveEnabled /\ autosave[Game(c)] = "own"]
  /\ UNCHANGED <<diskVars, activeSession, hostVars, launchesOverlapped>>

(* Without a mode the player is asked, if there is an autosave and the     *)
(* states can be listed; then the call goes on to the host.                *)
Choose(c) ==
  /\ launch[c].at = "choosing"
  /\ \/ /\ launch[c].found /\ Mode(c) = "unset" /\ listable
        /\ LaunchAt(c, "offered") /\ UNCHANGED <<activeSession, hostVars, launchesOverlapped>>
     \/ /\ Mode(c) = "restore" /\ ~launch[c].found
        /\ LaunchAt(c, "error") /\ UNCHANGED <<activeSession, hostVars, launchesOverlapped>>
     \/ /\ ~(launch[c].found /\ Mode(c) = "unset" /\ listable)
        /\ ~(Mode(c) = "restore" /\ ~launch[c].found)
        /\ ToHost(c)
  /\ UNCHANGED diskVars

(* startSession: nothing is read and nothing chosen. *)
StartSession(c) ==
  /\ launch[c].at = "reading" /\ Mode(c) = "file" /\ ToHost(c)
  /\ UNCHANGED diskVars

(* A launch that fails in the host. *)
Fail(c) == LaunchAt(c, "error") /\ stuck' = (stuck \/ held # NoSession) /\ UNCHANGED held

(* The old session has stopped, or it stays and the launch fails. *)
HostStopped(c) ==
  /\ launch[c].at = "stopping"
  /\ \/ /\ held' = NoSession /\ keyed' = FALSE /\ core' = ConsoleOf[Game(c)]
        /\ LaunchAt(c, "loading") /\ UNCHANGED stuck
     \/ Fail(c) /\ UNCHANGED <<keyed, core>>
  /\ UNCHANGED <<diskVars, activeSession, launchesOverlapped>>

(* loadCartridgeSave answers, or throws, and then the key is cleared. *)
HostLoaded(c) ==
  /\ launch[c].at = "loading"
  /\ \/ LaunchAt(c, "launching") /\ keyed' = TRUE /\ UNCHANGED <<held, stuck>>
     \/ Fail(c) /\ keyed' = FALSE
  /\ UNCHANGED <<diskVars, activeSession, core, launchesOverlapped>>

(* controller.launch refuses a second session of its own; a refusal clears *)
(* the key of the session that is there, and a controller that has been    *)
(* replaced no longer counts.  A state that cannot be restored ends the    *)
(* session again.                                                          *)
HostLaunched(c) ==
  /\ launch[c].at = "launching"
  /\ \/ /\ held # NoSession => ConsoleOf[held.game] # core
        /\ core = ConsoleOf[Game(c)] /\ LaunchAt(c, "ok")
        /\ held' = [game |-> Game(c), library |-> Mode(c) # "file"] /\ UNCHANGED <<keyed, stuck>>
     \/ Fail(c) /\ keyed' = FALSE
  /\ UNCHANGED <<diskVars, activeSession, core, launchesOverlapped>>

(* The session ends, or writes an autosave of its game, which it does on   *)
(* the way to its end whatever the configuration says.                     *)
HeldEnds ==
  /\ held # NoSession /\ held' = NoSession /\ keyed' = FALSE
  /\ UNCHANGED <<diskVars, activeSession, core, launch, stuck, launchesOverlapped>>

Autosaved ==
  /\ held # NoSession /\ held.library /\ saves < MaxSaves
  /\ saves' = saves + 1 /\ autosave' = [autosave EXCEPT ![held.game] = "own"]
  /\ UNCHANGED <<listable, autosaveEnabled, activeSession, hostVars, launch, launchesOverlapped>>

LaunchGoesOn ==
  \E c \in Launches : \/ ReadAutosave(c) \/ Choose(c) \/ StartSession(c)
                      \/ HostStopped(c) \/ HostLoaded(c) \/ HostLaunched(c)

LaunchNext ==
  \/ \E c \in Launches : BeginLaunch(c)
  \/ LaunchGoesOn \/ HeldEnds \/ Autosaved

LaunchSpec == LaunchInit /\ [][LaunchNext]_launchVars
-----------------------------------------------------------------------------
(* setSessionInput, getInputConfiguration and getEmulatorCapabilities      *)
(* answer for the console of the session that is held, unless a launch is  *)
(* under way, two launches overlapped, or one failed beside the session.   *)
InputIsForTheSession ==
  held # NoSession /\ Hosting = {} =>
    activeSession = ConsoleOf[held.game] \/ stuck \/ launchesOverlapped
=============================================================================
