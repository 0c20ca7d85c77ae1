--------------------------------- MODULE MCDesk ---------------------------------
(***************************************************************************)
(* The parts of the desktop around a session, checked one at a time in one *)
(* run: the shell that ends the program, the ROM folder, the launch of a   *)
(* game, the settings of the input, the global preferences, the screens    *)
(* around a game and the plugins.  A behaviour is one of these modules,    *)
(* and what the others declare does not move.                              *)
(***************************************************************************)
EXTENDS DesktopShell, RomFolder, GameLaunch, InputSetup, Preferences, Navigation, MCPlugins

VARIABLE desk

roomVars == <<setupVars, prefVars, navVars, contractVars, ipcVars>>
deskVars == <<desk, shellVars, folderVars, launchVars, roomVars>>

ConsoleOfGame == [g \in {"red", "ruby"} |-> IF g = "red" THEN "family" ELSE "advance"]

(* Two consoles, one with a button more, the other's core with a command.  *)
ConsoleEntries  == [c \in Consoles |-> IF c = "family" THEN <<"primary">>
                                       ELSE <<"primary", "shoulder">>]
ConsoleCommands == [c \in Consoles |-> IF c = "family" THEN <<"rewind">> ELSE <<>>]
DefaultInput    == [t \in {"primary", "shoulder", "rewind"} |-> IF t = "primary" THEN 0 ELSE 1]

DefaultPreferences == [locale |-> "en-US", muted |-> FALSE, volume |-> 1]
ThreeLocales == <<"en-US", "pt-BR", "zh-CN">>
ShelfOfTwo == <<"red", "blue">>

(* The parts that do not move begin in one state only. *)
Parked ==
  /\ desk # "shell" => platform = "darwin"
  /\ desk # "folder" => \A r \in FoundRoms : folder[r] = "whole"
  /\ autosaveEnabled = {"red"}
  /\ desk # "launch" => /\ \A g \in Games : autosave[g] = "none"
                        /\ listable /\ activeSession = "family"
  /\ system = "family" /\ (desk # "setup" => DOMAIN profile.bound[Keyboard] = Actions)
  /\ desk # "preferences" => onDisk = <<Default>> /\ legacy = <<>>
  /\ desk # "plugins" => draft = Scaffold("console", "org.family")
  /\ desk # "ipc" => updateState.status = "idle"

DeskInit ==
  /\ desk \in {"shell", "folder", "launch", "setup", "preferences", "navigation", "plugins",
              "ipc"}
  /\ ShellInit /\ FolderInit /\ LaunchInit /\ SetupInit /\ PreferencesInit /\ NavigationInit
  /\ ContractInit /\ IpcInit
  /\ Parked

DeskNext ==
  /\ \/ /\ desk = "shell" /\ ShellNext
        /\ UNCHANGED <<folderVars, launchVars, roomVars>>
     \/ /\ desk = "folder" /\ FolderNext
        /\ UNCHANGED <<shellVars, launchVars, roomVars>>
     \/ /\ desk = "launch" /\ LaunchNext
        /\ UNCHANGED <<shellVars, folderVars, roomVars>>
     \/ /\ desk = "setup" /\ SetupNext
        /\ UNCHANGED <<shellVars, folderVars, launchVars, prefVars, navVars, contractVars, ipcVars>>
     \/ /\ desk = "preferences" /\ PreferencesNext
        /\ UNCHANGED <<shellVars, folderVars, launchVars, setupVars, navVars, contractVars, ipcVars>>
     \/ /\ desk = "navigation" /\ NavigationNext
        /\ UNCHANGED <<shellVars, folderVars, launchVars, setupVars, prefVars, contractVars, ipcVars>>
     \/ /\ desk = "plugins" /\ ContractNext
        /\ UNCHANGED <<shellVars, folderVars, launchVars, setupVars, prefVars, navVars, ipcVars>>
     \/ /\ desk = "ipc" /\ IpcNext
        /\ UNCHANGED <<shellVars, folderVars, launchVars, setupVars, prefVars, navVars, contractVars>>
  /\ UNCHANGED desk

(* The stop of a quit that something answers goes on. *)
DeskGoesOn ==
  desk = "shell" /\ ShellGoesOn /\ UNCHANGED <<desk, folderVars, launchVars, roomVars>>

DeskSpec == DeskInit /\ [][DeskNext]_deskVars /\ WF_shellVars(DeskGoesOn)

(* Types of the parts. *)
DeskTypeOK == ShellTypeOK /\ FolderTypeOK /\ LaunchTypeOK /\ SetupTypeOK
              /\ PreferencesTypeOK /\ NavigationTypeOK /\ ContractTypeOK
              /\ IpcTypeOK
=============================================================================
