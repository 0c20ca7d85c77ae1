----------------------------- MODULE MCSessionHost -----------------------------
(***************************************************************************)
(* Model values for SessionHost: two games of one core and a third of      *)
(* another core, and the callers of the runs.                              *)
(***************************************************************************)
EXTENDS SessionHost, TLC

CONSTANTS sameboy, mgba, red, blue, emerald

ThreeGames == (red :> sameboy) @@ (blue :> sameboy) @@ (emerald :> mgba)

(* Every operation, one call after the other, of a game of mGBA.           *)
Patient == [games |-> {emerald}, operations |-> Operations, modes |-> {"restore"},
            overlapping |-> {}, relaunch |-> FALSE, versions |-> 1, time |-> 1]

(* Library games, both intervals, and autosaves beside other calls.        *)
Ticking == [Patient EXCEPT
  !.games = {red, emerald}, !.operations = @ \ {"pause", "resume", "restore"},
  !.overlapping = {"autosave"}, !.versions = 0]

(* From a game of one core to a game of the other and back.                *)
Changing == [Patient EXCEPT
  !.games = {red, emerald}, !.operations = {"launch", "stop"}, !.modes = {"rom"},
  !.versions = 2, !.time = 0]

(* Launches and a stop of two games of one core overlap: a double click.   *)
Hasty == [Patient EXCEPT
  !.games = {red, blue}, !.operations = {"launch", "stop"}, !.modes = {"library"},
  !.overlapping = {"calls"}, !.relaunch = TRUE, !.time = 0]

(* A game is launched while another of its core plays.                     *)
Relaunching == [Changing EXCEPT !.games = {red, blue}, !.relaunch = TRUE]

(* The playtime interval ticks beside other calls.                         *)
Counting == [Ticking EXCEPT
  !.games = {red, blue}, !.operations = {"launch", "stop", "checkpoint"},
  !.modes = {"library"}, !.overlapping = {"checkpoint"}]

ThreeCallers    == {Ticking, Changing, Hasty}
OnlyPatient     == {Patient}
OnlyRelaunching == {Relaunching}
OnlyCounting    == {Counting}
=============================================================================
