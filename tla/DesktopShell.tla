------------------------------ MODULE DesktopShell ------------------------------
(***************************************************************************)
(* The end of the program: the shell of the desktop (main.ts) from its     *)
(* windows to its quit, and the updates (update-service.ts), which end it  *)
(* as well.  The session host is what main.ts sees of it: one session,     *)
(* whose battery save is the progress, and its `stop`, for whoever calls   *)
(* it.  autoUpdater is external; `job` is what it does.                    *)
(***************************************************************************)
EXTENDS Naturals

CONSTANTS MaxQuits,    \* bound: quits the player or the system asks for
          MaxSessions, \* bound: sessions played
          MaxInstalls, \* bound: installs begun
          MaxVersion   \* bound: the newest release

VARIABLES
  platform,            \* process.platform, as far as it matters
  mainWindow,          \* the window: "open", "minimized" or "none"
  stopActiveSession,   \* is it defined?
  quitAfterSaveFlush,
  session,             \* of the host: "none", or its thread is "live" or has "ended"
  sessionCore,         \* which worker session it is
  unflushed,           \* has it progress that is not on disk?
  stop,                \* where the sessionHost.stop() of each caller is
  mishap,              \* did a stop meet another or fail, or did a thread die?
  quits, sessions,     \* how often the program was told to quit, and to play
  installs,            \* how often an install was begun
  exited,
  state, shown,        \* the update state of main, and of the renderer
  job, target,         \* what autoUpdater does, and with which version
  downloaded           \* the version it has downloaded, or 0

quitVars   == <<stopActiveSession, quitAfterSaveFlush, quits, installs, exited>>
gameVars   == <<session, sessionCore, unflushed, sessions, stop, mishap>>
updateVars == <<state, shown, job, target, downloaded>>
shellVars  == <<platform, mainWindow, quitVars, gameVars, updateVars>>

Stoppers == {"player", "quit", "install"}

(* A stop is asked of the thread, then its save is written; or it is about *)
(* to return an error; or nothing will ever answer it.                     *)
StopPhases == {"none", "asked", "saving", "refused", "unanswered"}

NoVersion == 0
Update(status, version) == [status |-> status, version |-> version]
Statuses == {"unsupported", "idle", "checking", "available", "not-available",
             "downloading", "downloaded", "error"}

ShellTypeOK ==
  /\ platform \in {"darwin", "win32"}
  /\ mainWindow \in {"open", "minimized", "none"}
  /\ stopActiveSession \in BOOLEAN /\ quitAfterSaveFlush \in BOOLEAN
  /\ session \in {"none", "live", "ended"} /\ sessionCore \in {"sameboy", "mgba"}
  /\ unflushed \in BOOLEAN /\ mishap \in BOOLEAN /\ exited \in BOOLEAN
  /\ stop \in [Stoppers -> StopPhases]
  /\ quits \in 0..MaxQuits /\ sessions \in 0..MaxSessions
  /\ installs \in 0..MaxInstalls
  /\ {state, shown} \subseteq [status : Statuses, version : 0..MaxVersion]
  /\ job \in {"none", "checking", "downloading"}
  /\ {target, downloaded} \subseteq 0..MaxVersion

(* app.whenReady() has run: the window is open and the host is there.      *)
(* Updates from GitHub are for platforms other than Windows.               *)
ShellInit ==
  /\ platform \in {"darwin", "win32"}
  /\ mainWindow = "open"
  /\ stopActiveSession = TRUE /\ quitAfterSaveFlush = FALSE
  /\ session = "none" /\ sessionCore = "sameboy" /\ unflushed = FALSE /\ mishap = FALSE
  /\ stop = [k \in Stoppers |-> "none"] /\ exited = FALSE
  /\ quits = 0 /\ sessions = 0 /\ installs = 0
  /\ state = Update(IF platform = "win32" THEN "unsupported" ELSE "idle", NoVersion)
  /\ shown = state
  /\ job = "none" /\ target = NoVersion /\ downloaded = NoVersion
-----------------------------------------------------------------------------
(* The player plays: a session is launched from the window, when the one   *)
(* before has been let go of and no stop is at work, and makes progress.   *)
Play ==
  /\ mainWindow # "none" /\ session = "none"
  /\ \A k \in Stoppers : stop[k] \in {"none", "unanswered"}
  /\ sessions < MaxSessions
  /\ session' = "live" /\ unflushed' = TRUE
  /\ sessionCore' \in {"sameboy", "mgba"}
  /\ sessions' = sessions + 1
  /\ UNCHANGED <<platform, mainWindow, quitVars, stop, mishap, updateVars>>

(* sessionHost.stop() is called.  A thread that has ended is asked by      *)
(* SameBoy's session and does not answer; mGBA's refuses at once, and so   *)
(* does the controller when it has no session.                             *)
Stop(k) ==
  /\ stop' = [stop EXCEPT ![k] =
       IF session = "live" THEN "asked"
       ELSE IF session = "ended" /\ sessionCore = "sameboy" THEN "unanswered" ELSE "refused"]
  /\ mishap' = (mishap \/ \E j \in Stoppers \ {k} : stop[j] # "none")

StopPlaying ==
  /\ mainWindow # "none" /\ session # "none" /\ stop["player"] = "none"
  /\ Stop("player")
  /\ UNCHANGED <<platform, mainWindow, quitVars, session, sessionCore, unflushed, sessions, updateVars>>

(* The thread dies; what it was asked fails. *)
ThreadDies ==
  /\ session = "live" /\ session' = "ended"
  /\ stop' = [k \in Stoppers |-> IF stop[k] = "asked" THEN "refused" ELSE stop[k]]
  /\ mishap' = TRUE
  /\ UNCHANGED <<platform, mainWindow, quitVars, sessionCore, unflushed, sessions, updateVars>>

(* before-quit: the first quit is put off until its stop has returned; one *)
(* that comes meanwhile is not.                                            *)
BeforeQuit ==
  IF quitAfterSaveFlush \/ ~stopActiveSession
  THEN /\ exited' = TRUE
       /\ UNCHANGED <<stopActiveSession, stop, mishap>>
  ELSE /\ stopActiveSession' = FALSE
       /\ Stop("quit")
       /\ UNCHANGED exited

(* app.quit(): by the quit command of the platform, or by the menu of the  *)
(* renderer (quitApplication).                                             *)
Quit ==
  /\ quits < MaxQuits /\ quits' = quits + 1
  /\ BeforeQuit
  /\ UNCHANGED <<platform, mainWindow, quitAfterSaveFlush, session, sessionCore, unflushed, sessions,
                 installs, updateVars>>

(* The window is closed; only on macOS the program goes on without one.    *)
CloseWindow ==
  /\ mainWindow # "none" /\ mainWindow' = "none"
  /\ IF platform = "darwin"
     THEN UNCHANGED <<quits, stopActiveSession, stop, mishap, exited>>
     ELSE /\ quits < MaxQuits /\ quits' = quits + 1
          /\ BeforeQuit
  /\ UNCHANGED <<platform, quitAfterSaveFlush, session, sessionCore, unflushed, sessions, installs,
                 updateVars>>

Minimize ==
  /\ mainWindow = "open" /\ mainWindow' = "minimized"
  /\ UNCHANGED <<platform, quitVars, gameVars, updateVars>>

(* A second start of the program ends itself and shows the window of the   *)
(* first, if it has one.                                                   *)
SecondInstance ==
  /\ mainWindow = "minimized" /\ mainWindow' = "open"
  /\ UNCHANGED <<platform, quitVars, gameVars, updateVars>>

(* macOS activates the program: a new window, whose renderer asks for the  *)
(* state of the updates.                                                   *)
Activate ==
  /\ platform = "darwin" /\ mainWindow = "none"
  /\ mainWindow' = "open" /\ shown' = state
  /\ UNCHANGED <<platform, quitVars, gameVars, state, job, target, downloaded>>
-----------------------------------------------------------------------------
(* updates.install(): nothing, unless the update is downloaded; then       *)
(* autoUpdater.quitAndInstall ends the program or reports an error.        *)
Install ==
  /\ installs' = installs + 1
  /\ \/ state.status = "downloaded" /\ exited' = TRUE /\ UNCHANGED state
     \/ /\ state.status = "downloaded" /\ state' = Update("error", NoVersion)
        /\ UNCHANGED exited
     \/ state.status # "downloaded" /\ UNCHANGED <<state, exited>>

(* Mutant: the quit that was put off is not made again. *)
ReturnsForGood(k) ==
  /\ stop' = [stop EXCEPT ![k] = "none"]
  /\ quitAfterSaveFlush' = (quitAfterSaveFlush \/ k # "player")
  /\ IF k = "install" THEN Install ELSE UNCHANGED <<state, installs, exited>>

(* sessionHost.stop() returns, with the progress on disk or with an error: *)
(* the quit goes on either way, and the install begins.                    *)
Returns(k) ==
  /\ stop' = [stop EXCEPT ![k] = "none"]
  /\ quitAfterSaveFlush' = (quitAfterSaveFlush \/ k # "player")
  /\ CASE k = "quit" -> exited' = TRUE /\ UNCHANGED <<state, installs>>
       [] k = "install" -> Install
       [] k = "player" -> UNCHANGED <<state, installs, exited>>

StopVars == <<platform, mainWindow, sessionCore, sessions, stopActiveSession, quits, shown, job, target,
              downloaded>>

(* The thread answers, and its session ends it: with the save, or, of mGBA *)
(* alone, with an error.  A stop that finds the thread ended by another    *)
(* was still answered, or is refused by mGBA or by a controller that has   *)
(* no session any more, or waits for ever.                                 *)
Answered(k) ==
  /\ stop[k] = "asked"
  /\ \/ /\ session = "live" /\ session' = "ended"
        /\ \/ stop' = [stop EXCEPT ![k] = "saving"] /\ UNCHANGED mishap
           \/ sessionCore = "mgba" /\ stop' = [stop EXCEPT ![k] = "refused"] /\ mishap' = TRUE
     \/ /\ session # "live"
        /\ \E p \in {"saving", "refused", "unanswered"} :
             /\ p = "refused" => sessionCore = "mgba" \/ session = "none"
             /\ stop' = [stop EXCEPT ![k] = p]
        /\ UNCHANGED <<session, mishap>>
  /\ UNCHANGED <<StopVars, unflushed, quitAfterSaveFlush, installs, exited, state>>

(* The save is on disk and the session let go of; or the disk refused it   *)
(* and the session is kept.                                                *)
SaveEnds(k) ==
  /\ stop[k] = "saving"
  /\ \/ session' = "none" /\ unflushed' = FALSE /\ UNCHANGED mishap
     \/ mishap' = TRUE /\ UNCHANGED <<session, unflushed>>
  /\ Returns(k)
  /\ UNCHANGED StopVars

Refused(k) ==
  /\ stop[k] = "refused"
  /\ Returns(k)
  /\ UNCHANGED <<StopVars, session, unflushed, mishap>>

StopGoesOn(k) == Answered(k) \/ SaveEnds(k) \/ Refused(k)

(* The update row of the settings: it asks for what the state it shows     *)
(* offers, which main may have left behind.                                *)
Offers == CASE shown.status = "available" -> "download"
            [] shown.status = "downloaded" -> "install"
            [] shown.status \in {"checking", "downloading", "unsupported"} -> "nothing"
            [] OTHER -> "check"

CheckForUpdates ==
  /\ mainWindow # "none" /\ Offers = "check"
  /\ job' = "checking"
  /\ state' = Update("checking", NoVersion)
  /\ UNCHANGED <<platform, mainWindow, quitVars, gameVars, shown, target, downloaded>>

DownloadUpdate ==
  /\ mainWindow # "none" /\ Offers = "download"
  /\ state.status = "available" /\ job' = "downloading"
  /\ UNCHANGED <<platform, mainWindow, quitVars, gameVars, state, shown, target, downloaded>>

(* Mutant: the session is left running. *)
InstallUpdateAtOnce ==
  /\ mainWindow # "none" /\ Offers = "install" /\ stop["install"] = "none"
  /\ installs < MaxInstalls
  /\ Install /\ quitAfterSaveFlush' = TRUE
  /\ UNCHANGED <<StopVars, session, unflushed, stop, mishap>>

(* installUpdate: the session is stopped first, unless a quit has taken    *)
(* the stop.                                                               *)
InstallUpdate ==
  /\ mainWindow # "none" /\ Offers = "install" /\ stop["install"] = "none"
  /\ installs < MaxInstalls
  /\ IF stopActiveSession
     THEN Stop("install") /\ UNCHANGED <<quitAfterSaveFlush, state, installs, exited>>
     ELSE Install /\ quitAfterSaveFlush' = TRUE /\ UNCHANGED <<stop, mishap>>
  /\ UNCHANGED <<StopVars, session, unflushed>>

(* What autoUpdater reports. *)
CheckAnswers ==
  /\ job = "checking" /\ job' = "none"
  /\ \/ \E v \in 1..MaxVersion :
          v >= target /\ target' = v /\ state' = Update("available", v)
     \/ UNCHANGED target /\ \E s \in {"not-available", "error"} : state' = Update(s, NoVersion)
  /\ UNCHANGED <<platform, mainWindow, quitVars, gameVars, shown, downloaded>>

(* download-progress names the version of the state before it, if it had   *)
(* one.                                                                    *)
DownloadGoesOn ==
  /\ job = "downloading"
  /\ \/ /\ state' = Update("downloading", state.version)
        /\ UNCHANGED <<job, downloaded>>
     \/ /\ state' = Update("downloaded", target)
        /\ downloaded' = target /\ job' = "none"
     \/ /\ state' = Update("error", NoVersion) /\ job' = "none"
        /\ UNCHANGED downloaded
  /\ UNCHANGED <<platform, mainWindow, quitVars, gameVars, shown, target>>

(* setState sends the state to the window, if there is one. *)
StateArrives ==
  /\ mainWindow # "none" /\ shown' = state
  /\ UNCHANGED <<platform, mainWindow, quitVars, gameVars, state, job, target, downloaded>>

ShellNext ==
  /\ ~exited
  /\ \/ Play \/ StopPlaying \/ ThreadDies \/ \E k \in Stoppers : StopGoesOn(k)
     \/ Quit \/ CloseWindow \/ Minimize \/ SecondInstance \/ Activate
     \/ CheckForUpdates \/ DownloadUpdate \/ InstallUpdate
     \/ CheckAnswers \/ DownloadGoesOn \/ StateArrives

(* The stop of a quit goes on, as long as something answers it. *)
ShellGoesOn == ~exited /\ StopGoesOn("quit")

ShellSpec == ShellInit /\ [][ShellNext]_shellVars
-----------------------------------------------------------------------------
(* Application shutdown requests a final export and awaits persistence     *)
(* (docs/architecture/cartridge-saves.md): the program does not end before *)
(* the progress of its session was flushed.                                *)
ShutdownAwaitsFlush == exited => ~unflushed

(* Asked to end once, by a quit or by an install, while no other stop is   *)
(* at work, with a thread and a disk that do not fail, the program ends    *)
(* with the progress on disk.  A quit or an install on top of another      *)
(* finds the stop taken, or the flush marked as done by an install that    *)
(* came to nothing; a quit beside the player's stop, or whose own stop     *)
(* fails, goes on without the save (before-quit, main.ts).                 *)
OneRequestLosesNothing == exited /\ unflushed => quits + installs > 1 \/ mishap

(* A program that was told to quit quits, whatever else is stopped,        *)
(* installed or dies meanwhile, unless its stop waits for a thread that is *)
(* gone: then before-quit put the quit off for good.                       *)
QuitEndsTheProgram == quits > 0 ~> exited \/ stop["quit"] = "unanswered"
=============================================================================
