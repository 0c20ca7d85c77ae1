------------------------------ MODULE SessionHost ------------------------------
(***************************************************************************)
(* createDesktopSessionHost (apps/desktop/src/session-host.ts): the calls  *)
(* of the renderer, the two intervals and the outputs of sessions, over    *)
(* the controllers of SessionController and the save store as AtomicSaves  *)
(* promises it.  A host call is at one await (`at`); while it runs a       *)
(* method of the controller, SessionController says where in it.  A firing *)
(* interval is a host call as well.  A launch gives its number to the      *)
(* controller it creates and to the session it opens.                      *)
(*                                                                         *)
(* The caller is any of `Callers` and stays the same: it says which games  *)
(* it launches how, which operations it uses, and whether its calls, and   *)
(* which ticks of the intervals, run beside other calls.                   *)
(***************************************************************************)
EXTENDS SessionController, FiniteSets

CONSTANTS Games,         \* the games; each has its own ROM and so its save key
          CoreOf,        \* the core that plays each game
          Callers,       \* the callers of the behaviours
          MaxWrites,     \* bound: battery saves written
          MaxClock       \* bound: the monotonic clock

NoGame == "no game"
Ticks  == {"autosave", "checkpoint"}
Operations == {"launch", "stop", "pause", "resume", "capture", "restore"} \union Ticks

(* What main.ts launches: a ROM file, which is no library game and has no  *)
(* autosave; a library game with autosave off or on; or, where autosave is *)
(* on, a library game whose autosave is restored.                          *)
Modes == {"rom", "library", "autosave", "restore"}

(* What overlaps with a running call: "calls" (two stops only with         *)
(* "stops"), some Ticks.  `relaunch`: games are launched over a session of *)
(* their core.  `versions` and `time` bound the battery RAM and the clock. *)
Caller == [games : SUBSET Games, operations : SUBSET Operations,
           modes : SUBSET Modes, overlapping : SUBSET ({"calls", "stops"} \union Ticks),
           relaunch : BOOLEAN, versions : 0..MaxBattery, time : 0..MaxClock]

ASSUME HostAssumption ==
  /\ CoreOf \in [Games -> Cores]
  /\ Callers \subseteq Caller
  /\ MaxWrites \in Nat /\ MaxClock \in Nat
  /\ NoGame \notin Games
  /\ Controllers = Calls \union {NoController}

VARIABLES
  caller,           \* who makes the calls
  activeSaveKey, activeGameId, activePlugin, controller,
  autosaveTimer, playtimeTimer,   \* the launch that set each interval, or 0
  intervals,        \* the intervals that are set: <<kind, launch>>
  checkpointAt,     \* playtimeCheckpointAt, or NoCheckpoint
  clock,            \* monotonicNow()
  op, at, args,     \* each call: what it is, its await, its parameters
  result,           \* what each call returned
  local,            \* the values each call keeps across an await
  states,           \* save states: the session each slot was captured from
  playtime,         \* milliseconds the library has counted for each game
  saveIssued, saveKeyOf, saveOutcome, saved,   \* AtomicSaves
  payload,          \* session and battery version of each write
  awaited           \* the write each call waits for

keyVars   == <<activeSaveKey, activeGameId, activePlugin, controller>>
timerVars == <<autosaveTimer, playtimeTimer, intervals, checkpointAt>>
callVars  == <<caller, op, args>>
diskVars  == <<states, playtime>>
saveVars  == <<saveIssued, saveKeyOf, saveOutcome, saved, payload, awaited>>
vars == <<sessionVars, controllerVars, keyVars, timerVars, clock, callVars, at,
          result, local, diskVars, saveVars>>

Saves == INSTANCE AtomicSaves
           WITH Keys <- Games, NoKey <- NoGame, issued <- saveIssued,
                keyOf <- saveKeyOf, outcome <- saveOutcome

Slots == {"autosave", "slot-1"}

Args   == [game : Games, mode : Modes]
NoArgs == [game |-> NoGame, mode |-> "rom"]
Library(c)  == args[c].mode # "rom"
Autosave(c) == args[c].mode \in {"autosave", "restore"}
Restore(c)  == args[c].mode = "restore"
NoLocal == [gameId |-> NoGame, now |-> 0, elapsed |-> 0]
NoCheckpoint == MaxClock + 1
Await == {"none", "capturing", "storing", "counting", "ending", "reading",
          "launching", "restoring", "undoing", "asking", "done"}
SlotOf(c) == IF op[c] = "capture" THEN "slot-1" ELSE "autosave"
GameOf(s) == args[s].game

HostTypeOK ==
  /\ caller \in Callers
  /\ activeSaveKey \in Games \union {NoGame}
  /\ activeGameId \in {activeSaveKey, NoGame}
  /\ activePlugin \in Cores \union {NoCore}
  /\ controller \in Controllers
  /\ autosaveTimer \in Calls \union {0} /\ playtimeTimer \in Calls \union {0}
  /\ intervals \subseteq Ticks \X Calls
  /\ checkpointAt \in 0..NoCheckpoint /\ clock \in 0..MaxClock
  /\ op \in [Calls -> Operations \union {"none"}]
  /\ at \in [Calls -> Await]
  /\ args \in [Calls -> Args \union {NoArgs}]
  /\ result \in [Calls -> {"none", "ok", "error"}]
  /\ local \in [Calls -> [gameId : Games \union {NoGame}, now : 0..MaxClock,
                          elapsed : 0..MaxClock]]
  /\ states \in [Slots \X (Games \union {NoGame})
                   -> Session \union {NoSession}]
  /\ playtime \in [Games -> Nat]
  /\ Saves!TypeOK
  /\ payload \in [Saves!Write -> [session : Session \union {NoSession},
                                  version : 0..MaxBattery]]
  /\ awaited \in [Calls -> 0..MaxWrites]

TypeOK == ControllerTypeOK /\ HostTypeOK

Init ==
  /\ ControllerInit
  /\ caller \in Callers
  /\ activeSaveKey = NoGame /\ activeGameId = NoGame
  /\ activePlugin = NoCore /\ controller = NoController
  /\ autosaveTimer = 0 /\ playtimeTimer = 0 /\ intervals = {}
  /\ checkpointAt = NoCheckpoint /\ clock = 0
  /\ op = [c \in Calls |-> "none"] /\ at = [c \in Calls |-> "none"]
  /\ args = [c \in Calls |-> NoArgs] /\ result = [c \in Calls |-> "none"]
  /\ local = [c \in Calls |-> NoLocal]
  /\ states = [x \in Slots \X (Games \union {NoGame}) |-> NoSession]
  /\ playtime = [g \in Games |-> 0]
  /\ Saves!Init
  /\ payload = [w \in Saves!Write |-> [session |-> NoSession, version |-> 0]]
  /\ awaited = [c \in Calls |-> 0]
-----------------------------------------------------------------------------
(* Parts of the calls.  Each says what becomes of the sessions, of the     *)
(* controllers and of the call's own variables.                            *)

LeaveController(c) ==
  /\ phase' = [phase EXCEPT ![c] = "idle"]
  /\ UNCHANGED <<sessionVars, held, ctlStatus, on, outcome>>

GoTo(c, await) == at' = [at EXCEPT ![c] = await] /\ UNCHANGED result

Settle(c, how) ==
  /\ at' = [at EXCEPT ![c] = "done"]
  /\ result' = [result EXCEPT ![c] = how]
  /\ LeaveController(c)
  /\ UNCHANGED local

(* Mutant: the key of the save is not set. *)
SetGameKey(k, g) ==
  activeGameId' = g /\ UNCHANGED <<activeSaveKey, activePlugin, controller>>

SetKeys(k, g) ==
  activeSaveKey' = k /\ activeGameId' = g /\ UNCHANGED <<activePlugin, controller>>

(* clearAutosaveTimer and clearPlaytimeTimer: the intervals the variables  *)
(* name are cleared.                                                       *)
ClearTimers ==
  /\ autosaveTimer' = 0 /\ playtimeTimer' = 0
  /\ intervals' = intervals \ {<<"autosave", autosaveTimer>>,
                               <<"checkpoint", playtimeTimer>>}
  /\ UNCHANGED checkpointAt

(* controller.stop() *)
EndSession(c, await) ==
  Stop(c, controller) /\ GoTo(c, await) /\ UNCHANGED local

(* checkpointPlaytime: the time and the elapsed time are read before the   *)
(* library is asked to add them.                                           *)
MayCount == activeGameId # NoGame /\ checkpointAt < clock
CountPlaytime(c) ==
  /\ local' = [local EXCEPT ![c] =
        [gameId |-> activeGameId, now |-> clock, elapsed |-> clock - checkpointAt]]
  /\ GoTo(c, "counting")
  /\ LeaveController(c)

(* The rest of a clean stop after its autosave. *)
CountAndEnd(c) ==
  IF MayCount THEN CountPlaytime(c) ELSE EndSession(c, "ending")

Capture(c) ==
  Ask(c, controller, "capture-save-state") /\ GoTo(c, "capturing") /\ UNCHANGED local

(* The way to a clean stop, of `stop` and of a launch on another core:     *)
(* captureAutosave, checkpointPlaytime, controller.stop.                   *)
StopCleanly(c) ==
  IF activeGameId # NoGame THEN Capture(c) ELSE CountAndEnd(c)

(* A new controller for the core of the game, without a session. *)
NewController(c) ==
  /\ activePlugin' = CoreOf[args'[c].game]
  /\ controller' = c
  /\ GoTo(c, "reading")
  /\ LeaveController(c)
  /\ UNCHANGED local
-----------------------------------------------------------------------------
(* The calls and the ticks.                                                *)

Running(kinds) == \E d \in Calls : at[d] \notin {"none", "done"} /\ op[d] \in kinds

Begin(c, kind, a) ==
  /\ Quiet
  /\ at[c] = "none"
  /\ \A d \in Calls : d < c => at[d] # "none"
  /\ kind \in caller.operations
  /\ IF kind \in Ticks
     THEN kind \in caller.overlapping \/ ~Running(Operations)
     ELSE /\ "calls" \in caller.overlapping \/ ~Running(Operations \ Ticks)
          /\ kind = "stop" => "stops" \in caller.overlapping \/ ~Running({"stop"})
          /\ ~Running(Ticks \ caller.overlapping)
  /\ UNCHANGED caller
  /\ op' = [op EXCEPT ![c] = kind]
  /\ args' = [args EXCEPT ![c] = a]

BeginStop(c) ==
  /\ Begin(c, "stop", NoArgs)
  /\ ClearTimers
  /\ StopCleanly(c)
  /\ UNCHANGED <<keyVars, clock, diskVars, saveVars>>

(* Mutant: a game of another core gets its controller, and the session     *)
(* there is goes on.                                                       *)
BeginLaunchWithoutStop(c, a) ==
  /\ Begin(c, "launch", a)
  /\ caller.relaunch \/ held[controller] = NoSession \/ activePlugin # CoreOf[a.game]
  /\ IF activePlugin = CoreOf[a.game]
     THEN /\ GoTo(c, "reading")
          /\ UNCHANGED <<sessionVars, controllerVars, local, keyVars>>
     ELSE NewController(c) /\ UNCHANGED <<activeSaveKey, activeGameId>>
  /\ UNCHANGED <<timerVars, clock, diskVars, saveVars>>

(* launch: a game of another core first ends the session there is, if the  *)
(* host knows of one.                                                      *)
BeginLaunch(c, a) ==
  /\ Begin(c, "launch", a)
  /\ caller.relaunch \/ held[controller] = NoSession \/ activePlugin # CoreOf[a.game]
  /\ \/ /\ activePlugin = CoreOf[a.game]
        /\ GoTo(c, "reading")
        /\ UNCHANGED <<sessionVars, controllerVars, local, keyVars, timerVars>>
     \/ /\ activePlugin # CoreOf[a.game] /\ activeSaveKey = NoGame
        /\ NewController(c)
        /\ UNCHANGED <<activeSaveKey, activeGameId, timerVars>>
     \/ /\ activePlugin # CoreOf[a.game] /\ activeSaveKey # NoGame
        /\ ClearTimers
        /\ StopCleanly(c)
        /\ UNCHANGED keyVars
  /\ UNCHANGED <<clock, diskVars, saveVars>>

BeginPauseOrResume(c, kind) ==
  /\ Begin(c, kind, NoArgs)
  /\ Ask(c, controller, kind) /\ GoTo(c, "asking") /\ UNCHANGED local
  /\ UNCHANGED <<keyVars, timerVars, clock, diskVars, saveVars>>

(* captureSaveState of a slot, and the tick of the autosave interval. *)
BeginCapture(c) ==
  /\ activeGameId # NoGame
  /\ \/ Begin(c, "capture", NoArgs)
     \/ /\ \E i \in Calls : <<"autosave", i>> \in intervals
        /\ Begin(c, "autosave", NoArgs)
  /\ Capture(c)
  /\ UNCHANGED <<keyVars, timerVars, clock, diskVars, saveVars>>

(* restoreSaveState: the state of the active game is read first. *)
BeginRestore(c) ==
  /\ activeGameId # NoGame
  /\ Begin(c, "restore", NoArgs)
  /\ local' = [local EXCEPT ![c].gameId = activeGameId]
  /\ GoTo(c, "reading")
  /\ UNCHANGED <<sessionVars, controllerVars, keyVars, timerVars, clock,
                 diskVars, saveVars>>

(* The tick of the playtime interval, which finds the last one answered    *)
(* after its 60 seconds.                                                   *)
BeginCheckpoint(c) ==
  /\ ~Running({"checkpoint"})
  /\ \E i \in Calls : <<"checkpoint", i>> \in intervals
  /\ MayCount
  /\ Begin(c, "checkpoint", NoArgs)
  /\ CountPlaytime(c)
  /\ UNCHANGED <<keyVars, timerVars, clock, diskVars, saveVars>>
-----------------------------------------------------------------------------
(* The calls after an await.                                               *)

AfterStore(c, how) ==
  IF op[c] \in {"stop", "launch"} THEN CountAndEnd(c) ELSE Settle(c, how)

(* The state is written for the game that is active when it arrives. *)
Captured(c) ==
  /\ at[c] = "capturing" /\ phase[c] = "returned"
  /\ \/ /\ outcome[c] = "ok"
        /\ local' = [local EXCEPT ![c].gameId = activeGameId]
        /\ GoTo(c, "storing")
        /\ LeaveController(c)
     \/ /\ outcome[c] = "error" /\ op[c] \in {"stop", "launch"}
        /\ CountAndEnd(c)
     \/ /\ outcome[c] = "error" /\ op[c] \notin {"stop", "launch"}
        /\ Settle(c, "error")
  /\ UNCHANGED <<keyVars, timerVars, clock, callVars, diskVars, saveVars>>

(* Mutant: the slot is that of the game that is active after the write. *)
StoredForActiveGame(c) ==
  /\ Quiet /\ at[c] = "storing"
  /\ states' = [states EXCEPT ![<<SlotOf(c), activeGameId>>] = request[c].session]
  /\ AfterStore(c, "ok")
  /\ UNCHANGED <<keyVars, timerVars, clock, callVars, playtime, saveVars>>

Stored(c) ==
  /\ Quiet /\ at[c] = "storing"
  /\ \/ /\ states' = [states EXCEPT ![<<SlotOf(c), local[c].gameId>>] = request[c].session]
        /\ AfterStore(c, "ok")
     \/ UNCHANGED states /\ AfterStore(c, "error")
  /\ UNCHANGED <<keyVars, timerVars, clock, callVars, playtime, saveVars>>

(* Mutant: the checkpoint does not move. *)
CountedWithoutReset(c) ==
  /\ Quiet /\ at[c] = "counting"
  /\ playtime' = [playtime EXCEPT ![local[c].gameId] = @ + local[c].elapsed]
  /\ IF op[c] = "checkpoint" THEN Settle(c, "ok") ELSE EndSession(c, "ending")
  /\ UNCHANGED <<keyVars, timerVars, clock, callVars, states, saveVars>>

(* The library added the playtime, or failed to. *)
Counted(c) ==
  /\ Quiet /\ at[c] = "counting"
  /\ \/ /\ playtime' = [playtime EXCEPT ![local[c].gameId] = @ + local[c].elapsed]
        /\ checkpointAt' = local[c].now
     \/ UNCHANGED <<playtime, checkpointAt>>
  /\ IF op[c] = "checkpoint" THEN Settle(c, "ok") ELSE EndSession(c, "ending")
  /\ UNCHANGED <<keyVars, autosaveTimer, playtimeTimer, intervals, clock,
                 callVars, states, saveVars>>

Ended(c) ==
  /\ at[c] = "ending" /\ phase[c] = "returned"
  /\ UNCHANGED callVars
  /\ \/ /\ outcome[c] = "error"
        /\ Settle(c, "error")
        /\ UNCHANGED <<keyVars, checkpointAt>>
     \/ /\ outcome[c] = "ok"
        /\ activeSaveKey' = NoGame /\ activeGameId' = NoGame
        /\ checkpointAt' = NoCheckpoint
        /\ IF op[c] = "launch" THEN NewController(c)
           ELSE Settle(c, "ok") /\ UNCHANGED <<activePlugin, controller>>
  /\ UNCHANGED <<autosaveTimer, playtimeTimer, intervals, clock, diskVars, saveVars>>

(* loadCartridgeSave answered, or threw. *)
ReadSave(c) ==
  /\ Quiet /\ at[c] = "reading" /\ op[c] = "launch"
  /\ \/ /\ SetKeys(args[c].game, IF Library(c) THEN args[c].game ELSE NoGame)
        /\ Launch(c, controller, activePlugin)
        /\ GoTo(c, "launching")
        /\ UNCHANGED <<local, timerVars>>
     \/ /\ ClearTimers
        /\ SetKeys(NoGame, NoGame)
        /\ Settle(c, "error")
  /\ UNCHANGED <<clock, callVars, diskVars, saveVars>>

ReadState(c) ==
  /\ Quiet /\ at[c] = "reading" /\ op[c] = "restore"
  /\ \/ /\ \E slot \in Slots : states[<<slot, local[c].gameId>>] # NoSession
        /\ Ask(c, controller, "restore-save-state")
        /\ GoTo(c, "asking")
        /\ UNCHANGED local
     \/ Settle(c, "error")
  /\ UNCHANGED <<keyVars, timerVars, clock, callVars, diskVars, saveVars>>

(* The session plays: the intervals are set. *)
Arm(c) ==
  /\ IF Library(c)
     THEN /\ checkpointAt' = clock
          /\ playtimeTimer' = c
     ELSE UNCHANGED <<checkpointAt, playtimeTimer>>
  /\ autosaveTimer' = IF Autosave(c) THEN c ELSE autosaveTimer
  /\ intervals' = intervals
       \union (IF Library(c) THEN {<<"checkpoint", c>>} ELSE {})
       \union (IF Autosave(c) THEN {<<"autosave", c>>} ELSE {})
  /\ Settle(c, "ok")
  /\ UNCHANGED keyVars

(* Mutant: a launch that failed leaves its keys behind. *)
LaunchedKeepsKeys(c) ==
  /\ at[c] = "launching" /\ phase[c] = "returned"
  /\ IF outcome[c] = "ok" THEN Arm(c)
     ELSE ClearTimers /\ Settle(c, "error") /\ UNCHANGED keyVars
  /\ UNCHANGED <<clock, callVars, diskVars, saveVars>>

Launched(c) ==
  /\ at[c] = "launching" /\ phase[c] = "returned"
  /\ \/ /\ outcome[c] = "ok" /\ Restore(c)
        /\ Ask(c, controller, "restore-save-state")
        /\ GoTo(c, "restoring")
        /\ UNCHANGED <<local, keyVars, timerVars>>
     \/ /\ outcome[c] = "ok" /\ ~Restore(c)
        /\ Arm(c)
     \/ /\ outcome[c] = "error"
        /\ ClearTimers
        /\ SetKeys(NoGame, NoGame)
        /\ Settle(c, "error")
  /\ UNCHANGED <<clock, callVars, diskVars, saveVars>>

Restored(c) ==
  /\ at[c] = "restoring" /\ phase[c] = "returned"
  /\ \/ outcome[c] = "ok" /\ Arm(c)
     \/ /\ outcome[c] = "error"
        /\ EndSession(c, "undoing")
        /\ UNCHANGED <<keyVars, timerVars>>
  /\ UNCHANGED <<clock, callVars, diskVars, saveVars>>

(* The launch is undone; what the stop returned is not looked at. *)
Undone(c) ==
  /\ at[c] = "undoing" /\ phase[c] = "returned"
  /\ SetKeys(NoGame, NoGame)
  /\ Settle(c, "error")
  /\ UNCHANGED <<timerVars, clock, callVars, diskVars, saveVars>>

Asked(c) ==
  /\ at[c] = "asking" /\ phase[c] = "returned"
  /\ Settle(c, outcome[c])
  /\ UNCHANGED <<keyVars, timerVars, clock, callVars, diskVars, saveVars>>
-----------------------------------------------------------------------------
(* Battery saves.                                                          *)

hostVars == <<keyVars, timerVars, clock, callVars, at, result, local, diskVars>>

Persist(s) ==
  /\ Saves!Accept(activeSaveKey)
  /\ payload' = [payload EXCEPT ![saveIssued + 1] =
                    [session |-> s, version |-> battery[s]]]

(* Mutant: the write is started and not awaited. *)
ExportWithoutWaiting(c) ==
  /\ phase[c] = "exporting"
  /\ IF activeSaveKey # NoGame THEN Persist(request[c].session) /\ UNCHANGED awaited
     ELSE UNCHANGED saveVars
  /\ SavePersisted(c)
  /\ UNCHANGED hostVars

(* onCartridgeSave for the save a stop brought home: it is written under   *)
(* the key that is active now, or dropped when there is none.              *)
Export(c) ==
  /\ phase[c] = "exporting"
  /\ \/ /\ activeSaveKey # NoGame
        /\ Persist(request[c].session)
        /\ awaited' = [awaited EXCEPT ![c] = saveIssued + 1]
        /\ To(c, "persisting")
        /\ UNCHANGED <<sessionVars, held, ctlStatus, on>>
     \/ /\ activeSaveKey = NoGame
        /\ SavePersisted(c)
        /\ UNCHANGED saveVars
  /\ UNCHANGED hostVars

(* onCartridgeSave for a periodic flush: nobody waits for it.  The bound   *)
(* leaves room for the save of each stop.                                  *)
Flush(s) ==
  /\ Quiet /\ MayEmitSave(s) /\ Subscribed(s)
  /\ activeSaveKey # NoGame
  /\ saveIssued + Cardinality(Calls) < MaxWrites
  /\ Persist(s)
  /\ UNCHANGED <<awaited, sessionVars, controllerVars, hostVars>>

Waiters(w) == {c \in Calls : phase[c] = "persisting" /\ awaited[c] = w}

(* The store replaces a save; it settles a call, and the stop that waits   *)
(* for it goes on.                                                         *)
StoreStep(w) ==
  /\ Quiet
  /\ \/ Saves!Commit(w) /\ UNCHANGED <<sessionVars, controllerVars>>
     \/ /\ Saves!Acknowledge(w)
        /\ IF Waiters(w) = {} THEN UNCHANGED <<sessionVars, controllerVars>>
           ELSE \E c \in Waiters(w) : SavePersisted(c)
     \/ /\ Saves!Refuse(w)
        /\ IF Waiters(w) = {} THEN UNCHANGED <<sessionVars, controllerVars>>
           ELSE \E c \in Waiters(w) : SaveRejected(c)
  /\ UNCHANGED <<payload, awaited, hostVars>>
-----------------------------------------------------------------------------
(* A core accepts the ROMs of its own console only. *)
ThreadStep(s) ==
  /\ Quiet /\ WorkerStep(s)
  /\ loaded'[s] /\ ~loaded[s] => core[s] = CoreOf[GameOf(s)]
  /\ battery'[s] <= caller.versions
  /\ UNCHANGED <<controllerVars, hostVars, saveVars>>

ControllerStep(c) == Continue(c) /\ UNCHANGED <<hostVars, saveVars>>

Advance ==
  /\ Quiet /\ clock < caller.time
  /\ clock' = clock + 1
  /\ UNCHANGED <<sessionVars, controllerVars, keyVars, timerVars, callVars, at,
                 result, local, diskVars, saveVars>>

Call(c) ==
  \/ BeginStop(c)
  \/ \E g \in caller.games, m \in caller.modes : BeginLaunch(c, [game |-> g, mode |-> m])
  \/ \E kind \in {"pause", "resume"} : BeginPauseOrResume(c, kind)
  \/ BeginCapture(c)
  \/ BeginRestore(c)
  \/ BeginCheckpoint(c)

HostStep(c) ==
  \/ Captured(c)
  \/ Stored(c)
  \/ Counted(c)
  \/ Ended(c)
  \/ ReadSave(c)
  \/ ReadState(c)
  \/ Launched(c)
  \/ Restored(c)
  \/ Undone(c)
  \/ Asked(c)
  \/ Export(c)

Next ==
  \/ \E c \in Calls : Call(c) \/ HostStep(c) \/ ControllerStep(c)
  \/ \E s \in Session : ThreadStep(s) \/ Flush(s)
  \/ \E w \in Saves!Write : StoreStep(w)
  \/ Advance

(* The event loop runs what is due, threads serve their requests or end,   *)
(* and the disk answers.                                                   *)
Fairness ==
  /\ \A c \in Calls : WF_vars(HostStep(c) \/ ControllerStep(c))
  /\ \A s \in Session : WF_vars(ThreadStep(s) /\ (Serve(s) \/ WorkerExit(s)))
  /\ \A w \in Saves!Write : WF_vars(StoreStep(w))

Spec     == Init /\ [][Next]_vars
FairSpec == Spec /\ Fairness
-----------------------------------------------------------------------------
(* Properties.                                                             *)

(* The next call is made when the last has returned, and no game over a    *)
(* session of its core; the intervals tick as they like.                   *)
Sequential == "calls" \notin caller.overlapping /\ ~caller.relaunch

(* Launches overlap, with each other and with a stop, but two stops do     *)
(* not, on SameBoy alone and without an autosave to restore.  mGBA hands   *)
(* out what it has of a refused game, and so a stop may outlast a launch.  *)
AloneOnCore ==
  /\ \A g, h \in caller.games : CoreOf[g] = CoreOf[h] /\ CoreOf[g] \notin MgbaCores
  /\ "stops" \notin caller.overlapping /\ "restore" \notin caller.modes

(* Neither does the tick of the playtime overlap with a call.              *)
TimeIsAlone == {"calls", "checkpoint"} \intersect caller.overlapping = {}

Idle == \A c \in Calls : at[c] \in {"none", "done"}

(* A stop that returned ok, and whose session had a battery save to give,  *)
(* has that save on disk, unless a later session of the game replaced it.  *)
FinalSaveIsOnDisk ==
  \A c \in Calls :
    /\ op[c] = "stop" /\ result[c] = "ok" /\ request[c].answer = "save"
    => LET s == request[c].session
           p == payload[saved[GameOf(s)]]
       IN  /\ saved[GameOf(s)] # 0
           /\ p.session >= s
           /\ p.session = s => p.version = battery[s]

(* The battery save of a game comes from a session that played that game:  *)
(* a flush is written under the key that is active when it arrives.        *)
NoForeignSave ==
  \A g \in Games : saved[g] # 0 => GameOf(payload[saved[g]].session) = g

(* A save state is stored for the game of the session it was taken from.   *)
StatesBelongToTheirGame ==
  \A x \in DOMAIN states : states[x] # NoSession => GameOf(states[x]) = x[2]

(* Playtime is elapsed time: no time is counted twice.  So the time up to  *)
(* now can be shared out to the games, to each as much as was counted.     *)
SharedOut(counted, t) ==
  \E share \in [Games -> SUBSET (1..t)] :
    /\ \A g \in Games : Cardinality(share[g]) = counted[g]
    /\ \A g, h \in Games : g # h => share[g] \intersect share[h] = {}

PlaytimeWithinClock == SharedOut(playtime, clock)

(* Between calls, the keys are those of the session that plays: nothing it *)
(* saves is dropped or goes elsewhere.                                     *)
KeysNameTheSession ==
  Idle => \A s \in Session :
    worker[s] = "live" => held[controller] = s /\ activeSaveKey = GameOf(s)

(* What the callers of the classes above are promised.                     *)
SavesGoToTheirGame   == Sequential \/ AloneOnCore => NoForeignSave
StopLeavesItsSave    == Sequential => FinalSaveIsOnDisk
KeysFollowTheSession == Sequential => KeysNameTheSession
StatesGoToTheirGame  == Sequential => StatesBelongToTheirGame
NoTimeCountsTwice    == TimeIsAlone => PlaytimeWithinClock

(* Every call of the host returns.                                         *)
EveryHostCallReturns ==
  \A c \in Calls : at[c] # "none" ~> at[c] = "done"
=============================================================================
