--------------------------- MODULE SessionController ---------------------------
(***************************************************************************)
(* EmulatorSessionController (packages/emulator/src/session-lifecycle.ts): *)
(* the methods of controllers, as the host calls that run them.  Each call *)
(* is at one await of its method (`phase`); what runs between two awaits   *)
(* of another thread or of the disk is one step.  The continuations of a   *)
(* settled promise are microtasks: they run before the event loop takes    *)
(* another event, so everything else waits until the process is Quiet.     *)
(***************************************************************************)
EXTENDS EmulatorSessions

CONSTANT Controllers   \* the controllers the host may create

VARIABLES held,        \* #session of each controller
          ctlStatus,   \* #status of each controller
          phase,       \* the await each host call is at
          on,          \* the controller whose method the call runs
          outcome      \* what the method returned

controllerVars == <<held, ctlStatus, phase, on, outcome>>

ControllerStatus == Status \union {"starting", "stopping"}
Waiting == {"loading", "starting", "failing", "failExit", "stopping",
            "terminating", "persisting", "asking"}
Micro   == {"exporting", "returned"}
Phase   == {"idle", "done"} \union Waiting \union Micro
NoController == 0

ControllerTypeOK ==
  /\ SessionsTypeOK
  /\ held \in [Controllers -> Session \union {NoSession}]
  /\ ctlStatus \in [Controllers -> ControllerStatus]
  /\ phase \in [Calls -> Phase]
  /\ on \in [Calls -> Controllers \union {NoController}]
  /\ outcome \in [Calls -> {"none", "ok", "error"}]

ControllerInit ==
  /\ SessionsInit
  /\ held = [k \in Controllers |-> NoSession]
  /\ ctlStatus = [k \in Controllers |-> "idle"]
  /\ phase = [c \in Calls |-> "idle"]
  /\ on = [c \in Calls |-> NoController]
  /\ outcome = [c \in Calls |-> "none"]

(* What call c awaits has happened, or its caller is about to go on.       *)
Due(c) ==
  \/ phase[c] \in Micro
  \/ phase[c] \in {"loading", "starting", "failing", "stopping", "asking"}
     /\ Answered(c)
  \/ phase[c] \in {"failExit", "terminating"}
     /\ worker[request[c].session] = "gone"

(* A stop that is under way in the controller. *)
Stopping(d) == phase[d] \in {"stopping", "terminating", "exporting", "persisting"}

(* The microtask queue is empty. *)
Quiet == \A c \in Calls : ~Due(c)

(* The outputs of a session reach the host while a controller holds it:    *)
(* subscriptions are made and removed together with #session.              *)
Subscribed(s) == \E k \in Controllers : held[k] = s

To(c, p) == phase' = [phase EXCEPT ![c] = p] /\ UNCHANGED outcome

Return(c, result) ==
  /\ phase' = [phase EXCEPT ![c] = "returned"]
  /\ outcome' = [outcome EXCEPT ![c] = result]

SetStatus(k, st) == ctlStatus' = [ctlStatus EXCEPT ![k] = st]

(* dispose(): the session and its subscriptions are dropped. *)
Dispose(k) == held' = [held EXCEPT ![k] = NoSession]
-----------------------------------------------------------------------------
(* launch(rom, cartridgeSave)                                              *)

Enter(c, k) == on' = [on EXCEPT ![c] = k]

(* Mutant: launch does not look for an active session. *)
LaunchUnguarded(c, k, j) ==
  /\ Enter(c, k)
  /\ Open(c, j)
  /\ held' = [held EXCEPT ![k] = c]
  /\ SetStatus(k, "starting")
  /\ To(c, "loading")

Launch(c, k, j) ==
  /\ Enter(c, k)
  /\ \/ /\ held[k] # NoSession
        /\ Return(c, "error")
        /\ UNCHANGED <<sessionVars, held, ctlStatus>>
     \/ /\ held[k] = NoSession        \* createSession threw
        /\ SetStatus(k, "failed")
        /\ Return(c, "error")
        /\ UNCHANGED <<sessionVars, held>>
     \/ /\ held[k] = NoSession
        /\ Open(c, j)
        /\ held' = [held EXCEPT ![k] = c]
        /\ SetStatus(k, "starting")
        /\ To(c, "loading")

(* Mutant: a failed launch only drops the session. *)
FailLaunchWithoutStop(c) ==
  LET k == on[c] IN
    /\ Dispose(k)
    /\ SetStatus(k, "failed")
    /\ Return(c, "error")
    /\ UNCHANGED sessionVars

(* failLaunch: whatever session the controller holds now is stopped. *)
FailLaunch(c) ==
  LET k == on[c] IN
    \/ /\ held[k] # NoSession
       /\ Post(c, held[k], "stop")
       /\ To(c, "failing")
       /\ UNCHANGED <<held, ctlStatus>>
    \/ /\ held[k] = NoSession
       /\ SetStatus(k, "failed")
       /\ Return(c, "error")
       /\ UNCHANGED <<sessionVars, held>>

Loaded(c) ==
  /\ phase[c] = "loading" /\ Answered(c)
  /\ UNCHANGED on
  /\ \/ /\ request[c].answer # "error"
        /\ Post(c, c, "start")
        /\ To(c, "starting")
        /\ UNCHANGED <<held, ctlStatus>>
     \/ /\ request[c].answer = "error"
        /\ FailLaunch(c)

Started(c) ==
  /\ phase[c] = "starting" /\ Answered(c)
  /\ UNCHANGED on
  /\ \/ /\ request[c].answer # "error"
        /\ SetStatus(on[c], status[c])
        /\ Return(c, "ok")
        /\ UNCHANGED <<sessionVars, held>>
     \/ /\ request[c].answer = "error"
        /\ FailLaunch(c)

(* The rest of session.stop() in failLaunch: SameBoy ends its thread after *)
(* an ok, mGBA in every case.                                              *)
EndsThread(c) ==
  request[c].answer # "error" \/ IsMgba(request[c].session)

FailLaunchAnswered(c) ==
  /\ phase[c] = "failing" /\ Answered(c)
  /\ UNCHANGED on
  /\ \/ /\ EndsThread(c)
        /\ Terminate(request[c].session)
        /\ To(c, "failExit")
        /\ UNCHANGED <<core, status, loaded, battery, inbox, request,
                       held, ctlStatus>>
     \/ /\ ~EndsThread(c)
        /\ Dispose(on[c])
        /\ SetStatus(on[c], "failed")
        /\ Return(c, "error")
        /\ UNCHANGED sessionVars

FailLaunchExited(c) ==
  /\ phase[c] = "failExit" /\ worker[request[c].session] = "gone"
  /\ Dispose(on[c])
  /\ SetStatus(on[c], "failed")
  /\ Return(c, "error")
  /\ UNCHANGED <<sessionVars, on>>
-----------------------------------------------------------------------------
(* stop()                                                                  *)

Stop(c, k) ==
  /\ Enter(c, k)
  /\ \/ /\ held[k] = NoSession
        /\ Return(c, "error")
        /\ UNCHANGED <<sessionVars, held, ctlStatus>>
     \/ /\ held[k] # NoSession
        /\ SetStatus(k, "stopping")
        /\ Post(c, held[k], "stop")
        /\ To(c, "stopping")
        /\ UNCHANGED held

(* The result of session.stop() was an error: the session is kept. *)
StopFailed(c) ==
  /\ SetStatus(on[c], status[request[c].session])
  /\ Return(c, "error")
  /\ UNCHANGED <<sessionVars, held>>

(* The session is released. *)
Stopped(c) ==
  /\ Dispose(on[c])
  /\ SetStatus(on[c], "stopped")
  /\ Return(c, "ok")

(* Mutant: nothing is done about an error of SameBoy's stop. *)
StopAnsweredOnlyOk(c) ==
  /\ phase[c] = "stopping" /\ Answered(c) /\ EndsThread(c)
  /\ Terminate(request[c].session)
  /\ To(c, "terminating")
  /\ UNCHANGED <<core, status, loaded, battery, inbox, request,
                 held, ctlStatus, on>>

StopAnswered(c) ==
  /\ phase[c] = "stopping" /\ Answered(c)
  /\ UNCHANGED on
  /\ \/ /\ EndsThread(c)
        /\ Terminate(request[c].session)
        /\ To(c, "terminating")
        /\ UNCHANGED <<core, status, loaded, battery, inbox, request,
                       held, ctlStatus>>
     \/ ~EndsThread(c) /\ StopFailed(c)

(* Mutant: the session is released before its save is exported. *)
StopExitedAtOnce(c) ==
  /\ phase[c] = "terminating" /\ worker[request[c].session] = "gone"
  /\ UNCHANGED <<sessionVars, on>>
  /\ Stopped(c)

StopExited(c) ==
  /\ phase[c] = "terminating" /\ worker[request[c].session] = "gone"
  /\ UNCHANGED on
  /\ \/ /\ request[c].answer = "error"
        /\ StopFailed(c)
     \/ /\ request[c].answer = "save"
        /\ To(c, "exporting")
        /\ UNCHANGED <<sessionVars, held, ctlStatus>>
     \/ /\ request[c].answer = "ok"
        /\ Stopped(c)
        /\ UNCHANGED sessionVars

(* onCartridgeSave of the host fulfilled, or rejected, its promise.  After *)
(* a rejection the session is not released.                                *)
SavePersisted(c) ==
  /\ Stopped(c)
  /\ UNCHANGED <<sessionVars, on>>

SaveRejected(c) ==
  /\ SetStatus(on[c], "failed")
  /\ Return(c, "error")
  /\ UNCHANGED <<sessionVars, held, on>>
-----------------------------------------------------------------------------
(* pause, resume, captureSaveState, restoreSaveState: one request.         *)

Ask(c, k, kind) ==
  /\ Enter(c, k)
  /\ \/ /\ held[k] = NoSession
        /\ Return(c, "error")
        /\ UNCHANGED <<sessionVars, held, ctlStatus>>
     \/ /\ held[k] # NoSession
        /\ Post(c, held[k], kind)
        /\ To(c, "asking")
        /\ UNCHANGED <<held, ctlStatus>>

AskAnswered(c) ==
  /\ phase[c] = "asking" /\ Answered(c)
  /\ \/ /\ request[c].answer = "error"
        /\ Return(c, "error")
        /\ UNCHANGED ctlStatus
     \/ /\ request[c].answer # "error"
        /\ Return(c, "ok")
        /\ IF request[c].kind \in {"pause", "resume"}
           THEN SetStatus(on[c], status[request[c].session])
           ELSE UNCHANGED ctlStatus
  /\ UNCHANGED <<sessionVars, held, on>>

(* The continuations of a controller's methods after an await. *)
Continue(c) ==
  \/ Loaded(c)
  \/ Started(c)
  \/ FailLaunchAnswered(c)
  \/ FailLaunchExited(c)
  \/ StopAnswered(c)
  \/ StopExited(c)
  \/ AskAnswered(c)
=============================================================================
