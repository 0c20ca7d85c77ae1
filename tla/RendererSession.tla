---------------------------- MODULE RendererSession ----------------------------
(***************************************************************************)
(* The part of renderer.tsx that plays a game: what the player does with   *)
(* keyboard, gamepad and mouse, the handlers, the poll that runs at every  *)
(* animation frame, and the asynchronous functions launchGame and          *)
(* runAction, which go on when the main process answers.  Every handler    *)
(* runs to its end, or to its next await.  Calls reach the session in the  *)
(* order they are made and are answered in that order, but for a stop,     *)
(* which stores an autosave first; listing the library or the save states  *)
(* takes any time.                                                         *)
(*                                                                         *)
(* A state and the ref that follows it (status and statusRef) are one      *)
(* variable.  Names of keys and buttons stand for what the profile binds   *)
(* to them.                                                                *)
(***************************************************************************)
EXTENDS Naturals, Sequences, FiniteSets, FiniteSetsExt

CONSTANTS Commands,   \* held commands of the core: "rewind", "fast-forward"
          MaxGestures,  \* bound: what the player does in a behaviour
          MaxActions,    \* bound: runActions under way at once
          MaxCalls    \* bound: calls that wait for the main process

ASSUME RendererAssumption ==
  /\ Commands \subseteq {"rewind", "fast-forward"}
  /\ MaxGestures \in Nat /\ MaxActions \in Nat \ {0} /\ MaxCalls \in Nat \ {0}

VARIABLES keys, connected, buttons,   \* what the player holds
          device,       \* the device of the input profile
          keyboard,     \* #pressed of the KeyboardInputAdapter
          ui,           \* states and refs of ProductApp
          launching,    \* where launchGame, or refreshLibrary, waits
          calls,        \* calls the main process has not handled
          answers,      \* answers the renderer has not seen
          session,      \* the emulator session behind them
          gestures      \* what the player has done so far, up to a bound

playerVars   == <<keys, connected, buttons>>
rendererVars == <<playerVars, device, keyboard, ui, launching, calls, answers, session, gestures>>

Order   == <<"rewind", "fast-forward">>      \* as runAction releases them
GameKeys    == {"action"}
GameButtons == {"primary", "secondary"}
Keys    == Commands \union GameKeys
Buttons == Commands \union GameButtons \union {"menu"}
Actions == GameKeys \union GameButtons

Nobody == 0                \* the caller does not wait
Launch == MaxActions + 1      \* launchGame waits
Callers == 0..(MaxActions + 1)

Idle == [action |-> "none", at |-> "idle", exit |-> FALSE]
Runs == [action : {"none", "pause", "resume", "stop"},
         at : {"idle", "rewind", "fast-forward", "asked", "listing"}, exit : BOOLEAN]
Operations == Commands \union
  {"start", "pause", "resume", "stop", "final-stop", "set-input"}

RendererTypeOK ==
  /\ keys \subseteq Keys /\ buttons \subseteq Buttons /\ connected \in BOOLEAN
  /\ device \in {"keyboard", "gamepad"}
  /\ keyboard \subseteq GameKeys
  /\ ui \in [status : {"ready", "starting", "running", "paused", "stopped", "error"},
             exitOpen : BOOLEAN, exitWasRunning : BOOLEAN,
             ref : [Commands -> BOOLEAN],
             menu : BOOLEAN, pressed : SUBSET Buttons, sent : SUBSET Actions,
             runs : [1..MaxActions -> Runs]]
  /\ launching \in {"idle", "audio", "starting", "refresh", "configure", "retry"}
  /\ \A i \in DOMAIN calls : /\ calls[i].op \in Operations
                             /\ calls[i].by \in Callers
  /\ \A i \in DOMAIN answers : /\ answers[i].by \in Callers \ {Nobody}
                               /\ answers[i].ok \in BOOLEAN
  /\ session \in [status : {"none", "running", "paused", "failed"},
                  active : [Commands -> BOOLEAN], input : SUBSET Actions]

Nothing == [c \in Commands |-> FALSE]

RendererInit ==
  /\ keys = {} /\ buttons = {} /\ connected \in BOOLEAN
  /\ device \in {"keyboard", "gamepad"}
  /\ keyboard = {}
  /\ ui = [status |-> "ready", exitOpen |-> FALSE, exitWasRunning |-> FALSE,
           ref |-> Nothing, menu |-> FALSE, pressed |-> {}, sent |-> {},
           runs |-> [i \in 1..MaxActions |-> Idle]]
  /\ launching = "idle"
  /\ calls = <<>> /\ answers = <<>>
  /\ session = [status |-> "none", active |-> Nothing, input |-> {}]
  /\ gestures = 0

InSession(u)   == u.status \in {"running", "paused"}
LibraryShown(u) == u.status \in {"ready", "stopped", "error"}

-------------------------------------------------------------------------------
(* What a handler does to the renderer and the calls it makes: an effect   *)
(* is a pair of the state of ProductApp and the calls made so far.         *)

Effect(u, made) == [ui |-> u, made |-> made]
Call(e, op, arg, by) == [e EXCEPT !.made = Append(@, [op |-> op, arg |-> arg, by |-> by])]

SetCommand(e, c, on, by) == Call([e EXCEPT !.ui.ref[c] = on], c, on, by)

Free(u) == {i \in 1..MaxActions : u.runs[i].at = "idle"}

(* runAction from where it waits: it releases the commands it finds on     *)
(* that come after the one it has released, then asks for the action.      *)
Proceed(e, i, from) ==
  LET on == {k \in from..2 : Order[k] \in Commands /\ e.ui.ref[Order[k]]}
  IN IF e.ui.runs[i].action # "resume" /\ on # {}
     THEN LET c == Order[Min(on)]
          IN SetCommand([e EXCEPT !.ui.runs[i].at = c], c, FALSE, i)
     ELSE Call([e EXCEPT !.ui.runs[i].at = "asked"], e.ui.runs[i].action, TRUE, i)

RunAction(e, action, exit) ==
  LET i == Min(Free(e.ui))
  IN Proceed([e EXCEPT !.ui.runs[i] = [action |-> action, at |-> "idle", exit |-> exit]], i, 1)

Toggle(e) == RunAction(e, IF e.ui.status = "paused" THEN "resume" ELSE "pause", FALSE)

RequestSessionExit(e) ==
  LET f == [e EXCEPT !.ui.exitWasRunning = (e.ui.status = "running")]
  IN IF e.ui.status = "running" THEN RunAction(f, "pause", TRUE) ELSE [f EXCEPT !.ui.exitOpen = TRUE]

CancelSessionExit(e) ==
  LET f == [e EXCEPT !.ui.exitOpen = FALSE]
  IN IF e.ui.exitWasRunning THEN RunAction(f, "resume", FALSE) ELSE f

ConfirmSessionExit(e) == RunAction([e EXCEPT !.ui.exitOpen = FALSE], "stop", FALSE)

Now == Effect(ui, <<>>)

(* The handler ends: its calls are made.                                   *)
Post(e) ==
  /\ Len(calls) + Len(e.made) <= MaxCalls
  /\ ui' = e.ui
  /\ calls' = calls \o e.made
  /\ UNCHANGED <<answers, session>>

-------------------------------------------------------------------------------
(* Keyboard: handleKeyboard; a key that is held repeats its keydown.       *)

Key(k, down) ==
  IF ~InSession(ui) THEN Now
  ELSE IF k \in Commands /\ ui.ref[k] # down /\ ui.status = "running"
       THEN SetCommand(Now, k, down, Nobody)
       ELSE Now

(* KeyboardInputAdapter.handle: what is held of the keys that are bound.   *)
Adapted(k, down) ==
  IF ~InSession(ui) \/ k \notin GameKeys THEN keyboard
  ELSE IF down THEN keyboard \union {k} ELSE keyboard \ {k}

KeyDown(k) ==
  /\ keys' = keys \union {k}
  /\ keyboard' = Adapted(k, TRUE)
  /\ Post(Key(k, TRUE))
  /\ UNCHANGED <<connected, buttons, device, launching>>

KeyUp(k) ==
  /\ k \in keys
  /\ keys' = keys \ {k}
  /\ keyboard' = Adapted(k, FALSE)
  /\ Post(Key(k, FALSE))
  /\ UNCHANGED <<connected, buttons, device, launching>>

Escape ==
  /\ InSession(ui) /\ Free(ui) # {}
  /\ Post(IF ui.exitOpen THEN CancelSessionExit(Now) ELSE Toggle(Now))
  /\ UNCHANGED <<playerVars, device, keyboard, launching>>

(* The window loses the focus: keys go up unseen, the adapters are reset.  *)
Blur ==
  /\ keys' = {}
  /\ keyboard' = {}
  /\ UNCHANGED <<connected, buttons, device, ui, launching, calls, answers, session>>

(* The buttons of the gamepad are seen when they are polled.               *)
Hold ==
  /\ \/ /\ connected
        /\ \E b \in Buttons :
             buttons' = IF b \in buttons THEN buttons \ {b} ELSE buttons \union {b}
        /\ UNCHANGED connected
     \/ /\ connected' = ~connected
        /\ buttons' = {}
  /\ UNCHANGED <<keys, device, keyboard, ui, launching, calls, answers, session>>

(* The mouse; the dialog covers the screen of a session.                   *)
Click ==
  /\ ui.status \in {"starting", "running", "paused"} /\ Free(ui) # {}
  /\ \/ Post(RequestSessionExit(Now))
     \/ InSession(ui) /\ Post(Toggle(Now))
     \/ ui.exitOpen /\ Post(CancelSessionExit(Now))
     \/ ui.exitOpen /\ Post(ConfirmSessionExit(Now))
  /\ UNCHANGED <<playerVars, device, keyboard, launching>>

(* persistProfile with another device.                                     *)
ChangeDevice ==
  /\ LibraryShown(ui)
  /\ device' \in {"keyboard", "gamepad"} \ {device}
  /\ keyboard' = {}
  /\ UNCHANGED <<playerVars, ui, launching, calls, answers, session>>

-------------------------------------------------------------------------------
(* The poll of an animation frame: devices, then the menu button, the held *)
(* commands, the buttons of the pause screen, and what the game gets.      *)

SelectedGamepad == device = "gamepad" /\ connected
SessionButtons  == IF SelectedGamepad THEN buttons ELSE {}

(* reconcile and resolveDeviceId of the one player's assignments: the      *)
(* device that the profile prefers, when it is among those discovered.     *)
ResolvedDevice == IF device = "gamepad" /\ ~connected THEN "none" ELSE device

(* GamepadInputAdapter.readActions: the buttons that are bound to actions. *)
GamepadActions == buttons \intersect GameButtons

(* mapPlayerActions: without a resolved device the player has no actions.  *)
Mapped ==
  CASE ResolvedDevice = "keyboard" -> keyboard
    [] ResolvedDevice = "gamepad"  -> GamepadActions
    [] OTHER                       -> {}

MenuPressed == InSession(ui) /\ "menu" \in SessionButtons /\ ~ui.menu /\ ~ui.exitOpen

MatchCommand(e, c) ==
  LET held == c \in SessionButtons
  IN IF c \in Commands /\ e.ui.status = "running" /\ held # e.ui.ref[c]
     THEN SetCommand(e, c, held, Nobody)
     ELSE e

Pressed(b) == b \in SessionButtons \ ui.pressed

(* The pause screen answers to primary and secondary.                      *)
PauseScreen(e) ==
  IF ui.exitOpen
  THEN IF Pressed("primary") THEN CancelSessionExit(e) ELSE ConfirmSessionExit(e)
  ELSE IF Pressed("primary") THEN RunAction(e, "resume", FALSE) ELSE RequestSessionExit(e)
Chosen == ui.status = "paused" /\ (Pressed("primary") \/ Pressed("secondary"))

SendInput(e) ==
  IF Mapped # ui.sent /\ InSession(ui)
  THEN Call([e EXCEPT !.ui.sent = Mapped], "set-input", Mapped, Nobody)
  ELSE e

Poll ==
  LET seen    == Effect([ui EXCEPT !.menu = "menu" \in SessionButtons,
                                   !.pressed = SessionButtons], <<>>)
      toggled == IF MenuPressed THEN Toggle(seen) ELSE seen
      matched == MatchCommand(MatchCommand(toggled, Order[1]), Order[2])
      chosen  == IF Chosen THEN PauseScreen(matched) ELSE matched
  IN /\ Cardinality(Free(ui)) >= Cardinality({x \in {"menu", "choice"} :
            IF x = "menu" THEN MenuPressed ELSE Chosen})
     /\ Post(SendInput(chosen))
     /\ UNCHANGED <<playerVars, device, keyboard, launching>>

-------------------------------------------------------------------------------
(* The main process, the controller and the worker thread behind it.       *)

\* Mutant: the clock stops and the commands stay on.
StopTimer(s) == s

(* stopClock of the worker: a pause ends the commands that are held.       *)
StopClockOf(s) == [s EXCEPT !.active = Nothing]

Refused(s)  == {[session |-> s, ok |-> FALSE]}
Accepted(s) == {[session |-> s, ok |-> TRUE]}

(* setRewindActive and setFastForwardActive: each ends the other.          *)
SpeedOf(s, c, on) == [d \in Commands |-> IF d = c THEN on ELSE s.active[d] /\ ~on]

(* What a call may do to the session, and whether the answer is ok.        *)
Outcomes(s, call) ==
  LET inSession == s.status \in {"running", "paused"}
  IN CASE call.op = "start" /\ s.status = "none" ->
            Refused(s) \union
            Accepted([status |-> "running", active |-> Nothing, input |-> {}])
       [] call.op = "pause" /\ s.status = "running" ->
            Accepted([StopClockOf(s) EXCEPT !.status = "paused"])
       [] call.op = "resume" /\ s.status = "paused" ->
            Accepted([s EXCEPT !.status = "running"])
       [] call.op = "final-stop" /\ inSession ->
            Accepted([s EXCEPT !.status = "none"]) \union Refused([s EXCEPT !.status = "failed"])
       [] call.op \in Commands /\ s.status = "running" ->
            Accepted([s EXCEPT !.active = SpeedOf(s, call.op, call.arg)])
       [] call.op = "set-input" /\ inSession ->
            Accepted([s EXCEPT !.input = call.arg])
       [] OTHER -> Refused(s)

Main ==
  /\ calls # <<>>
  /\ LET call == Head(calls)
     IN IF call.op = "stop"
        THEN /\ calls' = Append(Tail(calls), [call EXCEPT !.op = "final-stop"])
             /\ UNCHANGED <<answers, session>>
        ELSE /\ calls' = Tail(calls)
             /\ \E o \in Outcomes(session, call) :
                  /\ session' = o.session
                  /\ answers' = IF call.by = Nobody THEN answers
                                ELSE Append(answers, [by |-> call.by, ok |-> o.ok,
                                                      status |-> o.session.status])
  /\ UNCHANGED <<playerVars, device, keyboard, ui, launching>>

-------------------------------------------------------------------------------
(* The asynchronous functions go on.                                       *)

(* runAction when an answer arrives; one that fails is shown as an error.  *)
Answered(i, answer) ==
  LET run == ui.runs[i]
      end(u) == [u EXCEPT !.runs[i] = Idle]
  IN CASE run.at = "rewind"       -> Proceed(Now, i, 2)
       [] run.at = "fast-forward" -> Proceed(Now, i, 3)
       [] run.at = "asked" /\ ~answer.ok ->
            Effect(end([ui EXCEPT !.status = "error", !.exitOpen = @ \/ run.exit]), <<>>)
       [] run.at = "asked" /\ answer.ok ->
            LET u == [ui EXCEPT !.status = IF answer.status = "none" THEN "stopped"
                                           ELSE answer.status]
            IN Effect(IF run.action = "pause" THEN [u EXCEPT !.runs[i].at = "listing"]
                      ELSE end(u), <<>>)

AnswerArrives ==
  /\ answers # <<>>
  /\ answers' = Tail(answers)
  /\ LET answer == Head(answers)
     IN IF answer.by = Launch
        THEN /\ \E status \in IF answer.ok THEN {"running"} ELSE {"error", "ready"} :
                  ui' = [ui EXCEPT !.status = status]
             /\ launching' = IF answer.ok THEN "refresh" ELSE "idle"
             /\ UNCHANGED calls
        ELSE LET e == Answered(answer.by, answer)
             IN /\ ui' = e.ui /\ calls' = calls \o e.made
                /\ UNCHANGED launching
  /\ UNCHANGED <<playerVars, device, keyboard, session>>

\* Mutant: the status is set when the save states are listed, not before.
ListedAsPaused ==
  /\ \E i \in 1..MaxActions :
       /\ ui.runs[i].at = "listing"
       /\ ui' = [ui EXCEPT !.exitOpen = @ \/ ui.runs[i].exit, !.runs[i] = Idle,
                           !.status = "paused"]
  /\ UNCHANGED <<playerVars, device, keyboard, launching, calls, answers, session>>

(* runAction has listed the save states after a pause.                     *)
Listed ==
  /\ \E i \in 1..MaxActions :
       /\ ui.runs[i].at = "listing"
       /\ ui' = [ui EXCEPT !.exitOpen = @ \/ ui.runs[i].exit, !.runs[i] = Idle]
  /\ UNCHANGED <<playerVars, device, keyboard, launching, calls, answers, session>>

(* launchGame, from the library or from the choice of an autosave.         *)
LaunchGame ==
  /\ LibraryShown(ui) /\ launching = "idle"
  /\ launching' = "audio"
  /\ UNCHANGED <<playerVars, device, keyboard, ui, calls, answers, session>>

AudioStarted ==
  /\ launching = "audio"
  /\ launching' = "starting"
  /\ Post(Call(Effect([ui EXCEPT !.status = "starting"], <<>>), "start", TRUE, Launch))
  /\ UNCHANGED <<playerVars, device, keyboard>>

(* refreshLibrary, in launchGame or when the player tries again.           *)
Retry ==
  /\ ui.status = "error" /\ launching = "idle"
  /\ launching' = "retry"
  /\ UNCHANGED <<playerVars, device, keyboard, ui, calls, answers, session>>

Refreshed ==
  /\ launching \in {"refresh", "retry"}
  /\ \E status \in {"ready", "error"} : ui' = [ui EXCEPT !.status = status]
  /\ launching' = IF launching = "refresh" THEN "configure" ELSE "idle"
  /\ UNCHANGED <<playerVars, device, keyboard, calls, answers, session>>

(* The capabilities, then the input configuration of the game have come.   *)
Configured ==
  /\ launching = "configure"
  /\ keyboard' = {}
  /\ ui' = [ui EXCEPT !.status = "running"]
  /\ launching' = "idle"
  /\ UNCHANGED <<playerVars, device, calls, answers, session>>

-------------------------------------------------------------------------------
Gesture ==
  /\ gestures < MaxGestures
  /\ gestures' = gestures + 1
  /\ \/ \E k \in Keys : KeyDown(k) \/ KeyUp(k)
     \/ Escape \/ Blur \/ Hold \/ Click \/ ChangeDevice \/ LaunchGame \/ Retry

RendererNext ==
  \/ Gesture
  \/ /\ \/ Poll
        \/ Main
        \/ AnswerArrives \/ Listed
        \/ AudioStarted \/ Refreshed \/ Configured
     /\ UNCHANGED gestures

RendererSpec == RendererInit /\ [][RendererNext]_rendererVars

-------------------------------------------------------------------------------
Quiet == /\ calls = <<>> /\ answers = <<>>
         /\ \A i \in 1..MaxActions : ui.runs[i].at = "idle"

(* A rewind or fast-forward that goes on in the session is one the poll    *)
(* knows to be on, so that the next frame ends it unless it is held:       *)
(* releases that were refused, seen by nobody, or overtaken by a pause, a  *)
(* launch or a lost focus leave the session at its normal speed.           *)
NoStuckCommand ==
  Quiet /\ ui.status = "running" /\ session.status = "running" =>
    \A c \in Commands : session.active[c] => ui.ref[c]

(* A game shown as paused, with or without the dialog that asks whether to *)
(* leave it, is not running.                                               *)
PausedIsPaused ==
  Quiet /\ ui.status = "paused" => session.status = "paused"

(* Rewind and fast-forward are hold actions: while nothing is paused, the  *)
(* renderer ends one only when its key and its button are up.              *)
HeldUntilReleased ==
  [][\A c \in Commands :
       ui.ref[c] /\ ~ui'.ref[c] /\ ui'.status = "running"
       /\ (\A i \in 1..MaxActions : ui'.runs[i].at = "idle")
       => c \notin keys' \union buttons']_rendererVars
=============================================================================
