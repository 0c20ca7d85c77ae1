---------------------------- MODULE EmulatorThread ----------------------------
(***************************************************************************)
(* What the worker thread of an emulator core promises the session object  *)
(* that posts its requests, and what EmulatorSessions assumes of it: it    *)
(* answers one request after the other, start, pause, resume and stop are  *)
(* accepted in the states the SDK allows, a refused request changes        *)
(* nothing, and frames run, one timer at a time, while the session is      *)
(* running and at no other time.                                           *)
(***************************************************************************)
EXTENDS Naturals

CONSTANT Catches   \* exceptions of the core are caught and answered (mGBA)

VARIABLES loaded,   \* a ROM was accepted (hasRom)
          status,   \* the status sent with every answer
          timers,   \* timeouts that will run a frame
          reply     \* the last answer

threadVars == <<loaded, status, timers, reply>>

Kind == {"load-rom", "start", "pause", "resume", "stop",
         "capture-save-state", "restore-save-state",
         "set-rewind-active", "set-fast-forward-active"}

Answer(kind, result) == [kind |-> kind, result |-> result]
NoAnswer == Answer("none", "none")

TypeOK ==
  /\ loaded \in BOOLEAN
  /\ status \in {"idle", "running", "paused", "stopped"}
  /\ timers \in {0, 1}
  /\ reply \in [kind : Kind, result : {"ok", "error"}] \union {NoAnswer}

Init ==
  /\ loaded = FALSE
  /\ status = "idle"
  /\ timers = 0
  /\ reply = NoAnswer

(* The statuses from which a request leads to `to`. *)
From(kind) ==
  CASE kind = "start"  -> {"idle", "stopped"}
    [] kind = "pause"  -> {"running"}
    [] kind = "resume" -> {"paused"}
    [] kind = "stop"   -> {"idle", "running", "paused", "stopped"}
To(kind) ==
  CASE kind = "start"  -> "running"
    [] kind = "pause"  -> "paused"
    [] kind = "resume" -> "running"
    [] kind = "stop"   -> "stopped"

Refuse(kind) ==
  /\ reply' = Answer(kind, "error")
  /\ UNCHANGED <<loaded, status, timers>>

(* The first request of a session. *)
Load ==
  /\ ~loaded /\ status = "idle"
  /\ \/ /\ reply' = Answer("load-rom", "ok")
        /\ loaded' = TRUE
        /\ UNCHANGED <<status, timers>>
     \/ Refuse("load-rom")

(* start, pause, resume and stop. *)
Transition(kind) ==
  \/ /\ status \in From(kind)
     /\ kind = "start" => loaded
     /\ status' = To(kind)
     /\ timers' = IF status' = "running" THEN 1 ELSE 0
     /\ \/ reply' = Answer(kind, "ok")
        \/ Catches /\ kind = "stop" /\ reply' = Answer(kind, "error")
     /\ UNCHANGED loaded
  \/ /\ status \notin From(kind) \/ (kind = "start" /\ ~loaded)
     /\ Refuse(kind)

(* Save states are of an active session. *)
State(kind) ==
  \/ /\ loaded /\ status \in {"running", "paused"}
     /\ reply' = Answer(kind, "ok")
     /\ UNCHANGED <<loaded, status, timers>>
  \/ Refuse(kind)

(* Rewind and fast-forward are of a running one. *)
Speed(kind) ==
  \/ /\ status = "running"
     /\ reply' = Answer(kind, "ok")
     /\ UNCHANGED <<loaded, status, timers>>
  \/ /\ status # "running" \/ Catches
     /\ Refuse(kind)

Next ==
  \/ Load
  \/ \E kind \in {"start", "pause", "resume", "stop"} : Transition(kind)
  \/ \E kind \in {"capture-save-state", "restore-save-state"} : State(kind)
  \/ \E kind \in {"set-rewind-active", "set-fast-forward-active"} : Speed(kind)

Spec == Init /\ [][Next]_threadVars
=============================================================================
