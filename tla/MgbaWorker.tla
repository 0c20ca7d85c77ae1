------------------------------- MODULE MgbaWorker -------------------------------
(***************************************************************************)
(* The worker thread of the mGBA core (mgba-worker.ts).  It differs from   *)
(* SameBoy's: loading a ROM resets the thread, an exception of the core is *)
(* caught and answered, rewind and fast-forward are not offered, and the   *)
(* battery RAM is posted by the clock, not when it changed.                *)
(***************************************************************************)
EXTENDS Naturals

CONSTANT SaveInterval   \* CARTRIDGE_SAVE_INTERVAL_MS, in ticks of the timer

VARIABLES hasRom, status,
          timers,    \* timeouts that are pending
          reply,     \* the answer to the last request
          saveIn     \* nextSaveAt: ticks until the battery RAM is posted

mgbaVars == <<hasRom, status, timers, reply, saveIn>>

Thread == INSTANCE EmulatorThread
          WITH Catches <- TRUE, loaded <- hasRom

TypeOK ==
  /\ hasRom \in BOOLEAN
  /\ status \in {"idle", "running", "paused", "stopped"}
  /\ timers \in {0, 1}
  /\ reply \in [kind : Thread!Kind, result : {"ok", "error"}] \union {Thread!NoAnswer}
  /\ saveIn \in 0..SaveInterval

Init ==
  /\ hasRom = FALSE /\ status = "idle" /\ timers = 0
  /\ reply = [kind |-> "none", result |-> "none"]
  /\ saveIn = 0

Reply(kind, result) == reply' = [kind |-> kind, result |-> result]

Refuse(kind) ==
  /\ Reply(kind, "error")
  /\ UNCHANGED <<hasRom, status, timers, saveIn>>

(* Everything is reset before the ROM and its save are looked at; each may *)
(* be rejected, or the core throw.                                         *)
LoadRom ==
  /\ ~hasRom /\ status = "idle"
  /\ timers' = 0 /\ status' = "idle"
  /\ \/ Reply("load-rom", "ok") /\ hasRom' = TRUE
     \/ Reply("load-rom", "error") /\ hasRom' = FALSE
  /\ UNCHANGED saveIn

(* start and resume: the next save is a whole interval away. *)
Run ==
  /\ status' = "running"
  /\ timers' = timers + 1
  /\ saveIn' = SaveInterval
  /\ UNCHANGED hasRom

Start ==
  \/ hasRom /\ status \in {"idle", "stopped"} /\ Run /\ Reply("start", "ok")
  \/ ~(hasRom /\ status \in {"idle", "stopped"}) /\ Refuse("start")

Resume ==
  \/ status = "paused" /\ Run /\ Reply("resume", "ok")
  \/ status # "paused" /\ Refuse("resume")

Pause ==
  \/ /\ status = "running"
     /\ timers' = 0
     /\ status' = "paused"
     /\ Reply("pause", "ok")
     /\ UNCHANGED <<hasRom, saveIn>>
  \/ status # "running" /\ Refuse("pause")

(* The clock and the status change before the core is asked for its save:  *)
(* the answer may be an error all the same.                                *)
Stop ==
  /\ timers' = 0
  /\ status' = "stopped"
  /\ \E result \in {"ok", "error"} : Reply("stop", result)
  /\ UNCHANGED <<hasRom, saveIn>>

State(kind) ==
  \/ /\ hasRom /\ status \in {"running", "paused"}
     /\ Reply(kind, "ok")
     /\ UNCHANGED <<hasRom, status, timers, saveIn>>
  \/ Refuse(kind)

(* Mutant: the moment of the next save is not moved on. *)
RunFrameOverdue ==
  /\ timers > 0 /\ status = "running"
  /\ saveIn' = saveIn - 1
  /\ UNCHANGED <<hasRom, status, timers, reply>>

(* runFrame: at the end of the interval the battery RAM is posted, if the  *)
(* cartridge has any.                                                      *)
RunFrame ==
  /\ timers > 0 /\ status = "running"
  /\ saveIn' = IF saveIn > 1 THEN saveIn - 1 ELSE SaveInterval
  /\ UNCHANGED <<hasRom, status, timers, reply>>

Next ==
  \/ LoadRom \/ Start \/ Pause \/ Resume \/ Stop
  \/ \E kind \in {"capture-save-state", "restore-save-state"} : State(kind)
  \/ \E kind \in {"set-rewind-active", "set-fast-forward-active"} : Refuse(kind)
  \/ RunFrame

Spec == Init /\ [][Next]_mgbaVars
-----------------------------------------------------------------------------
(* The thread keeps what EmulatorSessions assumes of it; in particular one *)
(* timer is pending while the session runs, and none at any other time,    *)
(* although exceptions are caught in the middle of a request (handle).     *)
ImplementsThread == Thread!Spec
=============================================================================
