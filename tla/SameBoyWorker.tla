----------------------------- MODULE SameBoyWorker -----------------------------
(***************************************************************************)
(* The worker thread of the SameBoy core (sameboy-worker.ts, with the WASM *)
(* bridge sameboy-bridge.c under it): its requests, each handled to the    *)
(* end, and the timer that runs frames between them.  The requests are     *)
(* those a session object posts: the ROM first, then any.  When frames run *)
(* is the subject of FramePacing; an exception ends the thread, which      *)
(* EmulatorSessions models.                                                *)
(***************************************************************************)
EXTENDS Naturals, Sequences, SequencesExt

CONSTANTS CaptureInterval,  \* rewindCaptureInterval: 3
          RewindLimit,      \* rewindFrameLimit: 200, about ten seconds
          SaveInterval,     \* ticks between two looks at the battery: 60
          AudioRead,        \* frames of samples one readAudio takes: 5
          AudioBuffer,      \* frames of samples the bridge buffers: 20
          MaxFrames         \* bound: frames emulated in a behaviour

ASSUME SameBoyAssumption ==
  /\ CaptureInterval \in Nat /\ CaptureInterval >= 2
  /\ RewindLimit \in Nat \ {0}
  /\ SaveInterval \in Nat \ {0}
  /\ AudioRead \in Nat /\ AudioBuffer \in Nat
  /\ 2 <= AudioRead /\ 2 <= AudioBuffer
  /\ MaxFrames \in Nat

VARIABLES hasRom, status,
          timers,             \* timeouts that are pending
          reply,              \* the answer to the last request
          rewindStates,       \* the ring: the frame each state was captured at
          rewindActive, fastForwardActive,
          framesSinceRewindCapture,
          framesSinceSaveCheck,
          frames,             \* frames emulated since the ROM was loaded
          shown,              \* the frame whose state the core is in
          battery,            \* "none", or the battery RAM is "clean" or "dirty"
          unsaved,            \* history: ticks for which it has been dirty
          samples,            \* the speed of each buffered frame of samples
          posted              \* the speeds of the samples the last tick posted

controlVars == <<hasRom, status, timers>>
ringVars    == <<rewindStates, framesSinceRewindCapture, frames, shown>>
modeVars    == <<rewindActive, fastForwardActive>>
saveVars    == <<framesSinceSaveCheck, battery, unsaved>>
audioVars   == <<samples, posted>>
sameBoyVars == <<controlVars, reply, ringVars, modeVars, saveVars, audioVars>>

Speed == {"normal", "fast"}

Thread == INSTANCE EmulatorThread
          WITH Catches <- FALSE, loaded <- hasRom

TypeOK ==
  /\ hasRom \in BOOLEAN
  /\ status \in {"idle", "running", "paused", "stopped"}
  /\ timers \in {0, 1}
  /\ reply \in [kind : Thread!Kind, result : {"ok", "error"}] \union {Thread!NoAnswer}
  /\ rewindActive \in BOOLEAN /\ fastForwardActive \in BOOLEAN
  /\ rewindStates \in Seq(1..MaxFrames)
  /\ framesSinceRewindCapture \in 0..(CaptureInterval - 1)
  /\ framesSinceSaveCheck \in 0..(SaveInterval - 1)
  /\ frames \in 0..MaxFrames /\ shown \in 0..MaxFrames
  /\ battery \in {"none", "clean", "dirty"}
  /\ unsaved \in 0..SaveInterval
  /\ samples \in Seq(Speed) /\ posted \in Seq(Speed)

Init ==
  /\ hasRom = FALSE /\ status = "idle" /\ timers = 0
  /\ reply = [kind |-> "none", result |-> "none"]
  /\ rewindStates = <<>>
  /\ rewindActive = FALSE /\ fastForwardActive = FALSE
  /\ framesSinceRewindCapture = 0
  /\ framesSinceSaveCheck = 0
  /\ frames = 0 /\ shown = 0
  /\ battery = "none" /\ unsaved = 0
  /\ samples = <<>> /\ posted = <<>>

Reply(kind, result) == reply' = [kind |-> kind, result |-> result]

Refuse(kind) ==
  /\ Reply(kind, "error")
  /\ UNCHANGED <<controlVars, ringVars, modeVars, saveVars, audioVars>>

Active == hasRom /\ status \in {"running", "paused"}
-----------------------------------------------------------------------------
(* The requests.                                                           *)

LoadRom ==
  /\ ~hasRom /\ status = "idle"
  /\ \/ /\ Reply("load-rom", "ok")
        /\ hasRom' = TRUE
        /\ rewindActive' = FALSE /\ fastForwardActive' = FALSE
        /\ rewindStates' = <<>>
        /\ framesSinceRewindCapture' = 0
        /\ framesSinceSaveCheck' = 0
        /\ battery' \in {"none", "clean"}
        /\ samples' = <<>>
        /\ UNCHANGED <<status, timers, frames, shown, unsaved, posted>>
     \/ Refuse("load-rom")

Start ==
  \/ /\ hasRom /\ status \in {"idle", "stopped"}
     /\ Reply("start", "ok")
     /\ status' = "running"
     /\ timers' = timers + 1
     /\ UNCHANGED <<hasRom, ringVars, modeVars, saveVars, audioVars>>
  \/ /\ ~(hasRom /\ status \in {"idle", "stopped"})
     /\ Refuse("start")

(* Mutant: the flags of the two speeds outlive the clock. *)
StopClockOnly ==
  /\ timers' = 0
  /\ UNCHANGED modeVars

StopClock ==
  /\ timers' = 0
  /\ rewindActive' = FALSE
  /\ fastForwardActive' = FALSE

(* Mutant: the timer of a paused session is left to run out. *)
PauseWithoutStopClock ==
  /\ status = "running"
  /\ Reply("pause", "ok")
  /\ status' = "paused"
  /\ UNCHANGED <<timers, hasRom, modeVars, ringVars, saveVars, audioVars>>

Pause ==
  \/ /\ status = "running"
     /\ Reply("pause", "ok")
     /\ StopClock
     /\ status' = "paused"
     /\ UNCHANGED <<hasRom, ringVars, saveVars, audioVars>>
  \/ /\ status # "running"
     /\ Refuse("pause")

Resume ==
  \/ /\ status = "paused"
     /\ Reply("resume", "ok")
     /\ status' = "running"
     /\ timers' = timers + 1
     /\ UNCHANGED <<hasRom, ringVars, modeVars, saveVars, audioVars>>
  \/ /\ status # "paused"
     /\ Refuse("resume")

(* readBattery: the copy clears the dirty flag of the core. *)
BatteryRead ==
  /\ battery' = IF battery = "dirty" THEN "clean" ELSE battery
  /\ unsaved' = 0

(* The answer carries the battery RAM, if the cartridge has any. *)
Stop ==
  /\ Reply("stop", "ok")
  /\ StopClock
  /\ status' = "stopped"
  /\ IF hasRom THEN BatteryRead ELSE UNCHANGED <<battery, unsaved>>
  /\ UNCHANGED <<hasRom, ringVars, framesSinceSaveCheck, audioVars>>

CaptureSaveState ==
  \/ /\ Active
     /\ Reply("capture-save-state", "ok")
     /\ UNCHANGED <<controlVars, ringVars, modeVars, saveVars, audioVars>>
  \/ Refuse("capture-save-state")

(* A state of another moment of the game: what is shown from here on is    *)
(* newer than every state of the ring, which is kept.  The core drops the  *)
(* samples it buffered, and does not mark the battery RAM as dirty.        *)
RestoreSaveState ==
  \/ /\ Active
     /\ Reply("restore-save-state", "ok")
     /\ shown' = frames
     /\ samples' = <<>>
     /\ UNCHANGED <<controlVars, rewindStates, framesSinceRewindCapture,
                    frames, modeVars, saveVars, posted>>
  \/ Refuse("restore-save-state")

SetRewindActive(active) ==
  \/ /\ status = "running"
     /\ Reply("set-rewind-active", "ok")
     /\ rewindActive' = active
     /\ fastForwardActive' = (fastForwardActive /\ ~active)
     /\ UNCHANGED <<controlVars, ringVars, saveVars, audioVars>>
  \/ /\ status # "running"
     /\ Refuse("set-rewind-active")

SetFastForwardActive(active) ==
  \/ /\ status = "running"
     /\ Reply("set-fast-forward-active", "ok")
     /\ fastForwardActive' = active
     /\ rewindActive' = (rewindActive /\ ~active)
     /\ UNCHANGED <<controlVars, ringVars, saveVars, audioVars>>
  \/ /\ status # "running"
     /\ Refuse("set-fast-forward-active")
-----------------------------------------------------------------------------
(* runFrame: one tick of the timer.                                        *)

(* Mutant: the ring only grows. *)
TrimNever(ring) == ring

(* The oldest state makes room for the newest. *)
Trim(ring) == IF Len(ring) > RewindLimit THEN Tail(ring) ELSE ring

(* Emulate n frames; after every third one the state is put on the ring,   *)
(* if the core can give it.                                                *)
Emulate(n) ==
  LET count == framesSinceRewindCapture + n
      due   == count >= CaptureInterval
      at    == frames + CaptureInterval - framesSinceRewindCapture
  IN /\ frames + n <= MaxFrames
     /\ frames' = frames + n
     /\ shown' = frames'
     /\ framesSinceRewindCapture' = IF due THEN count - CaptureInterval ELSE count
     /\ \/ due /\ rewindStates' = Trim(Append(rewindStates, at))
        \/ UNCHANGED rewindStates

(* Mutant: the ring is emptied from the other end. *)
RewindToOldest ==
  /\ IF rewindStates = <<>>
     THEN UNCHANGED <<rewindStates, shown>>
     ELSE shown' = Head(rewindStates) /\ rewindStates' = Tail(rewindStates)
  /\ UNCHANGED <<frames, framesSinceRewindCapture>>

(* Go back to the newest state of the ring, or stay. *)
Rewind ==
  /\ IF rewindStates = <<>>
     THEN UNCHANGED <<rewindStates, shown>>
     ELSE shown' = Last(rewindStates) /\ rewindStates' = Front(rewindStates)
  /\ UNCHANGED <<frames, framesSinceRewindCapture>>

(* What the bridge buffers after n frames: the newest samples are dropped  *)
(* when the buffer is full.                                                *)
Buffered(n) ==
  LET speed == IF fastForwardActive THEN "fast" ELSE "normal"
      all   == samples \o [i \in 1..n |-> speed]
  IN SubSeq(all, 1, IF Len(all) < AudioBuffer THEN Len(all) ELSE AudioBuffer)

(* readAudio: some samples are taken in every case, but posted only when   *)
(* the game runs at its own speed.                                         *)
Drain(buffer) ==
  LET n == IF Len(buffer) < AudioRead THEN Len(buffer) ELSE AudioRead IN
    /\ samples' = SubSeq(buffer, n + 1, Len(buffer))
    /\ posted' = IF rewindActive \/ fastForwardActive
                 THEN <<>> ELSE SubSeq(buffer, 1, n)

(* The battery is looked at every SaveInterval ticks, and posted if the    *)
(* game wrote to it.                                                       *)
CheckSave(after) ==
  IF framesSinceSaveCheck + 1 >= SaveInterval
  THEN /\ framesSinceSaveCheck' = 0
       /\ battery' = IF after = "dirty" THEN "clean" ELSE after
       /\ unsaved' = 0
  ELSE /\ framesSinceSaveCheck' = framesSinceSaveCheck + 1
       /\ battery' = after
       /\ unsaved' = IF after = "dirty" THEN unsaved + 1 ELSE 0

(* (A timer that fires in any other status would do nothing: it is cleared *)
(* before the status changes, as ImplementsThread shows.)                  *)
RunFrame ==
  /\ timers > 0 /\ status = "running"
  /\ \/ /\ rewindActive
        /\ Rewind
        /\ Drain(IF rewindStates = <<>> THEN samples ELSE <<>>)
        /\ CheckSave(battery)
     \/ /\ ~rewindActive
        /\ LET n == IF fastForwardActive THEN 2 ELSE 1 IN
             Emulate(n) /\ Drain(Buffered(n))
        /\ \/ CheckSave(battery)
           \/ battery # "none" /\ CheckSave("dirty")
  /\ UNCHANGED <<controlVars, modeVars, reply>>   \* scheduleFrame

Next ==
  \/ LoadRom \/ Start \/ Pause \/ Resume \/ Stop
  \/ CaptureSaveState \/ RestoreSaveState
  \/ \E active \in BOOLEAN :
       SetRewindActive(active) \/ SetFastForwardActive(active)
  \/ RunFrame

Spec == Init /\ [][Next]_sameBoyVars
-----------------------------------------------------------------------------
(* The ring is the recent past, in order: its states were captured at      *)
(* least CaptureInterval frames apart, none of them after the frames that  *)
(* were counted since, and no more than RewindLimit of them are kept       *)
(* (runFrame, whatever rewinds, restores and speed changes happened).      *)
RingIsHistory ==
  /\ Len(rewindStates) <= RewindLimit
  /\ \A i, j \in DOMAIN rewindStates :
       i < j => rewindStates[j] - rewindStates[i] >= (j - i) * CaptureInterval
  /\ \A i \in DOMAIN rewindStates :
       rewindStates[i] + framesSinceRewindCapture <= frames

(* While rewind is held the game only goes back: no tick shows a state     *)
(* captured after the one the core is in (runFrame, rewindStates.pop).     *)
RewindGoesBack ==
  [][rewindActive /\ RunFrame => shown' <= shown]_sameBoyVars

FlushedInTime == battery = "dirty" => unsaved < SaveInterval

(* A speed leaves no trace: at most one command is held, and none outside  *)
(* a running session, so that no resume finds the game still rewinding     *)
(* (stopClock); no sample of a fast-forwarded frame is heard, not even     *)
(* after the release, as the buffer is empty between two ticks (readAudio);*)
(* and what the game writes to its battery RAM is posted within            *)
(* SaveInterval ticks of the clock, whatever is rewound or sped up in      *)
(* between (framesSinceSaveCheck).                                         *)
SpeedLeavesNoTrace ==
  /\ ~(rewindActive /\ fastForwardActive)
  /\ rewindActive \/ fastForwardActive => status = "running"
  /\ \A i \in DOMAIN posted : posted[i] = "normal"
  /\ samples = <<>>
  /\ FlushedInTime

(* The thread keeps what EmulatorSessions assumes of it; in particular one *)
(* timer is pending while the session runs, and none at any other time     *)
(* (timer, stopClock and the guards of start, pause and resume).           *)
ImplementsThread == Thread!Spec
=============================================================================
