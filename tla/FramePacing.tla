------------------------------ MODULE FramePacing ------------------------------
(***************************************************************************)
(* When frames run: scheduleFrame, runFrame and stopClock of both worker   *)
(* threads (sameboy-worker.ts, mgba-worker.ts).  The frames of a session   *)
(* are planned on a grid of the frame duration, so that a late timer does  *)
(* not slow the game down; a thread that was blocked for longer than a few *)
(* frames gives up on what it missed; and time spent paused is not caught  *)
(* up.  Time is a number of units; a timer may fire late by any amount.    *)
(*                                                                         *)
(* The history variables are balances of time: they grow by the time the   *)
(* session runs, and fall by Frame with every frame.                       *)
(***************************************************************************)
EXTENDS Integers

CONSTANTS Frame,     \* frameDurationMs
          CatchUp,   \* how many frames may be late before the grid moves: 4
          Early,     \* how early a timer may fire: setTimeout cuts fractions
          MaxRuns,   \* bound: starts and resumes in a behaviour
          MaxTime    \* bound: the length of a behaviour

ASSUME PacingAssumption ==
  /\ Frame \in Nat \ {0}
  /\ CatchUp \in Nat
  /\ Early \in Nat
  /\ MaxRuns \in Nat
  /\ MaxTime \in Nat

Undefined == -1

VARIABLES now,          \* performance.now()
          active,       \* the status of the session is running
          nextFrameAt,  \* the moment the next frame is planned for
          credit,       \* history: the balance since the session was created,
                        \* with an allowance of Early for every Run
          balance,      \* history: the balance since a moment of choice
          allowance,    \* history: Early for every Run since that moment
          runs,         \* history: how many starts and resumes there were
          steady        \* history: no pause and no stall since that moment

pacingVars ==
  <<now, active, nextFrameAt, credit, balance, allowance, runs,
    steady>>

PacingTypeOK ==
  /\ now \in Nat
  /\ active \in BOOLEAN
  /\ nextFrameAt \in Nat \union {Undefined}
  /\ active => nextFrameAt # Undefined
  /\ credit \in Int /\ balance \in Int
  /\ allowance \in Nat
  /\ runs \in 0..MaxRuns
  /\ steady \in BOOLEAN

PacingInit ==
  /\ now = 0
  /\ active = FALSE
  /\ nextFrameAt = Undefined
  /\ credit = 0 /\ balance = 0
  /\ allowance = 0
  /\ runs = 0
  /\ steady = FALSE

(* The thread missed more than CatchUp frames. *)
Stalled(planned) == now - planned > CatchUp * Frame

(* Mutant: a thread that was blocked catches up with everything. *)
SlotWithoutLimit(planned) ==
  (IF planned = Undefined THEN now ELSE planned) + Frame

(* Mutant: the next frame is planned from the one that ran. *)
SlotFromNow(planned) == now + Frame

(* scheduleFrame: the moment planned for the next frame. *)
Slot(planned) ==
  (IF planned = Undefined \/ Stalled(planned) THEN now ELSE planned) + Frame

(* Mutant: the first frame runs at once. *)
RunAtOnce ==
  /\ ~active /\ runs < MaxRuns
  /\ active' = TRUE
  /\ nextFrameAt' = now
  /\ credit' = credit + Early
  /\ allowance' = allowance + Early
  /\ runs' = runs + 1
  /\ UNCHANGED <<now, balance, steady>>

(* start, and resume: the clock was cleared, or is set to now. *)
Run ==
  /\ ~active /\ runs < MaxRuns
  /\ active' = TRUE
  /\ nextFrameAt' = Slot(Undefined)
  /\ credit' = credit + Early
  /\ allowance' = allowance + Early
  /\ runs' = runs + 1
  /\ UNCHANGED <<now, balance, steady>>

(* pause, and stop: stopClock. *)
Halt ==
  /\ active
  /\ active' = FALSE
  /\ nextFrameAt' = Undefined
  /\ steady' = FALSE
  /\ UNCHANGED <<now, credit, balance, allowance, runs>>

(* The timer fires: runFrame, which ends with scheduleFrame. *)
Fire ==
  /\ active
  /\ nextFrameAt <= now + Early
  /\ nextFrameAt' = Slot(nextFrameAt)
  /\ credit' = credit - Frame
  /\ balance' = balance - Frame
  /\ steady' = (steady /\ ~Stalled(nextFrameAt))
  /\ UNCHANGED <<now, active, allowance, runs>>

(* Time passes; the thread may be blocked or its timer late. *)
Pass ==
  /\ now < MaxTime
  /\ now' = now + 1
  /\ IF active THEN credit' = credit + 1 /\ balance' = balance + 1
               ELSE UNCHANGED <<credit, balance>>
  /\ UNCHANGED <<active, nextFrameAt, allowance, runs, steady>>

(* The moment from which `balance` counts. *)
Mark ==
  /\ balance' = 0
  /\ allowance' = 0
  /\ steady' = active
  /\ UNCHANGED <<now, active, nextFrameAt, credit, runs>>

PacingNext == Run \/ Halt \/ Fire \/ Pass \/ Mark

PacingSpec == PacingInit /\ [][PacingNext]_pacingVars
-----------------------------------------------------------------------------
(* The game never runs ahead of the time it was running for: neither late  *)
(* timers nor stalls nor pauses make scheduleFrame run more frames than    *)
(* the running time of the session allows, but for the timers that fire    *)
(* early, whose gain is kept at most once per start or resume.             *)
NeverAhead == credit >= 0

(* A burst is bounded: whatever moment one starts to count from, the       *)
(* frames that runFrame runs exceed the time by CatchUp frames and the one *)
(* of the moment itself, even after the thread was blocked for long.       *)
BurstBounded == balance + (CatchUp + 1) * Frame + allowance + Early >= 0

(* No drift: late timers alone never slow the game down.  From any moment  *)
(* on, unless the session was paused or the thread blocked for more than   *)
(* CatchUp frames, the frames that ran make up for the time that passed,   *)
(* but for those the thread may still be late with.                        *)
NoDrift ==
  steady /\ ~Stalled(nextFrameAt) =>
    balance <= (CatchUp + 1) * Frame + Early
=============================================================================
