------------------------ MODULE SessionControllerSystem ------------------------
(***************************************************************************)
(* Controllers with their sessions and an unknown caller: a caller that    *)
(* persists battery saves somehow and calls the methods in any order.      *)
(* Calls overlap: nothing in session-lifecycle.ts prevents it.  `Overlap`  *)
(* says how far: not at all, all but two stops, or in every way.  With all *)
(* but two stops, the launch whose session a stop would take for its own   *)
(* (StopOfNothing) is left out too: it would release it as it ends.         *)
(***************************************************************************)
EXTENDS SessionController

CONSTANT Overlap       \* how calls overlap

ASSUME SystemAssumption == Overlap \in {"never", "one stop", "always"}

vars == <<sessionVars, controllerVars>>

Init == ControllerInit

(* Calls are made in the order of their numbers. *)
MayCall(c) ==
  /\ Quiet
  /\ phase[c] = "idle"
  /\ \A d \in Calls : d < c => phase[d] # "idle"
  /\ Overlap = "never" => \A d \in Calls : phase[d] \in {"idle", "done"}

(* A stop of controller k still persists its save, and a failed launch let *)
(* the session go meanwhile.                                               *)
StopOfNothing(k) ==
  \E d \in Calls : phase[d] = "persisting" /\ on[d] = k /\ held[k] = NoSession

Call(c, k) ==
  /\ MayCall(c)
  /\ \/ /\ Overlap = "one stop" => ~StopOfNothing(k)
        /\ \E j \in Cores : Launch(c, k, j)
     \/ /\ Overlap = "one stop" => \A d \in Calls : ~Stopping(d)
        /\ Stop(c, k)
     \/ \E kind \in {"pause", "resume", "capture-save-state",
                     "restore-save-state"} : Ask(c, k, kind)

(* The caller's onCartridgeSave starts to persist the save of a stop. *)
PersistBegin(c) ==
  /\ phase[c] = "exporting"
  /\ To(c, "persisting")
  /\ UNCHANGED <<sessionVars, held, ctlStatus, on>>

PersistEnd(c) ==
  /\ Quiet /\ phase[c] = "persisting"
  /\ SavePersisted(c) \/ SaveRejected(c)

(* The caller has the result of its call. *)
Finish(c) ==
  /\ phase[c] = "returned"
  /\ To(c, "done")
  /\ UNCHANGED <<sessionVars, held, ctlStatus, on>>

CallerStep(c) == Continue(c) \/ PersistBegin(c) \/ PersistEnd(c) \/ Finish(c)

ThreadStep(s) == Quiet /\ WorkerStep(s) /\ UNCHANGED controllerVars

ThreadProgress(s) ==
  Quiet /\ (Serve(s) \/ WorkerExit(s)) /\ UNCHANGED controllerVars

Next ==
  \/ \E c \in Calls, k \in Controllers : Call(c, k)
  \/ \E c \in Calls : CallerStep(c)
  \/ \E s \in Session : ThreadStep(s)

(* The event loop runs what is due; a thread that is alive serves its      *)
(* requests, and one that was told to end, or died, ends; the disk answers *)
Fairness ==
  /\ \A c \in Calls : WF_vars(CallerStep(c))
  /\ \A s \in Session : WF_vars(ThreadProgress(s))

Spec     == Init /\ [][Next]_vars
FairSpec == Spec /\ Fairness
-----------------------------------------------------------------------------
(* Properties.                                                             *)

(* ADR 0023: a controller keeps one active session.  A thread that runs    *)
(* belongs to the session some controller holds: no way through launch,    *)
(* failLaunch and stop loses sight of a live thread.                       *)
NoOrphanThread ==
  \A s \in Session : worker[s] = "live" => Subscribed(s)

(* A session is let go only when its thread is over.                       *)
ReleasedAfterEnd ==
  [][\A k \in Controllers :
       held[k] # NoSession /\ held'[k] # held[k]
         => worker[held[k]] \in {"crashed", "gone"}]_vars

(* The battery save a stop brings home of a game that was loaded is handed *)
(* to the caller before the session is released, whoever else works on the *)
(* controller meanwhile.  A launch whose save mGBA refused drops what the  *)
(* stop of its session brings (failLaunch): that game was never played.    *)
SaveBeforeRelease ==
  [][\A k \in Controllers, c \in Calls :
       /\ held[k] # NoSession /\ held'[k] = NoSession /\ loaded[held[k]]
       /\ on[c] = k /\ phase[c] \in Waiting
       /\ request[c].session = held[k] /\ request[c].answer = "save"
       => phase[c] = "persisting"]_vars

(* Every call returns, or waits for a thread that is gone.                 *)
EveryCallReturnsOrIsAbandoned ==
  \A c \in Calls :
    phase[c] \in Waiting ~> (phase[c] = "done" \/ Abandoned(c))

(* Every call returns: `#terminated` of mGBA answers what is asked later.  *)
EveryCallReturns ==
  \A c \in Calls : phase[c] \in Waiting ~> phase[c] = "done"
=============================================================================
