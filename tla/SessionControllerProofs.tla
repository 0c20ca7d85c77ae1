------------------------ MODULE SessionControllerProofs ------------------------
(***************************************************************************)
(* Proofs about controllers, their sessions and an unknown caller, for any *)
(* calls, cores and controllers, as far as calls overlap with "one stop",  *)
(* from the invariant of ControllerLemmas and one fact more: a call that   *)
(* was not made has no session.                                            *)
(***************************************************************************)
EXTENDS SessionControllerSystem, ControllerLemmas

Fresh == \A c \in Calls : phase[c] = "idle" => worker[c] = "none"

IInv == ControllerInv /\ Fresh
-----------------------------------------------------------------------------
(* A new call launches, stops or asks. *)
LEMMA CallSteps ==
  ASSUME IInv, Overlap # "always", NEW c \in Calls, NEW k \in Controllers, Call(c, k)
  PROVE  Step
<1>1. Quiet /\ phase[c] = "idle" /\ ControllerInv /\ FreeFor(c, k)
  BY DEF Call, MayCall, IInv, Fresh, FreeFor, Pending, Waiting
<1>2. CASE (Overlap = "one stop" => ~StopOfNothing(k)) /\ \E j \in Cores : Launch(c, k, j)
  <2>1. \A d \in Calls : phase[d] = "persisting" /\ on[d] = k => held[k] # NoSession
    BY <1>2, SystemAssumption DEF Call, MayCall, StopOfNothing
  <2> QED
    BY <1>1, <1>2, <2>1, Launches
<1>3. CASE Stop(c, k) /\ (Overlap = "one stop" => \A d \in Calls : ~Stopping(d))
  <2>1. \A d \in Calls : ~Stopping(d)
    BY <1>3, SystemAssumption DEF Call, MayCall, Stopping
  <2> QED
    BY <1>1, <1>3, <2>1, StopsHeld
<1>4. ASSUME NEW kind \in {"pause", "resume", "capture-save-state", "restore-save-state"},
             Ask(c, k, kind)
      PROVE  Step
  BY <1>1, <1>4, Asks
<1> QED
  BY <1>2, <1>3, <1>4 DEF Call

(* A call goes on. *)
LEMMA CallerSteps ==
  ASSUME ControllerInv, NEW c \in Calls, CallerStep(c)
  PROVE  Step
<1>1. CASE Continue(c)
  BY <1>1, Continues
<1>2. CASE PersistBegin(c)
  BY <1>2, ExportBegins DEF PersistBegin
<1>3. CASE PersistEnd(c)
  BY <1>3, ExportEnds DEF PersistEnd
<1>4. CASE Finish(c)
  <2>1. /\ phase' = [phase EXCEPT ![c] = "done"] /\ phase[c] = "returned"
        /\ UNCHANGED <<sessionVars, held, ctlStatus, on, outcome>>
    BY <1>4 DEF Finish, To
  <2>2. ControllerTypeOK /\ request[c].answer # "waiting"
    BY <2>1 DEF ControllerInv, RequestOK, Waiting
  <2>3. ControllerInv'
    BY <2>1, <2>2, Returns DEF ControllerTypeOK
  <2> QED
    BY <2>1, <2>3 DEF Step, Keeps
<1> QED
  BY <1>1, <1>2, <1>3, <1>4 DEF CallerStep

(* Only a launch that was made has a session. *)
LEMMA FreshStays ==
  ASSUME IInv, [Next]_vars
  PROVE  Fresh'
<1> SUFFICES ASSUME NEW d \in Calls, phase'[d] = "idle" PROVE worker'[d] = "none"
  BY DEF Fresh
<1>1. /\ ControllerInv /\ worker \in [Session -> Worker] /\ phase \in [Calls -> Phase]
      /\ d \in Session
      /\ phase[d] = "idle" => worker[d] = "none"
  BY DEF IInv, ControllerInv, ControllerTypeOK, SessionsTypeOK, Session, Fresh
<1>2. ASSUME NEW c \in Calls, NEW p \in Phase, p # "idle", phase' = [phase EXCEPT ![c] = p],
             c = d \/ worker'[d] = worker[d]
      PROVE  worker'[d] = "none"
  BY <1>1, <1>2
<1>3. ASSUME NEW c \in Calls, NEW k \in Controllers, Call(c, k) PROVE worker'[d] = "none"
  <2>1. PICK p \in {"returned", "loading", "stopping", "asking"} :
          phase' = [phase EXCEPT ![c] = p]
    BY <1>3 DEF Call, Launch, Stop, Ask, To, Return
  <2>2. c = d \/ worker'[d] = worker[d]
    BY <1>1, <1>3 DEF Call, Launch, Stop, Ask, Open, Post, sessionVars
  <2>3. p \in Phase /\ p # "idle"
    BY DEF Phase, Waiting, Micro
  <2> QED
    BY <1>2, <2>1, <2>2, <2>3
<1>4. ASSUME NEW c \in Calls, CallerStep(c) PROVE worker'[d] = "none"
  <2>1. CASE Continue(c)
    <3>1. phase'[c] # "idle"
      BY <1>1, <2>1, ContinueFrame, ContinuePhase DEF Waiting, Launching, StopPhase
    <3> QED
      BY <1>1, <2>1, <3>1, ContinueFrame
  <2>2. CASE PersistBegin(c) \/ PersistEnd(c) \/ Finish(c)
    <3>1. PICK p \in {"persisting", "returned", "done"} : phase' = [phase EXCEPT ![c] = p]
      BY <2>2 DEF PersistBegin, PersistEnd, Finish, To, Return, SavePersisted, SaveRejected,
         Stopped
    <3>2. UNCHANGED worker
      BY <2>2 DEF PersistBegin, PersistEnd, Finish, SavePersisted, SaveRejected, sessionVars
    <3>3. p \in Phase /\ p # "idle"
      BY DEF Phase, Waiting, Micro
    <3> QED
      BY <1>2, <3>1, <3>2, <3>3
  <2> QED
    BY <1>4, <2>1, <2>2 DEF CallerStep
<1>5. ASSUME NEW s \in Session, ThreadStep(s) PROVE worker'[d] = "none"
  BY <1>1, <1>5, ThreadFrame DEF ThreadStep, controllerVars
<1>6. CASE UNCHANGED vars
  BY <1>1, <1>6 DEF vars, sessionVars, controllerVars
<1> QED
  BY <1>3, <1>4, <1>5, <1>6 DEF Next

LEMMA NextInductive ==
  ASSUME Overlap # "always", IInv, [Next]_vars
  PROVE  Step /\ Fresh'
<1>1. Fresh' /\ ControllerInv
  BY FreshStays DEF IInv
<1>2. ASSUME NEW s \in Session, ThreadStep(s) PROVE Step
  BY <1>1, <1>2, ThreadSteps DEF ThreadStep, Step, Keeps, controllerVars
<1>3. CASE UNCHANGED vars
  BY <1>1, <1>3, Stutters DEF vars
<1> QED
  BY <1>1, <1>2, <1>3, CallSteps, CallerSteps DEF Next

LEMMA Invariance == ASSUME Overlap # "always" PROVE Spec => []IInv
<1>1. Init => IInv
  BY InitInductive DEF Init, IInv, Fresh, ControllerInit, SessionsInit, Session
<1>2. IInv /\ [Next]_vars => IInv'
  BY NextInductive DEF Step, IInv
<1> QED
  BY <1>1, <1>2, PTL DEF Spec

(* What a step that releases a session finds. *)
LEMMA ReleaseStep ==
  ASSUME Overlap # "always", IInv, [Next]_vars, NEW k \in Controllers,
         held[k] # NoSession, held'[k] # held[k]
  PROVE  \E c \in Calls : Releasing(c) /\ on[c] = k /\ request[c].session = held[k]
                          /\ worker[held[k]] \in {"crashed", "gone"}
<1>1. PICK c \in Calls : Releasing(c)
  BY NextInductive DEF Step, Keeps
<1>2. /\ RequestOK(c) /\ HeldOrOver(c) /\ Ending(c) /\ ControllerTypeOK
      /\ phase[c] \in Pending /\ ~Abandoned(c)
  BY <1>1 DEF IInv, ControllerInv, Releasing, Pending, Waiting, Abandoned, Answered
<1>3. on[c] = k
  BY <1>1, <1>2 DEF Releasing, Dispose, ControllerTypeOK
<1>4. request[c].session = held[k]
  BY <1>1, <1>2, <1>3 DEF HeldOrOver, Leftover, Lost, Releasing
<1>5. worker[held[k]] \in {"crashed", "gone"}
  BY <1>1, <1>2, <1>4 DEF Releasing, EndsThread, Ending, RequestOK, Launching
<1> QED
  BY <1>1, <1>3, <1>4, <1>5

(* ADR 0023: a thread that runs belongs to the session some controller     *)
(* holds (launch, failLaunch and stop), as long as no two stops overlap.   *)
THEOREM NoThreadIsOrphaned ==
  ASSUME Overlap # "always" PROVE Spec => []NoOrphanThread
<1>1. IInv => NoOrphanThread
  BY DEF IInv, ControllerInv, HeldOK, NoOrphanThread, Subscribed
<1> QED
  BY <1>1, Invariance, PTL

(* A controller lets a session go only when its thread died or is over     *)
(* (dispose, after failLaunch or stop), as long as no two stops overlap.   *)
THEOREM SessionsAreReleasedAfterEnd ==
  ASSUME Overlap # "always" PROVE Spec => ReleasedAfterEnd
<1>1. ASSUME IInv, [Next]_vars
      PROVE  [\A k \in Controllers :
                held[k] # NoSession /\ held'[k] # held[k]
                  => worker[held[k]] \in {"crashed", "gone"}]_vars
  BY <1>1, ReleaseStep
<1> QED
  BY <1>1, Invariance, PTL DEF Spec, ReleasedAfterEnd

(* The session of a game that was loaded is not let go while a stop still  *)
(* has its battery save to hand over (stop, onCartridgeSave, failLaunch),  *)
(* as long as no two stops overlap.                                        *)
THEOREM SavesAreHandedOverFirst ==
  ASSUME Overlap # "always" PROVE Spec => SaveBeforeRelease
<1>1. ASSUME IInv, [Next]_vars
      PROVE  [\A k \in Controllers, c \in Calls :
                /\ held[k] # NoSession /\ held'[k] = NoSession /\ loaded[held[k]]
                /\ on[c] = k /\ phase[c] \in Waiting
                /\ request[c].session = held[k] /\ request[c].answer = "save"
                => phase[c] = "persisting"]_vars
  <2> SUFFICES ASSUME NEW k \in Controllers, NEW c \in Calls,
                      held[k] # NoSession, held'[k] = NoSession, loaded[held[k]],
                      phase[c] \in Waiting, request[c].session = held[k],
                      request[c].answer = "save"
               PROVE  phase[c] = "persisting"
    OBVIOUS
  <2>1. PICK e \in Calls : Releasing(e) /\ request[e].session = held[k]
    BY <1>1, ReleaseStep
  <2>2. CASE e = c
    <3>1. BringsSave(c) /\ SaveOK(c)
      BY <1>1 DEF IInv, ControllerInv, BringsSave, Pending
    <3> QED
      BY <2>1, <2>2, <3>1 DEF Releasing, Waiting, SaveOK, StopPhase
  <2>3. CASE e # c
    <3>1. BringsSave(c) /\ ~Abandoned(c) /\ phase[c] \in Pending /\ loaded[request[e].session]
      BY <2>1 DEF BringsSave, Pending, Abandoned
    <3> QED
      BY <1>1, <2>1, <2>3, <3>1, LetGo DEF Releasing, IInv
  <2> QED
    BY <2>2, <2>3
<1> QED
  BY <1>1, Invariance, PTL DEF Spec, SaveBeforeRelease
=============================================================================
