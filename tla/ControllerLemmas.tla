---------------------------- MODULE ControllerLemmas ----------------------------
(***************************************************************************)
(* What holds of controllers and their sessions whoever calls, for any     *)
(* calls, cores and controllers, as long as no two stops overlap and none  *)
(* that lost its session overlaps a launch: the invariant, and for each    *)
(* step of SessionController and EmulatorSessions that it keeps it.        *)
(*                                                                         *)
(* What has to be shown is that a call lets go of nothing but the session  *)
(* it worked on, and that nobody else still needs it.  A call that works   *)
(* on a session its controller has let go is due at once, so that nothing  *)
(* is launched before it is over, or waits for a SameBoy thread that died, *)
(* or persists the save of a game that mGBA did not load (HeldOrOver); and *)
(* while a stop brings the save of a loaded game home, the launch of that  *)
(* session does not fail (SaveOK), because a thread with a ROM can only    *)
(* refuse to start by dying, which it can no longer do once it was told to *)
(* end (Starting, Ending).                                                 *)
(***************************************************************************)
EXTENDS SessionController, TLAPS

(* The calls that await something of a session. *)
Pending   == Waiting \union {"exporting"}
(* The awaits of launch, and of stop. *)
Launching == {"loading", "starting", "failing", "failExit"}
StopPhase == {"stopping", "terminating", "exporting", "persisting"}

(* What a call asked for, by the await it is at. *)
KindAt(p, kind) ==
  /\ p = "loading" => kind = "load-rom"
  /\ p = "starting" => kind = "start"
  /\ p \in {"failing", "failExit"} \union StopPhase => kind = "stop"
  /\ p = "asking" => kind \in {"pause", "resume", "capture-save-state",
                               "restore-save-state"}

(* No call has two requests in the queue of a thread. *)
InboxesOK ==
  \A s \in Session : \A i, j \in DOMAIN inbox[s] :
    inbox[s][i].call = inbox[s][j].call => i = j

(* The request of a call, its session and its controller. *)
RequestOK(c) ==
  /\ worker[c] = "none" => status[c] = "idle" /\ ~loaded[c] /\ battery[c] = 0
  /\ phase[c] # "idle" => on[c] \in Controllers
  /\ request[c].answer = "waiting" => phase[c] \in Waiting
  /\ phase[c] \in Pending =>
       /\ request[c] \in Request
       /\ worker[request[c].session] # "none"
       /\ on[request[c].session] = on[c]
       /\ KindAt(phase[c], request[c].kind)
  /\ phase[c] \in Launching => request[c].session = c
  /\ phase[c] \in {"failExit", "terminating", "exporting", "persisting"} => Answered(c)
  /\ phase[c] \in {"exporting", "persisting"} =>
       request[c].answer = "save" /\ worker[request[c].session] = "gone"

(* A session is with the controller that created it; a live one is held.   *)
HeldOK ==
  /\ \A k \in Controllers : held[k] # NoSession =>
       on[held[k]] = k /\ worker[held[k]] # "none"
  /\ \A s \in Session : worker[s] = "live" =>
       on[s] \in Controllers /\ held[on[s]] = s

(* Nobody will act on what this call still hears of its SameBoy session.   *)
Lost(c) ==
  /\ phase[c] \in {"asking", "stopping"}
  /\ request[c].answer \in {"waiting", "error"}
  /\ worker[request[c].session] \in {"crashed", "gone"}
  /\ ~IsMgba(request[c].session)

(* A stop persists what mGBA had of a game it refused, and the launch that *)
(* failed has let the session go.                                          *)
Leftover(c) ==
  /\ phase[c] = "persisting"
  /\ held[on[c]] = NoSession
  /\ ~loaded[request[c].session]

(* The session of a pending call is held, or the call is due, or lost, or  *)
(* left over.                                                              *)
HeldOrOver(c) ==
  phase[c] \in Pending /\ ~Abandoned(c) =>
    \/ held[on[c]] = request[c].session
    \/ /\ held[on[c]] = NoSession
       /\ Due(c)
       /\ \/ worker[request[c].session] = "gone"
          \/ phase[c] = "asking"
          \/ phase[c] = "stopping" /\ ~EndsThread(c)
    \/ Lost(c)
    \/ Leftover(c)

(* The thread of a session that is asked, or was told, to end.             *)
Ending(c) ==
  /\ phase[c] \in {"stopping", "failing"} /\ request[c].answer \in {"ok", "save"}
       => worker[request[c].session] # "crashed"
  /\ phase[c] \in {"failExit", "terminating"} =>
       /\ worker[request[c].session] # "live"
       /\ request[c].answer # "error" => worker[request[c].session] # "crashed"
       /\ EndsThread(c)
  /\ /\ phase[c] \in {"stopping", "failing"} /\ request[c].answer = "error"
     /\ ~IsMgba(request[c].session)
     => worker[request[c].session] \in {"crashed", "gone"}

(* The thread of a session that is being launched: its ROM is the first it *)
(* hears of, and once it is loaded only a crash keeps it from starting.    *)
Starting(c) ==
  /\ phase[c] = "loading" /\ request[c].answer # "error" =>
       /\ worker[c] = "live"
       /\ status[c] = "idle"
       /\ \A d \in Calls \ {c} : phase[d] \in Pending /\ request[d].session = c =>
            request[d].answer = "waiting"
       /\ request[c].answer \in {"waiting", "ok"}
  /\ phase[c] = "loading" /\ request[c].answer = "waiting" =>
       /\ inbox[c] # <<>>
       /\ Head(inbox[c]) = [call |-> c, kind |-> "load-rom"]
       /\ battery[c] = 0
  /\ phase[c] = "loading" /\ request[c].answer = "ok" => loaded[c]
  /\ phase[c] = "loading" /\ loaded[c] => request[c].answer = "ok"
  /\ phase[c] = "starting" /\ request[c].answer = "waiting" =>
       loaded[c] /\ status[c] \in {"idle", "stopped"}
  /\ phase[c] = "starting" /\ request[c].answer = "error" =>
       worker[c] \in {"crashed", "gone"}
  /\ phase[c] \in {"failing", "failExit"} =>
       ~loaded[c] \/ worker[c] \in {"crashed", "gone"}

(* A save that comes home: if its game was loaded, the session is held     *)
(* until it is handed over.                                                *)
BringsSave(c) == phase[c] \in Pending /\ request[c].answer = "save"

SaveOK(c) ==
  LET s == request[c].session IN
  BringsSave(c) =>
    /\ phase[c] \in StopPhase \union {"failing", "failExit"}
    /\ loaded[s] \/ IsMgba(s)
    /\ loaded[s] =>
         /\ phase[c] \in StopPhase
         /\ held[on[c]] = s
         /\ phase[s] \notin {"failing", "failExit"}
         /\ phase[s] \in {"loading", "starting"} => request[s].answer # "error"
         /\ phase[s] = "starting" /\ request[s].answer = "waiting" => status[s] = "stopped"

OneStop == \A c, d \in Calls : Stopping(c) /\ Stopping(d) => c = d

ControllerInv ==
  /\ ControllerTypeOK
  /\ InboxesOK
  /\ \A c \in Calls : RequestOK(c)
  /\ HeldOK
  /\ \A c \in Calls : HeldOrOver(c)
  /\ \A c \in Calls : Ending(c)
  /\ \A c \in Calls : Starting(c)
  /\ \A c \in Calls : SaveOK(c)
  /\ OneStop
-----------------------------------------------------------------------------
LEMMA InitInductive == ControllerInit => ControllerInv
<1> SUFFICES ASSUME ControllerInit PROVE ControllerInv
  OBVIOUS
<1> USE DEF ControllerInit, SessionsInit
<1>1. ControllerTypeOK
  BY SessionsAssumption DEF ControllerTypeOK, SessionsTypeOK, NoRequest, Worker, Status,
     Phase,
                            Waiting, Micro, ControllerStatus
<1>2. InboxesOK /\ HeldOK
  BY DEF InboxesOK, HeldOK
<1>3. OneStop
  BY DEF OneStop, Stopping
<1>4. \A c \in Calls : RequestOK(c)
  BY DEF RequestOK, NoRequest, Pending, Waiting, Launching, Session
<1>5. \A c \in Calls : HeldOrOver(c) /\ Ending(c) /\ Starting(c) /\ SaveOK(c)
  BY DEF HeldOrOver, Ending, Starting, SaveOK, BringsSave, Pending, Waiting
<1> QED
  BY <1>1, <1>2, <1>3, <1>4, <1>5 DEF ControllerInv

(* Call c works on no session, and may be given to controller k.           *)
FreeFor(c, k) ==
  /\ phase[c] \notin Pending
  /\ worker[c] = "none" \/ on[c] = k

(* Call c is over, or is refused at once, and changes nothing else.        *)
LEMMA Returns ==
  ASSUME ControllerInv, NEW c \in Calls, NEW p \in {"idle", "returned", "done"},
         request[c].answer # "waiting",
         phase' = [phase EXCEPT ![c] = p],
         \/ on' = on /\ (phase[c] # "idle" \/ p = "idle")
         \/ \E k \in Controllers : on' = [on EXCEPT ![c] = k] /\ FreeFor(c, k),
         ctlStatus' \in [Controllers -> ControllerStatus],
         outcome' \in [Calls -> {"none", "ok", "error"}],
         UNCHANGED <<sessionVars, held>>
  PROVE  ControllerInv'
<1> USE DEF ControllerInv, ControllerTypeOK
<1>1. /\ phase' \in [Calls -> Phase] /\ on' \in [Calls -> Controllers \union {NoController}]
      /\ p # "idle" => on'[c] \in Controllers
  BY DEF Phase, Micro, RequestOK
<1>2. /\ phase'[c] = p /\ p \notin Pending /\ p \notin Waiting
      /\ \A d \in Calls \ {c} : phase'[d] = phase[d]
      /\ \A d \in Calls : worker[d] # "none" => on'[d] = on[d]
      /\ \A d \in Calls \ {c} : on'[d] = on[d]
  BY DEF Pending, Waiting, FreeFor
<1>3. \A d \in Calls : phase'[d] \in Pending => d # c
  BY <1>2
<1>s. UNCHANGED <<core, worker, status, loaded, battery, inbox, request, held>>
  BY DEF sessionVars
<1>4. ControllerTypeOK' /\ InboxesOK'
  BY <1>1, <1>s DEF SessionsTypeOK, InboxesOK
<1>5. \A d \in Calls : RequestOK(d)'
  <2> SUFFICES ASSUME NEW d \in Calls PROVE RequestOK(d)'
    OBVIOUS
  <2>1. CASE d = c
    BY <1>1, <1>2, <1>s, <2>1 DEF RequestOK, Pending, Waiting, Launching
  <2>2. CASE d # c
    <3>1. phase'[d] = phase[d] /\ on'[d] = on[d] /\ RequestOK(d)
      BY <1>2, <2>2
    <3>2. phase[d] \in Pending => on'[request[d].session] = on[request[d].session]
      BY <1>2, <3>1 DEF RequestOK, Request, Session
    <3> QED
      BY <3>1, <3>2, <1>s DEF RequestOK, Answered
  <2> QED
    BY <2>1, <2>2
<1>6. HeldOK'
  <2>1. HeldOK /\ held \in [Controllers -> Session \union {NoSession}] /\ Session = Calls
    BY DEF Session
  <2> HIDE DEF ControllerInv, ControllerTypeOK
  <2>2. \A s \in Session : worker[s] # "none" => on'[s] = on[s]
    BY <1>2, <2>1
  <2> QED
    BY <1>s, <2>1, <2>2 DEF HeldOK
<1>7. \A d \in Calls : HeldOrOver(d)'
  BY <1>2, <1>3, <1>s DEF HeldOrOver, Leftover, Lost, Abandoned, Due, Answered, EndsThread, IsMgba
<1>8. \A d \in Calls : Ending(d)'
  BY <1>2, <1>3, <1>s DEF Ending, EndsThread, IsMgba
<1>9. \A d \in Calls : Starting(d)'
  <2> SUFFICES ASSUME NEW d \in Calls PROVE Starting(d)'
    OBVIOUS
  <2>1. d = c => Starting(d)'
    BY <1>2 DEF Starting
  <2>2. d # c => Starting(d)'
    <3>1. Starting(d)
      OBVIOUS
    <3> QED
      BY <3>1, <1>2, <1>3, <1>s DEF Starting
  <2> QED
    BY <2>1, <2>2
<1>10. \A d \in Calls : SaveOK(d)'
  <2> SUFFICES ASSUME NEW d \in Calls, BringsSave(d)' PROVE SaveOK(d)'
    BY DEF SaveOK
  <2>1. d # c /\ phase'[d] = phase[d] /\ on'[d] = on[d] /\ BringsSave(d)
    BY <1>2, <1>3, <1>s DEF BringsSave
  <2>2. request[d].session \in Calls
    BY <2>1 DEF RequestOK, BringsSave, Request, Session
  <2> QED
    BY <2>1, <2>2, <1>2, <1>s DEF SaveOK, IsMgba
<1>11. OneStop'
  BY <1>2 DEF OneStop, Stopping
<1> QED
  BY <1>4, <1>5, <1>6, <1>7, <1>8, <1>9, <1>10, <1>11

(* The result of session.stop() is in: the thread is told to end.          *)
LEMMA Ends ==
  ASSUME ControllerInv, NEW c \in Calls, phase[c] \in {"stopping", "failing"},
         Answered(c), EndsThread(c), Terminate(request[c].session),
         NEW p, p = IF phase[c] = "stopping" THEN "terminating" ELSE "failExit",
         phase' = [phase EXCEPT ![c] = p],
         UNCHANGED <<core, status, loaded, battery, inbox, request,
                     held, ctlStatus, on, outcome>>
  PROVE  ControllerInv'
<1> DEFINE s == request[c].session
<1> USE DEF ControllerInv, ControllerTypeOK
<1>1. /\ phase' \in [Calls -> Phase] /\ phase'[c] = p
      /\ \A d \in Calls \ {c} : phase'[d] = phase[d]
  BY DEF Phase, Waiting
<1>2. s \in Session /\ request[c] \in Request
  BY DEF RequestOK, Pending, Waiting, Request
<1>3. /\ worker' \in [Session -> Worker]
      /\ \A t \in Session : worker'[t] = IF t = s /\ worker[t] = "live" THEN "exiting"
                                         ELSE worker[t]
  BY <1>2 DEF Terminate, Worker, SessionsTypeOK
<1>4. ControllerTypeOK' /\ InboxesOK'
  <2>1. SessionsTypeOK'
    BY <1>3 DEF SessionsTypeOK
  <2> QED
    BY <1>1, <2>1 DEF InboxesOK
<1>5. \A d \in Calls : RequestOK(d)'
  <2> SUFFICES ASSUME NEW d \in Calls PROVE RequestOK(d)'
    OBVIOUS
  <2>1. /\ worker'[d] = "none" <=> worker[d] = "none"
        /\ phase'[d] \in Pending <=> phase[d] \in Pending
        /\ phase'[d] = "idle" <=> phase[d] = "idle"
        /\ phase'[d] \in Launching <=> phase[d] \in Launching
        /\ phase'[d] \in Waiting <=> phase[d] \in Waiting
    BY <1>1, <1>3 DEF Pending, Waiting, Launching, Session
  <2>2. phase[d] \in Pending =>
          /\ worker'[request[d].session] = "none" <=> worker[request[d].session] = "none"
          /\ worker[request[d].session] = "gone" => worker'[request[d].session] = "gone"
    BY <1>3 DEF RequestOK, Request
  <2>3. phase[d] \in Pending => KindAt(phase'[d], request[d].kind)
    BY <1>1 DEF RequestOK, KindAt, StopPhase
  <2> QED
    BY <1>1, <2>1, <2>2, <2>3 DEF RequestOK, Answered, Pending, Waiting
<1>6. HeldOK'
  BY <1>3 DEF HeldOK, Session, SessionsTypeOK, NoSession
<1>7. \A d \in Calls : HeldOrOver(d)'
  <2> SUFFICES ASSUME NEW d \in Calls, phase'[d] \in Pending, ~Abandoned(d)'
               PROVE  HeldOrOver(d)'
    BY DEF HeldOrOver
  <2>1. phase[d] \in Pending /\ request[d].session \in Session
    BY <1>1 DEF Pending, Waiting, RequestOK, Request
  <2>2. /\ worker'[request[d].session] = "gone" <=> worker[request[d].session] = "gone"
        /\ worker'[request[d].session] = "crashed" <=> worker[request[d].session] = "crashed"
    BY <1>3, <2>1
  <2>3. HeldOrOver(d) /\ ~Abandoned(d)
    BY <2>2 DEF Abandoned
  <2>4. CASE d = c
    <3>1. ~Lost(c)
      BY DEF Lost, EndsThread, Answered
    <3> QED
      BY <1>1, <2>1, <2>2, <2>3, <2>4, <3>1 DEF HeldOrOver, Leftover, Due
  <2>5. CASE d # c
    <3>1. Lost(d) => Lost(d)'
      BY <1>1, <2>2, <2>5 DEF Lost, IsMgba
    <3> QED
      BY <1>1, <2>1, <2>2, <2>3, <2>5, <3>1 DEF HeldOrOver, Leftover, Due, Answered, EndsThread, IsMgba
  <2> QED
    BY <2>4, <2>5
<1>8. \A d \in Calls : Ending(d)'
  <2> SUFFICES ASSUME NEW d \in Calls PROVE Ending(d)'
    OBVIOUS
  <2>1. Ending(d) /\ RequestOK(d)
    OBVIOUS
  <2>2. CASE d = c
    <3>1. worker'[s] # "live"
      BY <1>2, <1>3
    <3>2. request[c].answer # "error" => worker'[s] # "crashed"
      BY <1>2, <1>3, <2>1, <2>2 DEF Ending, Answered
    <3> QED
      BY <1>1, <2>2, <3>1, <3>2 DEF Ending, EndsThread, IsMgba
  <2>3. CASE d # c /\ phase[d] \in Pending
    <3>1. request[d].session \in Session
      BY <2>1, <2>3 DEF RequestOK, Request
    <3> QED
      BY <1>1, <1>3, <2>1, <2>3, <3>1 DEF Ending, EndsThread, IsMgba, Session
  <2>4. CASE d # c /\ phase[d] \notin Pending
    BY <1>1, <2>4 DEF Ending, Pending, Waiting
  <2> QED
    BY <2>2, <2>3, <2>4
<1>9. \A d \in Calls : Starting(d)'
  <2> SUFFICES ASSUME NEW d \in Calls PROVE Starting(d)'
    OBVIOUS
  <2>1. Starting(d) /\ phase[c] \in Pending /\ request[c].answer # "waiting"
    BY DEF Pending, Waiting, Answered
  <2>2. CASE d = c
    BY <1>1, <1>3, <2>1, <2>2 DEF Starting, Session
  <2>3. CASE d # c
    <3>1. phase[d] = "loading" /\ request[d].answer # "error" => d # s
      BY <2>1, <2>3 DEF Starting
    <3>2. \A e \in Calls : phase'[e] \in Pending => phase[e] \in Pending
      BY <1>1, <2>1
    <3> QED
      BY <1>1, <1>3, <2>1, <2>3, <3>1, <3>2 DEF Starting, Session
  <2> QED
    BY <2>2, <2>3
<1>10. \A d \in Calls : SaveOK(d)'
  <2> SUFFICES ASSUME NEW d \in Calls, BringsSave(d)' PROVE SaveOK(d)'
    BY DEF SaveOK
  <2>1. BringsSave(d) /\ SaveOK(d) /\ request[d].session \in Calls
    BY <1>1 DEF BringsSave, Pending, Waiting, RequestOK, Request, Session
  <2>2. /\ phase[d] \in StopPhase => phase'[d] \in StopPhase
        /\ phase[d] \in {"failing", "failExit"} => phase'[d] \in {"failing", "failExit"}
    BY <1>1 DEF StopPhase
  <2> QED
    BY <1>1, <2>1, <2>2 DEF SaveOK, IsMgba
<1>11. OneStop'
  BY <1>1 DEF OneStop, Stopping
<1> QED
  BY <1>4, <1>5, <1>6, <1>7, <1>8, <1>9, <1>10, <1>11

(* A stop brings its save to the caller, who persists it.                  *)
LEMMA Exports ==
  ASSUME ControllerInv, NEW c \in Calls, NEW p \in {"exporting", "persisting"},
         phase[c] \in {"terminating", "exporting"},
         worker[request[c].session] = "gone", request[c].answer = "save",
         phase' = [phase EXCEPT ![c] = p],
         UNCHANGED <<sessionVars, held, ctlStatus, on, outcome>>
  PROVE  ControllerInv'
<1> DEFINE s == request[c].session
<1> USE DEF ControllerInv, ControllerTypeOK
<1>1. /\ phase' \in [Calls -> Phase] /\ phase'[c] = p
      /\ \A d \in Calls \ {c} : phase'[d] = phase[d]
  BY DEF Phase, Waiting, Micro
<1>2. /\ UNCHANGED <<core, worker, status, loaded, battery, inbox, request>>
      /\ \A d \in Calls : phase'[d] \in Pending <=> phase[d] \in Pending
      /\ phase[c] \in Pending /\ phase'[c] \notin Launching
      /\ BringsSave(c)
  BY <1>1 DEF sessionVars, Pending, Waiting, Launching, BringsSave
<1>4. ControllerTypeOK' /\ InboxesOK'
  <2>1. SessionsTypeOK'
    BY <1>2 DEF SessionsTypeOK
  <2>2. InboxesOK'
    BY <1>2 DEF InboxesOK
  <2> QED
    BY <1>1, <2>1, <2>2
<1>5. \A d \in Calls : RequestOK(d)'
  <2> SUFFICES ASSUME NEW d \in Calls PROVE RequestOK(d)'
    OBVIOUS
  <2>1. CASE d = c
    BY <1>1, <1>2, <2>1 DEF RequestOK, KindAt, StopPhase, Answered
  <2>2. CASE d # c
    BY <1>1, <1>2, <2>2 DEF RequestOK, Answered
  <2> QED
    BY <2>1, <2>2
<1>6. HeldOK'
  BY <1>2 DEF HeldOK
<1>7. \A d \in Calls : HeldOrOver(d)'
  <2> SUFFICES ASSUME NEW d \in Calls PROVE HeldOrOver(d)'
    OBVIOUS
  <2>1. CASE d = c
    <3>1. /\ held[on[c]] = s \/ held[on[c]] = NoSession
          /\ loaded[s] => held[on[c]] = s
      BY <1>2 DEF HeldOrOver, Leftover, Lost, Abandoned, SaveOK
    <3>2. UNCHANGED <<held, on>> /\ p = "exporting" => Due(c)'
      BY <1>1 DEF Due, Micro
    <3> QED
      BY <1>1, <1>2, <2>1, <3>1, <3>2 DEF HeldOrOver, Leftover
  <2>2. CASE d # c
    <3>1. HeldOrOver(d)
      OBVIOUS
    <3> QED
      BY <1>1, <1>2, <2>2, <3>1 DEF HeldOrOver, Leftover, Lost, Abandoned, Due, Answered, EndsThread,
         IsMgba
  <2> QED
    BY <2>1, <2>2
<1>8. \A d \in Calls : Ending(d)'
  BY <1>1, <1>2 DEF Ending, EndsThread, IsMgba
<1>9. \A d \in Calls : Starting(d)'
  <2> SUFFICES ASSUME NEW d \in Calls PROVE Starting(d)'
    OBVIOUS
  <2>1. CASE d = c
    BY <1>1, <2>1 DEF Starting
  <2>2. CASE d # c
    <3>1. Starting(d)
      OBVIOUS
    <3> QED
      BY <1>1, <1>2, <2>2, <3>1 DEF Starting
  <2> QED
    BY <2>1, <2>2
<1>10. \A d \in Calls : SaveOK(d)'
  <2> SUFFICES ASSUME NEW d \in Calls, BringsSave(d)' PROVE SaveOK(d)'
    BY DEF SaveOK
  <2>1. BringsSave(d) /\ SaveOK(d) /\ request[d].session \in Calls
    BY <1>1, <1>2 DEF BringsSave, RequestOK, Request, Session
  <2>2. phase[d] \in StopPhase => phase'[d] \in StopPhase
    BY <1>1 DEF StopPhase
  <2> QED
    BY <1>1, <1>2, <2>1, <2>2 DEF SaveOK, IsMgba
<1>11. OneStop'
  BY <1>1 DEF OneStop, Stopping
<1> QED
  BY <1>4, <1>5, <1>6, <1>7, <1>8, <1>9, <1>10, <1>11

(* What a call finds when another one lets its session go: either the      *)
(* thread is over, or it died under the failed launch that lets go.        *)
LEMMA LetGo ==
  ASSUME ControllerInv, NEW c \in Calls, NEW d \in Calls, c # d,
         phase[c] \in {"failing", "failExit", "terminating", "exporting", "persisting"},
         phase[d] \in Pending, ~Abandoned(d),
         request[d].session = request[c].session,
         \/ worker[request[c].session] = "gone"
         \/ phase[c] = "failing" /\ Answered(c) /\ ~EndsThread(c)
  PROVE  /\ ~(BringsSave(d) /\ loaded[request[c].session])
         /\ \/ Lost(d)
            \/ phase[d] = "persisting" /\ ~loaded[request[d].session]
            \/ /\ Due(d)
               /\ \/ worker[request[d].session] = "gone"
                  \/ phase[d] = "asking"
                  \/ phase[d] = "stopping" /\ ~EndsThread(d)
<1> DEFINE s == request[c].session
<1> USE DEF ControllerInv, ControllerTypeOK
<1>1. RequestOK(c) /\ RequestOK(d) /\ SaveOK(d) /\ Ending(c) /\ Ending(d)
  OBVIOUS
<1>2. phase[c] \in Launching \/ Stopping(c)
  BY DEF Launching, Stopping
<1>3. ~(BringsSave(d) /\ loaded[s])
  <2> SUFFICES ASSUME BringsSave(d), loaded[s] PROVE FALSE
    OBVIOUS
  <2>1. Stopping(d)
    BY <1>1 DEF SaveOK, StopPhase, Stopping
  <2>2. CASE Stopping(c)
    BY <2>1, <2>2 DEF OneStop
  <2>3. CASE phase[c] \in Launching /\ ~Stopping(c)
    <3>1. s = c /\ phase[s] \in {"failing", "failExit"}
      BY <1>1, <2>3 DEF RequestOK, Stopping
    <3> QED
      BY <3>1, <1>1 DEF SaveOK
  <2> QED
    BY <1>2, <2>2, <2>3
<1>4. /\ request[d].answer \in {"waiting", "ok", "save", "error"}
      /\ phase[d] = "persisting" => ~loaded[s]
      /\ request[d].answer = "save" => IsMgba(s)
      /\ phase[d] \in {"exporting", "persisting"} => request[d].answer = "save"
  BY <1>1, <1>3 DEF RequestOK, BringsSave, Request, Answer, SaveOK
<1>5. CASE worker[s] = "gone"
  <2>1. request[d].answer # "waiting"
    BY <1>5 DEF Abandoned
  <2> QED
    BY <1>3, <1>4, <1>5, <2>1 DEF Due, Answered, Pending, Waiting, Micro
<1>6. CASE worker[s] # "gone"
  <2>1. /\ phase[c] = "failing" /\ request[c].answer = "error" /\ s = c /\ ~IsMgba(c)
    BY <1>1, <1>6 DEF EndsThread, RequestOK, Launching
  <2>2. worker[c] = "crashed" /\ request[d].session = c
    BY <1>1, <1>6, <2>1 DEF Ending
  <2>3. phase[d] \notin Launching
    BY <1>1, <2>1 DEF RequestOK
  <2>4. phase[d] \in {"stopping", "terminating", "asking"}
    BY <1>4, <2>1, <2>3 DEF Launching, Pending, Waiting
  <2>5. phase[d] # "terminating"
    BY <1>1, <2>1, <2>2 DEF Ending, EndsThread
  <2>6. phase[d] = "stopping" => request[d].answer # "ok"
    BY <1>1, <2>2 DEF Ending
  <2>7. CASE request[d].answer = "ok"
    BY <1>3, <1>4, <2>4, <2>5, <2>6, <2>7 DEF Due, Answered
  <2>8. CASE request[d].answer # "ok"
    BY <1>3, <1>4, <1>1, <2>1, <2>2, <2>4, <2>5, <2>8 DEF Lost
  <2> QED
    BY <1>3, <2>7, <2>8
<1> QED
  BY <1>5, <1>6

(* A call lets the session of its controller go, and is over.              *)
LEMMA Releases ==
  ASSUME ControllerInv, NEW c \in Calls,
         phase[c] \in {"failing", "failExit", "terminating", "exporting", "persisting"},
         Answered(c),
         request[c].answer = "save" => phase[c] \in {"exporting", "persisting", "failExit"},
         \/ worker[request[c].session] = "gone"
         \/ phase[c] = "failing" /\ ~EndsThread(c),
         Dispose(on[c]),
         phase' = [phase EXCEPT ![c] = "returned"],
         ctlStatus' \in [Controllers -> ControllerStatus],
         outcome' \in [Calls -> {"none", "ok", "error"}],
         UNCHANGED <<sessionVars, on>>
  PROVE  ControllerInv' /\ (held[on[c]] # NoSession => worker[held[on[c]]] \in {"crashed", "gone"})
<1> DEFINE s == request[c].session
           k == on[c]
<1> USE DEF ControllerInv, ControllerTypeOK
<1>1. /\ phase' \in [Calls -> Phase] /\ phase'[c] = "returned"
      /\ \A d \in Calls \ {c} : phase'[d] = phase[d]
      /\ "returned" \notin Pending /\ phase[c] \in Pending
  BY DEF Phase, Waiting, Micro, Pending
<1>2. UNCHANGED <<core, worker, status, loaded, battery, inbox, request>>
  BY DEF sessionVars
<1>3. RequestOK(c) /\ HeldOrOver(c) /\ Ending(c) /\ ~Abandoned(c)
  BY DEF Abandoned, Answered
<1>4. /\ k \in Controllers /\ s \in Session /\ s # NoSession /\ on[s] = k
      /\ held[k] \in {s, NoSession}
  BY <1>1, <1>3, SessionsAssumption DEF RequestOK, HeldOrOver, Leftover, Lost, Pending, Waiting,
     Request, Session, NoSession
<1>5. worker[s] \in {"crashed", "gone"}
  <2>1. CASE phase[c] = "failing" /\ ~EndsThread(c)
    BY <1>3, <2>1 DEF RequestOK, Launching, EndsThread, Ending
  <2> QED
    BY <2>1
<1>6. /\ held' \in [Controllers -> Session \union {NoSession}]
      /\ held'[k] = NoSession
      /\ \A j \in Controllers \ {k} : held'[j] = held[j]
  BY <1>4 DEF Dispose
<1>7. ControllerTypeOK' /\ InboxesOK'
  <2>1. SessionsTypeOK'
    BY <1>2 DEF SessionsTypeOK
  <2> QED
    BY <1>1, <1>2, <1>6, <2>1 DEF InboxesOK
<1>8. \A d \in Calls : RequestOK(d)'
  <2> SUFFICES ASSUME NEW d \in Calls PROVE RequestOK(d)'
    OBVIOUS
  <2>1. CASE d = c
    BY <1>1, <1>2, <1>3, <2>1 DEF RequestOK, Launching, Answered, Pending, Waiting
  <2>2. CASE d # c
    BY <1>1, <1>2, <2>2 DEF RequestOK, Answered
  <2> QED
    BY <2>1, <2>2
<1>9. HeldOK'
  <2>1. \A j \in Controllers : held'[j] # NoSession => held'[j] = held[j]
    BY <1>6
  <2>2. \A t \in Session : worker[t] = "live" => held'[on[t]] = t
    <3> SUFFICES ASSUME NEW t \in Session, worker[t] = "live" PROVE held'[on[t]] = t
      OBVIOUS
    <3>1. on[t] \in Controllers /\ held[on[t]] = t
      BY DEF HeldOK
    <3>2. t # s /\ t # NoSession
      BY <1>5, SessionsAssumption DEF Session, NoSession
    <3> QED
      BY <3>1, <3>2, <1>4, <1>6
  <2> QED
    BY <1>2, <2>1, <2>2 DEF HeldOK
<1>10. \A d \in Calls : HeldOrOver(d)'
  <2> SUFFICES ASSUME NEW d \in Calls, phase'[d] \in Pending, ~Abandoned(d)'
               PROVE  HeldOrOver(d)'
    BY DEF HeldOrOver
  <2>1. /\ d # c /\ phase'[d] = phase[d] /\ phase[d] \in Pending /\ ~Abandoned(d)
        /\ HeldOrOver(d) /\ RequestOK(d)
    BY <1>1, <1>2 DEF Abandoned
  <2>2. (Due(d))' <=> Due(d)
    BY <1>2, <2>1 DEF Due, Answered
  <2>3. on[d] \in Controllers /\ request[d].session \in Session /\ request[d].session # NoSession
    BY <2>1, SessionsAssumption DEF RequestOK, Pending, Waiting, Request, Session,
       NoSession
  <2>4. CASE held'[on[d]] = held[on[d]]
    BY <1>2, <2>1, <2>2, <2>4 DEF HeldOrOver, Leftover, Lost, EndsThread, IsMgba
  <2>5. CASE Lost(d)
    BY <1>2, <2>1, <2>5 DEF HeldOrOver, Leftover, Lost, IsMgba
  <2>6. CASE held'[on[d]] # held[on[d]] /\ ~Lost(d)
    <3>1. on[d] = k /\ held[k] = s
      BY <1>4, <1>6, <2>3, <2>6
    <3>2. request[d].session = s
      BY <1>4, <2>1, <2>6, <3>1 DEF HeldOrOver, Leftover
    <3>3. \/ /\ Due(d)
             /\ \/ worker[request[d].session] = "gone"
                \/ phase[d] = "asking"
                \/ phase[d] = "stopping" /\ ~EndsThread(d)
          \/ phase[d] = "persisting" /\ ~loaded[request[d].session]
      BY <2>1, <2>6, <3>2, LetGo
    <3> QED
      BY <1>2, <1>6, <2>1, <2>2, <3>1, <3>3 DEF HeldOrOver, Leftover, Lost, EndsThread, IsMgba
  <2> QED
    BY <2>4, <2>5, <2>6
<1>11. \A d \in Calls : Ending(d)'
  BY <1>1, <1>2 DEF Ending, EndsThread, IsMgba
<1>12. \A d \in Calls : Starting(d)'
  <2> SUFFICES ASSUME NEW d \in Calls PROVE Starting(d)'
    OBVIOUS
  <2>1. CASE d = c
    BY <1>1, <2>1 DEF Starting
  <2>2. CASE d # c
    <3>1. Starting(d)
      OBVIOUS
    <3> QED
      BY <1>1, <1>2, <2>2, <3>1 DEF Starting
  <2> QED
    BY <2>1, <2>2
<1>13. \A d \in Calls : SaveOK(d)'
  <2> SUFFICES ASSUME NEW d \in Calls, BringsSave(d)' PROVE SaveOK(d)'
    BY DEF SaveOK
  <2>1. /\ d # c /\ phase'[d] = phase[d] /\ BringsSave(d) /\ SaveOK(d)
        /\ request[d].session \in Calls /\ RequestOK(d) /\ phase[d] \in Pending
    BY <1>1, <1>2 DEF BringsSave, RequestOK, Request, Session
  <2>2. loaded[request[d].session] => request[d].session # s
    BY <2>1, LetGo DEF BringsSave, Abandoned
  <2>3. loaded[request[d].session] => held'[on[d]] = held[on[d]]
    BY <1>4, <1>6, <2>1, <2>2, SessionsAssumption DEF SaveOK, RequestOK, Pending,
       Waiting, NoSession
  <2> QED
    BY <1>1, <1>2, <2>1, <2>3 DEF SaveOK, IsMgba
<1>14. OneStop'
  BY <1>1 DEF OneStop, Stopping
<1> QED
  BY <1>4, <1>5, <1>7, <1>8, <1>9, <1>10, <1>11, <1>12, <1>13, <1>14

(* Queues. *)
LEMMA AppendTo ==
  ASSUME NEW S, NEW q \in Seq(S), NEW e \in S
  PROVE  /\ Append(q, e) \in Seq(S)
         /\ DOMAIN Append(q, e) = 1..(Len(q) + 1)
         /\ \A i \in DOMAIN q : i \in 1..Len(q) /\ Append(q, e)[i] = q[i]
         /\ \A i \in DOMAIN Append(q, e) :
              (i \in DOMAIN q /\ Append(q, e)[i] = q[i]) \/ (i = Len(q) + 1 /\ Append(q, e)[i] = e)
         /\ q # <<>> => Append(q, e) # <<>> /\ Head(Append(q, e)) = Head(q)
  OBVIOUS

LEMMA TailOf ==
  ASSUME NEW S, NEW q \in Seq(S), q # <<>>
  PROVE  /\ Tail(q) \in Seq(S)
         /\ 1 \in DOMAIN q /\ Head(q) = q[1] /\ Head(q) \in S
         /\ \A i \in DOMAIN Tail(q) : i + 1 \in DOMAIN q /\ i + 1 # 1 /\ Tail(q)[i] = q[i + 1]
         /\ \A i, j \in DOMAIN Tail(q) : i + 1 = j + 1 => i = j
  OBVIOUS

LEMMA ElementOf ==
  ASSUME NEW S, NEW q \in Seq(S), NEW i \in DOMAIN q
  PROVE  q[i] \in S
  OBVIOUS

Entry == [call : Calls, kind : Kind]

(* What is queued is a request somebody waits for. *)
LEMMA Queued ==
  ASSUME SessionsTypeOK, NEW t \in Session, NEW i \in DOMAIN inbox[t]
  PROVE  LET e == inbox[t][i] IN
         /\ e.call \in Calls /\ e.kind \in Kind
         /\ request[e.call] = [session |-> t, kind |-> e.kind, answer |-> "waiting"]
         /\ request[e.call].answer = "waiting"
<1>1. inbox[t] \in Seq(Entry)
  BY DEF SessionsTypeOK, Entry
<1>2. inbox[t][i] \in Entry
  BY <1>1, ElementOf
<1>3. request[inbox[t][i].call] = [session |-> t, kind |-> inbox[t][i].kind, answer |-> "waiting"]
  BY DEF SessionsTypeOK
<1> QED
  BY <1>2, <1>3 DEF Entry

(* Call c asks session s for something: its first request, or, for a       *)
(* launch, the next one to its own session.                                *)
LEMMA Posts ==
  ASSUME ControllerInv, NEW c \in Calls, NEW s \in Session, NEW kind \in Kind,
         NEW p \in {"starting", "failing", "stopping", "asking"},
         Post(c, s, kind), KindAt(p, kind),
         request[c].answer # "waiting",
         worker[s] # "none", on[s] \in Controllers, held[on[s]] = s,
         \/ /\ phase[c] \in {"loading", "starting"} /\ s = c /\ on' = on
            /\ p = "starting" => phase[c] = "loading" /\ request[c].answer = "ok"
            /\ p = "failing" => request[c].answer = "error"
            /\ p \in {"starting", "failing"}
         \/ /\ FreeFor(c, on[s]) /\ on' = [on EXCEPT ![c] = on[s]]
            /\ p = "stopping" => \A d \in Calls \ {c} : ~Stopping(d)
            /\ p \in {"stopping", "asking"},
         phase' = [phase EXCEPT ![c] = p],
         ctlStatus' \in [Controllers -> ControllerStatus],
         UNCHANGED <<held, outcome>>
  PROVE  ControllerInv'
<1> DEFINE refused == IsMgba(s) /\ Terminated(s)
           answer == IF refused THEN "error" ELSE "waiting"
           entry == [call |-> c, kind |-> kind]
<1> USE DEF ControllerInv, ControllerTypeOK
<1>1. /\ phase' \in [Calls -> Phase] /\ phase'[c] = p
      /\ \A d \in Calls \ {c} : phase'[d] = phase[d]
      /\ p \in Pending /\ p \in Waiting
  BY DEF Phase, Waiting, Micro, Pending
<1>2. /\ on' \in [Calls -> Controllers \union {NoController}]
      /\ \A d \in Calls \ {c} : on'[d] = on[d]
      /\ \A d \in Calls : worker[d] # "none" => on'[d] = on[d]
      /\ on'[c] = on[s]
  BY DEF FreeFor, Session
<1>3. /\ request' \in [Calls -> Request \union {NoRequest}]
      /\ request'[c] = [session |-> s, kind |-> kind, answer |-> answer]
      /\ request'[c] \in Request
      /\ \A d \in Calls \ {c} : request'[d] = request[d]
      /\ UNCHANGED <<core, worker, status, loaded, battery>>
  BY DEF Post, SessionsTypeOK, Request, Answer
<1>4. answer \in {"waiting", "error"} /\ (answer = "error" => IsMgba(s) /\ worker[s] # "live")
  BY DEF Terminated
<1>5. \/ inbox' = inbox
      \/ answer = "waiting" /\ inbox' = [inbox EXCEPT ![s] = Append(inbox[s], entry)]
  BY DEF Post
<1> HIDE DEF refused, answer
<1>6. entry \in Entry /\ \A t \in Session : inbox[t] \in Seq(Entry)
  BY DEF Entry, SessionsTypeOK
<1>7. \A t \in Session : \A i \in DOMAIN inbox[t] : inbox[t][i].call # c
  <2> SUFFICES ASSUME NEW t \in Session, NEW i \in DOMAIN inbox[t]
               PROVE  inbox[t][i].call # c
    OBVIOUS
  <2>1. SessionsTypeOK
    OBVIOUS
  <2>2. request[inbox[t][i].call].answer = "waiting"
    BY <2>1, Queued
  <2> QED
    BY <2>2
<1>8. /\ inbox' \in [Session -> Seq(Entry)]
      /\ \A t \in Session : \A i \in DOMAIN inbox'[t] :
           \/ i \in DOMAIN inbox[t] /\ inbox'[t][i] = inbox[t][i]
           \/ /\ answer = "waiting" /\ t = s /\ i = Len(inbox[s]) + 1
              /\ inbox'[t][i] = entry /\ i \notin DOMAIN inbox[t]
      /\ \A t \in Session : inbox[t] # <<>> => inbox'[t] # <<>> /\ Head(inbox'[t]) = Head(inbox[t])
  <2>1. inbox \in [Session -> Seq(Entry)]
    BY DEF SessionsTypeOK, Entry
  <2>2. CASE inbox' = inbox
    BY <2>1, <2>2
  <2>3. CASE answer = "waiting" /\ inbox' = [inbox EXCEPT ![s] = Append(inbox[s], entry)]
    <3>1. /\ Append(inbox[s], entry) \in Seq(Entry)
          /\ \A i \in DOMAIN Append(inbox[s], entry) :
               \/ i \in DOMAIN inbox[s] /\ Append(inbox[s], entry)[i] = inbox[s][i]
               \/ i = Len(inbox[s]) + 1 /\ Append(inbox[s], entry)[i] = entry
          /\ inbox[s] # <<>> => /\ Append(inbox[s], entry) # <<>>
                                /\ Head(Append(inbox[s], entry)) = Head(inbox[s])
          /\ \A i \in DOMAIN inbox[s] : i \in 1..Len(inbox[s])
      BY <1>6, AppendTo
    <3>2. /\ inbox'[s] = Append(inbox[s], entry)
          /\ \A t \in Session \ {s} : inbox'[t] = inbox[t]
      BY <2>1, <2>3
    <3>3. Len(inbox[s]) + 1 \notin DOMAIN inbox[s]
      BY <1>6
    <3> QED
      BY <2>1, <2>3, <3>1, <3>2, <3>3
  <2> QED
    BY <1>5, <2>2, <2>3
<1>9. SessionsTypeOK'
  <2>1. ASSUME NEW t \in Session, NEW i \in DOMAIN inbox'[t]
        PROVE  request'[inbox'[t][i].call] =
                 [session |-> t, kind |-> inbox'[t][i].kind, answer |-> "waiting"]
    <3>1. CASE i \in DOMAIN inbox[t] /\ inbox'[t][i] = inbox[t][i]
      <4>1. /\ inbox[t][i].call \in Calls \ {c}
            /\ request[inbox[t][i].call] =
                 [session |-> t, kind |-> inbox[t][i].kind, answer |-> "waiting"]
        BY <1>7, <3>1, Queued
      <4> QED
        BY <1>3, <3>1, <4>1
    <3>2. CASE answer = "waiting" /\ t = s /\ inbox'[t][i] = entry
      BY <1>3, <3>2
    <3> QED
      BY <1>8, <2>1, <3>1, <3>2
  <2> QED
    BY <1>3, <1>8, <2>1 DEF SessionsTypeOK, Entry
<1>10. ControllerTypeOK'
  BY <1>1, <1>2, <1>9
<1>11. InboxesOK'
  <2> SUFFICES ASSUME NEW t \in Session, NEW i \in DOMAIN inbox'[t], NEW j \in DOMAIN inbox'[t],
                      inbox'[t][i].call = inbox'[t][j].call
               PROVE  i = j
    BY DEF InboxesOK
  <2>1. CASE i \in DOMAIN inbox[t] /\ j \in DOMAIN inbox[t]
    BY <1>8, <2>1 DEF InboxesOK
  <2>2. CASE i \notin DOMAIN inbox[t] /\ j \notin DOMAIN inbox[t]
    BY <1>8, <2>2
  <2>3. CASE i \in DOMAIN inbox[t] /\ j \notin DOMAIN inbox[t]
    BY <1>7, <1>8, <2>3
  <2>4. CASE i \notin DOMAIN inbox[t] /\ j \in DOMAIN inbox[t]
    BY <1>7, <1>8, <2>4
  <2> QED
    BY <2>1, <2>2, <2>3, <2>4
<1>12. \A d \in Calls : RequestOK(d)'
  <2> SUFFICES ASSUME NEW d \in Calls PROVE RequestOK(d)'
    OBVIOUS
  <2>1. CASE d = c
    <3>1. phase'[c] # "idle" /\ on'[c] \in Controllers /\ on'[s] = on'[c]
      BY <1>1, <1>2 DEF Session
    <3>2. phase'[c] \in Launching => s = c
      BY <1>1 DEF Launching
    <3>3. phase'[c] \notin {"failExit", "terminating", "exporting", "persisting"}
      BY <1>1
    <3>4. worker'[c] = "none" => status'[c] = "idle" /\ ~loaded'[c]
      BY <1>3 DEF RequestOK
    <3> QED
      BY <1>1, <1>3, <2>1, <3>1, <3>2, <3>3, <3>4 DEF RequestOK
  <2>2. CASE d # c
    <3>1. phase'[d] = phase[d] /\ on'[d] = on[d] /\ request'[d] = request[d] /\ RequestOK(d)
      BY <1>1, <1>2, <1>3, <2>2
    <3>2. phase[d] \in Pending => on'[request[d].session] = on[request[d].session]
      BY <1>2, <3>1 DEF RequestOK, Request, Session
    <3> QED
      BY <3>1, <3>2, <1>3 DEF RequestOK, Answered
  <2> QED
    BY <2>1, <2>2
<1>13. HeldOK'
  BY <1>2, <1>3 DEF HeldOK, Session, NoSession
<1>14. \A d \in Calls : HeldOrOver(d)'
  <2> SUFFICES ASSUME NEW d \in Calls PROVE HeldOrOver(d)'
    OBVIOUS
  <2>1. CASE d = c
    BY <1>2, <1>3, <2>1 DEF HeldOrOver
  <2>2. CASE d # c
    <3>1. HeldOrOver(d)
      OBVIOUS
    <3> QED
      BY <1>1, <1>2, <1>3, <2>2, <3>1 DEF HeldOrOver, Leftover, Lost, Abandoned, Due, Answered,
         EndsThread, IsMgba
  <2> QED
    BY <2>1, <2>2
<1>15. \A d \in Calls : Ending(d)'
  <2> SUFFICES ASSUME NEW d \in Calls PROVE Ending(d)'
    OBVIOUS
  <2>1. CASE d = c
    BY <1>1, <1>3, <1>4, <2>1 DEF Ending, IsMgba
  <2>2. CASE d # c
    <3>1. Ending(d) /\ phase'[d] = phase[d] /\ request'[d] = request[d]
      BY <1>1, <1>3, <2>2
    <3> QED
      BY <1>3, <3>1 DEF Ending, EndsThread, IsMgba
  <2> QED
    BY <2>1, <2>2
<1>16. \A d \in Calls : Starting(d)'
  <2> SUFFICES ASSUME NEW d \in Calls PROVE Starting(d)'
    OBVIOUS
  <2>1. CASE d = c
    <3>1. Starting(c)
      OBVIOUS
    <3>2. p = "starting" => answer = "waiting" /\ loaded[c] /\ status[c] = "idle"
      BY <1>4, <3>1 DEF Starting
    <3>3. p = "failing" => ~loaded[c] \/ worker[c] \in {"crashed", "gone"}
      BY <3>1 DEF Starting
    <3> QED
      BY <1>1, <1>3, <2>1, <3>2, <3>3 DEF Starting
  <2>2. CASE d # c
    <3>1. Starting(d) /\ phase'[d] = phase[d] /\ request'[d] = request[d]
      BY <1>1, <1>3, <2>2
    <3>2. phase[d] = "loading" /\ request[d].answer # "error" /\ s = d => answer = "waiting"
      BY <1>4, <3>1 DEF Starting
    <3>3. phase[d] = "loading" /\ request[d].answer # "error" =>
            \A e \in Calls \ {d} : phase'[e] \in Pending /\ request'[e].session = d =>
              request'[e].answer = "waiting"
      BY <1>1, <1>3, <3>1, <3>2 DEF Starting
    <3>4. inbox[d] # <<>> => inbox'[d] # <<>> /\ Head(inbox'[d]) = Head(inbox[d])
      BY <1>8 DEF Session
    <3> QED
      BY <1>3, <3>1, <3>3, <3>4 DEF Starting
  <2> QED
    BY <2>1, <2>2
<1>17. \A d \in Calls : SaveOK(d)'
  <2> SUFFICES ASSUME NEW d \in Calls, BringsSave(d)' PROVE SaveOK(d)'
    BY DEF SaveOK
  <2>1. /\ d # c /\ phase'[d] = phase[d] /\ request'[d] = request[d] /\ BringsSave(d) /\ SaveOK(d)
        /\ on'[d] = on[d] /\ RequestOK(d) /\ phase[d] \in Pending
    BY <1>1, <1>2, <1>3, <1>4 DEF BringsSave
  <2>2. request[d].session \in Calls
    BY <2>1 DEF RequestOK, Request, Session
  <2>3. p \in {"starting", "failing"} /\ loaded[c] => request[d].session # c
    <3> SUFFICES ASSUME p \in {"starting", "failing"}, loaded[c], request[d].session = c
                 PROVE  FALSE
      OBVIOUS
    <3>1. phase[c] = "loading" /\ request[c].answer = "ok" => request[d].answer = "waiting"
      BY <2>1 DEF Starting
    <3> QED
      BY <2>1, <3>1 DEF SaveOK, BringsSave
  <2> QED
    BY <1>1, <1>3, <2>1, <2>2, <2>3 DEF SaveOK, IsMgba
<1>18. OneStop'
  BY <1>1 DEF OneStop, Stopping
<1> QED
  BY <1>10, <1>11, <1>12, <1>13, <1>14, <1>15, <1>16, <1>17, <1>18

(* A launch creates its session.                                           *)
LEMMA Opens ==
  ASSUME ControllerInv, NEW c \in Calls, NEW k \in Controllers, NEW j \in Cores,
         phase[c] \notin Pending, Quiet, held[k] = NoSession, Open(c, j), Enter(c, k),
         \A d \in Calls : phase[d] = "persisting" /\ on[d] = k => held[k] # NoSession,
         held' = [held EXCEPT ![k] = c], SetStatus(k, "starting"), To(c, "loading")
  PROVE  ControllerInv'
<1> DEFINE entry == [call |-> c, kind |-> "load-rom"]
<1> USE DEF ControllerInv, ControllerTypeOK
<1>1. /\ phase' \in [Calls -> Phase] /\ phase'[c] = "loading" /\ outcome' = outcome
      /\ \A d \in Calls \ {c} : phase'[d] = phase[d]
  BY DEF To, Phase, Waiting
<1>2. /\ on' \in [Calls -> Controllers \union {NoController}] /\ on'[c] = k
      /\ \A d \in Calls \ {c} : on'[d] = on[d]
      /\ held' \in [Controllers -> Session \union {NoSession}] /\ held'[k] = c
      /\ \A i \in Controllers \ {k} : held'[i] = held[i]
      /\ ctlStatus' \in [Controllers -> ControllerStatus]
  BY DEF Enter, Session, SetStatus, ControllerStatus
<1>3. /\ request' \in [Calls -> Request \union {NoRequest}]
      /\ request'[c] = [session |-> c, kind |-> "load-rom", answer |-> "waiting"]
      /\ request'[c] \in Request
      /\ \A d \in Calls \ {c} : request'[d] = request[d]
  BY DEF Open, SessionsTypeOK, Request, Answer, Kind, Session
<1>4. /\ core' \in [Session -> Cores \union {NoCore}]
      /\ worker' \in [Session -> Worker]
      /\ worker[c] = "none" /\ worker'[c] = "live"
      /\ \A d \in Calls \ {c} : core'[d] = core[d] /\ worker'[d] = worker[d]
      /\ UNCHANGED <<status, loaded, battery>>
  BY DEF Open, SessionsTypeOK, Worker, Session
<1>5. /\ request[c].answer # "waiting" /\ status[c] = "idle" /\ ~loaded[c] /\ battery[c] = 0
      /\ \A d \in Calls : phase[d] \in Pending => d # c /\ request[d].session \in Calls \ {c}
  BY <1>4 DEF RequestOK, Pending, Waiting, Request, Session
<1>6. /\ inbox' \in [Session -> Seq(Entry)]
      /\ inbox'[c] = <<entry>>
      /\ \A d \in Calls \ {c} : inbox'[d] = inbox[d]
  BY DEF Open, SessionsTypeOK, Entry, Session, Kind
<1>7. \A t \in Session : \A i \in DOMAIN inbox[t] :
        inbox[t][i].call # c /\ inbox[t][i].call \in Calls
  <2> SUFFICES ASSUME NEW t \in Session, NEW i \in DOMAIN inbox[t]
               PROVE  inbox[t][i].call # c /\ inbox[t][i].call \in Calls
    OBVIOUS
  <2>1. SessionsTypeOK
    OBVIOUS
  <2>2. request[inbox[t][i].call].answer = "waiting" /\ inbox[t][i].call \in Calls
    BY <2>1, Queued
  <2> QED
    BY <1>5, <2>2
<1>8. SessionsTypeOK'
  <2>1. ASSUME NEW t \in Session, NEW i \in DOMAIN inbox'[t]
        PROVE  request'[inbox'[t][i].call] =
                 [session |-> t, kind |-> inbox'[t][i].kind, answer |-> "waiting"]
    <3>1. CASE t = c
      BY <1>3, <1>6, <2>1, <3>1
    <3>2. CASE t # c
      <4>1. inbox'[t] = inbox[t] /\ inbox[t][i].call \in Calls \ {c}
        BY <1>6, <1>7, <2>1, <3>2 DEF Session
      <4>2. request[inbox[t][i].call] =
              [session |-> t, kind |-> inbox[t][i].kind, answer |-> "waiting"]
        BY <2>1, <4>1 DEF SessionsTypeOK
      <4> QED
        BY <1>3, <4>1, <4>2
    <3> QED
      BY <3>1, <3>2
  <2> QED
    BY <1>3, <1>4, <1>6, <2>1 DEF SessionsTypeOK, Entry
<1>9. ControllerTypeOK'
  BY <1>1, <1>2, <1>8
<1>10. InboxesOK'
  <2>1. \A a, b \in DOMAIN inbox'[c] : a = b
    BY <1>6
  <2> QED
    BY <1>6, <2>1 DEF InboxesOK, Session
<1>11. \A d \in Calls : RequestOK(d)'
  <2> SUFFICES ASSUME NEW d \in Calls PROVE RequestOK(d)'
    OBVIOUS
  <2>1. CASE d = c
    BY <1>1, <1>2, <1>3, <1>4, <2>1 DEF RequestOK, KindAt, StopPhase, Waiting
  <2>2. CASE d # c
    <3>1. /\ phase'[d] = phase[d] /\ on'[d] = on[d] /\ request'[d] = request[d]
          /\ worker'[d] = worker[d] /\ RequestOK(d)
      BY <1>1, <1>2, <1>3, <1>4, <2>2
    <3>2. phase[d] \in Pending =>
            /\ on'[request[d].session] = on[request[d].session]
            /\ worker'[request[d].session] = worker[request[d].session]
      BY <1>2, <1>4, <1>5
    <3> QED
      BY <1>4, <3>1, <3>2 DEF RequestOK, Answered, Pending, Waiting
  <2> QED
    BY <2>1, <2>2
<1>12. HeldOK'
  <2>1. \A i \in Controllers : held'[i] # NoSession =>
          on'[held'[i]] = i /\ worker'[held'[i]] # "none"
    BY <1>2, <1>4 DEF HeldOK, Session
  <2>2. \A t \in Session : worker'[t] = "live" => on'[t] \in Controllers /\ held'[on'[t]] = t
    <3> SUFFICES ASSUME NEW t \in Session, worker'[t] = "live"
                 PROVE  on'[t] \in Controllers /\ held'[on'[t]] = t
      OBVIOUS
    <3>1. CASE t = c
      BY <1>2, <3>1
    <3>2. CASE t # c
      <4>1. on'[t] = on[t] /\ on[t] \in Controllers /\ held[on[t]] = t
        BY <1>2, <1>4, <3>2 DEF HeldOK, Session
      <4>2. on[t] # k
        BY <4>1, SessionsAssumption DEF Session, NoSession
      <4> QED
        BY <1>2, <4>1, <4>2
    <3> QED
      BY <3>1, <3>2
  <2> QED
    BY <2>1, <2>2 DEF HeldOK
<1>13. \A d \in Calls : HeldOrOver(d)'
  <2> SUFFICES ASSUME NEW d \in Calls, phase'[d] \in Pending, ~Abandoned(d)'
               PROVE  HeldOrOver(d)'
    BY DEF HeldOrOver
  <2>1. CASE d = c
    BY <1>2, <1>3, <2>1 DEF HeldOrOver
  <2>2. CASE d # c
    <3>1. /\ phase[d] \in Pending /\ ~Abandoned(d) /\ request[d].session \in Calls \ {c}
          /\ on'[d] = on[d] /\ request'[d] = request[d] /\ on[d] \in Controllers
      BY <1>1, <1>2, <1>3, <1>4, <1>5, <2>2 DEF Abandoned, RequestOK, Pending, Waiting
    <3>2. ~Due(d) /\ HeldOrOver(d)
      BY DEF Quiet
    <3>3. CASE Lost(d)
      BY <1>1, <1>4, <2>2, <3>1, <3>3 DEF HeldOrOver, Leftover, Lost, IsMgba
    <3>4. CASE held[on[d]] = request[d].session
      <4>1. on[d] # k
        BY <3>1, <3>4, SessionsAssumption DEF NoSession
      <4> QED
        BY <1>2, <3>1, <3>4, <4>1 DEF HeldOrOver
    <3>5. CASE Leftover(d)
      <4>1. on[d] # k
        BY <3>1, <3>5 DEF Leftover
      <4> QED
        BY <1>1, <1>2, <1>4, <2>2, <3>1, <3>5, <4>1 DEF HeldOrOver, Leftover
    <3> QED
      BY <3>1, <3>2, <3>3, <3>4, <3>5 DEF HeldOrOver
  <2> QED
    BY <2>1, <2>2
<1>14. \A d \in Calls : Ending(d)'
  <2> SUFFICES ASSUME NEW d \in Calls PROVE Ending(d)'
    OBVIOUS
  <2>1. CASE d = c
    BY <1>1, <2>1 DEF Ending
  <2>2. CASE d # c
    <3>1. Ending(d) /\ phase'[d] = phase[d] /\ request'[d] = request[d]
      BY <1>1, <1>3, <2>2
    <3>2. phase[d] \in Pending => request[d].session \in Calls \ {c}
      BY <1>5
    <3>3. phase[d] \notin Pending => Ending(d)'
      BY <3>1 DEF Ending, Pending, Waiting
    <3> QED
      BY <1>3, <1>4, <2>2, <3>1, <3>2, <3>3 DEF Ending, EndsThread, IsMgba
  <2> QED
    BY <2>1, <2>2
<1>15. \A d \in Calls : Starting(d)'
  <2> SUFFICES ASSUME NEW d \in Calls PROVE Starting(d)'
    OBVIOUS
  <2>1. CASE d = c
    <3>1. \A e \in Calls \ {c} : phase'[e] \in Pending => request'[e].session # c
      BY <1>1, <1>3, <1>5
    <3>2. inbox'[c] # <<>> /\ Head(inbox'[c]) = entry
      BY <1>6
    <3> QED
      BY <1>1, <1>3, <1>4, <1>5, <2>1, <3>1, <3>2 DEF Starting
  <2>2. CASE d # c
    <3>1. Starting(d) /\ phase'[d] = phase[d] /\ request'[d] = request[d]
      BY <1>1, <1>3, <2>2
    <3>2. inbox'[d] = inbox[d] /\ worker'[d] = worker[d]
      BY <1>4, <1>6, <2>2
    <3>3. \A e \in Calls : phase'[e] \in Pending /\ request'[e].session = d =>
            phase[e] \in Pending /\ request'[e] = request[e]
      BY <1>1, <1>3, <2>2
    <3> QED
      BY <1>4, <3>1, <3>2, <3>3 DEF Starting
  <2> QED
    BY <2>1, <2>2
<1>16. \A d \in Calls : SaveOK(d)'
  <2> SUFFICES ASSUME NEW d \in Calls, BringsSave(d)' PROVE SaveOK(d)'
    BY DEF SaveOK
  <2>1. /\ d # c /\ phase'[d] = phase[d] /\ request'[d] = request[d] /\ BringsSave(d) /\ SaveOK(d)
        /\ on'[d] = on[d] /\ phase[d] \in Pending /\ request[d].session \in Calls \ {c}
    BY <1>1, <1>2, <1>3, <1>5 DEF BringsSave
  <2>2. on[d] \in Controllers /\ (loaded[request[d].session] => on[d] # k)
    BY <2>1, SessionsAssumption DEF SaveOK, RequestOK, NoSession, Pending, Waiting
  <2> DEFINE s == request[d].session
  <2>3. /\ s \in Calls \ {c} /\ request'[d].session = s /\ request'[s] = request[s]
        /\ phase'[s] = phase[s] /\ loaded'[s] = loaded[s] /\ status'[s] = status[s]
        /\ core'[s] = core[s]
    BY <1>1, <1>3, <1>4, <2>1
  <2>4. loaded[s] => held'[on'[d]] = held[on[d]]
    BY <1>2, <2>1, <2>2
  <2>5. /\ phase[d] \in StopPhase \union {"failing", "failExit"}
        /\ loaded[s] \/ IsMgba(s)
        /\ loaded[s] => /\ phase[d] \in StopPhase /\ held[on[d]] = s
                        /\ phase[s] \notin {"failing", "failExit"}
                        /\ phase[s] \in {"loading", "starting"} => request[s].answer # "error"
                        /\ phase[s] = "starting" /\ request[s].answer = "waiting"
                             => status[s] = "stopped"
    BY <2>1 DEF SaveOK
  <2>6. IsMgba(s)' = IsMgba(s)
    BY <2>3 DEF IsMgba
  <2> HIDE DEF s
  <2> QED
    BY <2>1, <2>3, <2>4, <2>5, <2>6 DEF SaveOK, s
<1>17. OneStop'
  BY <1>1 DEF OneStop, Stopping
<1> QED
  BY <1>9, <1>10, <1>11, <1>12, <1>13, <1>14, <1>15, <1>16, <1>17

(* While nothing is due, who waits for a thread that can still answer is   *)
(* with the controller that holds the session.                             *)
LEMMA HeldWhenQuiet ==
  ASSUME ControllerInv, Quiet, NEW d \in Calls, phase[d] \in Pending,
         worker[request[d].session] \notin {"crashed", "gone"}
  PROVE  held[on[d]] = request[d].session
BY DEF ControllerInv, Quiet, HeldOrOver, Leftover, Lost, Abandoned, RequestOK

(* Nothing that was answered is left where the answer is looked at next.   *)
LEMMA NotAnsweredWhenQuiet ==
  ASSUME ControllerInv, Quiet, NEW d \in Calls,
         phase[d] \in {"loading", "starting", "failing", "stopping", "asking"}
  PROVE  request[d].answer = "waiting"
<1>1. RequestOK(d) /\ ~Due(d)
  BY DEF ControllerInv, Quiet
<1> QED
  BY <1>1 DEF RequestOK, Due, Answered, Pending, Waiting, Request, Answer

(* The thread of session s answers its oldest request.                     *)
LEMMA Serves ==
  ASSUME ControllerInv, Quiet, NEW s \in Session, Reaches(s), inbox[s] # <<>>,
         NEW kind \in Kind, Head(inbox[s]).kind = kind,
         NEW a \in {"ok", "save", "error"}, NEW st \in Status, Reply(s, a, st),
         loaded' \in [Session -> BOOLEAN], battery' \in [Session -> 0..MaxBattery],
         \A t \in Session \ {s} : loaded'[t] = loaded[t] /\ battery'[t] = battery[t],
         IF kind = "load-rom" /\ a = "ok" THEN loaded'[s] = TRUE ELSE loaded' = loaded,
         kind = "start" /\ loaded[s] /\ status[s] \in {"idle", "stopped"} => a = "ok",
         kind = "stop" => st = "stopped" /\ (a = "error" => IsMgba(s)),
         kind \notin {"start", "stop"} /\ status[s] \in {"idle", "stopped"} => st = status[s],
         a = "save" => kind = "stop" /\ (loaded[s] \/ IsMgba(s)),
         UNCHANGED controllerVars
  PROVE  ControllerInv'
<1> DEFINE e == Head(inbox[s]).call
<1>a. \A d \in Calls :
        phase[d] \in Pending /\ worker[request[d].session] \notin {"crashed", "gone"} =>
          held[on[d]] = request[d].session
  BY HeldWhenQuiet
<1>b. \A d \in Calls : phase[d] \in {"loading", "starting", "failing", "stopping", "asking"} =>
        request[d].answer = "waiting"
  BY NotAnsweredWhenQuiet
<1> USE DEF ControllerInv, ControllerTypeOK
<1>1. /\ UNCHANGED <<core, worker, held, phase, on, ctlStatus, outcome>>
      /\ worker[s] \in {"live", "exiting"}
  BY DEF Reply, controllerVars, Reaches
<1>2. /\ inbox[s] \in Seq(Entry) /\ inbox \in [Session -> Seq(Entry)]
      /\ 1 \in DOMAIN inbox[s] /\ Head(inbox[s]) = inbox[s][1]
      /\ Tail(inbox[s]) \in Seq(Entry)
      /\ \A i \in DOMAIN Tail(inbox[s]) :
           i + 1 \in DOMAIN inbox[s] /\ i + 1 # 1 /\ Tail(inbox[s])[i] = inbox[s][i + 1]
      /\ \A i, j \in DOMAIN Tail(inbox[s]) : i + 1 = j + 1 => i = j
  <2>1. inbox \in [Session -> Seq(Entry)]
    BY DEF SessionsTypeOK, Entry
  <2> QED
    BY <2>1, TailOf
<1>3. /\ e \in Calls /\ request[e].answer = "waiting"
      /\ request[e] = [session |-> s, kind |-> kind, answer |-> "waiting"]
  <2>1. SessionsTypeOK
    OBVIOUS
  <2> QED
    BY <1>2, <2>1, Queued
<1>4. /\ request' \in [Calls -> Request \union {NoRequest}]
      /\ request'[e] = [session |-> s, kind |-> kind, answer |-> a]
      /\ request'[e] \in Request
      /\ \A d \in Calls \ {e} : request'[d] = request[d]
  <2>1. request \in [Calls -> Request \union {NoRequest}]
    BY DEF SessionsTypeOK
  <2>2. request' = [request EXCEPT ![e] = [request[e] EXCEPT !.answer = a]]
    BY <1>3, <2>1 DEF Reply
  <2>3. [request[e] EXCEPT !.answer = a] = [session |-> s, kind |-> kind, answer |-> a]
    BY <1>3
  <2>4. [session |-> s, kind |-> kind, answer |-> a] \in Request
    BY DEF Request, Answer
  <2> QED
    BY <1>3, <2>1, <2>2, <2>3, <2>4
<1>5. /\ status' \in [Session -> Status] /\ status'[s] = st
      /\ \A t \in Session \ {s} : status'[t] = status[t]
  BY DEF Reply, SessionsTypeOK
<1>6. /\ inbox' \in [Session -> Seq(Entry)] /\ inbox'[s] = Tail(inbox[s])
      /\ \A t \in Session \ {s} : inbox'[t] = inbox[t]
  BY <1>2 DEF Reply
<1>7. /\ phase[e] \in {"loading", "starting", "failing", "stopping", "asking"}
      /\ phase[e] \in Pending /\ KindAt(phase[e], kind)
      /\ phase[e] \in Launching => s = e
  <2>1. RequestOK(e)
    BY <1>3
  <2> HIDE DEF ControllerInv
  <2>2. phase[e] \in Waiting /\ phase[e] \in Pending
    BY <1>3, <2>1 DEF RequestOK, Pending
  <2>3. KindAt(phase[e], kind) /\ (phase[e] \in Launching => s = e)
    BY <1>3, <2>1, <2>2 DEF RequestOK
  <2>4. phase[e] \notin {"failExit", "terminating", "exporting", "persisting"}
    BY <1>3, <2>1 DEF RequestOK, Answered
  <2> QED
    BY <2>2, <2>3, <2>4 DEF Waiting
<1>8. \A t \in Session : \A i \in DOMAIN inbox'[t] :
        \E n \in DOMAIN inbox[t] : inbox'[t][i] = inbox[t][n] /\ inbox[t][n].call # e
  <2> SUFFICES ASSUME NEW t \in Session, NEW i \in DOMAIN inbox'[t]
               PROVE  \E n \in DOMAIN inbox[t] :
                        inbox'[t][i] = inbox[t][n] /\ inbox[t][n].call # e
    OBVIOUS
  <2>1. CASE t = s
    <3>1. i + 1 \in DOMAIN inbox[s] /\ i + 1 # 1 /\ inbox'[s][i] = inbox[s][i + 1]
      BY <1>2, <1>6, <2>1
    <3>2. inbox[s][i + 1].call # inbox[s][1].call
      BY <1>2, <3>1 DEF InboxesOK
    <3> QED
      BY <1>2, <2>1, <3>1, <3>2
  <2>2. CASE t # s
    <3>1. request[inbox[t][i].call] = [session |-> t, kind |-> inbox[t][i].kind, answer |-> "waiting"]
      BY <1>6, <2>2 DEF SessionsTypeOK
    <3> QED
      BY <1>3, <1>6, <2>2, <3>1
  <2> QED
    BY <2>1, <2>2
<1>9. SessionsTypeOK'
  <2>1. ASSUME NEW t \in Session, NEW i \in DOMAIN inbox'[t]
        PROVE  request'[inbox'[t][i].call] =
                 [session |-> t, kind |-> inbox'[t][i].kind, answer |-> "waiting"]
    <3>1. PICK n \in DOMAIN inbox[t] : inbox'[t][i] = inbox[t][n] /\ inbox[t][n].call # e
      BY <1>8
    <3>2. SessionsTypeOK
      OBVIOUS
    <3>3. /\ inbox[t][n].call \in Calls
          /\ request[inbox[t][n].call] =
               [session |-> t, kind |-> inbox[t][n].kind, answer |-> "waiting"]
      BY <3>2, Queued
    <3> QED
      BY <1>4, <3>1, <3>3
  <2> QED
    BY <1>1, <1>4, <1>5, <1>6, <2>1 DEF SessionsTypeOK, Entry
<1>10. ControllerTypeOK'
  BY <1>1, <1>9
<1>11. InboxesOK'
  <2> SUFFICES ASSUME NEW t \in Session, NEW i \in DOMAIN inbox'[t], NEW j \in DOMAIN inbox'[t],
                      inbox'[t][i].call = inbox'[t][j].call
               PROVE  i = j
    BY DEF InboxesOK
  <2>1. CASE t = s
    <3>1. /\ i + 1 \in DOMAIN inbox[s] /\ inbox'[s][i] = inbox[s][i + 1]
          /\ j + 1 \in DOMAIN inbox[s] /\ inbox'[s][j] = inbox[s][j + 1]
      BY <1>2, <1>6, <2>1
    <3>2. i + 1 = j + 1
      BY <2>1, <3>1 DEF InboxesOK
    <3> QED
      BY <1>2, <1>6, <2>1, <3>2
  <2>2. CASE t # s
    BY <1>6, <2>2 DEF InboxesOK
  <2> QED
    BY <2>1, <2>2
<1>12. \A d \in Calls : RequestOK(d)'
  <2> SUFFICES ASSUME NEW d \in Calls PROVE RequestOK(d)'
    OBVIOUS
  <2>1. worker[d] = "none" => d # s
    BY <1>1
  <2>2. worker'[d] = "none" => status'[d] = "idle" /\ ~loaded'[d] /\ battery'[d] = 0
    <3> SUFFICES ASSUME worker'[d] = "none"
                 PROVE  status'[d] = "idle" /\ ~loaded'[d] /\ battery'[d] = 0
      OBVIOUS
    <3>1. d \in Session \ {s} /\ status[d] = "idle" /\ ~loaded[d] /\ battery[d] = 0
      BY <1>1, <2>1 DEF RequestOK, Session
    <3> QED
      BY <1>5, <3>1
  <2>3. CASE d = e
    <3>1. RequestOK(e) /\ s \in Session
      BY <1>3
    <3> HIDE DEF ControllerInv
    <3>2. phase[e] # "idle" /\ worker[s] # "none" /\ on[e] \in Controllers /\ on[s] = on[e]
      BY <1>3, <1>7, <3>1 DEF RequestOK
    <3>3. request'[e].answer = a /\ request'[e].kind = kind /\ request'[e].session = s
      BY <1>4
    <3> QED
      BY <1>1, <1>4, <1>7, <2>2, <2>3, <3>2, <3>3 DEF RequestOK
  <2>4. CASE d # e
    <3>1. RequestOK(d) /\ request'[d] = request[d]
      BY <1>4, <2>4
    <3> QED
      BY <1>1, <2>2, <3>1 DEF RequestOK, Answered
  <2> QED
    BY <2>3, <2>4
<1>13. HeldOK'
  BY <1>1 DEF HeldOK
<1>14. \A d \in Calls : HeldOrOver(d)'
  <2> SUFFICES ASSUME NEW d \in Calls, phase'[d] \in Pending, ~Abandoned(d)'
               PROVE  HeldOrOver(d)'
    BY DEF HeldOrOver
  <2>1. request'[d].session = request[d].session
    <3> HIDE DEF ControllerInv
    <3> QED
      BY <1>3, <1>4
  <2>2. CASE worker[request[d].session] \notin {"crashed", "gone"}
    BY <1>1, <2>1, <2>2, <1>a DEF HeldOrOver
  <2>3. CASE worker[request[d].session] \in {"crashed", "gone"}
    <3>a. phase[d] = "persisting" => loaded'[request[d].session] = loaded[request[d].session]
      BY <1>1, <2>3 DEF RequestOK, Pending, Waiting, Request
    <3>1. d # e
      BY <1>1, <1>3, <2>3
    <3>2. request'[d] = request[d] /\ ~Abandoned(d) /\ HeldOrOver(d) /\ ~Due(d)
      BY <1>1, <1>4, <3>1 DEF Abandoned, Quiet
    <3> QED
      BY <1>1, <3>a, <3>2 DEF HeldOrOver, Leftover, Lost, IsMgba
  <2> QED
    BY <2>2, <2>3
<1>15. \A d \in Calls : Ending(d)'
  <2> SUFFICES ASSUME NEW d \in Calls PROVE Ending(d)'
    OBVIOUS
  <2>1. CASE d = e
    <3>1. phase[e] \in {"stopping", "failing"} /\ a = "error" => IsMgba(s)
      BY <1>7 DEF KindAt, StopPhase
    <3>2. /\ request'[d].session = s /\ request'[d].answer = a /\ phase'[d] = phase[e]
          /\ phase[e] \in {"loading", "starting", "failing", "stopping", "asking"}
          /\ worker'[s] = worker[s] /\ worker[s] \in {"live", "exiting"} /\ core' = core
      BY <1>1, <1>4, <1>7, <2>1
    <3> HIDE DEF ControllerInv, ControllerTypeOK
    <3> QED
      BY <3>1, <3>2 DEF Ending, IsMgba
  <2>2. CASE d # e
    <3>1. Ending(d) /\ request'[d] = request[d]
      BY <1>4, <2>2
    <3>2. \A x \in Calls : request[x].session = d /\ request[x].answer # "waiting" =>
            request'[x].answer # "waiting"
      BY <1>3, <1>4
    <3>3. \A x \in Calls : request'[x].session = request[x].session
      BY <1>3, <1>4
    <3> QED
      BY <1>1, <3>1, <3>2, <3>3 DEF Ending, EndsThread, IsMgba
  <2> QED
    BY <2>1, <2>2
<1>16. \A d \in Calls : phase[d] = "loading" /\ d = s => d = e /\ kind = "load-rom"
  <2> SUFFICES ASSUME NEW d \in Calls, phase[d] = "loading", d = s
               PROVE  d = e /\ kind = "load-rom"
    OBVIOUS
  <2>1. request[d].answer = "waiting" /\ Starting(d)
    BY <1>b
  <2> QED
    BY <2>1 DEF Starting
<1>17. \A d \in Calls : Starting(d)'
  <2> SUFFICES ASSUME NEW d \in Calls PROVE Starting(d)'
    OBVIOUS
  <2>1. Starting(d)
    OBVIOUS
  <2>2. CASE phase[d] = "loading" /\ d = s
    <3> HIDE DEF ControllerInv
    <3>1. d = e /\ kind = "load-rom" /\ st = status[d] /\ a # "save"
      BY <1>16, <2>1, <2>2, <1>3 DEF Starting
    <3>2. \A x \in Calls \ {d} : phase[x] \in Pending /\ request[x].session = d =>
            request'[x].answer = "waiting"
      BY <1>3, <1>4, <2>1, <2>2, <3>1 DEF Starting
    <3>3. \A x \in Calls : request'[x].session = request[x].session
      BY <1>3, <1>4
    <3>4. (a = "ok" => loaded'[d]) /\ (loaded'[d] => a = "ok")
      BY <1>3, <2>1, <2>2, <3>1 DEF Starting
    <3>5. worker[d] = "live" /\ status[d] = "idle"
      BY <1>3, <2>1, <2>2, <3>1 DEF Starting
    <3>6. request'[d].answer = a /\ a # "waiting" /\ status'[d] = "idle"
      <4>1. request'[d].answer = a /\ a # "waiting"
        BY <1>4, <3>1
      <4>2. status'[d] = status[d]
        BY <1>5, <2>2, <3>1
      <4> QED
        BY <3>5, <4>1, <4>2
    <3>7. \A x \in Calls \ {d} : phase'[x] \in Pending /\ request'[x].session = d =>
            request'[x].answer = "waiting"
      BY <1>1, <3>2, <3>3
    <3> QED
      BY <1>1, <2>2, <3>1, <3>4, <3>5, <3>6, <3>7 DEF Starting
  <2>3. CASE phase[d] = "loading" /\ d # s
    <3>1. d # e
      BY <1>7, <2>3 DEF Launching
    <3>2. request'[d] = request[d] /\ inbox'[d] = inbox[d] /\ status'[d] = status[d]
          /\ (loaded'[d] => loaded[d]) /\ (loaded[d] => loaded'[d]) /\ battery'[d] = battery[d]
      BY <1>4, <1>5, <1>6, <2>3, <3>1 DEF Session
    <3>3. \A x \in Calls : request'[x].session = d => request'[x] = request[x]
      BY <1>4, <2>3
    <3> HIDE DEF ControllerInv
    <3>4. UNCHANGED <<worker, phase>>
      BY <1>1
    <3> QED
      BY <2>1, <2>3, <3>2, <3>3, <3>4 DEF Starting
  <2>4. CASE phase[d] = "starting"
    <3>1. request[d].answer = "waiting" /\ loaded[d] /\ status[d] \in {"idle", "stopped"}
      BY <2>1, <2>4, <1>b DEF Starting
    <3>2. CASE d = e
      <4>1. d = s /\ kind = "start"
        BY <1>7, <2>4, <3>2 DEF Launching, KindAt
      <4> QED
        BY <1>1, <1>4, <2>4, <3>1, <3>2, <4>1 DEF Starting
    <3>3. CASE d # e
      <4>1. d = s => kind # "start"
        <5> SUFFICES ASSUME d = s, kind = "start" PROVE FALSE
          OBVIOUS
        <5>1. phase[e] = "starting"
          BY <1>7 DEF KindAt, StopPhase
        <5> QED
          BY <1>7, <3>3, <5>1 DEF Launching
      <4>2. status'[d] \in {"idle", "stopped"}
        BY <1>5, <3>1, <4>1 DEF Session
      <4>3. loaded'[d]
        BY <3>1 DEF Session
      <4> QED
        BY <1>1, <1>4, <2>4, <3>1, <3>3, <4>2, <4>3 DEF Starting
    <3> QED
      BY <3>2, <3>3
  <2>5. CASE phase[d] \in {"failing", "failExit"}
    <3>1. d = s => kind # "load-rom"
      <4> SUFFICES ASSUME d = s, kind = "load-rom" PROVE FALSE
        OBVIOUS
      <4>1. phase[e] = "loading"
        BY <1>7 DEF KindAt, StopPhase
      <4> QED
        BY <1>7, <2>5, <4>1 DEF Launching
    <3>2. loaded'[d] = loaded[d]
      BY <3>1 DEF Session
    <3> QED
      BY <1>1, <2>1, <2>5, <3>2 DEF Starting
  <2>6. CASE phase[d] \notin {"loading", "starting", "failing", "failExit"}
    BY <1>1, <2>6 DEF Starting
  <2> QED
    BY <2>2, <2>3, <2>4, <2>5, <2>6
<1>18. \A d \in Calls : SaveOK(d)'
  <2> SUFFICES ASSUME NEW d \in Calls, BringsSave(d)' PROVE SaveOK(d)'
    BY DEF SaveOK
  <2>1. CASE d = e
    <3>1. /\ a = "save" /\ kind = "stop" /\ st = "stopped" /\ kind # "load-rom"
          /\ loaded[s] \/ IsMgba(s)
      BY <1>4, <2>1 DEF BringsSave
    <3>2. loaded[s] => phase[s] \notin {"failing", "failExit"}
      BY <1>1, <3>1 DEF Starting, Session
    <3>3. /\ phase[e] \in {"stopping", "failing"}
          /\ loaded[s] => phase[e] = "stopping"
      BY <1>7, <3>1, <3>2 DEF KindAt, Launching
    <3>4. phase[s] \in {"loading", "starting"} => request[s].answer # "error" /\ s # e
      BY <3>3, <1>b DEF Session
    <3>5. held[on[e]] = s
      <4>1. request[e].session = s /\ worker[s] \notin {"crashed", "gone"} /\ phase[e] \in Pending
        BY <1>1, <1>3, <1>7
      <4> QED
        BY <4>1, <1>3, <1>a
    <3> HIDE DEF ControllerInv
    <3>6. /\ UNCHANGED <<held, on, phase, core>> /\ request'[e].session = s
          /\ loaded'[s] = loaded[s]
          /\ status'[s] = "stopped" /\ (s # e => request'[s] = request[s])
      BY <1>1, <1>4, <1>5, <3>1 DEF Session
    <3> QED
      BY <2>1, <3>1, <3>2, <3>3, <3>4, <3>5, <3>6 DEF SaveOK, StopPhase, IsMgba
  <2>2. CASE d # e /\ ~loaded[request[d].session]
    <3> DEFINE t == request[d].session
    <3>1. request'[d] = request[d] /\ BringsSave(d) /\ SaveOK(d) /\ t \in Session
      BY <1>1, <1>4, <2>2 DEF BringsSave, RequestOK, Request
    <3>2. ~loaded'[t]
      <4> SUFFICES ASSUME kind = "load-rom", t = s PROVE FALSE
        BY <2>2, <3>1
      <4>1. phase[e] = "loading" /\ s = e
        BY <1>7 DEF KindAt, Launching, StopPhase
      <4>2. /\ Starting(e) /\ phase[d] \in Pending /\ request[d].session = e
            /\ request[d].answer = "save" /\ request[e].answer = "waiting"
        BY <1>3, <3>1, <4>1 DEF BringsSave
      <4> QED
        BY <2>2, <4>1, <4>2 DEF Starting
    <3> QED
      BY <1>1, <3>1, <3>2 DEF SaveOK, IsMgba
  <2>3. CASE d # e /\ loaded[request[d].session]
    <3> DEFINE t == request[d].session
    <3>1. request'[d] = request[d] /\ BringsSave(d) /\ SaveOK(d) /\ t \in Session
      BY <1>1, <1>4, <2>3 DEF BringsSave, RequestOK, Request
    <3>2. loaded[t] /\ loaded'[t]
      BY <2>3, <3>1
    <3>3. t = e => \/ t = s /\ kind = "start" /\ a = "ok"
                   \/ phase[t] \notin {"loading", "starting", "failing", "failExit"}
      <4> SUFFICES ASSUME t = e, phase[t] \in {"loading", "starting", "failing", "failExit"}
                   PROVE  t = s /\ kind = "start" /\ a = "ok"
        OBVIOUS
      <4>1. t = s
        BY <1>7 DEF Launching
      <4>2. phase[t] # "loading"
        BY <1>3, <3>2 DEF Starting
      <4>3. phase[t] = "starting"
        BY <3>1, <3>2, <4>2 DEF SaveOK
      <4>5. Starting(t) /\ request[t].answer = "waiting"
        BY <1>3
      <4>4. kind = "start" /\ loaded[s] /\ status[s] \in {"idle", "stopped"}
        <5> HIDE DEF ControllerInv, ControllerTypeOK
        <5> QED
          BY <1>7, <4>1, <4>3, <4>5 DEF KindAt, Starting
      <4> QED
        BY <4>1, <4>4
    <3>4. phase[t] = "starting" /\ request'[t].answer = "waiting" => status'[t] = "stopped"
      <4> SUFFICES ASSUME phase[t] = "starting", request'[t].answer = "waiting"
                   PROVE  status'[t] = "stopped"
        OBVIOUS
      <4>1. t # e
        BY <1>4, <3>3
      <4>2. status[t] = "stopped"
        BY <1>4, <3>1, <3>2, <4>1 DEF SaveOK, Session
      <4>3. CASE t # s
        BY <1>5, <3>1, <4>2, <4>3
      <4>4. CASE t = s
        <5>1. kind # "start"
          <6> SUFFICES ASSUME kind = "start" PROVE FALSE
            OBVIOUS
          <6>1. phase[e] = "starting"
            BY <1>7 DEF KindAt, StopPhase
          <6> QED
            BY <1>7, <4>1, <4>4, <6>1 DEF Launching
        <5> QED
          BY <1>5, <4>2, <4>4, <5>1
      <4> QED
        BY <4>3, <4>4
    <3>5. phase[t] \in {"loading", "starting"} => request'[t].answer # "error"
      BY <1>4, <3>1, <3>2, <3>3 DEF SaveOK, Session
    <3> QED
      BY <1>1, <3>1, <3>2, <3>4, <3>5 DEF SaveOK, IsMgba
  <2> QED
    BY <2>1, <2>2, <2>3
<1>19. OneStop'
  BY <1>1 DEF OneStop, Stopping
<1> QED
  BY <1>10, <1>11, <1>12, <1>13, <1>14, <1>15, <1>17, <1>18, <1>19

(* The thread of session s died, or is over.                               *)
LEMMA Dies ==
  ASSUME ControllerInv, Quiet, NEW s \in Session, NEW w \in {"crashed", "gone"},
         worker[s] \in {"live", "crashed", "exiting"},
         w = "crashed" <=> worker[s] = "live",
         worker' = [worker EXCEPT ![s] = w],
         inbox' = [inbox EXCEPT ![s] = <<>>],
         \/ Failed(s) /\ (w = "gone" => status[s] # "stopped")
         \/ w = "gone" /\ status[s] = "stopped" /\ UNCHANGED <<status, request>>,
         UNCHANGED <<core, loaded, battery>>, UNCHANGED controllerVars
  PROVE  ControllerInv'
<1>a. \A d \in Calls :
        phase[d] \in Pending /\ worker[request[d].session] \notin {"crashed", "gone"} =>
          held[on[d]] = request[d].session
  BY HeldWhenQuiet
<1>b. \A d \in Calls : phase[d] \in {"loading", "starting", "failing", "stopping", "asking"} =>
        request[d].answer = "waiting"
  BY NotAnsweredWhenQuiet
<1> USE DEF ControllerInv, ControllerTypeOK
<1>1. UNCHANGED <<core, loaded, battery, held, phase, on, ctlStatus, outcome>>
  BY DEF controllerVars
<1>2. /\ worker' \in [Session -> Worker] /\ worker'[s] = w
      /\ \A t \in Session \ {s} : worker'[t] = worker[t]
  BY DEF SessionsTypeOK, Worker
<1>3. /\ inbox' \in [Session -> Seq(Entry)] /\ inbox'[s] = <<>>
      /\ \A t \in Session \ {s} : inbox'[t] = inbox[t]
  <2>1. inbox \in [Session -> Seq(Entry)]
    BY DEF SessionsTypeOK, Entry
  <2>2. <<>> \in Seq(Entry)
    OBVIOUS
  <2> QED
    BY <2>1, <2>2
<1>4. /\ status' \in [Session -> Status]
      /\ \A t \in Session \ {s} : status'[t] = status[t]
      /\ status'[s] = "failed" \/ (status'[s] = status[s] /\ status[s] = "stopped")
  BY DEF Failed, SessionsTypeOK, Status
<1>5. /\ request' \in [Calls -> Request \union {NoRequest}]
      /\ \A d \in Calls : /\ request'[d].session = request[d].session
                          /\ request'[d].kind = request[d].kind
                          /\ request[d] \in Request => request'[d] \in Request
                          /\ \/ request'[d] = request[d]
                             \/ /\ request[d].session = s /\ request[d].answer = "waiting"
                                /\ request'[d].answer = "error"
                                /\ w = "gone" => status[s] # "stopped"
  <2>1. CASE UNCHANGED request
    BY <2>1 DEF SessionsTypeOK
  <2>2. CASE Failed(s) /\ (w = "gone" => status[s] # "stopped")
    <3>1. ASSUME NEW d \in Calls
          PROVE  /\ request'[d].session = request[d].session
                 /\ request'[d].kind = request[d].kind
                 /\ request[d] \in Request => request'[d] \in Request
                 /\ request'[d] \in Request \union {NoRequest}
                 /\ \/ request'[d] = request[d]
                    \/ /\ request[d].session = s /\ request[d].answer = "waiting"
                       /\ request'[d].answer = "error"
      <4>1. request[d] \in Request \union {NoRequest}
        BY DEF SessionsTypeOK
      <4>2. CASE request[d].session = s /\ request[d].answer = "waiting"
        <5>1. request'[d] = [request[d] EXCEPT !.answer = "error"]
          BY <2>2, <4>2 DEF Failed
        <5>2. request[d] \in Request
          BY <4>1, <4>2 DEF NoRequest
        <5> QED
          BY <4>2, <5>1, <5>2 DEF Request, Answer
      <4>3. CASE ~(request[d].session = s /\ request[d].answer = "waiting")
        <5>1. request'[d] = request[d]
          BY <2>2, <4>3 DEF Failed
        <5> QED
          BY <4>1, <5>1
      <4> QED
        BY <4>2, <4>3
    <3>2. DOMAIN request' = Calls /\ request' = [d \in Calls |-> request'[d]]
      BY <2>2 DEF Failed
    <3>3. request' \in [Calls -> Request \union {NoRequest}]
      BY <3>1, <3>2
    <3> QED
      BY <2>2, <3>1, <3>3
  <2> QED
    BY <2>1, <2>2
<1>s. \/ w = "gone" /\ UNCHANGED <<status, request>>
      \/ \A d \in Calls : request[d].session = s => request'[d].answer # "waiting"
  <2> SUFFICES ASSUME Failed(s), NEW d \in Calls, request[d].session = s
               PROVE  request'[d].answer # "waiting"
    OBVIOUS
  <2>1. request[d] \in Request \union {NoRequest}
    BY DEF SessionsTypeOK
  <2>2. CASE request[d].answer = "waiting"
    <3>1. request'[d] = [request[d] EXCEPT !.answer = "error"]
      BY <2>2 DEF Failed
    <3>2. request[d] \in Request
      BY <2>1, <2>2 DEF NoRequest
    <3> QED
      BY <3>1, <3>2 DEF Request
  <2>3. CASE request[d].answer # "waiting"
    BY <1>5, <2>3
  <2> QED
    BY <2>2, <2>3
<1>6. SessionsTypeOK'
  <2>1. ASSUME NEW t \in Session, NEW i \in DOMAIN inbox'[t]
        PROVE  request'[inbox'[t][i].call] =
                 [session |-> t, kind |-> inbox'[t][i].kind, answer |-> "waiting"]
    <3>1. t # s
      BY <1>3, <2>1
    <3>2. i \in DOMAIN inbox[t] /\ inbox'[t][i] = inbox[t][i] /\ SessionsTypeOK
      BY <1>3, <2>1, <3>1
    <3>3. /\ inbox[t][i].call \in Calls
          /\ request[inbox[t][i].call] =
               [session |-> t, kind |-> inbox[t][i].kind, answer |-> "waiting"]
      BY <3>2, Queued
    <3> QED
      BY <1>5, <3>1, <3>2, <3>3
  <2> QED
    BY <1>1, <1>2, <1>3, <1>4, <1>5, <2>1 DEF SessionsTypeOK, Entry
<1>7. ControllerTypeOK'
  BY <1>1, <1>6
<1>8. InboxesOK'
  BY <1>3 DEF InboxesOK
<1>9. \A d \in Calls : RequestOK(d)'
  <2> SUFFICES ASSUME NEW d \in Calls PROVE RequestOK(d)'
    OBVIOUS
  <2>1. RequestOK(d)
    OBVIOUS
  <2>2. worker'[d] = "none" => worker[d] = "none" /\ d # s
    BY <1>2 DEF Session
  <2>3. worker[d] = "none" => worker'[d] = "none" /\ d # s
    BY <1>2 DEF Session
  <2>4. phase[d] \in Pending =>
          /\ worker'[request[d].session] # "none"
          /\ worker[request[d].session] = "gone" => worker'[request[d].session] = "gone"
    BY <1>2, <2>1 DEF RequestOK, Request
  <2>5. worker'[d] = "none" => status'[d] = "idle" /\ ~loaded'[d]
    BY <1>1, <1>4, <2>1, <2>2 DEF RequestOK, Session
  <2>6. request[d] = NoRequest => request'[d] = NoRequest
    BY <1>5 DEF NoRequest
  <2>7. request[d].answer # "waiting" => request'[d] = request[d]
    BY <1>5
  <2>8. Answered(d) => Answered(d)'
    BY <1>5 DEF Answered
  <2> QED
    BY <1>1, <1>5, <2>1, <2>3, <2>4, <2>5, <2>6, <2>7, <2>8 DEF RequestOK
<1>10. HeldOK'
  BY <1>1, <1>2 DEF HeldOK, Session, NoSession
<1>11. \A d \in Calls : HeldOrOver(d)'
  <2> SUFFICES ASSUME NEW d \in Calls, phase'[d] \in Pending, ~Abandoned(d)'
               PROVE  HeldOrOver(d)'
    BY DEF HeldOrOver
  <2>1. phase[d] \in Pending /\ request[d].session \in Session
    BY <1>1 DEF RequestOK, Request
  <2>2. CASE worker[request[d].session] \notin {"crashed", "gone"}
    BY <1>1, <1>5, <2>1, <2>2, <1>a DEF HeldOrOver
  <2>3. CASE worker[request[d].session] \in {"crashed", "gone"}
    <3>1. /\ worker'[request[d].session] \in {"crashed", "gone"}
          /\ worker[request[d].session] = "gone" =>
               request'[d] = request[d] /\ worker'[request[d].session] = "gone"
          /\ request'[d].session = request[d].session
      BY <1>2, <1>5, <2>1, <2>3
    <3>2. ~Abandoned(d) /\ HeldOrOver(d) /\ ~Due(d)
      BY <2>3, <3>1 DEF Abandoned, Quiet
    <3>3. Lost(d) => Lost(d)'
      BY <1>1, <1>5, <3>1 DEF Lost, IsMgba
    <3> QED
      BY <1>1, <2>1, <3>1, <3>2, <3>3 DEF HeldOrOver, Leftover
  <2> QED
    BY <2>2, <2>3
<1>12. \A d \in Calls : Ending(d)'
  <2> SUFFICES ASSUME NEW d \in Calls PROVE Ending(d)'
    OBVIOUS
  <2>1. Ending(d) /\ RequestOK(d)
    OBVIOUS
  <2>2. CASE phase[d] \in {"stopping", "failing"}
    <3>1. request[d].answer = "waiting" /\ request'[d].answer \in {"waiting", "error"}
      BY <1>5, <2>2, <1>b
    <3>2. request'[d].answer = "error" =>
            /\ request[d].session = s
            /\ w = "gone" \/ \A x \in Calls : request[x].session = s => request'[x].answer # "waiting"
      BY <1>5, <1>s, <3>1
    <3>3. phase[d] = "failing" => request[d].session = d
      BY <2>1 DEF RequestOK, Launching
    <3> QED
      BY <1>1, <1>2, <1>5, <2>2, <3>1, <3>2, <3>3 DEF Ending
  <2>3. CASE phase[d] \in {"failExit", "terminating"}
    <3>1. request'[d] = request[d] /\ request[d].session \in Session
      BY <1>5, <2>1, <2>3 DEF RequestOK, Answered, Pending, Waiting, Request
    <3>2. worker[request[d].session] # "live" /\ EndsThread(d)
      BY <2>1, <2>3 DEF Ending
    <3>3. \/ worker'[request[d].session] = worker[request[d].session]
          \/ worker'[request[d].session] = "gone"
      BY <1>2, <3>1, <3>2
    <3> QED
      BY <1>1, <2>1, <2>3, <3>1, <3>2, <3>3 DEF Ending, EndsThread, IsMgba
  <2>4. CASE phase[d] \notin {"stopping", "failing", "failExit", "terminating"}
    BY <1>1, <2>4 DEF Ending
  <2> QED
    BY <2>2, <2>3, <2>4
<1>13. \A d \in Calls : Starting(d)'
  <2> SUFFICES ASSUME NEW d \in Calls PROVE Starting(d)'
    OBVIOUS
  <2>1. Starting(d) /\ RequestOK(d)
    OBVIOUS
  <2>2. d # s => worker'[d] = worker[d] /\ status'[d] = status[d] /\ inbox'[d] = inbox[d]
    BY <1>2, <1>3, <1>4 DEF Session
  <2>3. worker[d] \in {"crashed", "gone"} => worker'[d] \in {"crashed", "gone"}
    BY <1>2, <2>2
  <2>4. CASE phase[d] = "loading"
    <3>1. request[d].answer = "waiting" /\ request[d].session = d
      BY <2>1, <2>4, <1>b DEF RequestOK, Launching
    <3>2. worker[d] = "live" /\ ~loaded[d]
      BY <2>1, <2>4, <3>1 DEF Starting
    <3>3. CASE d = s
      <4>1. request'[d].answer = "error"
        BY <1>5, <1>s, <3>1, <3>2, <3>3
      <4> QED
        BY <1>1, <2>4, <3>2, <4>1 DEF Starting
    <3>4. CASE d # s
      <4>1. \A x \in Calls : request'[x].session = d => request'[x] = request[x]
        BY <1>5, <3>4
      <4>2. request'[d] = request[d]
        BY <1>5, <3>1, <3>4
      <4> QED
        BY <1>1, <2>1, <2>2, <2>4, <3>4, <4>1, <4>2 DEF Starting
    <3> QED
      BY <3>3, <3>4
  <2>5. CASE phase[d] = "starting"
    <3>1. request[d].answer = "waiting" /\ request[d].session = d
      BY <2>1, <2>5, <1>b DEF RequestOK, Launching
    <3>2. loaded[d] /\ status[d] \in {"idle", "stopped"}
      BY <2>1, <2>5, <3>1 DEF Starting
    <3>3. request'[d].answer = "waiting" => d # s \/ status'[d] = status[d]
      BY <1>s, <3>1
    <3>4. request'[d].answer = "error" => worker'[d] \in {"crashed", "gone"}
      BY <1>2, <1>5, <3>1
    <3> QED
      BY <1>1, <2>2, <2>5, <3>2, <3>3, <3>4 DEF Starting
  <2>6. CASE phase[d] \notin {"loading", "starting"}
    BY <1>1, <2>1, <2>3, <2>6 DEF Starting
  <2> QED
    BY <2>4, <2>5, <2>6
<1>14. \A d \in Calls : SaveOK(d)'
  <2> SUFFICES ASSUME NEW d \in Calls, BringsSave(d)' PROVE SaveOK(d)'
    BY DEF SaveOK
  <2> DEFINE t == request[d].session
  <2>1. /\ request'[d] = request[d] /\ BringsSave(d) /\ SaveOK(d) /\ Ending(d) /\ RequestOK(d)
        /\ t \in Session
    BY <1>1, <1>5 DEF BringsSave, RequestOK, Request
  <2>a. CASE ~loaded[t]
    BY <1>1, <2>1, <2>a DEF SaveOK, IsMgba
  <2> SUFFICES ASSUME loaded[t] PROVE SaveOK(d)'
    BY <2>a
  <2>2. phase[d] # "stopping" /\ worker[t] # "live"
    <3>1. phase[d] # "stopping"
      BY <2>1, <1>b DEF BringsSave
    <3>2. phase[d] \in {"terminating", "exporting", "persisting"}
      BY <2>1, <3>1 DEF SaveOK, StopPhase
    <3> QED
      BY <2>1, <3>1, <3>2 DEF Ending, RequestOK
  <2>3. phase[t] \in {"loading", "starting"} => request'[t] = request[t]
    <3> SUFFICES ASSUME phase[t] \in {"loading", "starting"}, request'[t] # request[t]
                 PROVE  FALSE
      OBVIOUS
    <3>1. t \in Calls /\ RequestOK(t) /\ Starting(t)
      BY <2>1 DEF Session
    <3>2. t = s /\ request[t].answer = "waiting" /\ (w = "gone" => status[s] # "stopped")
      BY <1>5, <3>1 DEF RequestOK, Launching
    <3>3. phase[t] # "loading"
      BY <2>1, <3>1, <3>2 DEF Starting, SaveOK
    <3>4. status[t] = "stopped"
      BY <2>1, <3>2, <3>3 DEF SaveOK
    <3> QED
      BY <2>2, <3>2, <3>4
  <2>4. phase[t] = "starting" /\ request'[t].answer = "waiting" => status'[t] = "stopped"
    <3> SUFFICES ASSUME phase[t] = "starting", request'[t].answer = "waiting"
                 PROVE  status'[t] = "stopped"
      OBVIOUS
    <3>1. t \in Calls /\ RequestOK(t) /\ request[t].session = t /\ request[t].answer = "waiting"
      BY <2>1, <2>3 DEF Session, RequestOK, Launching
    <3>2. status[t] = "stopped"
      BY <2>1, <3>1 DEF SaveOK
    <3>3. t # s \/ status'[t] = status[t]
      BY <1>s, <3>1
    <3> QED
      BY <1>4, <2>1, <3>2, <3>3
  <2> QED
    BY <1>1, <2>1, <2>3, <2>4 DEF SaveOK
<1>15. OneStop'
  BY <1>1 DEF OneStop, Stopping
<1> QED
  BY <1>7, <1>8, <1>9, <1>10, <1>11, <1>12, <1>13, <1>14, <1>15
-----------------------------------------------------------------------------
(* The steps of controllers and threads.                                   *)

LEMMA StatusIsSet ==
  ASSUME ctlStatus \in [Controllers -> ControllerStatus], NEW k, NEW st \in ControllerStatus,
         SetStatus(k, st)
  PROVE  ctlStatus' \in [Controllers -> ControllerStatus]
BY DEF SetStatus

LEMMA OutcomeIsSet ==
  ASSUME outcome \in [Calls -> {"none", "ok", "error"}], NEW c \in Calls,
         NEW result \in {"ok", "error"}, Return(c, result)
  PROVE  /\ outcome' \in [Calls -> {"none", "ok", "error"}]
         /\ phase' = [phase EXCEPT ![c] = "returned"]
BY DEF Return

(* A step takes no session from a controller, or this call lets it go.     *)
Releasing(c) ==
  /\ phase[c] \in {"failing", "failExit", "terminating", "exporting", "persisting"}
  /\ Answered(c)
  /\ request[c].answer = "save" => phase[c] \in {"exporting", "persisting", "failExit"}
  /\ \/ worker[request[c].session] = "gone"
     \/ phase[c] = "failing" /\ ~EndsThread(c)
  /\ Dispose(on[c])

Keeps == \A k \in Controllers : held[k] # NoSession => held'[k] = held[k]

Step == ControllerInv' /\ (Keeps \/ \E c \in Calls : Releasing(c))

(* A method is refused at once. *)
LEMMA RefusedAtOnce ==
  ASSUME ControllerInv, NEW c \in Calls, NEW k \in Controllers, FreeFor(c, k),
         Enter(c, k), Return(c, "error"), UNCHANGED <<sessionVars, held>>,
         ctlStatus' = ctlStatus \/ SetStatus(k, "failed")
  PROVE  Step
<1>1. ControllerTypeOK /\ request[c].answer # "waiting"
  BY DEF ControllerInv, RequestOK, FreeFor, Pending
<1>2. ctlStatus' \in [Controllers -> ControllerStatus]
  BY <1>1, StatusIsSet DEF ControllerTypeOK, ControllerStatus, Status
<1>3. /\ outcome' \in [Calls -> {"none", "ok", "error"}]
      /\ phase' = [phase EXCEPT ![c] = "returned"]
  BY <1>1, OutcomeIsSet DEF ControllerTypeOK
<1> QED
  BY <1>1, <1>2, <1>3, Returns DEF Enter, Step, Keeps

(* What a controller holds is one of its sessions. *)
LEMMA WhatIsHeld ==
  ASSUME ControllerInv, NEW k \in Controllers, held[k] # NoSession
  PROVE  /\ held[k] \in Session /\ worker[held[k]] # "none" /\ on[held[k]] = k
         /\ on[held[k]] \in Controllers /\ held[on[held[k]]] = held[k]
BY DEF ControllerInv, ControllerTypeOK, HeldOK

(* A free call launches: nothing else is due. *)
LEMMA Launches ==
  ASSUME ControllerInv, NEW c \in Calls, NEW k \in Controllers, NEW j \in Cores,
         \A d \in Calls : phase[d] = "persisting" /\ on[d] = k => held[k] # NoSession,
         Quiet, FreeFor(c, k), Launch(c, k, j)
  PROVE  Step
<1>1. CASE /\ Return(c, "error") /\ UNCHANGED <<sessionVars, held>>
           /\ ctlStatus' = ctlStatus \/ SetStatus(k, "failed")
  BY <1>1, RefusedAtOnce DEF Launch
<1>2. CASE /\ held[k] = NoSession /\ Open(c, j) /\ held' = [held EXCEPT ![k] = c]
           /\ SetStatus(k, "starting") /\ To(c, "loading")
  <2>1. ControllerInv'
    BY <1>2, Opens DEF Launch, FreeFor
  <2>2. \A i \in Controllers : held[i] # NoSession => held'[i] = held[i]
    BY <1>2 DEF ControllerInv, ControllerTypeOK
  <2> QED
    BY <2>1, <2>2 DEF Step, Keeps
<1> QED
  BY <1>1, <1>2 DEF Launch

(* A free call stops the session there is: no other stop is under way. *)
LEMMA StopsHeld ==
  ASSUME ControllerInv, NEW c \in Calls, NEW k \in Controllers, FreeFor(c, k), Stop(c, k),
         \A d \in Calls \ {c} : ~Stopping(d)
  PROVE  Step
<1>1. CASE held[k] = NoSession
  BY <1>1, RefusedAtOnce DEF Stop
<1>2. CASE held[k] # NoSession
  <2>1. /\ Post(c, held[k], "stop") /\ phase' = [phase EXCEPT ![c] = "stopping"]
        /\ UNCHANGED <<held, outcome>> /\ on' = [on EXCEPT ![c] = on[held[k]]]
    BY <1>2, WhatIsHeld DEF Stop, To, Enter
  <2>2. ControllerTypeOK /\ request[c].answer # "waiting" /\ FreeFor(c, on[held[k]])
    BY <1>2, WhatIsHeld DEF ControllerInv, RequestOK, FreeFor, Pending
  <2>3. ctlStatus' \in [Controllers -> ControllerStatus]
    BY <1>2, <2>2, StatusIsSet DEF Stop, ControllerTypeOK, ControllerStatus
  <2>4. KindAt("stopping", "stop") /\ "stop" \in Kind
    BY DEF KindAt, Kind
  <2>5. ControllerInv'
    BY <1>2, <2>1, <2>2, <2>3, <2>4, WhatIsHeld, Posts
  <2> QED
    BY <2>1, <2>5 DEF Step, Keeps
<1> QED
  BY <1>1, <1>2

LEMMA Asks ==
  ASSUME ControllerInv, NEW c \in Calls, NEW k \in Controllers, FreeFor(c, k),
         NEW kind \in {"pause", "resume", "capture-save-state", "restore-save-state"},
         Ask(c, k, kind)
  PROVE  Step
<1>1. CASE held[k] = NoSession
  BY <1>1, RefusedAtOnce DEF Ask
<1>2. CASE held[k] # NoSession
  <2>1. /\ Post(c, held[k], kind) /\ phase' = [phase EXCEPT ![c] = "asking"]
        /\ UNCHANGED <<held, outcome, ctlStatus>> /\ on' = [on EXCEPT ![c] = on[held[k]]]
    BY <1>2, WhatIsHeld DEF Ask, To, Enter
  <2>2. ControllerTypeOK /\ request[c].answer # "waiting" /\ FreeFor(c, on[held[k]])
    BY <1>2, WhatIsHeld DEF ControllerInv, RequestOK, FreeFor, Pending
  <2>3. KindAt("asking", kind) /\ kind \in Kind
    BY DEF KindAt, Kind, StopPhase
  <2>4. ctlStatus' \in [Controllers -> ControllerStatus]
    BY <2>1, <2>2 DEF ControllerTypeOK
  <2>5. ControllerInv'
    BY <1>2, <2>1, <2>2, <2>3, <2>4, WhatIsHeld, Posts
  <2> QED
    BY <2>1, <2>5 DEF Step, Keeps
<1> QED
  BY <1>1, <1>2

(* A launch that failed stops its session, if it still has it.             *)
LEMMA FailLaunchSteps ==
  ASSUME ControllerInv, NEW c \in Calls, phase[c] \in {"loading", "starting"},
         request[c].answer = "error", FailLaunch(c), UNCHANGED on
  PROVE  Step
<1> USE DEF Step, Keeps
<1>1. /\ ControllerTypeOK /\ RequestOK(c) /\ HeldOrOver(c) /\ ~Abandoned(c)
      /\ phase[c] \in Pending /\ request[c].session = c /\ phase[c] \in Launching
  BY DEF ControllerInv, Abandoned, Pending, Waiting, RequestOK, Launching
<1>2. /\ on[c] \in Controllers /\ worker[c] # "none"
      /\ held[on[c]] \in {c, NoSession} /\ c \in Session
  BY <1>1 DEF RequestOK, HeldOrOver, Leftover, Lost, Session
<1>3. CASE held[on[c]] # NoSession
  <2>1. held[on[c]] = c
    BY <1>2, <1>3
  <2>2. /\ Post(c, c, "stop") /\ phase' = [phase EXCEPT ![c] = "failing"]
        /\ UNCHANGED <<held, outcome, ctlStatus>>
    BY <1>3, <2>1 DEF FailLaunch, To
  <2>3. KindAt("failing", "stop") /\ "stop" \in Kind
    BY DEF KindAt, Kind
  <2>4. ctlStatus' \in [Controllers -> ControllerStatus]
    BY <1>1, <2>2 DEF ControllerTypeOK
  <2> QED
    BY <1>1, <1>2, <2>1, <2>2, <2>3, <2>4, Posts
<1>4. CASE held[on[c]] = NoSession
  <2>1. SetStatus(on[c], "failed") /\ Return(c, "error") /\ UNCHANGED <<sessionVars, held>>
    BY <1>4 DEF FailLaunch
  <2>2. ctlStatus' \in [Controllers -> ControllerStatus]
    BY <1>1, <2>1, StatusIsSet DEF ControllerTypeOK, ControllerStatus, Status
  <2>3. /\ outcome' \in [Calls -> {"none", "ok", "error"}]
        /\ phase' = [phase EXCEPT ![c] = "returned"]
    BY <1>1, <2>1, OutcomeIsSet DEF ControllerTypeOK
  <2> QED
    BY <2>1, <2>2, <2>3, Returns
<1> QED
  BY <1>3, <1>4

(* The call returns and nothing else changes. *)
LEMMA JustReturns ==
  ASSUME ControllerInv, NEW c \in Calls, phase[c] # "idle", request[c].answer # "waiting",
         UNCHANGED <<sessionVars, held, on>>, NEW result \in {"ok", "error"}, Return(c, result),
         ctlStatus' = ctlStatus \/ \E st \in ControllerStatus : SetStatus(on[c], st)
  PROVE  Step
<1>1. ControllerTypeOK
  BY DEF ControllerInv
<1>2. ctlStatus' \in [Controllers -> ControllerStatus]
  BY <1>1, StatusIsSet DEF ControllerTypeOK
<1>3. /\ outcome' \in [Calls -> {"none", "ok", "error"}]
      /\ phase' = [phase EXCEPT ![c] = "returned"]
  BY <1>1, OutcomeIsSet DEF ControllerTypeOK
<1> QED
  BY <1>2, <1>3, Returns DEF Step, Keeps

(* The call lets the session go. *)
LEMMA LetsGo ==
  ASSUME ControllerInv, NEW c \in Calls, Releasing(c), NEW result \in {"ok", "error"},
         Return(c, result), NEW st \in {"failed", "stopped"}, SetStatus(on[c], st),
         UNCHANGED <<sessionVars, on>>
  PROVE  Step
<1>1. ControllerTypeOK
  BY DEF ControllerInv
<1>2. ctlStatus' \in [Controllers -> ControllerStatus]
  BY <1>1, StatusIsSet DEF ControllerTypeOK, ControllerStatus, Status
<1>3. /\ outcome' \in [Calls -> {"none", "ok", "error"}]
      /\ phase' = [phase EXCEPT ![c] = "returned"]
  BY <1>1, OutcomeIsSet DEF ControllerTypeOK
<1>4. ControllerInv'
  BY <1>2, <1>3, Releases DEF Releasing
<1> QED
  BY <1>4 DEF Step

LEMMA Continues ==
  ASSUME ControllerInv, NEW c \in Calls, Continue(c)
  PROVE  Step
<1> USE DEF Step, Keeps
<1>1. ControllerTypeOK /\ RequestOK(c)
  BY DEF ControllerInv
<1>4. \A t \in Session : status[t] \in ControllerStatus
  BY <1>1 DEF ControllerTypeOK, SessionsTypeOK, ControllerStatus
<1>5. Answered(c) => request[c].answer # "waiting"
  BY DEF Answered
<1>6. phase[c] \in Pending => request[c].session \in Session /\ request[c].answer \in Answer
  BY <1>1 DEF RequestOK, Request
<1>7. CASE Loaded(c)
  <2>1. CASE request[c].answer = "error"
    BY <1>7, <2>1, FailLaunchSteps DEF Loaded
  <2>2. CASE request[c].answer # "error"
    <3>1. /\ phase[c] = "loading" /\ request[c].answer = "ok" /\ phase[c] \in Pending
          /\ request[c].session = c /\ worker[c] = "live"
      BY <1>1, <1>7, <2>2 DEF Loaded, Answered, ControllerInv, Starting, Pending, Waiting,
         RequestOK, Launching
    <3>2. /\ Post(c, c, "start") /\ phase' = [phase EXCEPT ![c] = "starting"]
          /\ UNCHANGED <<held, outcome, ctlStatus, on>>
      BY <1>7, <2>2 DEF Loaded, To
    <3>3. c \in Session /\ on[c] \in Controllers /\ held[on[c]] = c
      BY <3>1 DEF Session, ControllerInv, HeldOK
    <3>4. KindAt("starting", "start") /\ "start" \in Kind
      BY DEF KindAt, Kind, StopPhase
    <3>5. ctlStatus' \in [Controllers -> ControllerStatus]
      BY <1>1, <3>2 DEF ControllerTypeOK
    <3> QED
      BY <3>1, <3>2, <3>3, <3>4, <3>5, Posts
  <2> QED
    BY <2>1, <2>2
<1>8. CASE Started(c)
  <2>1. CASE request[c].answer = "error"
    BY <1>8, <2>1, FailLaunchSteps DEF Started
  <2>2. CASE request[c].answer # "error"
    <3>1. SetStatus(on[c], status[c]) /\ Return(c, "ok") /\ UNCHANGED <<sessionVars, held, on>>
      BY <1>8, <2>2 DEF Started
    <3>2. phase[c] # "idle" /\ request[c].answer # "waiting" /\ status[c] \in ControllerStatus
      BY <1>4, <1>5, <1>8 DEF Started, Session
    <3> QED
      BY JustReturns, <3>1, <3>2
  <2> QED
    BY <2>1, <2>2
<1>9. CASE FailLaunchAnswered(c)
  <2>1. CASE EndsThread(c)
    BY <1>9, <2>1, Ends DEF FailLaunchAnswered, To
  <2>2. CASE ~EndsThread(c)
    <3>1. Releasing(c)
      BY <1>9, <2>2 DEF Releasing, FailLaunchAnswered, EndsThread
    <3> QED
      BY LetsGo, <1>9, <2>2, <3>1 DEF FailLaunchAnswered
  <2> QED
    BY <2>1, <2>2
<1>10. CASE FailLaunchExited(c)
  <2>1. Answered(c)
    BY <1>1, <1>10 DEF FailLaunchExited, RequestOK
  <2>2. Releasing(c)
    BY <1>10, <2>1 DEF Releasing, FailLaunchExited
  <2> QED
    BY LetsGo, <1>10, <2>2 DEF FailLaunchExited
<1>11. CASE StopAnswered(c)
  <2>1. CASE EndsThread(c)
    BY <1>11, <2>1, Ends DEF StopAnswered, To
  <2>2. CASE ~EndsThread(c)
    <3>1. phase[c] = "stopping" /\ phase[c] \in Pending /\ Answered(c)
      BY <1>11 DEF StopAnswered, Pending, Waiting
    <3>2. StopFailed(c) /\ UNCHANGED on
      BY <1>11, <2>2 DEF StopAnswered
    <3> QED
      BY JustReturns, <1>4, <1>5, <1>6, <3>1, <3>2 DEF StopFailed
  <2> QED
    BY <2>1, <2>2
<1>12. CASE StopExited(c)
  <2>1. /\ phase[c] = "terminating" /\ worker[request[c].session] = "gone" /\ phase[c] \in Pending
        /\ Answered(c) /\ UNCHANGED on
    BY <1>1, <1>12 DEF StopExited, RequestOK, Pending, Waiting
  <2>2. CASE request[c].answer = "error"
    <3>1. StopFailed(c)
      BY <1>12, <2>2 DEF StopExited
    <3> QED
      BY JustReturns, <1>4, <1>6, <2>1, <2>2, <3>1 DEF StopFailed
  <2>3. CASE request[c].answer = "save"
    BY <1>12, <2>1, <2>3, Exports DEF StopExited, To
  <2>4. CASE request[c].answer = "ok"
    <3>1. Stopped(c) /\ UNCHANGED <<sessionVars, on>>
      BY <1>12, <2>4 DEF StopExited
    <3>2. Releasing(c)
      BY <2>1, <2>4, <3>1 DEF Releasing, Stopped
    <3> QED
      BY LetsGo, <3>1, <3>2 DEF Stopped
  <2> QED
    BY <2>1, <2>2, <2>3, <2>4 DEF Answered
<1>13. CASE AskAnswered(c)
  <2>1. /\ phase[c] = "asking" /\ Answered(c) /\ phase[c] \in Pending
        /\ UNCHANGED <<sessionVars, held, on>>
    BY <1>13 DEF AskAnswered, Pending, Waiting
  <2>2. \E result \in {"ok", "error"} : Return(c, result)
    BY <1>13 DEF AskAnswered
  <2>3. ctlStatus' = ctlStatus \/ SetStatus(on[c], status[request[c].session])
    BY <1>13 DEF AskAnswered
  <2> QED
    BY JustReturns, <1>4, <1>5, <1>6, <2>1, <2>2, <2>3
<1> QED
  BY <1>7, <1>8, <1>9, <1>10, <1>11, <1>12, <1>13 DEF Continue

(* The save of a stop is persisted, or is not. *)
LEMMA ExportBegins ==
  ASSUME ControllerInv, NEW c \in Calls, phase[c] = "exporting", To(c, "persisting"),
         UNCHANGED <<sessionVars, held, ctlStatus, on>>
  PROVE  Step
<1>1. ControllerTypeOK /\ RequestOK(c)
  BY DEF ControllerInv
<1> QED
  BY <1>1, Exports DEF To, RequestOK, Step, Keeps

LEMMA ExportEnds ==
  ASSUME ControllerInv, NEW c \in Calls, phase[c] \in {"exporting", "persisting"},
         SavePersisted(c) \/ SaveRejected(c)
  PROVE  Step
<1>1. ControllerTypeOK /\ RequestOK(c)
  BY DEF ControllerInv
<1>2. worker[request[c].session] = "gone" /\ Answered(c)
  BY <1>1 DEF RequestOK
<1>3. CASE SavePersisted(c)
  <2>1. Releasing(c)
    BY <1>2, <1>3 DEF SavePersisted, Stopped, Releasing
  <2> QED
    BY <1>3, <2>1, LetsGo DEF SavePersisted, Stopped
<1>4. CASE SaveRejected(c)
  BY <1>2, <1>4, JustReturns DEF SaveRejected, ControllerStatus, Status, Answered
<1> QED
  BY <1>3, <1>4

LEMMA ThreadSteps ==
  ASSUME ControllerInv, NEW s \in Session, Quiet, WorkerStep(s), UNCHANGED controllerVars
  PROVE  ControllerInv'
<1>1. Quiet /\ UNCHANGED controllerVars
  OBVIOUS
<1>3. /\ status[s] \in Status /\ loaded \in [Session -> BOOLEAN]
      /\ battery \in [Session -> 0..MaxBattery] /\ worker \in [Session -> Worker]
  BY DEF ControllerInv, ControllerTypeOK, SessionsTypeOK
<1>4. CASE ServeLoad(s)
  <2>1. /\ Reaches(s) /\ inbox[s] # <<>> /\ Head(inbox[s]).kind = "load-rom" /\ "load-rom" \in Kind
    BY <1>4 DEF ServeLoad, Serving, Kind
  <2>2. battery' \in [Session -> 0..MaxBattery] /\ \A t \in Session \ {s} : battery'[t] = battery[t]
    BY <1>3, <1>4, SessionsAssumption DEF ServeLoad
  <2>3. CASE Reply(s, "ok", status[s]) /\ loaded' = [loaded EXCEPT ![s] = TRUE]
    <3>1. /\ loaded' \in [Session -> BOOLEAN] /\ loaded'[s] = TRUE
          /\ \A t \in Session \ {s} : loaded'[t] = loaded[t]
      BY <1>3, <2>3
    <3> QED
      BY <1>1, <1>3, <2>1, <2>2, <2>3, <3>1, Serves
  <2>4. CASE Reply(s, "error", status[s]) /\ UNCHANGED loaded
    BY <1>1, <1>3, <2>1, <2>2, <2>4, Serves
  <2> QED
    BY <1>4, <2>3, <2>4 DEF ServeLoad
<1>5. CASE ServeTransition(s)
  <2>1. UNCHANGED <<loaded, battery>>
    BY <1>5 DEF ServeTransition
  <2>2. PICK kind \in {"start", "pause", "resume"} : Serving(s, kind)
               /\ IF \/ kind = "start" /\ loaded[s] /\ status[s] \in {"idle", "stopped"}
                     \/ kind = "pause" /\ status[s] = "running"
                     \/ kind = "resume" /\ status[s] = "paused"
                  THEN Reply(s, "ok", IF kind = "pause" THEN "paused" ELSE "running")
                  ELSE Reply(s, "error", status[s])
    BY <1>5 DEF ServeTransition
  <2>3. /\ Reaches(s) /\ inbox[s] # <<>> /\ Head(inbox[s]).kind = kind /\ kind \in Kind
    BY <2>2 DEF Serving, Kind
  <2>4. PICK a \in {"ok", "error"}, st \in Status :
          /\ Reply(s, a, st)
          /\ kind = "start" /\ loaded[s] /\ status[s] \in {"idle", "stopped"} => a = "ok"
          /\ kind # "start" /\ status[s] \in {"idle", "stopped"} => st = status[s]
    BY <1>3, <2>2 DEF Status
  <2> QED
    BY <1>1, <1>3, <2>1, <2>3, <2>4, Serves
<1>6. CASE ServeStop(s)
  <2>1. /\ Reaches(s) /\ inbox[s] # <<>> /\ Head(inbox[s]).kind = "stop" /\ "stop" \in Kind
        /\ UNCHANGED <<loaded, battery>>
    BY <1>6 DEF ServeStop, Serving, Kind
  <2>2. PICK a \in {"ok", "save", "error"} :
          /\ Reply(s, a, "stopped")
          /\ a = "save" => loaded[s] \/ IsMgba(s)
          /\ a = "error" => IsMgba(s)
    BY <1>6 DEF ServeStop, ExportsSave
  <2>3. "stopped" \in Status
    BY DEF Status
  <2> QED
    BY <1>1, <1>3, <2>1, <2>2, <2>3, Serves
<1>7. CASE ServeState(s)
  <2>1. PICK kind \in {"capture-save-state", "restore-save-state"} : Serving(s, kind)
    BY <1>7 DEF ServeState
  <2>2. /\ Reaches(s) /\ inbox[s] # <<>> /\ Head(inbox[s]).kind = kind /\ kind \in Kind
        /\ UNCHANGED <<loaded, battery>>
    BY <1>7, <2>1 DEF ServeState, Serving, Kind
  <2>3. PICK a \in {"ok", "error"} : Reply(s, a, status[s])
    BY <1>7 DEF ServeState
  <2> QED
    BY <1>1, <1>3, <2>2, <2>3, Serves
<1>8. CASE Play(s)
  <2>1. /\ UNCHANGED <<core, worker, status, loaded, inbox, request,
                       held, ctlStatus, phase, on, outcome>>
        /\ battery' = [battery EXCEPT ![s] = @ + 1] /\ battery[s] \in 1..(MaxBattery - 1)
    BY <1>1, <1>8 DEF Play, controllerVars
  <2>2. battery' \in [Session -> 0..MaxBattery]
    BY <1>3, <2>1, SessionsAssumption
  <2>3. SessionsTypeOK'
    BY <2>1, <2>2 DEF ControllerInv, ControllerTypeOK, SessionsTypeOK
  <2>4. ControllerTypeOK'
    BY <2>1, <2>3 DEF ControllerInv, ControllerTypeOK
  <2>5. InboxesOK' /\ HeldOK' /\ OneStop'
    BY <2>1 DEF ControllerInv, InboxesOK, HeldOK, OneStop, Stopping
  <2>6. \A d \in Calls : RequestOK(d)'
    <3>1. \A d \in Calls : worker[d] = "none" => d # s
      BY <1>8 DEF Play, Reaches
    <3>2. \A d \in Calls : worker[d] = "none" => battery'[d] = battery[d]
      BY <1>3, <2>1, <3>1 DEF Session
    <3> QED
      BY <2>1, <3>2 DEF ControllerInv, RequestOK, Answered
  <2>7. \A d \in Calls : HeldOrOver(d)'
    BY <2>1 DEF ControllerInv, HeldOrOver, Leftover, Lost, Abandoned, Due, Answered, EndsThread, IsMgba
  <2>8. \A d \in Calls : Ending(d)'
    BY <2>1 DEF ControllerInv, Ending, EndsThread, IsMgba
  <2>9. \A d \in Calls : Starting(d)'
    <3>1. \A d \in Calls : battery[d] = 0 => battery'[d] = 0
      BY <1>3, <2>1 DEF Session
    <3> QED
      BY <2>1, <3>1 DEF ControllerInv, Starting
  <2>10. \A d \in Calls : SaveOK(d)'
    BY <2>1 DEF ControllerInv, SaveOK, BringsSave, IsMgba
  <2> QED
    BY <2>4, <2>5, <2>6, <2>7, <2>8, <2>9, <2>10 DEF ControllerInv
<1>9. CASE WorkerCrash(s)
  BY <1>1, <1>9, Dies DEF WorkerCrash
<1>10. CASE WorkerExit(s)
  <2>1. \/ Failed(s) /\ status[s] # "stopped"
        \/ status[s] = "stopped" /\ UNCHANGED <<status, request>>
    BY <1>10 DEF WorkerExit
  <2> QED
    BY <1>1, <1>10, <2>1, Dies DEF WorkerExit
<1> QED
  BY <1>4, <1>5, <1>6, <1>7, <1>8, <1>9, <1>10 DEF WorkerStep, Serve

LEMMA Stutters ==
  ASSUME ControllerInv, UNCHANGED <<sessionVars, controllerVars>>
  PROVE  Step
<1>1. /\ UNCHANGED <<core, worker, status, loaded, battery, inbox, request>>
      /\ UNCHANGED <<held, ctlStatus, phase, on, outcome>>
  BY DEF sessionVars, controllerVars
<1>2. ControllerTypeOK'
  BY <1>1 DEF ControllerInv, ControllerTypeOK, SessionsTypeOK
<1>3. InboxesOK' /\ HeldOK' /\ OneStop'
  BY <1>1 DEF ControllerInv, InboxesOK, HeldOK, OneStop, Stopping
<1>4. \A d \in Calls : RequestOK(d)'
  BY <1>1 DEF ControllerInv, RequestOK, Answered
<1>5. \A d \in Calls : HeldOrOver(d)'
  BY <1>1 DEF ControllerInv, HeldOrOver, Leftover, Lost, Abandoned, Due, Answered, EndsThread, IsMgba
<1>6. \A d \in Calls : Ending(d)'
  BY <1>1 DEF ControllerInv, Ending, EndsThread, IsMgba
<1>7. \A d \in Calls : Starting(d)'
  BY <1>1 DEF ControllerInv, Starting
<1>8. \A d \in Calls : SaveOK(d)'
  BY <1>1 DEF ControllerInv, SaveOK, BringsSave, IsMgba
<1> QED
  BY <1>1, <1>2, <1>3, <1>4, <1>5, <1>6, <1>7, <1>8 DEF ControllerInv, Step, Keeps
-----------------------------------------------------------------------------
(* What these steps leave alone.                                           *)

(* A call that goes on in its method was due; it changes its own request   *)
(* and may tell its thread to end, and nothing of another call.            *)
LEMMA ContinueFrame ==
  ASSUME ControllerInv, NEW c \in Calls, Continue(c)
  PROVE  /\ Due(c) /\ phase[c] \in Waiting
         /\ UNCHANGED <<core, status, loaded, battery, on>>
         /\ \A d \in Calls \ {c} : /\ phase'[d] = phase[d] /\ request'[d] = request[d]
                                   /\ outcome'[d] = outcome[d]
         /\ \A s \in Session : \/ worker'[s] = worker[s]
                               \/ worker[s] = "live" /\ worker'[s] = "exiting"
         /\ request'[c].session = request[c].session
         /\ request'[c] = request[c] \/ request'[c].answer \in {"waiting", "error"}
<1>1. /\ request \in [Calls -> Request \union {NoRequest}] /\ phase \in [Calls -> Phase]
      /\ outcome \in [Calls -> {"none", "ok", "error"}]
      /\ worker \in [Session -> Worker] /\ c \in Session
  BY DEF ControllerInv, ControllerTypeOK, SessionsTypeOK, Session
<1>2. CASE Loaded(c) \/ Started(c)
  <2>1. request[c].session = c /\ on[c] \in Controllers
    BY <1>2 DEF ControllerInv, RequestOK, Launching, Loaded, Started
  <2>2. held[on[c]] = c \/ held[on[c]] = NoSession
    BY <1>2, <2>1 DEF ControllerInv, HeldOrOver, Leftover, Lost, Loaded, Started, Pending, Waiting,
       Answered, Abandoned
  <2>3. /\ phase[c] \in {"loading", "starting"} /\ Answered(c)
        /\ UNCHANGED <<core, worker, status, loaded, battery, on>>
    BY <1>2 DEF Loaded, Started, FailLaunch, Post, sessionVars
  <2>4. \/ Post(c, c, "start") /\ \E p \in Phase : To(c, p)
        \/ Post(c, c, "stop") /\ \E p \in Phase : To(c, p)
        \/ UNCHANGED sessionVars /\ \E r \in {"ok", "error"} : Return(c, r)
    BY <1>2, <2>2 DEF Loaded, Started, FailLaunch, Phase, Waiting
  <2>5. \/ request' = request
        \/ \E kind : \E a \in {"waiting", "error"} : request' = [request EXCEPT ![c] =
              [session |-> c, kind |-> kind, answer |-> a]]
    BY <2>4 DEF Post, sessionVars
  <2>6. \A d \in Calls \ {c} : phase'[d] = phase[d] /\ outcome'[d] = outcome[d]
    BY <1>1, <2>4 DEF To, Return
  <2> QED
    BY <1>1, <2>1, <2>3, <2>5, <2>6 DEF Due, Waiting
<1>3. CASE FailLaunchAnswered(c) \/ StopAnswered(c)
  <2>1. /\ phase[c] \in {"failing", "stopping"} /\ Answered(c)
        /\ UNCHANGED <<core, status, loaded, battery, request, on>>
        /\ \/ Terminate(request[c].session) /\ \E p \in Phase : To(c, p)
           \/ UNCHANGED worker /\ \E r \in {"ok", "error"} : Return(c, r)
    BY <1>3 DEF FailLaunchAnswered, StopAnswered, StopFailed, sessionVars, Phase, Waiting
  <2>2. \A s \in Session : \/ worker'[s] = worker[s]
                           \/ worker[s] = "live" /\ worker'[s] = "exiting"
    BY <1>1, <2>1 DEF Terminate
  <2>3. \A d \in Calls \ {c} : phase'[d] = phase[d] /\ outcome'[d] = outcome[d]
    BY <1>1, <2>1 DEF To, Return
  <2> QED
    BY <2>1, <2>2, <2>3 DEF Due, Waiting
<1>4. CASE FailLaunchExited(c) \/ StopExited(c) \/ AskAnswered(c)
  <2>1. /\ phase[c] \in Waiting /\ Due(c) /\ UNCHANGED <<sessionVars, on>>
        /\ (\E p \in Phase : To(c, p)) \/ (\E r \in {"ok", "error"} : Return(c, r))
    BY <1>4 DEF FailLaunchExited, StopExited, StopFailed, Stopped, AskAnswered, Phase, Micro,
       Due, Waiting
  <2>2. \A d \in Calls \ {c} : phase'[d] = phase[d] /\ outcome'[d] = outcome[d]
    BY <1>1, <2>1 DEF To, Return
  <2> QED
    BY <2>1, <2>2 DEF sessionVars
<1> QED
  BY <1>2, <1>3, <1>4 DEF Continue

(* The await such a call is at next, and what it returns.                  *)
LEMMA ContinuePhase ==
  ASSUME ControllerInv, NEW c \in Calls, Continue(c)
  PROVE  /\ phase[c] \in Launching => phase'[c] \in Launching \union {"returned"}
         /\ phase[c] \in StopPhase => phase'[c] \in {"terminating", "exporting", "returned"}
         /\ phase[c] = "asking" => phase'[c] = "returned"
         /\ phase'[c] # "asking"
         /\ phase'[c] = "returned" => outcome'[c] \in {"ok", "error"} /\ request' = request
         /\ phase[c] = "asking" =>
              held' = held /\ (outcome'[c] = "ok" => request[c].answer # "error")
         /\ phase[c] \in Launching /\ phase'[c] = "returned" /\ outcome'[c] = "error"
              => held'[on[c]] = NoSession
         /\ phase[c] \in StopPhase /\ phase'[c] = "returned" =>
              \/ outcome'[c] = "ok" /\ held'[on[c]] = NoSession /\ request[c].answer = "ok"
              \/ outcome'[c] = "error" /\ worker[request[c].session] \in {"crashed", "gone"}
         /\ \A k \in Controllers : held'[k] = held[k] \/ (k = on[c] /\ held'[k] = NoSession)
<1>1. /\ phase \in [Calls -> Phase] /\ outcome \in [Calls -> {"none", "ok", "error"}]
      /\ held \in [Controllers -> Session \union {NoSession}]
      /\ phase[c] # "idle" => on[c] \in Controllers
  BY DEF ControllerInv, ControllerTypeOK, RequestOK
<1>2. \A p : To(c, p) => phase'[c] = p
  BY <1>1 DEF To
<1>3. \A r : Return(c, r) => phase'[c] = "returned" /\ outcome'[c] = r
  BY <1>1 DEF Return
<1>4. \A k \in Controllers : Dispose(k) =>
        held'[k] = NoSession /\ \A i \in Controllers : i # k => held'[i] = held[i]
  BY <1>1 DEF Dispose
<1>5. CASE Loaded(c) \/ Started(c)
  <2>1. /\ phase[c] \in {"loading", "starting"} /\ UNCHANGED held
        /\ \/ To(c, "starting") \/ To(c, "failing")
           \/ Return(c, "ok") /\ UNCHANGED sessionVars
           \/ Return(c, "error") /\ UNCHANGED sessionVars /\ held[on[c]] = NoSession
    BY <1>5 DEF Loaded, Started, FailLaunch
  <2> QED
    BY <1>2, <1>3, <2>1 DEF Launching, StopPhase, sessionVars
<1>6. CASE FailLaunchAnswered(c) \/ FailLaunchExited(c)
  <2>1. /\ phase[c] \in {"failing", "failExit"}
        /\ \/ To(c, "failExit") /\ UNCHANGED held
           \/ Return(c, "error") /\ UNCHANGED sessionVars /\ Dispose(on[c])
    BY <1>6 DEF FailLaunchAnswered, FailLaunchExited
  <2> QED
    BY <1>1, <1>2, <1>3, <1>4, <2>1 DEF Launching, StopPhase, sessionVars
<1>7. CASE StopAnswered(c)
  <2>1. /\ phase[c] = "stopping" /\ UNCHANGED held
        /\ \/ To(c, "terminating")
           \/ Return(c, "error") /\ UNCHANGED sessionVars /\ ~EndsThread(c)
    BY <1>7 DEF StopAnswered, StopFailed
  <2>2. ~EndsThread(c) => worker[request[c].session] \in {"crashed", "gone"}
    BY <2>1 DEF ControllerInv, Ending, EndsThread
  <2> QED
    BY <1>2, <1>3, <2>1, <2>2 DEF Launching, sessionVars
<1>8. CASE StopExited(c)
  <2>1. /\ phase[c] = "terminating" /\ worker[request[c].session] = "gone"
        /\ UNCHANGED sessionVars
        /\ \/ To(c, "exporting") /\ UNCHANGED held
           \/ Return(c, "error") /\ UNCHANGED held
           \/ Return(c, "ok") /\ Dispose(on[c]) /\ request[c].answer = "ok"
    BY <1>8 DEF StopExited, StopFailed, Stopped
  <2> QED
    BY <1>1, <1>2, <1>3, <1>4, <2>1 DEF Launching, sessionVars
<1>9. CASE AskAnswered(c)
  <2>1. /\ phase[c] = "asking" /\ UNCHANGED <<sessionVars, held>>
        /\ \/ Return(c, "error")
           \/ Return(c, "ok") /\ request[c].answer # "error"
    BY <1>9 DEF AskAnswered
  <2> QED
    BY <1>3, <2>1 DEF Launching, StopPhase, sessionVars
<1> QED
  BY <1>5, <1>6, <1>7, <1>8, <1>9 DEF Continue

(* The request a thread gets to. *)
LEMMA Oldest ==
  ASSUME ControllerInv, NEW s \in Session, inbox[s] # <<>>
  PROVE  /\ Head(inbox[s]).call \in Calls
         /\ request[Head(inbox[s]).call] =
              [session |-> s, kind |-> Head(inbox[s]).kind, answer |-> "waiting"]
         /\ request[Head(inbox[s]).call].session = s
         /\ request[Head(inbox[s]).call].answer = "waiting"
<1>1. SessionsTypeOK
  BY DEF ControllerInv, ControllerTypeOK
<1>2. inbox[s] \in Seq(Entry)
  BY <1>1 DEF SessionsTypeOK, Entry
<1>3. 1 \in DOMAIN inbox[s] /\ Head(inbox[s]) = inbox[s][1]
  BY <1>2, TailOf
<1>4. /\ inbox[s][1].call \in Calls
      /\ request[inbox[s][1].call] =
           [session |-> s, kind |-> inbox[s][1].kind, answer |-> "waiting"]
  BY <1>1, <1>3, Queued
<1> QED
  BY <1>3, <1>4

(* The thread of session s takes a step.                                   *)
LEMMA ThreadFrame ==
  ASSUME ControllerInv, NEW s \in Session, WorkerStep(s)
  PROVE  /\ core' = core
         /\ \A t \in Session \ {s} : /\ worker'[t] = worker[t] /\ status'[t] = status[t]
                                     /\ loaded'[t] = loaded[t] /\ battery'[t] = battery[t]
         /\ worker[s] \notin {"none", "gone"}
         /\ worker'[s] = worker[s] \/ worker'[s] \in {"crashed", "gone"}
         /\ battery'[s] >= battery[s]
<1>1. /\ worker \in [Session -> Worker] /\ status \in [Session -> Status]
      /\ loaded \in [Session -> BOOLEAN] /\ battery \in [Session -> 0..MaxBattery]
      /\ MaxBattery \in Nat
  BY SessionsAssumption DEF ControllerInv, ControllerTypeOK, SessionsTypeOK
<1>2. CASE ServeLoad(s)
  <2>1. /\ Reaches(s) /\ UNCHANGED <<core, worker>> /\ inbox[s] # <<>>
        /\ Head(inbox[s]).kind = "load-rom" /\ status' = [status EXCEPT ![s] = status[s]]
        /\ loaded' = [loaded EXCEPT ![s] = TRUE] \/ UNCHANGED loaded
        /\ \E b \in {0, 1} : battery' = [battery EXCEPT ![s] = b]
    BY <1>2 DEF ServeLoad, Serving, Reply
  <2>2. battery[s] = 0
    <3>1. PICK d \in Calls : request[d] = [session |-> s, kind |-> "load-rom", answer |-> "waiting"]
      BY <2>1, Oldest
    <3>3. request[d].session = s /\ request[d].kind = "load-rom" /\ request[d].answer = "waiting"
      BY <3>1
    <3>4. phase[d] \in Waiting /\ phase[d] \in Pending /\ KindAt(phase[d], "load-rom")
      BY <3>3 DEF ControllerInv, RequestOK, Pending
    <3>5. phase[d] = "loading"
      BY <3>4 DEF Waiting, KindAt, StopPhase
    <3>6. d = s
      BY <3>3, <3>5 DEF ControllerInv, RequestOK, Launching
    <3>7. Starting(s) /\ phase[s] = "loading" /\ request[s].answer = "waiting"
      BY <3>3, <3>5, <3>6 DEF ControllerInv
    <3> QED
      BY <3>7 DEF Starting
  <2> QED
    BY <1>1, <2>1, <2>2 DEF Reaches
<1>3. CASE ServeTransition(s) \/ ServeStop(s) \/ ServeState(s)
  <2>1. /\ Reaches(s) /\ UNCHANGED <<core, worker, loaded, battery>>
        /\ \E st : status' = [status EXCEPT ![s] = st]
    BY <1>3 DEF ServeTransition, ServeStop, ServeState, Serving, Reply
  <2> QED
    BY <1>1, <2>1 DEF Reaches
<1>4. CASE Play(s)
  BY <1>1, <1>4 DEF Play, Reaches
<1>5. CASE WorkerCrash(s) \/ WorkerExit(s)
  <2>1. /\ worker[s] \in {"live", "crashed", "exiting"}
        /\ worker' = [worker EXCEPT ![s] = "crashed"] \/ worker' = [worker EXCEPT ![s] = "gone"]
        /\ UNCHANGED <<core, loaded, battery>>
        /\ status' = status \/ status' = [status EXCEPT ![s] = "failed"]
    BY <1>5 DEF WorkerCrash, WorkerExit, Failed
  <2> QED
    BY <1>1, <2>1
<1> QED
  BY <1>2, <1>3, <1>4, <1>5 DEF WorkerStep, Serve

(* Its answers: an answer that is no error goes to one call alone.         *)
LEMMA ThreadAnswers ==
  ASSUME ControllerInv, NEW s \in Session, WorkerStep(s), NEW d \in Calls
  PROVE  /\ request'[d].session = request[d].session
         /\ request[d].answer # "waiting" => request'[d] = request[d]
         /\ request'[d] = request[d] \/ request'[d].answer \in {"ok", "save", "error"}
         /\ request'[d] # request[d] /\ request'[d].answer # "error" =>
              /\ request[d].session = s /\ Reaches(s) /\ UNCHANGED worker
              /\ request'[d].answer = "save" => loaded[s] \/ IsMgba(s)
              /\ \A x \in Calls \ {d} : request'[x] = request[x]
<1>1. request \in [Calls -> Request \union {NoRequest}]
  BY DEF ControllerInv, ControllerTypeOK, SessionsTypeOK
<1>2. CASE Serve(s)
  <2>1. PICK a \in {"ok", "save", "error"} :
          /\ request' = [request EXCEPT ![Head(inbox[s]).call].answer = a]
          /\ a = "save" => loaded[s] \/ IsMgba(s)
    BY <1>2 DEF Serve, ServeLoad, ServeTransition, ServeStop, ServeState, Reply, ExportsSave
  <2>2. Reaches(s) /\ inbox[s] # <<>> /\ UNCHANGED worker
    BY <1>2, <2>1 DEF Serve, ServeLoad, ServeTransition, ServeStop, ServeState, Serving, Reply
  <2>4. PICK e \in Calls : /\ e = Head(inbox[s]).call
                           /\ request[e].session = s /\ request[e].answer = "waiting"
    <3>1. /\ Head(inbox[s]).call \in Calls /\ request[Head(inbox[s]).call].session = s
          /\ request[Head(inbox[s]).call].answer = "waiting"
      BY <2>2, Oldest
    <3> QED
      BY <3>1
  <2>5. request' = [request EXCEPT ![e].answer = a]
    BY <2>1, <2>4
  <2>6. request[e] \in Request
    BY <1>1, <2>4 DEF NoRequest
  <2>7. request'[e].session = s /\ request'[e].answer = a
    BY <1>1, <2>4, <2>5, <2>6 DEF Request
  <2>8. \A x \in Calls \ {e} : request'[x] = request[x]
    BY <1>1, <2>5
  <2>9. CASE d = e
    <3>1. /\ request'[d].session = s /\ request'[d].answer = a /\ request[d].session = s
          /\ request[d].answer = "waiting" /\ \A x \in Calls \ {d} : request'[x] = request[x]
      BY <2>4, <2>7, <2>8, <2>9
    <3> QED
      BY <2>1, <2>2, <3>1
  <2>10. CASE d # e
    BY <2>8, <2>10
  <2> QED
    BY <2>9, <2>10
<1>3. CASE Play(s)
  BY <1>3 DEF Play
<1>4. CASE WorkerCrash(s) \/ WorkerExit(s)
  <2>1. Failed(s) \/ UNCHANGED request
    BY <1>4 DEF WorkerCrash, WorkerExit
  <2>2. CASE Failed(s)
    <3>1. request'[d] = IF request[d].session = s /\ request[d].answer = "waiting"
                        THEN [request[d] EXCEPT !.answer = "error"] ELSE request[d]
      BY <2>2 DEF Failed
    <3>2. request[d].answer = "waiting" => request[d] \in Request
      BY <1>1 DEF NoRequest
    <3> QED
      BY <3>1, <3>2 DEF Request
  <2> QED
    BY <2>1, <2>2
<1> QED
  BY <1>2, <1>3, <1>4 DEF WorkerStep
=============================================================================
