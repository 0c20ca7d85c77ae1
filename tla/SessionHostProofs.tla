--------------------------- MODULE SessionHostProofs ---------------------------
(***************************************************************************)
(* Proofs about the session host with its controllers and sessions, for    *)
(* any calls, cores, games and callers of two classes: those who make one  *)
(* call after the other while the intervals tick as they like              *)
(* (Sequential), and those who overlap launches and a stop on one core     *)
(* (AloneOnCore).                                                          *)
(*                                                                         *)
(* The argument is about the key a save is written under.  Whatever the    *)
(* controller holds is either the session the key names, or a session that *)
(* can write nothing any more.  One call after the other keeps it so       *)
(* because a call that changes the keys has let go of the session first    *)
(* (HostKeys, MainCall); on one core it holds but for the moment in which  *)
(* a launch learns that it was refused, and in that moment nothing else    *)
(* runs (Refusal).                                                         *)
(*                                                                         *)
(* The playtime is a matter of its own, for a third class (TimeIsAlone).   *)
(***************************************************************************)
EXTENDS SessionHost, ControllerLemmas, FiniteSetTheorems

Dead(s)  == worker[s] \in {"crashed", "gone"}
Runs(c)  == at[c] \notin {"none", "done"}
Main(c)  == Runs(c) /\ op[c] \notin Ticks
Covered  == Sequential \/ AloneOnCore

(* Where a call is, in the host and in the method of its controller.       *)
Position(c) ==
  /\ at[c] = "none" <=> op[c] = "none"
  /\ at[c] \in {"none", "done", "storing", "counting", "reading"} => phase[c] = "idle"
  /\ at[c] \in {"capturing", "restoring", "asking"} => phase[c] \in {"asking", "returned"}
  /\ at[c] \in {"ending", "undoing"} => phase[c] \in StopPhase \union {"returned"}
  /\ at[c] = "launching" => phase[c] \in Launching \union {"returned"}
  /\ at[c] \in {"capturing", "storing"} => op[c] \in {"stop", "launch", "capture", "autosave"}
  /\ at[c] = "counting" => op[c] \in {"stop", "launch", "checkpoint"}
  /\ at[c] = "ending" => op[c] \in {"stop", "launch"}
  /\ at[c] = "reading" => op[c] \in {"launch", "restore"}
  /\ at[c] \in {"launching", "restoring", "undoing"} => op[c] = "launch"
  /\ at[c] = "asking" => op[c] \in {"pause", "resume", "restore"}
  /\ result[c] # "none" => at[c] = "done"
  /\ op[c] = "launch" =>
       args[c] \in Args /\ args[c].game \in caller.games /\ args[c].mode \in caller.modes
  /\ op[c] = "launch" /\ at[c] = "reading" => activePlugin \in Cores

(* Only a launch has a session, and one that runs has it with the          *)
(* controller of the host.                                                 *)
Owner(c) ==
  worker[c] # "none" =>
    /\ op[c] = "launch"
    /\ \/ at[c] = "done"
       \/ at[c] \in {"launching", "restoring", "undoing"} /\ on[c] = controller

(* A controller is used after the launch that makes it has made it.        *)
Made(k) ==
  controller = k \/ (\E d \in Calls : on[d] = k) =>
    op[k] = "launch" /\ at[k] \in {"reading", "launching", "restoring", "undoing", "done"}

(* One call after the other. *)
InOrder ==
  \A c, d \in Calls :
    /\ d < c /\ at[c] # "none" => at[d] # "none"
    /\ Main(c) /\ Main(d) => c = d
    /\ Main(c) /\ op[d] = "launch" => d <= c

(* The keys are those of the session of the controller, or it is dead; and *)
(* so is whatever an earlier controller still holds.                       *)
HostKeys ==
  /\ \A k \in Controllers : held[k] # NoSession /\ k # controller => Dead(held[k])
  /\ held[controller] # NoSession =>
       LET s == held[controller] IN
       \/ activeSaveKey = NoGame /\ Dead(s)
       \/ /\ activeSaveKey = GameOf(s)
          /\ activeGameId = IF Library(s) THEN GameOf(s) ELSE NoGame

(* The controller of a call that changes the keys has no session it could  *)
(* leave alone.                                                            *)
MainCall(c) ==
  /\ at[c] \in {"ending", "launching", "restoring", "undoing"} => on[c] = controller
  /\ op[c] = "launch" /\ at[c] = "reading" => held[controller] = NoSession
  /\ at[c] \in {"ending", "undoing"} /\ phase[c] \in Pending =>
       held[controller] = request[c].session
  /\ at[c] = "launching" /\ phase[c] = "returned" /\ outcome[c] = "error" =>
       held[controller] = NoSession
  /\ at[c] \in {"ending", "undoing"} /\ phase[c] = "returned" =>
       \/ outcome[c] = "ok" /\ held[controller] = NoSession
       \/ outcome[c] = "error" /\ (held[controller] # NoSession => Dead(held[controller]))

(* A save that comes home finds the key of its game. *)
FindsKey(c) == BringsSave(c) => activeSaveKey = GameOf(request[c].session)

(* A state that arrives finds the game it was captured from.               *)
Arrived(c) ==
  \/ phase[c] = "asking" /\ request[c].answer = "ok"
  \/ phase[c] = "returned" /\ outcome[c] = "ok"

FindsGame(c) ==
  /\ at[c] = "storing" \/ (at[c] = "capturing" /\ (phase[c] = "asking" \/ Arrived(c))) =>
       request[c].session \in Session /\ op[request[c].session] = "launch"
  /\ at[c] = "capturing" /\ phase[c] = "asking" => Library(request[c].session)
  /\ at[c] = "capturing" /\ Arrived(c) =>
       /\ activeGameId = GameOf(request[c].session)
       /\ \A d \in Calls \ {c} : ~Due(d)
  /\ at[c] = "storing" => local[c].gameId = GameOf(request[c].session)

StoredStates ==
  \A x \in DOMAIN states : states[x] # NoSession =>
    op[states[x]] = "launch" /\ GameOf(states[x]) = x[2]

(* On one core: the keys are those of the session that is held, or none,   *)
(* or those of a launch that is about to be refused.                       *)
RefusedNow(c) ==
  /\ at[c] = "launching" /\ phase[c] = "returned" /\ outcome[c] = "error"
  /\ \A d \in Calls \ {c} : ~Due(d)

Refusal ==
  \A k \in Controllers : held[k] # NoSession =>
    \/ activeSaveKey \in {NoGame, GameOf(held[k])}
    \/ \E c \in Calls : RefusedNow(c)

OneCore ==
  /\ \A s \in Session : worker[s] # "none" => ~IsMgba(s)
  /\ \A k \in Controllers : held[k] # NoSession => k = controller
  /\ activeSaveKey # NoGame => \A g \in caller.games : activePlugin = CoreOf[g]
  /\ \A c, d \in Calls : Runs(c) /\ Runs(d) /\ op[c] = "stop" /\ op[d] = "stop" => c = d

OneCoreCall(c) ==
  op[c] = "launch" => /\ at[c] \in {"reading", "launching", "done"}
                      /\ \A g \in caller.games : activePlugin = CoreOf[g]

(* What was written, under which key, and what became of it.               *)
Written == 1..saveIssued

WritesOK ==
  /\ \A w \in Written :
       /\ payload[w].session \in Session /\ op[payload[w].session] = "launch"
       /\ saveKeyOf[w] = GameOf(payload[w].session)
  /\ \A w \in Saves!Write : saveOutcome[w] # "unused" => w \in Written
  /\ \A g \in Games : saved[g] # 0 => saved[g] \in Written /\ saveKeyOf[saved[g]] = g

(* One call after the other, writes are in the order of their sessions and *)
(* of the versions of their battery RAM.                                   *)
WritesInOrder ==
  /\ \A w \in Written :
       /\ payload[w].version <= battery[payload[w].session]
       /\ held[controller] # NoSession => payload[w].session <= held[controller]
       /\ \A x \in w..saveIssued :
            /\ payload[w].session <= payload[x].session
            /\ payload[w].session = payload[x].session
                 => payload[w].version <= payload[x].version

(* A final save that came home is, or was, the save of its game. *)
Home(s) ==
  /\ worker[s] = "gone"
  /\ \E w \in 1..saved[GameOf(s)] : payload[w] = [session |-> s, version |-> battery[s]]

FinalSave(c) ==
  /\ phase[c] = "persisting" =>
       /\ awaited[c] \in Written
       /\ payload[awaited[c]] =
            [session |-> request[c].session, version |-> battery[request[c].session]]
  /\ /\ op[c] = "stop" /\ request[c].answer = "save"
     /\ result[c] = "ok" \/ (phase[c] = "returned" /\ outcome[c] = "ok")
     => Home(request[c].session)

Own(c) ==
  /\ Position(c) /\ Owner(c)
  /\ Sequential => MainCall(c) /\ FindsKey(c) /\ FindsGame(c) /\ FinalSave(c)
  /\ AloneOnCore => OneCoreCall(c)

Parts ==
  /\ HostTypeOK /\ ControllerInv /\ WritesOK
  /\ \A c \in Calls : Made(c) /\ Own(c)
  /\ Sequential => InOrder /\ HostKeys /\ StoredStates /\ WritesInOrder
  /\ AloneOnCore => Refusal /\ OneCore

IInv == caller \in Callers /\ (Covered => Parts)
-----------------------------------------------------------------------------
(* The values of the variables. *)
LEMMA Types ==
  ASSUME Parts
  PROVE  /\ caller \in Callers /\ controller \in Controllers /\ Session = Calls
         /\ activePlugin \in Cores \union {NoCore} /\ activeSaveKey \in Games \union {NoGame}
         /\ at \in [Calls -> Await] /\ op \in [Calls -> Operations \union {"none"}]
         /\ args \in [Calls -> Args \union {NoArgs}]
         /\ result \in [Calls -> {"none", "ok", "error"}]
         /\ phase \in [Calls -> Phase] /\ on \in [Calls -> Controllers \union {NoController}]
         /\ outcome \in [Calls -> {"none", "ok", "error"}]
         /\ held \in [Controllers -> Session \union {NoSession}]
         /\ worker \in [Session -> Worker]
         /\ battery \in [Session -> 0..MaxBattery] /\ Calls \subseteq Nat \ {0}
         /\ request \in [Calls -> Request \union {NoRequest}]
         /\ NoSession \notin Session /\ NoController \in Controllers /\ Calls \subseteq Controllers
BY HostAssumption, SessionsAssumption DEF Parts, HostTypeOK, ControllerInv, ControllerTypeOK,
   SessionsTypeOK, Session, NoSession, NoController

(* Host call c takes its turn and is then at await p.                      *)
Turn(c, p) ==
  /\ \/ Runs(c) /\ UNCHANGED callVars
     \/ \E kind \in Operations, a \in Args \union {NoArgs} : Begin(c, kind, a)
  /\ at' = [at EXCEPT ![c] = p]
  /\ Quiet \/ phase[c] = "returned"
  /\ phase[c] \in {"idle", "returned"}

LEMMA TurnFrame ==
  ASSUME Parts, NEW c \in Calls, NEW p \in Await \ {"none"}, Turn(c, p)
  PROVE  /\ caller' = caller /\ at'[c] = p /\ at[c] # "done"
         /\ \A d \in Calls \ {c} : at'[d] = at[d] /\ op'[d] = op[d] /\ args'[d] = args[d]
         /\ op'[c] \in Operations
         /\ Runs(c) => op'[c] = op[c] /\ args'[c] = args[c]
         /\ ~Runs(c) => /\ at[c] = "none" /\ op[c] = "none" /\ worker[c] = "none"
                        /\ result[c] = "none"
         /\ \A s \in Session : op[s] = "launch" => op'[s] = "launch" /\ args'[s] = args[s]
         /\ FreeFor(c, controller) /\ request[c].answer # "waiting"
         /\ \A d \in Calls \ {c} : ~(Due(d) /\ \A e \in Calls \ {d} : ~Due(e))
         /\ (Sequential' <=> Sequential) /\ (AloneOnCore' <=> AloneOnCore)
<1>1. Position(c) /\ Owner(c)
  BY DEF Parts, Own
<1>2. /\ caller' = caller /\ at'[c] = p /\ at[c] # "done" /\ op'[c] \in Operations
      /\ \A d \in Calls \ {c} : at'[d] = at[d] /\ op'[d] = op[d] /\ args'[d] = args[d]
      /\ Runs(c) => op'[c] = op[c] /\ args'[c] = args[c]
      /\ ~Runs(c) => at[c] = "none"
  BY <1>1, Types DEF Turn, Begin, Runs, callVars, Position
<1>3. ~Runs(c) => op[c] = "none" /\ worker[c] = "none" /\ result[c] = "none"
  BY <1>1, <1>2, Types DEF Position, Owner
<1>4. \A s \in Session : op[s] = "launch" => op'[s] = "launch" /\ args'[s] = args[s]
  BY <1>2, <1>3, Types
<1>5. FreeFor(c, controller) /\ request[c].answer # "waiting"
  <2>1. phase[c] \notin Pending /\ RequestOK(c)
    BY DEF Turn, Pending, Waiting, Parts, ControllerInv
  <2>2. request[c].answer # "waiting"
    BY <2>1 DEF RequestOK, Pending
  <2> QED
    BY <1>1, <1>2, <2>1, <2>2 DEF FreeFor, Owner
<1>6. \A d \in Calls \ {c} : ~(Due(d) /\ \A e \in Calls \ {d} : ~Due(e))
  BY DEF Turn, Quiet, Due, Micro
<1>7. (Sequential' <=> Sequential) /\ (AloneOnCore' <=> AloneOnCore)
  BY <1>2 DEF Sequential, AloneOnCore
<1> QED
  BY <1>2, <1>3, <1>4, <1>5, <1>6, <1>7

(* A session that somebody has is that of a launch. *)
LEMMA SessionsOfLaunches ==
  ASSUME Parts
  PROVE  /\ \A s \in Session : worker[s] # "none" => op[s] = "launch"
         /\ \A k \in Controllers : held[k] # NoSession =>
              held[k] \in Session /\ op[held[k]] = "launch" /\ on[held[k]] = k
         /\ \A d \in Calls : phase[d] \in Pending =>
              request[d].session \in Session /\ op[request[d].session] = "launch"
<1>1. \A s \in Session : worker[s] # "none" => op[s] = "launch"
  BY DEF Parts, Own, Owner, Session
<1>2. \A k \in Controllers : held[k] # NoSession =>
        held[k] \in Session /\ worker[held[k]] # "none" /\ on[held[k]] = k
  BY WhatIsHeld DEF Parts
<1>3. \A d \in Calls : phase[d] \in Pending =>
        request[d].session \in Session /\ worker[request[d].session] # "none"
  BY DEF Parts, ControllerInv, RequestOK, Request
<1> QED
  BY <1>1, <1>2, <1>3

LEMMA InOrderStays ==
  ASSUME Parts, Sequential, NEW c \in Calls, NEW p \in Await \ {"none"}, Turn(c, p)
  PROVE  InOrder'
<1>1. InOrder /\ \A d \in Calls : Position(d)
  BY DEF Parts, Own
<1>2. CASE Runs(c)
  <2>1. \A d \in Calls : at[d] # "none" => at'[d] # "none"
    BY <1>2, TurnFrame
  <2>2. \A d \in Calls : at'[d] # "none" => at[d] # "none"
    BY <1>2, TurnFrame DEF Runs
  <2>3. \A d \in Calls : op'[d] = op[d]
    BY <1>2, TurnFrame
  <2>4. \A d \in Calls : Main(d)' => Main(d)
    BY <1>2, <2>3, TurnFrame DEF Main, Runs
  <2> QED
    BY <1>1, <2>1, <2>2, <2>3, <2>4 DEF InOrder
<1>3. CASE ~Runs(c)
  <2>1. PICK kind \in Operations, a \in Args \union {NoArgs} : Begin(c, kind, a)
    BY <1>3 DEF Turn
  <2>2. op'[c] = kind /\ at[c] = "none" /\ \A d \in Calls : d < c => at[d] # "none"
    BY <2>1, Types DEF Begin
  <2>3. \A d \in Calls : at[d] # "none" => d < c
    <3>1. \A d \in Calls : at[d] # "none" => ~(c < d) /\ d # c
      BY <1>1, <2>2 DEF InOrder
    <3>2. \A d \in Calls : d \in Nat
      BY SessionsAssumption
    <3> QED
      BY <3>1, <3>2
  <2>4. kind \notin Ticks => \A d \in Calls : ~Main(d)
    BY <1>1, <2>1, Types DEF Begin, Running, Main, Runs, Sequential, Position
  <2>5. \A d \in Calls : Main(d)' => \/ d = c /\ kind \notin Ticks
                                     \/ d # c /\ Main(d)
    BY <2>2, TurnFrame DEF Main, Runs
  <2>6. \A d \in Calls : op'[d] = "launch" => d <= c
    BY <1>1, <2>3, Types, TurnFrame DEF Position
  <2>7. \A d \in Calls : op'[d] = "launch" /\ d # c => op[d] = "launch"
    BY TurnFrame
  <2>8. kind \in Ticks => kind # "launch"
    BY DEF Ticks
  <2>9. \A d, e \in Calls : d < e /\ at'[e] # "none" => at'[d] # "none"
    BY <1>1, <2>2, TurnFrame DEF InOrder
  <2>10. \A d, e \in Calls : Main(d)' /\ Main(e)' => d = e
    BY <1>1, <2>4, <2>5 DEF InOrder
  <2>11. \A d, e \in Calls : Main(d)' /\ op'[e] = "launch" => e <= d
    BY <1>1, <2>2, <2>4, <2>5, <2>6, <2>7, <2>8 DEF InOrder
  <2> QED
    BY <2>9, <2>10, <2>11 DEF InOrder
<1> QED
  BY <1>2, <1>3
-----------------------------------------------------------------------------
(* A turn that opens no session. *)
Aside(c) ==
  \A d \in Calls \ {c} :
    /\ phase'[d] = phase[d] /\ on'[d] = on[d] /\ outcome'[d] = outcome[d]
    /\ request'[d] = request[d] /\ result'[d] = result[d] /\ local'[d] = local[d]

Still(c) ==
  /\ Aside(c)
  /\ UNCHANGED <<core, worker, battery, held, saveVars>>
  /\ on'[c] \in {on[c], controller}

(* What becomes of the keys: they stay, or are cleared, or there is a new  *)
(* controller without any.                                                 *)
NothingLeft == held[controller] # NoSession => Dead(held[controller])

KeysGo(c) ==
  /\ activeSaveKey' = NoGame /\ activeGameId' = NoGame /\ UNCHANGED <<activePlugin, controller>>
  /\ Sequential => Main(c) /\ NothingLeft

KeysNew(c) ==
  /\ activeSaveKey' = NoGame /\ activeGameId' = NoGame /\ controller' = c
  /\ activePlugin' = CoreOf[args'[c].game] /\ args'[c].game \in caller.games \intersect Games
  /\ op'[c] = "launch" /\ at'[c] = "reading"
  /\ at[c] \notin {"reading", "launching", "restoring", "undoing", "done"}
  /\ Sequential => NothingLeft
  /\ AloneOnCore => \E g \in caller.games : activePlugin # CoreOf[g]

Keys(c) == UNCHANGED keyVars \/ KeysGo(c) \/ KeysNew(c)

(* Nobody else runs a call that needs the keys or the controller. *)
LEMMA NobodyElse ==
  ASSUME Parts, Covered, NEW c \in Calls, NEW p \in Await \ {"none"}, Turn(c, p),
         KeysGo(c) \/ KeysNew(c), NEW d \in Calls \ {c}
  PROVE  /\ Sequential => ~Main(d)
         /\ KeysNew(c) => ~(op[d] = "launch" /\ Runs(d))
<1>1. CASE Sequential
  <2>1. KeysGo(c) => ~Main(d)
    BY <1>1 DEF KeysGo, Parts, InOrder
  <2>2. KeysNew(c) => Main(c)'
    BY TurnFrame DEF KeysNew, Main, Runs, Ticks
  <2>3. Main(d) => Main(d)'
    BY TurnFrame DEF Main, Runs
  <2>4. InOrder'
    BY <1>1, InOrderStays
  <2>5. ~Main(d)
    BY <2>1, <2>2, <2>3, <2>4 DEF InOrder
  <2>6. op[d] = "launch" /\ Runs(d) => Main(d)
    BY DEF Main, Ticks
  <2> QED
    BY <2>5, <2>6
<1>2. CASE ~Sequential
  <2>1. KeysNew(c) => op[d] # "launch"
    BY <1>2 DEF Covered, Parts, Own, OneCoreCall, KeysNew
  <2> QED
    BY <1>2, <2>1
<1> QED
  BY <1>1, <1>2

LEMMA OthersOwn ==
  ASSUME Parts, Covered, NEW c \in Calls, NEW p \in Await \ {"none"}, Turn(c, p), Aside(c),
         UNCHANGED <<battery, saveVars>>,
         \A s \in Session : worker'[s] = worker[s] \/ (s = c /\ worker[s] = "none"),
         NEW d \in Calls \ {c},
         \/ UNCHANGED <<activePlugin, controller>>
         \/ KeysNew(c) /\ ~(op[d] = "launch" /\ Runs(d)),
         \/ UNCHANGED <<keyVars, held, worker>>
         \/ Sequential => ~Main(d)
  PROVE  Own(d)'
<1>1. Own(d)
  BY DEF Parts
<1>2. /\ at'[d] = at[d] /\ op'[d] = op[d] /\ args'[d] = args[d] /\ caller' = caller
      /\ phase'[d] = phase[d] /\ on'[d] = on[d] /\ outcome'[d] = outcome[d]
      /\ request'[d] = request[d] /\ result'[d] = result[d] /\ local'[d] = local[d]
      /\ worker'[d] = worker[d] /\ UNCHANGED <<battery, saveVars>>
      /\ (Sequential' <=> Sequential) /\ (AloneOnCore' <=> AloneOnCore)
  BY TurnFrame DEF Aside, Session
<1>3. \/ UNCHANGED <<activePlugin, controller>>
      \/ KeysNew(c) /\ ~(op[d] = "launch" /\ Runs(d)) /\ activePlugin' \in Cores
  BY HostAssumption DEF KeysNew
<1>4. \/ UNCHANGED <<keyVars, held, worker>>
      \/ Sequential => ~Main(d)
  OBVIOUS
<1>5. /\ \A s \in Session : op[s] = "launch" =>
            op'[s] = "launch" /\ args'[s] = args[s]
      /\ \A s \in Session : worker[s] # "none" => op[s] = "launch"
      /\ phase[d] \in Pending =>
           request[d].session \in Session /\ op[request[d].session] = "launch"
  BY TurnFrame, SessionsOfLaunches
<1>6. Position(d)'
  BY <1>1, <1>2, <1>3 DEF Own, Position, Runs
<1>7. Owner(d)'
  BY <1>1, <1>2, <1>3 DEF Own, Owner, Runs
<1>8. ASSUME Sequential
      PROVE  (MainCall(d) /\ FindsKey(d) /\ FindsGame(d) /\ FinalSave(d))'
  <2>1. MainCall(d) /\ FindsKey(d) /\ FindsGame(d) /\ FinalSave(d) /\ Position(d)
    BY <1>1, <1>8 DEF Own
  <2>2. MainCall(d)'
    <3>1. UNCHANGED <<controller, held, worker>> \/ ~Main(d)
      BY <1>4, <1>8 DEF keyVars
    <3>2. /\ at[d] \in {"ending", "launching", "restoring", "undoing"} => Main(d)
          /\ at[d] = "reading" /\ op[d] = "launch" => Main(d)
      BY <2>1 DEF Main, Runs, Position, Ticks
    <3> QED
      BY <1>2, <2>1, <3>1, <3>2 DEF MainCall, Dead
  <2>3. FindsKey(d)'
    <3>1. BringsSave(d)' => BringsSave(d)
      BY <1>2 DEF BringsSave
    <3>2. BringsSave(d) => Main(d)
      <4>1. BringsSave(d) => phase[d] \in StopPhase \union {"failing", "failExit"}
        BY DEF Parts, ControllerInv, SaveOK
      <4>2. phase[d] \in StopPhase \union {"failing", "failExit"} =>
              at[d] \in {"ending", "undoing", "launching"}
        BY <2>1, Types DEF Position, StopPhase, Launching, Await
      <4> QED
        BY <2>1, <4>1, <4>2 DEF Main, Runs, Position, Ticks
    <3>3. BringsSave(d) => UNCHANGED keyVars
      BY <1>4, <1>8, <3>2
    <3>4. BringsSave(d) => GameOf(request[d].session)' = GameOf(request[d].session)
      BY <1>2, <1>5 DEF BringsSave, GameOf
    <3> QED
      BY <2>1, <3>1, <3>3, <3>4 DEF FindsKey, keyVars
  <2>4. FindsGame(d)'
    <3>1. ~(at[d] = "capturing" /\ Arrived(d))
      <4>1. Arrived(d) => Due(d)
        BY DEF Arrived, Due, Micro, Answered
      <4> QED
        BY <2>1, <4>1, TurnFrame DEF FindsGame
    <3>2. Arrived(d)' <=> Arrived(d)
      BY <1>2 DEF Arrived
    <3>3. /\ op[request[d].session] = "launch" /\ request[d].session \in Session =>
                /\ GameOf(request[d].session)' = GameOf(request[d].session)
                /\ Library(request[d].session)' = Library(request[d].session)
                /\ op'[request[d].session] = "launch"
      BY <1>2, <1>5 DEF GameOf, Library
    <3> QED
      BY <1>2, <1>5, <2>1, <3>1, <3>2, <3>3 DEF FindsGame
  <2>5. FinalSave(d)'
    <3>1. FinalSave(d)
      BY <2>1
    <3>2. UNCHANGED <<saveIssued, payload, awaited, saved>>
      BY <1>2 DEF saveVars
    <3>3. \A s \in Session : Home(s) => Home(s)'
      <4>1. \A s \in Session : worker[s] = "gone" => worker'[s] = "gone" /\ GameOf(s)' = GameOf(s)
        BY <1>5 DEF GameOf
      <4> QED
        BY <1>2, <3>2, <4>1 DEF Home
    <3>4. request[d].answer = "save" => request[d].session \in Session
      BY Types DEF Request, NoRequest
    <3> QED
      BY <1>2, <3>1, <3>2, <3>3, <3>4 DEF FinalSave, Written
  <2> QED
    BY <2>2, <2>3, <2>4, <2>5
<1>9. ASSUME AloneOnCore PROVE OneCoreCall(d)'
  <2>1. OneCoreCall(d) /\ (KeysNew(c) => \E g \in caller.games : activePlugin # CoreOf[g])
    BY <1>1, <1>9 DEF Own, KeysNew
  <2> QED
    BY <1>2, <1>3, <2>1 DEF OneCoreCall
<1> QED
  BY <1>2, <1>6, <1>7, <1>8, <1>9 DEF Own
-----------------------------------------------------------------------------
Controlling == {"reading", "launching", "restoring", "undoing", "done"}

(* Such a turn keeps everything, if it keeps what is its own. *)
LEMMA Moves ==
  ASSUME Parts, Covered, NEW c \in Calls, NEW p \in Await \ {"none"}, Turn(c, p), Still(c),
         Keys(c), HostTypeOK', ControllerInv', Own(c)',
         op[c] = "launch" /\ at[c] \in Controlling => p \in Controlling,
         Sequential => StoredStates',
         AloneOnCore => ~RefusedNow(c) \/ activeSaveKey' = NoGame
  PROVE  Parts'
<1>1. /\ UNCHANGED <<core, worker, battery, held, saveVars, caller>>
      /\ \A d \in Calls \ {c} : on'[d] = on[d]
      /\ on'[c] \in {on[c], controller}
      /\ (Sequential' <=> Sequential) /\ (AloneOnCore' <=> AloneOnCore)
  BY TurnFrame DEF Still, Aside
<1>2. \A s \in Session : op[s] = "launch" =>
        op'[s] = "launch" /\ GameOf(s)' = GameOf(s) /\ Library(s)' = Library(s)
  BY TurnFrame DEF GameOf, Library
<1>3. KeysNew(c) => held[c] = NoSession
  <2>1. KeysNew(c) => \A d \in Calls : on[d] # c
    BY DEF KeysNew, Parts, Made
  <2>2. c \in Controllers
    BY Types
  <2> QED
    BY <2>1, <2>2, SessionsOfLaunches, Types
<1>4. WritesOK'
  <2>1. UNCHANGED <<saveIssued, saveKeyOf, saveOutcome, saved, payload>> /\ WritesOK
    BY <1>1 DEF saveVars, Parts
  <2> QED
    BY <1>2, <2>1 DEF WritesOK, Written
<1>5. \A k \in Calls : Made(k)'
  <2> SUFFICES ASSUME NEW k \in Calls, controller' = k \/ \E d \in Calls : on'[d] = k
               PROVE  op'[k] = "launch" /\ at'[k] \in Controlling
    BY DEF Made, Controlling
  <2>1. \/ KeysNew(c) /\ k = c
        \/ controller = k \/ \E d \in Calls : on[d] = k
    BY <1>1 DEF Keys, KeysGo, KeysNew, keyVars
  <2>2. CASE KeysNew(c) /\ k = c
    BY <2>2 DEF KeysNew, Controlling
  <2>3. CASE controller = k \/ \E d \in Calls : on[d] = k
    <3>1. op[k] = "launch" /\ at[k] \in Controlling
      BY <2>3 DEF Parts, Made, Controlling
    <3>2. op'[k] = "launch"
      BY <3>1, TurnFrame, Types
    <3>3. at'[k] \in Controlling
      BY <3>1, TurnFrame
    <3> QED
      BY <3>2, <3>3
  <2> QED
    BY <2>1, <2>2, <2>3
<1>6. ASSUME Sequential PROVE HostKeys'
  <2>1. HostKeys
    BY <1>6 DEF Parts
  <2>2. \A s \in Session : Dead(s)' = Dead(s)
    BY <1>1 DEF Dead
  <2>3. \A k \in Controllers : held[k] # NoSession =>
          /\ held[k] \in Session
          /\ GameOf(held[k])' = GameOf(held[k]) /\ Library(held[k])' = Library(held[k])
    BY <1>1, <1>2, SessionsOfLaunches DEF GameOf, Library
  <2>4. CASE UNCHANGED keyVars
    <3>1. UNCHANGED <<held, controller, activeSaveKey, activeGameId>> /\ controller \in Controllers
      BY <1>1, <2>4, Types DEF keyVars
    <3> QED
      BY <1>1, <2>1, <2>2, <2>3, <3>1 DEF HostKeys, Dead, GameOf, Library
  <2>5. CASE KeysGo(c)
    <3>1. UNCHANGED <<held, controller, worker>> /\ activeSaveKey' = NoGame
      BY <1>1, <2>5 DEF KeysGo
    <3> QED
      BY <1>6, <2>1, <2>5, <3>1 DEF HostKeys, Dead, KeysGo, NothingLeft
  <2>6. CASE KeysNew(c)
    <3>1. UNCHANGED <<held, worker>> /\ controller' = c /\ NothingLeft /\ held[c] = NoSession
      BY <1>1, <1>3, <1>6, <2>6 DEF KeysNew
    <3> QED
      BY <2>1, <3>1 DEF HostKeys, Dead, NothingLeft
  <2> QED
    BY <2>4, <2>5, <2>6 DEF Keys
<1>7. ASSUME Sequential PROVE WritesInOrder'
  <2>1. WritesInOrder /\ UNCHANGED <<saveIssued, payload, battery, held>>
    BY <1>1, <1>7 DEF Parts, saveVars
  <2>2. held'[controller'] # NoSession => controller' = controller
    BY <1>1, <1>3 DEF Keys, KeysGo, KeysNew, keyVars
  <2> QED
    BY <2>1, <2>2 DEF WritesInOrder, Written
<1>8. ASSUME AloneOnCore PROVE Refusal'
  <2>1. Refusal /\ held' = held /\ (activeSaveKey' = activeSaveKey \/ activeSaveKey' = NoGame)
    BY <1>1, <1>8 DEF Parts, Keys, KeysGo, KeysNew, keyVars
  <2>2. activeSaveKey' = NoGame \/ \A d \in Calls : ~RefusedNow(d)
    BY <1>8, TurnFrame DEF RefusedNow, Due, Micro
  <2>3. \A k \in Controllers : held[k] # NoSession => GameOf(held[k])' = GameOf(held[k])
    BY <1>1, <1>2, SessionsOfLaunches DEF GameOf
  <2> QED
    BY <2>1, <2>2, <2>3 DEF Refusal, GameOf
<1>9. ASSUME AloneOnCore PROVE OneCore'
  <2>1. OneCore
    BY <1>9 DEF Parts
  <2>2. activeSaveKey' # NoGame => UNCHANGED <<activeSaveKey, activePlugin>>
    BY DEF Keys, KeysGo, KeysNew, keyVars
  <2>3. \A d, e \in Calls :
          Runs(d)' /\ Runs(e)' /\ op'[d] = "stop" /\ op'[e] = "stop" => d = e
    <3>1. CASE Runs(c)
      <4>1. \A d \in Calls : op'[d] = op[d] /\ (Runs(d)' => Runs(d))
        BY <3>1, TurnFrame DEF Runs
      <4> QED
        BY <2>1, <4>1 DEF OneCore
    <3>2. CASE ~Runs(c)
      <4>1. PICK kind \in Operations, a \in Args \union {NoArgs} : Begin(c, kind, a)
        BY <3>2 DEF Turn
      <4>2. op'[c] = kind
        BY <4>1, Types DEF Begin
      <4>3. kind = "stop" => \A d \in Calls : ~(Runs(d) /\ op[d] = "stop")
        BY <1>9, <4>1 DEF Begin, Running, Runs, AloneOnCore, Ticks
      <4>4. \A d \in Calls \ {c} : op'[d] = op[d] /\ (Runs(d)' <=> Runs(d))
        BY TurnFrame DEF Runs
      <4> QED
        BY <2>1, <4>2, <4>3, <4>4 DEF OneCore
    <3> QED
      BY <3>1, <3>2
  <2>4. ASSUME NEW k \in Controllers, held[k] # NoSession PROVE k = controller'
    <3>1. k = controller /\ op[held[k]] = "launch" /\ held[k] \in Session
      BY <2>1, <2>4, SessionsOfLaunches DEF OneCore
    <3>2. \A g \in caller.games : activePlugin = CoreOf[g]
      BY <1>9, <3>1 DEF Parts, Own, OneCoreCall, Session
    <3> QED
      BY <1>9, <3>1, <3>2 DEF Keys, KeysGo, KeysNew, keyVars
  <2> QED
    BY <1>1, <2>1, <2>2, <2>3, <2>4 DEF OneCore, IsMgba
<1>10. \A d \in Calls : Own(d)'
  <2> SUFFICES ASSUME NEW d \in Calls \ {c} PROVE Own(d)'
    OBVIOUS
  <2>1. \/ UNCHANGED <<activePlugin, controller>>
        \/ KeysNew(c) /\ ~(op[d] = "launch" /\ Runs(d))
    BY NobodyElse DEF Keys, KeysGo, keyVars
  <2>2. \/ UNCHANGED <<keyVars, held, worker>>
        \/ Sequential => ~Main(d)
    BY <1>1, NobodyElse DEF Keys
  <2> QED
    BY <1>1, <2>1, <2>2, OthersOwn DEF Still
<1>11. Sequential => InOrder'
  BY InOrderStays
<1> QED
  BY <1>1, <1>4, <1>5, <1>6, <1>7, <1>8, <1>9, <1>10, <1>11 DEF Parts
-----------------------------------------------------------------------------
(* The operations that come to an await, and the way there.                *)
Fits(c, p) ==
  /\ p \in {"capturing", "storing"} => op'[c] \in {"stop", "launch", "capture", "autosave"}
  /\ p = "counting" => op'[c] \in {"stop", "launch", "checkpoint"}
  /\ p = "ending" => op'[c] \in {"stop", "launch"}
  /\ p = "reading" => op'[c] \in {"launch", "restore"}
  /\ p \in {"restoring", "undoing"} => op'[c] = "launch"
  /\ p = "asking" => op'[c] \in {"pause", "resume", "restore"}
  /\ ~Runs(c) => /\ p \in {"capturing", "counting", "ending", "reading", "asking"}
                 /\ op'[c] = "launch" => /\ args'[c] \in Args /\ args'[c].game \in caller.games
                                         /\ args'[c].mode \in caller.modes
  /\ op[c] = "launch" /\ at[c] \in Controlling => p \in Controlling \ {"reading"}
  /\ op'[c] = "launch" /\ p = "reading" => activePlugin' = CoreOf[args'[c].game]
  /\ AloneOnCore /\ op'[c] = "launch" => p \in {"reading", "done"}

(* Everything about a turn but what it does in the controller.             *)
Turns(c, p) ==
  /\ Turn(c, p) /\ Fits(c, p) /\ Keys(c)
  /\ HostTypeOK'
  /\ Sequential => StoredStates'
  /\ AloneOnCore => ~RefusedNow(c) \/ activeSaveKey' = NoGame
  /\ \A d \in Calls \ {c} : result'[d] = result[d] /\ local'[d] = local[d]
  /\ UNCHANGED saveVars

LEMMA OwnPlace ==
  ASSUME Parts, Covered, NEW c \in Calls, NEW p \in Await \ {"none", "launching"},
         Turn(c, p), Fits(c, p), Still(c), Keys(c),
         p \in {"storing", "counting", "reading", "done"} => phase'[c] = "idle",
         p \in {"capturing", "restoring", "asking"} => phase'[c] \in {"asking", "returned"},
         p \in {"ending", "undoing"} => phase'[c] \in StopPhase \union {"returned"},
         p # "done" => result'[c] = result[c],
         p \in {"restoring", "undoing"} => on'[c] = controller
  PROVE  Position(c)' /\ Owner(c)' /\ (AloneOnCore => OneCoreCall(c)')
<1>1. /\ caller' = caller /\ at'[c] = p /\ at[c] # "done" /\ op'[c] \in Operations
      /\ Runs(c) => op'[c] = op[c] /\ args'[c] = args[c]
      /\ ~Runs(c) => worker[c] = "none" /\ result[c] = "none"
      /\ worker' = worker
  BY TurnFrame DEF Still
<1>2. Position(c) /\ Owner(c) /\ (AloneOnCore => OneCoreCall(c))
  BY DEF Parts, Own
<1>3. result[c] = "none"
  BY <1>1, <1>2, Types DEF Position
<1>4. op'[c] = "launch" =>
        args'[c] \in Args /\ args'[c].game \in caller.games /\ args'[c].mode \in caller.modes
  BY <1>1, <1>2 DEF Fits, Position
<1>5. op'[c] = "launch" /\ p = "reading" => activePlugin' \in Cores
  BY <1>4, HostAssumption DEF Fits, Args
<1>6. Position(c)'
  <2>1. "none" \notin Operations
    BY DEF Operations, Ticks
  <2>2. op'[c] # "none" /\ p # "none"
    BY <1>1, <2>1
  <2> QED
    BY <1>1, <1>3, <1>4, <1>5, <2>2 DEF Position, Fits
<1>7. Owner(c)'
  <2> SUFFICES ASSUME worker[c] # "none"
               PROVE  op'[c] = "launch" /\ (p = "done" \/ (p \in {"launching", "restoring", "undoing"}
                                                          /\ on'[c] = controller'))
    BY <1>1 DEF Owner
  <2>1. Runs(c) /\ op[c] = "launch" /\ at[c] \in Controlling
    BY <1>1, <1>2 DEF Owner, Controlling
  <2>2. p \in Controlling \ {"reading"}
    BY <2>1 DEF Fits
  <2>3. ~KeysNew(c)
    BY <1>1, <2>2 DEF KeysNew
  <2>4. controller' = controller
    BY <2>3 DEF Keys, KeysGo, keyVars
  <2> QED
    BY <1>1, <2>1, <2>2, <2>4 DEF Controlling
<1>8. ASSUME AloneOnCore PROVE OneCoreCall(c)'
  <2> SUFFICES ASSUME op'[c] = "launch" PROVE OneCoreCall(c)'
    BY DEF OneCoreCall
  <2>1. p \in {"reading", "done"}
    BY <1>8 DEF Fits
  <2>2. CASE p = "reading"
    <3>1. activePlugin' = CoreOf[args'[c].game] /\ args'[c].game \in caller.games
      BY <1>4, <2>2 DEF Fits
    <3> QED
      BY <1>1, <1>8, <2>2, <3>1 DEF OneCoreCall, AloneOnCore
  <2>3. CASE p = "done"
    <3>1. Runs(c) /\ ~KeysNew(c)
      BY <1>1, <2>3 DEF Fits, KeysNew
    <3>2. activePlugin' = activePlugin
      BY <3>1 DEF Keys, KeysGo, keyVars
    <3> QED
      BY <1>1, <1>2, <1>8, <2>3, <3>1, <3>2 DEF OneCoreCall
  <2> QED
    BY <2>1, <2>2, <2>3
<1> QED
  BY <1>6, <1>7, <1>8

(* Such a turn and what it does in the controller; c keeps what is its     *)
(* own when calls come one after the other.                                *)
LEMMA TurnsKeep ==
  ASSUME Parts, Covered, NEW c \in Calls, NEW p \in Await \ {"none", "launching"},
         Turns(c, p), Still(c), ControllerInv',
         p \in {"storing", "counting", "reading", "done"} => phase'[c] = "idle",
         p \in {"capturing", "restoring", "asking"} => phase'[c] \in {"asking", "returned"},
         p \in {"ending", "undoing"} => phase'[c] \in StopPhase \union {"returned"},
         p # "done" => result'[c] = result[c],
         p \in {"restoring", "undoing"} => on'[c] = controller,
         Sequential => (MainCall(c) /\ FindsKey(c) /\ FindsGame(c) /\ FinalSave(c))'
  PROVE  Parts'
<1>1. Position(c)' /\ Owner(c)' /\ (AloneOnCore => OneCoreCall(c)')
  BY OwnPlace DEF Turns
<1>2. (Sequential' <=> Sequential) /\ (AloneOnCore' <=> AloneOnCore)
  BY TurnFrame DEF Turns
<1>3. Own(c)'
  BY <1>1, <1>2 DEF Own
<1>4. op[c] = "launch" /\ at[c] \in Controlling => p \in Controlling
  BY DEF Turns, Fits
<1> QED
  BY <1>3, <1>4, Moves DEF Turns

(* What call c did in the controller, with nothing said to the sessions or *)
(* a request made of the session that is held.                             *)
LEMMA StillNow ==
  ASSUME Parts, NEW c \in Calls, NEW p \in Await, Turns(c, p),
         UNCHANGED <<core, worker, battery, held>>,
         on' = on \/ on' = [on EXCEPT ![c] = controller],
         NEW q, phase' = [phase EXCEPT ![c] = q],
         outcome' = outcome \/ \E r \in {"ok", "error"} : outcome' = [outcome EXCEPT ![c] = r],
         request' = request \/ \E r \in Request : request' = [request EXCEPT ![c] = r]
  PROVE  Still(c)
<1>1. \A d \in Calls \ {c} : /\ phase'[d] = phase[d] /\ on'[d] = on[d]
                             /\ outcome'[d] = outcome[d] /\ request'[d] = request[d]
  BY Types
<1>2. on'[c] \in {on[c], controller}
  BY Types
<1> QED
  BY <1>1, <1>2 DEF Still, Aside, Turns
-----------------------------------------------------------------------------
(* What a turn does in the controller. *)

(* One request: pause, resume and the save states. *)
LEMMA TurnsToAsk ==
  ASSUME Parts, Covered, NEW c \in Calls, NEW p \in {"capturing", "restoring", "asking"},
         Turns(c, p), UNCHANGED <<keyVars, result>>,
         NEW kind \in {"pause", "resume", "capture-save-state", "restore-save-state"},
         Ask(c, controller, kind), p = "capturing" => activeGameId # NoGame
  PROVE  Parts'
<1>1. FreeFor(c, controller) /\ p \in Await \ {"none", "launching"} /\ controller \in Controllers
      /\ (Sequential' <=> Sequential)
  BY TurnFrame, Types DEF Turns, Await
<1>2. ControllerInv'
  BY <1>1, Asks DEF Step, Parts
<1>3. /\ UNCHANGED <<core, worker, battery, held>>
      /\ on' = [on EXCEPT ![c] = controller] /\ on'[c] = controller
      /\ \/ /\ phase' = [phase EXCEPT ![c] = "returned"] /\ phase'[c] = "returned"
            /\ outcome' = [outcome EXCEPT ![c] = "error"] /\ outcome'[c] = "error"
            /\ request' = request
         \/ /\ phase' = [phase EXCEPT ![c] = "asking"] /\ phase'[c] = "asking"
            /\ outcome' = outcome /\ held[controller] # NoSession
            /\ \E a \in {"error", "waiting"} :
                 LET r == [session |-> held[controller], kind |-> kind, answer |-> a] IN
                   request' = [request EXCEPT ![c] = r] /\ request'[c] = r
  BY Types DEF Ask, Enter, Return, To, Post, sessionVars
<1>4. Still(c)
  <2>1. CASE phase' = [phase EXCEPT ![c] = "returned"]
             /\ outcome' = [outcome EXCEPT ![c] = "error"] /\ request' = request
    BY <1>1, <1>3, <2>1, StillNow
  <2>2. ASSUME NEW a \in {"error", "waiting"}, held[controller] # NoSession,
               phase' = [phase EXCEPT ![c] = "asking"], outcome' = outcome,
               request' = [request EXCEPT ![c] =
                 [session |-> held[controller], kind |-> kind, answer |-> a]]
        PROVE  Still(c)
    <3>1. [session |-> held[controller], kind |-> kind, answer |-> a] \in Request
      BY <1>1, <2>2, Types DEF Request, Kind, Answer
    <3> QED
      BY <1>1, <1>3, <2>2, <3>1, StillNow
  <2> QED
    BY <1>3, <2>1, <2>2
<1>5. ASSUME Sequential
      PROVE  (MainCall(c) /\ FindsKey(c) /\ FindsGame(c) /\ FinalSave(c))'
  <2>1. /\ at'[c] = p /\ phase'[c] \in {"returned", "asking"} /\ result'[c] = "none"
        /\ phase'[c] = "returned" => outcome'[c] = "error"
        /\ phase'[c] = "asking" =>
             /\ request'[c].session = held[controller] /\ held[controller] # NoSession
             /\ request'[c].answer \in {"error", "waiting"}
    <3>1. result[c] = "none" /\ at'[c] = p
      <4>1. Turn(c, p) /\ p \in Await \ {"none"}
        BY <1>1 DEF Turns
      <4>2. at'[c] = p /\ at[c] # "done" /\ Position(c)
        BY <4>1, TurnFrame DEF Parts, Own
      <4> QED
        BY <4>2, Types DEF Position
    <3> QED
      BY <1>3, <3>1
  <2>2. MainCall(c)'
    BY <1>3, <2>1 DEF MainCall, keyVars
  <2>3. FindsKey(c)'
    BY <2>1 DEF FindsKey, BringsSave, Pending, Waiting
  <2>4. FindsGame(c)'
    <3>1. ~Arrived(c)'
      BY <2>1 DEF Arrived
    <3>2. ASSUME at'[c] = "capturing", phase'[c] = "asking"
          PROVE  request'[c].session \in Session /\ (op[request[c].session] = "launch")'
                 /\ Library(request[c].session)'
      <4>1. request'[c].session = held[controller] /\ held[controller] \in Session
            /\ op[held[controller]] = "launch"
        BY <1>1, <2>1, <3>2, SessionsOfLaunches
      <4>2. op'[held[controller]] = "launch" /\ args'[held[controller]] = args[held[controller]]
        BY <1>1, <4>1, TurnFrame DEF Turns
      <4>3. Library(held[controller])
        BY <1>5, <2>1, <3>2, HostAssumption DEF Parts, HostKeys, HostTypeOK
      <4> QED
        BY <4>1, <4>2, <4>3 DEF Library
    <3> QED
      BY <2>1, <3>1, <3>2 DEF FindsGame
  <2>5. FinalSave(c)'
    BY <2>1 DEF FinalSave
  <2> QED
    BY <2>2, <2>3, <2>4, <2>5
<1>6. phase'[c] \in {"asking", "returned"} /\ result' = result
  BY <1>3
<1> QED
  BY <1>1, <1>2, <1>3, <1>4, <1>5, <1>6, TurnsKeep

(* Nobody else has a stop under way. *)
LEMMA NoOtherStop ==
  ASSUME Parts, Covered, NEW c \in Calls, NEW p \in {"ending", "undoing"}, Turns(c, p)
  PROVE  \A d \in Calls \ {c} : ~Stopping(d)
<1>1. p \in Await \ {"none"} /\ Turn(c, p)
  BY DEF Turns, Await
<1>2. \A d \in Calls : Stopping(d) => at[d] \in {"ending", "undoing"} /\ op[d] \in {"stop", "launch"}
                                      /\ (AloneOnCore => op[d] = "stop")
  BY Types DEF Parts, Own, Position, OneCoreCall, Stopping, Launching, Await
<1>3. op'[c] \in {"stop", "launch"} /\ (AloneOnCore => op'[c] = "stop") /\ Main(c)'
  BY <1>1, TurnFrame DEF Turns, Fits, Main, Runs, Ticks
<1>4. ASSUME Sequential, NEW d \in Calls \ {c}, Stopping(d) PROVE FALSE
  <2>1. Main(d)'
    BY <1>1, <1>2, <1>4, TurnFrame DEF Main, Runs, Ticks
  <2>2. InOrder'
    BY <1>1, <1>4, InOrderStays
  <2> QED
    BY <1>3, <2>1, <2>2 DEF InOrder
<1>5. ASSUME AloneOnCore, NEW d \in Calls \ {c}, Stopping(d) PROVE FALSE
  <2>1. op[d] = "stop" /\ Runs(d)
    BY <1>2, <1>5 DEF Runs
  <2>2. CASE Runs(c)
    <3>1. op[c] = "stop"
      BY <1>1, <1>3, <1>5, <2>2, TurnFrame
    <3> QED
      BY <1>5, <2>1, <2>2, <3>1 DEF Parts, OneCore
  <2>3. CASE ~Runs(c)
    <3>1. PICK kind \in Operations, a \in Args \union {NoArgs} : Begin(c, kind, a)
      BY <1>1, <2>3 DEF Turn
    <3>2. kind = "stop"
      BY <1>3, <1>5, <3>1, Types DEF Begin
    <3> QED
      BY <1>5, <2>1, <3>1, <3>2 DEF Begin, Running, Runs, AloneOnCore, Ticks
  <2> QED
    BY <2>2, <2>3
<1> QED
  BY <1>4, <1>5 DEF Covered

(* controller.stop() *)
LEMMA TurnsToEnd ==
  ASSUME Parts, Covered, NEW c \in Calls, NEW p \in {"ending", "undoing"},
         Turns(c, p), UNCHANGED <<keyVars, result>>, Stop(c, controller)
  PROVE  Parts'
<1>1. FreeFor(c, controller) /\ p \in Await \ {"none", "launching"} /\ controller \in Controllers
      /\ at'[c] = p /\ (Sequential' <=> Sequential)
  BY TurnFrame, Types DEF Turns, Await
<1>2. ControllerInv'
  BY <1>1, StopsHeld, NoOtherStop DEF Step, Parts
<1>3. /\ UNCHANGED <<core, worker, battery, held>>
      /\ on' = [on EXCEPT ![c] = controller] /\ on'[c] = controller
      /\ \/ /\ phase' = [phase EXCEPT ![c] = "returned"] /\ phase'[c] = "returned"
            /\ outcome' = [outcome EXCEPT ![c] = "error"] /\ outcome'[c] = "error"
            /\ request' = request /\ held[controller] = NoSession
         \/ /\ phase' = [phase EXCEPT ![c] = "stopping"] /\ phase'[c] = "stopping"
            /\ outcome' = outcome /\ held[controller] # NoSession
            /\ \E a \in {"error", "waiting"} :
                 LET r == [session |-> held[controller], kind |-> "stop", answer |-> a] IN
                   request' = [request EXCEPT ![c] = r] /\ request'[c] = r
  BY Types DEF Stop, Enter, Return, To, Post, sessionVars
<1>4. Still(c)
  <2>1. CASE phase' = [phase EXCEPT ![c] = "returned"]
             /\ outcome' = [outcome EXCEPT ![c] = "error"] /\ request' = request
    BY <1>1, <1>3, <2>1, StillNow
  <2>2. ASSUME NEW a \in {"error", "waiting"}, held[controller] # NoSession,
               phase' = [phase EXCEPT ![c] = "stopping"], outcome' = outcome,
               request' = [request EXCEPT ![c] =
                 [session |-> held[controller], kind |-> "stop", answer |-> a]]
        PROVE  Still(c)
    <3>1. [session |-> held[controller], kind |-> "stop", answer |-> a] \in Request
      BY <1>1, <2>2, Types DEF Request, Kind, Answer
    <3> QED
      BY <1>1, <1>3, <2>2, <3>1, StillNow
  <2> QED
    BY <1>3, <2>1, <2>2
<1>5. ASSUME Sequential
      PROVE  (MainCall(c) /\ FindsKey(c) /\ FindsGame(c) /\ FinalSave(c))'
  <2>1. /\ phase'[c] \in {"returned", "stopping"} /\ result'[c] = "none"
        /\ phase'[c] = "returned" => outcome'[c] = "error" /\ held[controller] = NoSession
        /\ phase'[c] = "stopping" => /\ request'[c].session = held[controller]
                                     /\ request'[c].answer \in {"error", "waiting"}
        /\ controller' = controller /\ held' = held
    <3>1. result[c] = "none"
      <4>1. at[c] # "done" /\ Position(c)
        BY <1>1, TurnFrame DEF Turns, Parts, Own
      <4> QED
        BY <4>1, Types DEF Position
    <3> QED
      BY <1>3, <3>1 DEF keyVars
  <2>2. MainCall(c)'
    BY <1>1, <1>3, <2>1 DEF MainCall, Pending, Waiting
  <2>3. FindsKey(c)'
    BY <2>1 DEF FindsKey, BringsSave, Pending, Waiting
  <2>4. FindsGame(c)'
    BY <1>1 DEF FindsGame
  <2>5. FinalSave(c)'
    BY <2>1 DEF FinalSave
  <2> QED
    BY <2>2, <2>3, <2>4, <2>5
<1>6. phase'[c] \in StopPhase \union {"returned"} /\ result' = result
  BY <1>3 DEF StopPhase
<1> QED
  BY <1>1, <1>2, <1>3, <1>4, <1>5, <1>6, TurnsKeep

(* The host stays out of the controller: a call settles, waits for the     *)
(* library or the disk, or creates a controller.                           *)
LEMMA TurnsAside ==
  ASSUME Parts, Covered, NEW c \in Calls, NEW p \in {"storing", "counting", "reading", "done"},
         Turns(c, p),
         phase' = [phase EXCEPT ![c] = "idle"],
         UNCHANGED <<sessionVars, held, ctlStatus, on, outcome>>,
         p # "done" => result' = result,
         Sequential /\ p = "reading" /\ op'[c] = "launch" =>
           KeysNew(c) \/ held[controller] = NoSession,
         p = "reading" /\ op'[c] = "launch" /\ ~KeysNew(c) => UNCHANGED keyVars,
         p = "storing" => /\ at[c] = "capturing" /\ phase[c] = "returned" /\ outcome[c] = "ok"
                          /\ local'[c].gameId = activeGameId,
         p = "done" /\ op'[c] = "stop" /\ result'[c] = "ok" =>
           phase[c] = "returned" /\ outcome[c] = "ok"
  PROVE  Parts'
<1>1. /\ p \in Await \ {"none", "launching"} /\ Turn(c, p) /\ controller \in Controllers
      /\ at'[c] = p /\ at[c] # "done" /\ caller' = caller
      /\ request[c].answer # "waiting" /\ FreeFor(c, controller)
      /\ (Sequential' <=> Sequential)
  BY TurnFrame, Types DEF Turns, Await
<1>2. UNCHANGED <<core, worker, battery, held, request, on, outcome, ctlStatus, status, inbox>>
      /\ phase'[c] = "idle"
  BY Types DEF sessionVars
<1>3. ControllerInv'
  <2>1. /\ ControllerInv /\ ctlStatus' \in [Controllers -> ControllerStatus]
        /\ outcome' \in [Calls -> {"none", "ok", "error"}]
    BY <1>2 DEF Parts, ControllerInv, ControllerTypeOK
  <2> QED
    BY <1>1, <1>2, <2>1, Returns
<1>4. Still(c)
  BY <1>1, <1>2, StillNow
<1>5. ASSUME Sequential
      PROVE  (MainCall(c) /\ FindsKey(c) /\ FindsGame(c) /\ FinalSave(c))'
  <2>0. Position(c) /\ FindsGame(c) /\ FinalSave(c)
    BY <1>5 DEF Parts, Own
  <2>1. MainCall(c)'
    <3> SUFFICES ASSUME p = "reading", op'[c] = "launch" PROVE held[controller'] = NoSession
      BY <1>1, <1>2 DEF MainCall
    <3>1. CASE KeysNew(c)
      <4>1. \A d \in Calls : on[d] # c
        BY <3>1 DEF KeysNew, Parts, Made
      <4>2. c \in Controllers /\ controller' = c
        BY <3>1, Types DEF KeysNew
      <4> QED
        BY <4>1, <4>2, SessionsOfLaunches, Types
    <3>2. CASE ~KeysNew(c)
      BY <1>5, <3>2 DEF keyVars
    <3> QED
      BY <3>1, <3>2
  <2>2. FindsKey(c)'
    BY <1>2 DEF FindsKey, BringsSave, Pending, Waiting
  <2>3. FindsGame(c)'
    <3>1. CASE p # "storing"
      BY <1>1, <3>1 DEF FindsGame
    <3>2. CASE p = "storing"
      <4>1. /\ request[c].session \in Session /\ op[request[c].session] = "launch"
            /\ activeGameId = GameOf(request[c].session)
        BY <2>0, <3>2 DEF FindsGame, Arrived
      <4>2. /\ op'[request[c].session] = "launch" /\ args'[request[c].session] = args[request[c].session]
        BY <1>1, <4>1, TurnFrame
      <4> QED
        BY <1>1, <1>2, <3>2, <4>1, <4>2 DEF FindsGame, GameOf
    <3> QED
      BY <3>1, <3>2
  <2>4. FinalSave(c)'
    <3>1. result[c] = "none"
      BY <1>1, <2>0, Types DEF Position
    <3> SUFFICES ASSUME op'[c] = "stop", request[c].answer = "save", result'[c] = "ok"
                 PROVE  Home(request[c].session)'
      BY <1>2 DEF FinalSave
    <3>2. p = "done"
      BY <3>1
    <3>3. Runs(c)
      BY <3>2 DEF Turns, Fits
    <3>4. op[c] = "stop"
      BY <1>1, <3>3, TurnFrame
    <3>5. Home(request[c].session)
      BY <2>0, <3>2, <3>4 DEF FinalSave
    <3>6. request[c].session \in Session
      BY Types DEF Request, NoRequest
    <3>7. GameOf(request[c].session)' = GameOf(request[c].session)
      <4>1. op[request[c].session] = "launch"
        BY <3>5, <3>6, SessionsOfLaunches DEF Home
      <4> QED
        BY <1>1, <1>2, <3>6, <4>1, TurnFrame DEF GameOf
    <3>8. UNCHANGED <<saved, payload>>
      BY DEF Turns, saveVars
    <3> QED
      BY <1>2, <3>5, <3>7, <3>8 DEF Home
  <2> QED
    BY <2>1, <2>2, <2>3, <2>4
<1>6. p # "done" => result'[c] = result[c]
  OBVIOUS
<1> QED
  BY <1>1, <1>2, <1>3, <1>4, <1>5, <1>6, TurnsKeep
-----------------------------------------------------------------------------
(* A launch has its save and opens its session, or is refused because the  *)
(* controller has one.                                                     *)
LEMMA TurnsToLaunch ==
  ASSUME Parts, Covered, NEW c \in Calls, at[c] = "reading", op[c] = "launch", Quiet,
         SetKeys(args[c].game, IF Library(c) THEN args[c].game ELSE NoGame),
         Launch(c, controller, activePlugin),
         at' = [at EXCEPT ![c] = "launching"],
         UNCHANGED <<callVars, result, local, states, saveVars>>, HostTypeOK'
  PROVE  Parts'
<1>1. Own(c) /\ Position(c) /\ phase[c] = "idle" /\ activePlugin \in Cores
      /\ result[c] = "none" /\ Runs(c) /\ Main(c)
  BY Types DEF Parts, Own, Position, Runs, Main, Ticks
<1>2. Turn(c, "launching") /\ "launching" \in Await \ {"none"}
  BY <1>1 DEF Turn, Await
<1>3. /\ \A d \in Calls \ {c} : at'[d] = at[d]
      /\ at'[c] = "launching" /\ FreeFor(c, controller)
      /\ UNCHANGED <<op, args, caller>>
      /\ (Sequential' <=> Sequential) /\ (AloneOnCore' <=> AloneOnCore)
  BY <1>2, TurnFrame DEF callVars
<1>4. ControllerInv'
  <2>1. ASSUME NEW d \in Calls, phase[d] = "persisting", on[d] = controller
        PROVE  held[controller] # NoSession
    <3>1. /\ request[d].answer = "save" /\ request[d].session \in Session
          /\ BringsSave(d) /\ worker[request[d].session] # "none"
      BY <2>1, SessionsOfLaunches DEF Parts, ControllerInv, RequestOK, BringsSave, Pending, Waiting
    <3>2. at[d] \in {"ending", "undoing"} /\ op[d] \in {"stop", "launch"}
      BY <2>1, Types DEF Parts, Own, Position, Launching, Await
    <3>3. ~Sequential
      <4>1. Main(d) /\ d # c
        BY <1>1, <2>1, <3>2 DEF Main, Runs, Ticks
      <4> QED
        BY <1>1, <4>1 DEF Parts, InOrder
    <3>4. ~IsMgba(request[d].session)
      BY <3>1, <3>3 DEF Parts, OneCore, Covered
    <3>5. held[on[d]] = request[d].session
      BY <3>1, <3>4 DEF Parts, ControllerInv, SaveOK
    <3> QED
      BY <2>1, <3>1, <3>5, Types
  <2> QED
    BY <1>1, <1>3, <2>1, Launches, Types DEF Step, Parts
<1>5. /\ activeSaveKey' = GameOf(c)
      /\ activeGameId' = IF Library(c) THEN GameOf(c) ELSE NoGame
      /\ UNCHANGED <<activePlugin, controller>>
  BY DEF SetKeys, GameOf
<1>6. /\ on' = [on EXCEPT ![c] = controller] /\ on'[c] = controller
      /\ UNCHANGED battery
      /\ \A s \in Session : worker'[s] = worker[s] \/ (s = c /\ worker[s] = "none")
      /\ \A d \in Calls \ {c} : phase'[d] = phase[d] /\ on'[d] = on[d]
                                /\ outcome'[d] = outcome[d] /\ request'[d] = request[d]
  BY Types DEF Launch, Enter, Return, Open, To, sessionVars
<1>7. \/ /\ phase'[c] = "returned" /\ outcome'[c] = "error" /\ UNCHANGED <<held, worker>>
      \/ /\ phase'[c] = "loading" /\ held[controller] = NoSession
         /\ held' = [held EXCEPT ![controller] = c]
         /\ request'[c].answer = "waiting"
  BY Types DEF Launch, Enter, Return, Open, To, sessionVars
<1>8. Aside(c)
  BY <1>6 DEF Aside
<1>9. ASSUME NEW d \in Calls \ {c} PROVE Own(d)'
  <2>1. Sequential => ~Main(d)
    BY <1>1 DEF Parts, InOrder
  <2> QED
    BY <1>2, <1>5, <1>6, <1>8, <2>1, OthersOwn
<1>10. Own(c)'
  <2>1. Position(c)'
    BY <1>1, <1>3, <1>7 DEF Position, Launching, callVars
  <2>2. Owner(c)'
    BY <1>3, <1>5, <1>6 DEF Owner
  <2>3. ASSUME AloneOnCore PROVE OneCoreCall(c)'
    BY <1>1, <1>3, <1>5, <2>3 DEF Own, OneCoreCall
  <2>4. ASSUME Sequential
        PROVE  (MainCall(c) /\ FindsKey(c) /\ FindsGame(c) /\ FinalSave(c))'
    <3>1. held[controller] = NoSession
      BY <1>1, <2>4 DEF Own, MainCall
    <3>2. MainCall(c)'
      BY <1>3, <1>5, <1>6, <1>7, <3>1 DEF MainCall
    <3>3. FindsKey(c)' /\ FindsGame(c)' /\ FinalSave(c)'
      BY <1>1, <1>3, <1>7 DEF FindsKey, BringsSave, Pending, Waiting, FindsGame, FinalSave
    <3> QED
      BY <3>2, <3>3
  <2> QED
    BY <1>3, <2>1, <2>2, <2>3, <2>4 DEF Own
<1>11. \A k \in Calls : Made(k)'
  <2> SUFFICES ASSUME NEW k \in Calls, controller' = k \/ \E d \in Calls : on'[d] = k
               PROVE  op'[k] = "launch" /\ at'[k] \in Controlling
    BY DEF Made, Controlling
  <2>1. controller = k \/ \E d \in Calls : on[d] = k
    BY <1>5, <1>6
  <2>2. op[k] = "launch" /\ at[k] \in Controlling
    BY <2>1 DEF Parts, Made, Controlling
  <2> QED
    BY <1>3, <2>2 DEF Controlling
<1>12. WritesOK'
  BY <1>3 DEF Parts, WritesOK, Written, GameOf, saveVars
<1>13. \A k \in Controllers : k # controller => held'[k] = held[k]
  BY <1>7, Types
<1>14. held'[controller] = held[controller] \/ held'[controller] = c
  BY <1>7, Types
<1>15. ASSUME Sequential PROVE (InOrder /\ HostKeys /\ StoredStates /\ WritesInOrder)'
  <2>1. held[controller] = NoSession /\ NothingLeft
    BY <1>1, <1>15 DEF Own, MainCall, NothingLeft
  <2>2. InOrder'
    BY <1>2, <1>15, InOrderStays
  <2>3. HostKeys'
    <3>1. HostKeys
      BY <1>15 DEF Parts
    <3>2. ASSUME NEW k \in Controllers, held'[k] # NoSession, k # controller
          PROVE  Dead(held[k])'
      <4>1. held'[k] = held[k] /\ held[k] \in Session /\ Dead(held[k])
        BY <1>13, <3>1, <3>2, SessionsOfLaunches DEF HostKeys
      <4> QED
        BY <1>6, <4>1 DEF Dead
    <3>3. held'[controller] # NoSession => held'[controller] = c
      BY <1>14, <2>1
    <3>4. GameOf(c)' = GameOf(c) /\ Library(c)' = Library(c)
      BY <1>3 DEF GameOf, Library
    <3> QED
      BY <1>5, <3>2, <3>3, <3>4 DEF HostKeys
  <2>4. StoredStates'
    BY <1>3, <1>15 DEF Parts, StoredStates, GameOf
  <2>5. WritesInOrder'
    <3>1. WritesInOrder /\ WritesOK /\ UNCHANGED <<saveIssued, payload, battery, controller>>
      BY <1>5, <1>6, <1>15 DEF Parts, saveVars
    <3>2. \A w \in Written : payload[w].session <= c
      BY <1>1, <1>15, <3>1 DEF Parts, InOrder, WritesOK, Session
    <3>3. held'[controller] # NoSession => held'[controller] = c
      BY <1>14, <2>1
    <3> QED
      BY <3>1, <3>2, <3>3 DEF WritesInOrder, Written
  <2> QED
    BY <2>2, <2>3, <2>4, <2>5
<1>16. ASSUME AloneOnCore PROVE (Refusal /\ OneCore)'
  <2>1. OneCore /\ \A g \in caller.games : activePlugin = CoreOf[g]
    BY <1>1, <1>16 DEF Parts, Own, OneCoreCall
  <2>2. OneCore'
    <3>1. \A k \in Controllers : held'[k] # NoSession => k = controller'
      BY <1>5, <1>13, <2>1 DEF OneCore
    <3>2. \A d \in Calls : Runs(d)' => Runs(d)
      BY <1>1, <1>3 DEF Runs
    <3>3. ASSUME NEW s \in Session, worker'[s] # "none" PROVE ~IsMgba(s)'
      <4>1. args[c].game \in caller.games
        BY <1>1 DEF Position
      <4>2. activePlugin \notin MgbaCores
        BY <1>16, <2>1, <4>1 DEF AloneOnCore
      <4>3. (core'[s] = core[s] /\ worker[s] # "none") \/ core'[s] = activePlugin
        BY <3>3, Types DEF Launch, Open, sessionVars, Parts, ControllerInv, ControllerTypeOK, SessionsTypeOK
      <4> QED
        BY <2>1, <4>2, <4>3 DEF OneCore, IsMgba
    <3> QED
      BY <1>3, <1>5, <2>1, <3>1, <3>2, <3>3 DEF OneCore
  <2>3. Refusal'
    <3> SUFFICES ASSUME NEW k \in Controllers, held'[k] # NoSession
                 PROVE  activeSaveKey' = GameOf(held[k])' \/ \E d \in Calls : RefusedNow(d)'
      BY DEF Refusal
    <3>1. CASE phase'[c] = "returned"
      <4>1. outcome'[c] = "error" /\ UNCHANGED worker
        BY <1>7, <3>1
      <4>2. \A d \in Calls \ {c} : ~Due(d)'
        BY <1>6, <4>1 DEF Quiet, Due, Answered
      <4> QED
        BY <1>3, <3>1, <4>1, <4>2 DEF RefusedNow
    <3>2. CASE phase'[c] # "returned"
      <4>1. k = controller /\ held'[controller] = c
        BY <1>7, <1>13, <2>1, <3>2, Types DEF OneCore
      <4> QED
        BY <1>3, <1>5, <4>1 DEF GameOf
    <3> QED
      BY <3>1, <3>2
  <2> QED
    BY <2>2, <2>3
<1> QED
  BY <1>3, <1>4, <1>9, <1>10, <1>11, <1>12, <1>15, <1>16 DEF Parts
-----------------------------------------------------------------------------
(* What happens between the turns of the host: the methods of controllers, *)
(* the threads and the store.                                              *)

SavesGrow ==
  /\ saveIssued' >= saveIssued
  /\ \A w \in Written : payload'[w] = payload[w]
  /\ \A g \in Games : saved'[g] >= saved[g]

(* The calls in C are the only ones that something happens to, and nothing *)
(* that is due waits.                                                      *)
Between(C) ==
  /\ UNCHANGED <<keyVars, callVars, at, result, local, states, on, core>>
  /\ \A d \in Calls \ C : /\ phase'[d] = phase[d] /\ outcome'[d] = outcome[d]
                          /\ request'[d] = request[d] /\ awaited'[d] = awaited[d]
  /\ \A s \in Session : /\ worker'[s] = "none" <=> worker[s] = "none"
                        /\ Dead(s) => Dead(s)'
                        /\ worker[s] = "gone" => worker'[s] = "gone" /\ battery'[s] = battery[s]
  /\ \A k \in Controllers :
       \/ held'[k] = held[k]
       \/ held'[k] = NoSession /\ (Sequential => \E c \in C : Main(c))
  /\ Quiet \/ \E c \in C : Due(c) /\ phase[c] # "returned"
  /\ SavesGrow

LEMMA TypesOfSaves ==
  ASSUME HostTypeOK
  PROVE  /\ saveIssued \in Nat /\ saveIssued <= MaxWrites
         /\ saveKeyOf \in [Saves!Write -> Games \union {NoGame}]
         /\ saveOutcome \in [Saves!Write -> {"unused", "pending", "ok", "failed", "lost"}]
         /\ saved \in [Games -> Nat] /\ Saves!Write = 1..MaxWrites /\ MaxWrites \in Nat
         /\ payload \in [Saves!Write -> [session : Session \union {NoSession},
                                         version : 0..MaxBattery]]
         /\ awaited \in [Calls -> 0..MaxWrites]
         /\ Written \subseteq Saves!Write
<1>1. MaxWrites \in Nat
  BY HostAssumption
<1> QED
  BY <1>1 DEF HostTypeOK, Saves!TypeOK, Saves!Write, Saves!Outcome, Written

LEMMA TypesOfSavesNext ==
  ASSUME HostTypeOK'
  PROVE  saveIssued' \in Nat /\ saved' \in [Games -> Nat]
<1>1. MaxWrites \in Nat
  BY HostAssumption
<1> QED
  BY <1>1 DEF HostTypeOK, Saves!TypeOK

(* The game of a launch is one of the games. *)
LEMMA GameOfLaunch ==
  ASSUME Parts, NEW s \in Session, op[s] = "launch"
  PROVE  GameOf(s) \in Games /\ GameOf(s) # NoGame
BY HostAssumption DEF Parts, Own, Position, GameOf, Args, Session

LEMMA HomeStays ==
  ASSUME Parts, NEW C \in SUBSET Calls, Between(C), HostTypeOK',
         NEW s \in Session, Home(s)
  PROVE  Home(s)'
<1>1. op[s] = "launch" /\ GameOf(s) \in Games /\ GameOf(s)' = GameOf(s)
  BY SessionsOfLaunches, GameOfLaunch DEF Home, Between, callVars, GameOf
<1>2. PICK w \in 1..saved[GameOf(s)] : payload[w] = [session |-> s, version |-> battery[s]]
  BY DEF Home
<1>3. saved[GameOf(s)] \in Nat /\ saved'[GameOf(s)] \in Nat
      /\ saved'[GameOf(s)] >= saved[GameOf(s)] /\ saveIssued \in Nat
  <2>1. saved \in [Games -> Nat] /\ saveIssued \in Nat /\ saved' \in [Games -> Nat]
    BY TypesOfSaves, TypesOfSavesNext DEF Parts
  <2> QED
    BY <1>1, <2>1 DEF Between, SavesGrow
<1>4. w \in Written /\ w \in 1..saved'[GameOf(s)]
  BY <1>1, <1>2, <1>3 DEF Parts, WritesOK, Written
<1>5. payload'[w] = payload[w] /\ worker'[s] = "gone" /\ battery'[s] = battery[s]
  BY <1>4 DEF Between, SavesGrow, Home
<1> QED
  BY <1>1, <1>2, <1>4, <1>5 DEF Home

LEMMA Untouched ==
  ASSUME Parts, NEW C \in SUBSET Calls, Between(C), HostTypeOK', NEW d \in Calls \ C
  PROVE  Own(d)'
<1>1. Own(d) /\ ControllerInv /\ RequestOK(d)
  BY DEF Parts, ControllerInv
<1>2. /\ UNCHANGED <<op, args, caller, activePlugin, controller, activeSaveKey, activeGameId,
                     at, result, local, on>>
      /\ phase'[d] = phase[d] /\ outcome'[d] = outcome[d] /\ request'[d] = request[d]
      /\ awaited'[d] = awaited[d]
      /\ worker'[d] = "none" <=> worker[d] = "none"
  BY DEF Between, keyVars, callVars, Session
<1>3. Position(d)' /\ Owner(d)'
  BY <1>1, <1>2 DEF Own, Position, Owner
<1>4. AloneOnCore => OneCoreCall(d)'
  BY <1>1, <1>2 DEF Own, OneCoreCall
<1>5. ASSUME Sequential
      PROVE  (MainCall(d) /\ FindsKey(d) /\ FindsGame(d) /\ FinalSave(d))'
  <2>1. MainCall(d) /\ FindsKey(d) /\ FindsGame(d) /\ FinalSave(d) /\ Position(d)
    BY <1>1, <1>5 DEF Own
  <2>2. MainCall(d)'
    <3>1. Main(d) => held'[controller] = held[controller]
      <4>1. Main(d) => ~\E c \in C : Main(c)
        BY <1>5 DEF Parts, InOrder
      <4> QED
        BY <1>5, <4>1, Types DEF Between
    <3>2. /\ at[d] \in {"ending", "undoing", "launching"} => Main(d)
          /\ at[d] = "reading" /\ op[d] = "launch" => Main(d)
      BY <2>1 DEF Main, Runs, Position, Ticks
    <3>3. held[controller] # NoSession /\ Dead(held[controller]) =>
            (worker'[held[controller]] \in {"crashed", "gone"})
      BY Types DEF Between, Dead
    <3> QED
      BY <1>2, <2>1, <3>1, <3>2, <3>3 DEF MainCall, Dead
  <2>3. FindsKey(d)'
    BY <1>2, <2>1 DEF FindsKey, BringsSave, GameOf
  <2>4. FindsGame(d)'
    <3>1. ~(at[d] = "capturing" /\ Arrived(d))
      <4>1. at[d] = "capturing" /\ Arrived(d) => Due(d) /\ \A e \in Calls \ {d} : ~Due(e)
        BY <2>1 DEF FindsGame, Arrived, Due, Micro, Answered
      <4> QED
        BY <4>1 DEF Between, Quiet
    <3>2. Arrived(d)' <=> Arrived(d)
      BY <1>2 DEF Arrived
    <3> QED
      BY <1>2, <2>1, <3>1, <3>2 DEF FindsGame, GameOf, Library
  <2>5. FinalSave(d)'
    <3>1. ASSUME phase[d] = "persisting"
          PROVE  /\ awaited[d] \in Written'
                 /\ payload'[awaited[d]] =
                      [session |-> request[d].session, version |-> battery'[request[d].session]]
      <4>1. worker[request[d].session] = "gone" /\ request[d].session \in Session
        BY <1>1, <3>1 DEF RequestOK, Request, Pending, Waiting
      <4>2. saveIssued \in Nat /\ saveIssued' \in Nat /\ saveIssued' >= saveIssued
        BY TypesOfSaves, TypesOfSavesNext DEF Between, SavesGrow, Parts
      <4>3. awaited[d] \in Written /\ payload'[awaited[d]] = payload[awaited[d]]
        BY <2>1, <3>1 DEF FinalSave, Between, SavesGrow
      <4>4. awaited[d] \in Written'
        BY <4>2, <4>3 DEF Written
      <4> QED
        BY <2>1, <3>1, <4>1, <4>3, <4>4 DEF FinalSave, Between
    <3>2. \A s \in Session : Home(s) => Home(s)'
      BY HomeStays
    <3>3. request[d].answer = "save" => request[d].session \in Session
      BY Types DEF Request, NoRequest
    <3>4. (phase[d] = "persisting")' =>
            /\ (awaited[d] \in Written)'
            /\ (payload[awaited[d]] =
                 [session |-> request[d].session, version |-> battery[request[d].session]])'
      <4>1. awaited'[d] = awaited[d] /\ request'[d] = request[d] /\ phase'[d] = phase[d]
        BY <1>2
      <4> QED
        BY <3>1, <4>1 DEF Written
    <3>5. ASSUME op[d] = "stop", request[d].answer = "save",
                 result[d] = "ok" \/ (phase[d] = "returned" /\ outcome[d] = "ok")
          PROVE  Home(request[d].session)'
      <4>1. Home(request[d].session)
        BY <2>1, <3>5 DEF FinalSave
      <4>2. request'[d].session = request[d].session /\ request[d].session \in Session
        BY <1>2, <3>3, <3>5
      <4> QED
        BY <3>2, <4>1, <4>2 DEF Home, GameOf
    <3> QED
      BY <1>2, <3>4, <3>5 DEF FinalSave
  <2> QED
    BY <2>2, <2>3, <2>4, <2>5
<1>6. (Sequential' <=> Sequential) /\ (AloneOnCore' <=> AloneOnCore)
  BY <1>2 DEF Sequential, AloneOnCore
<1> QED
  BY <1>3, <1>4, <1>5, <1>6 DEF Own

(* Between two turns of the host, what is kept follows from what is kept   *)
(* of the calls that something happens to.                                 *)
LEMMA Stays ==
  ASSUME Parts, Covered, NEW C \in SUBSET Calls, Between(C), HostTypeOK', ControllerInv',
         WritesOK', Sequential => WritesInOrder', \A d \in C : Own(d)'
  PROVE  Parts'
<1>1. /\ UNCHANGED <<op, args, caller, activePlugin, controller, activeSaveKey, activeGameId,
                     at, states, on>>
      /\ \A k \in Controllers : held'[k] = held[k] \/ held'[k] = NoSession
      /\ \A s \in Session : (Dead(s) => Dead(s)') /\ (worker'[s] = "none" <=> worker[s] = "none")
      /\ core' = core
  BY DEF Between, keyVars, callVars
<1>2. (Sequential' <=> Sequential) /\ (AloneOnCore' <=> AloneOnCore)
  BY <1>1 DEF Sequential, AloneOnCore
<1>3. \A d \in Calls : Made(d)' /\ Own(d)'
  BY <1>1, Untouched DEF Parts, Made
<1>4. ASSUME Sequential PROVE (InOrder /\ HostKeys /\ StoredStates)'
  <2>1. InOrder /\ HostKeys /\ StoredStates
    BY <1>4 DEF Parts
  <2>2. \A k \in Controllers : held'[k] # NoSession => held'[k] = held[k] /\ held[k] \in Session
    BY <1>1, SessionsOfLaunches
  <2>3. HostKeys'
    BY <1>1, <2>1, <2>2, Types DEF HostKeys, GameOf, Library, Dead
  <2> QED
    BY <1>1, <2>1, <2>3 DEF InOrder, Main, Runs, StoredStates, GameOf
<1>5. ASSUME AloneOnCore PROVE (Refusal /\ OneCore)'
  <2>1. Refusal /\ OneCore
    BY <1>5 DEF Parts
  <2>2. \A d \in Calls : ~RefusedNow(d)
    BY DEF RefusedNow, Between, Quiet, Due, Micro
  <2>3. Refusal'
    BY <1>1, <2>1, <2>2 DEF Refusal, GameOf
  <2> QED
    BY <1>1, <2>1, <2>3 DEF OneCore, Runs, IsMgba
<1> QED
  BY <1>1, <1>2, <1>3, <1>4, <1>5 DEF Parts

LEMMA TypesStay ==
  ASSUME HostTypeOK, UNCHANGED <<hostVars, saveVars>>
  PROVE  HostTypeOK'
<1>1. UNCHANGED <<caller, activeSaveKey, activeGameId, activePlugin, controller, autosaveTimer,
                  playtimeTimer, intervals, checkpointAt, clock, op, at, args, result, local,
                  states, playtime, saveIssued, saveKeyOf, saveOutcome, saved, payload, awaited>>
  BY DEF hostVars, keyVars, timerVars, callVars, diskVars, saveVars
<1>2. Saves!TypeOK'
  BY <1>1 DEF HostTypeOK, Saves!TypeOK
<1> QED
  BY <1>1, <1>2 DEF HostTypeOK

LEMMA WritesStay ==
  ASSUME Parts, UNCHANGED <<args, op, saveVars>>
  PROVE  WritesOK' /\ SavesGrow
<1>1. UNCHANGED <<saveIssued, saveKeyOf, saveOutcome, saved, payload>> /\ WritesOK
  BY DEF Parts, saveVars
<1>2. SavesGrow
  <2>1. saveIssued \in Nat /\ saved \in [Games -> Nat]
    BY TypesOfSaves DEF Parts
  <2> QED
    BY <1>1, <2>1 DEF SavesGrow
<1> QED
  BY <1>1, <1>2 DEF WritesOK, Written, GameOf

(* A method of a controller goes on.                                       *)
LEMMA MethodGoesOn ==
  ASSUME Parts, Covered, NEW c \in Calls, ControllerStep(c)
  PROVE  Parts'
<1>1. Continue(c) /\ UNCHANGED <<hostVars, saveVars>> /\ ControllerInv
  BY DEF ControllerStep, Parts
<1>2. ControllerInv'
  BY <1>1, Continues DEF Step
<1>3. /\ Due(c) /\ phase[c] \in Waiting
      /\ UNCHANGED <<core, status, battery, on>>
      /\ \A d \in Calls \ {c} : /\ phase'[d] = phase[d] /\ request'[d] = request[d]
                                /\ outcome'[d] = outcome[d]
      /\ \A s \in Session : \/ worker'[s] = worker[s]
                            \/ worker[s] = "live" /\ worker'[s] = "exiting"
      /\ request'[c].session = request[c].session
      /\ request'[c] = request[c] \/ request'[c].answer \in {"waiting", "error"}
  BY <1>1, ContinueFrame
<1>4. /\ UNCHANGED <<op, args, caller, at, result, local, states, activeSaveKey, activeGameId,
                     activePlugin, controller, saveVars>>
      /\ UNCHANGED <<saveIssued, saveKeyOf, saveOutcome, saved, payload, awaited>>
  BY <1>1 DEF hostVars, keyVars, callVars, diskVars, saveVars
<1>5. Position(c) /\ Owner(c) /\ RequestOK(c)
  BY DEF Parts, Own, ControllerInv
<1>6. /\ \/ at[c] \in {"capturing", "restoring", "asking"} /\ phase[c] = "asking"
         \/ at[c] \in {"ending", "undoing"} /\ phase[c] \in StopPhase
         \/ at[c] = "launching" /\ phase[c] \in Launching
      /\ phase[c] \notin {"idle", "returned"} /\ phase[c] \in Pending
  <2>1. phase[c] \notin {"idle", "returned"} /\ phase[c] \in Pending
    BY <1>3 DEF Waiting, Pending
  <2>2. at[c] \in {"capturing", "restoring", "asking", "ending", "undoing", "launching"}
    BY <1>5, <2>1, Types DEF Position, Await
  <2> QED
    BY <1>5, <2>1, <2>2 DEF Position
<1>7. at[c] \in {"ending", "undoing", "launching"} => Main(c)
  BY <1>5 DEF Position, Main, Runs, Ticks
<1>8. Position(c)'
  BY <1>1, <1>4, <1>5, <1>6, ContinuePhase DEF Position, StopPhase
<1>9. Owner(c)'
  BY <1>3, <1>4, <1>5 DEF Owner, Session
<1>10. ASSUME Sequential PROVE MainCall(c)'
  <2>1. MainCall(c)
    BY <1>10 DEF Parts, Own
  <2>2. at[c] # "reading" /\ on' = on /\ controller' = controller /\ controller \in Controllers
    BY <1>3, <1>4, <1>6, Types
  <2>3. ASSUME at[c] \in {"ending", "undoing"}, phase'[c] \in Pending
        PROVE  held'[controller] = request'[c].session
    <3>1. held[controller] = request[c].session /\ on[c] = controller /\ phase[c] \in StopPhase
      BY <1>6, <2>1, <2>3 DEF MainCall, StopPhase, Launching
    <3>2. phase'[c] \in {"terminating", "exporting"}
      BY <1>1, <2>3, <3>1, ContinuePhase DEF Pending, Waiting
    <3>3. held' = held
      <4>1. StopAnswered(c) \/ StopExited(c)
        BY <1>1, <3>1 DEF Continue, Loaded, Started, FailLaunchAnswered, FailLaunchExited,
           AskAnswered, StopPhase
      <4>2. \A r \in {"ok", "error"} : ~Return(c, r)
        BY <3>2, Types DEF Return
      <4> QED
        BY <4>1, <4>2 DEF StopAnswered, StopExited, StopFailed, Stopped
    <3> QED
      BY <1>3, <3>1, <3>3
  <2>4. ASSUME at[c] = "launching", phase'[c] = "returned", outcome'[c] = "error"
        PROVE  held'[controller] = NoSession
    <3>1. on[c] = controller /\ phase[c] \in Launching
      BY <1>6, <2>1, <2>4 DEF MainCall
    <3> QED
      BY <1>1, <2>4, <3>1, ContinuePhase
  <2>5. ASSUME at[c] \in {"ending", "undoing"}, phase'[c] = "returned"
        PROVE  \/ outcome'[c] = "ok" /\ held'[controller] = NoSession
               \/ outcome'[c] = "error" /\ (held'[controller] # NoSession =>
                                              worker'[held'[controller]] \in {"crashed", "gone"})
    <3>1. held[controller] = request[c].session /\ on[c] = controller /\ phase[c] \in StopPhase
      BY <1>6, <2>1, <2>5 DEF MainCall, StopPhase, Launching
    <3>2. \/ outcome'[c] = "ok" /\ held'[controller] = NoSession
          \/ outcome'[c] = "error" /\ worker[request[c].session] \in {"crashed", "gone"}
      BY <1>1, <2>5, <3>1, ContinuePhase
    <3>3. held'[controller] \in {held[controller], NoSession}
      BY <1>1, <2>2, ContinuePhase
    <3>4. request[c].session \in Session
      BY <1>6, SessionsOfLaunches
    <3> QED
      BY <1>3, <3>1, <3>2, <3>3, <3>4
  <2> QED
    BY <1>4, <2>1, <2>2, <2>3, <2>4, <2>5 DEF MainCall, Dead
<1>11. ASSUME Sequential PROVE FindsKey(c)'
  <2> SUFFICES ASSUME BringsSave(c)' PROVE activeSaveKey' = GameOf(request[c].session)'
    BY DEF FindsKey
  <2>1. request'[c] = request[c] /\ BringsSave(c)
    BY <1>3, <1>6 DEF BringsSave
  <2> QED
    BY <1>4, <1>11, <2>1 DEF Parts, Own, FindsKey, GameOf
<1>12. request[c].answer = "save" => phase[c] \in StopPhase \union {"failing", "failExit"}
  BY <1>6 DEF Parts, ControllerInv, SaveOK, BringsSave
<1>13. ASSUME Sequential PROVE FindsGame(c)'
  <2> SUFFICES ASSUME at[c] = "capturing" PROVE FindsGame(c)'
    BY <1>4, <1>6 DEF FindsGame
  <2>1. phase[c] = "asking" /\ FindsGame(c) /\ phase'[c] = "returned"
    <3>1. phase[c] = "asking"
      BY <1>6
    <3> QED
      BY <1>1, <1>13, <3>1, ContinuePhase DEF Parts, Own
  <2>2. request'[c].session = request[c].session /\ request[c].session \in Session
        /\ op[request[c].session] = "launch"
    BY <1>3, <2>1 DEF FindsGame
  <2>3. ASSUME Arrived(c)'
        PROVE  activeGameId = GameOf(request[c].session) /\ \A d \in Calls \ {c} : ~Due(d)'
    <3>1. request[c].answer # "error"
      BY <1>1, <2>1, <2>3, ContinuePhase DEF Arrived
    <3>2. Answered(c)
      BY <1>3, <2>1 DEF Due, Micro
    <3>3. request[c].answer = "ok"
      BY <1>12, <2>1, <3>1, <3>2 DEF Answered, StopPhase
    <3>4. activeGameId = GameOf(request[c].session) /\ \A d \in Calls \ {c} : ~Due(d)
      BY <2>1, <3>3 DEF FindsGame, Arrived
    <3>5. \A d \in Calls : phase[d] \in Pending => request[d].session \in Session
      BY SessionsOfLaunches
    <3> QED
      BY <1>3, <3>4, <3>5 DEF Due, Answered, Pending, Waiting
  <2> QED
    BY <1>4, <2>1, <2>2, <2>3 DEF FindsGame, GameOf
<1>14. ASSUME Sequential PROVE FinalSave(c)'
  <2>1. phase'[c] # "persisting" /\ result[c] = "none"
    BY <1>1, <1>5, <1>6, Types, ContinuePhase DEF Position, Launching
  <2>2. ASSUME op[c] = "stop", request'[c].answer = "save", phase'[c] = "returned",
               outcome'[c] = "ok"
        PROVE  FALSE
    <3>1. request[c].answer = "save" /\ phase[c] \in StopPhase
      BY <1>3, <1>5, <1>6, <1>12, <2>2 DEF Position
    <3> QED
      BY <1>1, <2>2, <3>1, ContinuePhase
  <2> QED
    BY <1>4, <2>1, <2>2 DEF FinalSave
<1>15. Own(c)'
  <2>1. AloneOnCore' => OneCoreCall(c)'
    BY <1>4 DEF Parts, Own, OneCoreCall, AloneOnCore
  <2>2. Sequential' => Sequential
    BY <1>4 DEF Sequential
  <2> QED
    BY <1>8, <1>9, <1>10, <1>11, <1>13, <1>14, <2>1, <2>2 DEF Own
<1>16. Between({c})
  <2>1. \A k \in Controllers : held'[k] = held[k] \/ held'[k] = NoSession
    BY <1>1, ContinuePhase
  <2>2. Sequential => Main(c) \/ held' = held
    BY <1>1, <1>6, <1>7, ContinuePhase
  <2>3. \A s \in Session : /\ worker'[s] = "none" <=> worker[s] = "none"
                           /\ Dead(s) => Dead(s)'
                           /\ worker[s] = "gone" => worker'[s] = "gone" /\ battery'[s] = battery[s]
    BY <1>3 DEF Dead
  <2>4. SavesGrow
    BY <1>4, WritesStay
  <2>5. UNCHANGED <<keyVars, callVars, at, result, local, states, on, core>>
    BY <1>3, <1>4 DEF keyVars, callVars
  <2> QED
    BY <1>3, <1>4, <1>6, <2>1, <2>2, <2>3, <2>4, <2>5 DEF Between
<1>17. WritesOK' /\ HostTypeOK'
  BY <1>1, <1>4, WritesStay, TypesStay DEF Parts
<1>18. ASSUME Sequential PROVE WritesInOrder'
  <2>1. WritesInOrder /\ controller \in Controllers
    BY <1>18, Types DEF Parts
  <2>2. held'[controller] = held[controller] \/ held'[controller] = NoSession
    BY <1>1, <2>1, ContinuePhase
  <2> QED
    BY <1>3, <1>4, <2>1, <2>2 DEF WritesInOrder, Written
<1>19. {c} \in SUBSET Calls /\ \A d \in {c} : Own(d)'
  BY <1>15
<1> QED
  BY <1>2, <1>16, <1>17, <1>18, <1>19, Stays

-----------------------------------------------------------------------------
(* Battery saves. *)

(* A save is written: it is the newest, of the session that is held, under *)
(* the key of its game.                                                    *)
LEMMA Persists ==
  ASSUME Parts, NEW s \in Session, op[s] = "launch", activeSaveKey = GameOf(s), Persist(s),
         Sequential => held[controller] = s,
         UNCHANGED <<battery, held, hostVars>>,
         awaited' \in [Calls -> 0..MaxWrites]
  PROVE  HostTypeOK' /\ WritesOK' /\ SavesGrow /\ (Sequential => WritesInOrder')
<1> DEFINE n == saveIssued + 1
           r == [session |-> s, version |-> battery[s]]
<1>1. /\ saveIssued \in Nat /\ n \in Saves!Write /\ n \notin Written
      /\ Saves!Write = 1..MaxWrites /\ MaxWrites \in Nat
      /\ saved \in [Games -> Nat] /\ Written \subseteq Saves!Write
      /\ saveKeyOf \in [Saves!Write -> Games \union {NoGame}]
      /\ saveOutcome \in [Saves!Write -> {"unused", "pending", "ok", "failed", "lost"}]
      /\ payload \in [Saves!Write -> [session : Session \union {NoSession},
                                      version : 0..MaxBattery]]
  <2>1. saveIssued < MaxWrites
    BY DEF Persist, Saves!Accept
  <2> QED
    BY <2>1, TypesOfSaves DEF Parts, Written
<1>2. GameOf(s) \in Games /\ r \in [session : Session \union {NoSession}, version : 0..MaxBattery]
  BY GameOfLaunch, Types
<1>3. /\ saveIssued' = n /\ saved' = saved
      /\ saveKeyOf' = [saveKeyOf EXCEPT ![n] = GameOf(s)]
      /\ saveOutcome' = [saveOutcome EXCEPT ![n] = "pending"]
      /\ payload' = [payload EXCEPT ![n] = r]
  BY DEF Persist, Saves!Accept
<1> HIDE DEF r
<1>4. /\ saveKeyOf'[n] = GameOf(s) /\ payload'[n] = r
      /\ \A w \in Written : saveKeyOf'[w] = saveKeyOf[w] /\ payload'[w] = payload[w]
      /\ \A w \in Saves!Write \ {n} : saveOutcome'[w] = saveOutcome[w]
      /\ Written' = Written \union {n}
  <2>1. Written' = Written \union {n}
    BY <1>1, <1>3 DEF Written
  <2> QED
    BY <1>1, <1>3, <2>1
<1>5. HostTypeOK'
  <2>1. UNCHANGED <<caller, activeSaveKey, activeGameId, activePlugin, controller, autosaveTimer,
                    playtimeTimer, intervals, checkpointAt, clock, op, at, args, result, local,
                    states, playtime>>
    BY DEF hostVars, keyVars, timerVars, callVars, diskVars
  <2>2. HostTypeOK
    BY DEF Parts
  <2>3. saveKeyOf' \in [Saves!Write -> Games \union {NoGame}]
        /\ saveOutcome' \in [Saves!Write -> {"unused", "pending", "ok", "failed", "lost"}]
        /\ payload' \in [Saves!Write -> [session : Session \union {NoSession},
                                         version : 0..MaxBattery]]
        /\ saveIssued' \in 0..MaxWrites
    BY <1>1, <1>2, <1>3
  <2>4. Saves!TypeOK'
    BY <1>3, <2>2, <2>3 DEF HostTypeOK, Saves!TypeOK, Saves!Outcome
  <2> QED
    BY <2>1, <2>2, <2>3, <2>4 DEF HostTypeOK
<1>6. UNCHANGED <<op, args, controller>>
  BY DEF hostVars, keyVars, callVars
<1>7. r.session = s /\ r.version = battery[s]
  BY DEF r
<1>8. WritesOK'
  <2>1. WritesOK
    BY DEF Parts
  <2>2. \A w \in Written' : /\ payload'[w].session \in Session
                            /\ op[payload'[w].session] = "launch"
                            /\ saveKeyOf'[w] = args[payload'[w].session].game
    BY <1>4, <1>7, <2>1 DEF WritesOK, GameOf
  <2>3. \A w \in Saves!Write : saveOutcome'[w] # "unused" => w \in Written'
    BY <1>4, <2>1 DEF WritesOK
  <2>4. \A g \in Games : saved'[g] # 0 => saved'[g] \in Written' /\ saveKeyOf'[saved'[g]] = g
    BY <1>3, <1>4, <2>1 DEF WritesOK
  <2> QED
    BY <1>6, <2>2, <2>3, <2>4 DEF WritesOK, GameOf, Saves!Write
<1>9. SavesGrow
  BY <1>1, <1>3, <1>4 DEF SavesGrow
<1>10. ASSUME Sequential PROVE WritesInOrder'
  <2>1. WritesInOrder /\ held[controller] = s /\ s # NoSession /\ s \in Nat
        /\ battery \in [Session -> 0..MaxBattery] /\ MaxBattery \in Nat
    BY <1>10, Types, SessionsAssumption DEF Parts, NoSession
  <2>2. \A w \in Written : /\ payload[w].session <= s
                           /\ payload[w].session = s => payload[w].version <= battery[s]
    BY <2>1 DEF WritesInOrder
  <2>3. ASSUME NEW w \in Written'
        PROVE  /\ payload'[w].version <= battery[payload'[w].session]
               /\ payload'[w].session <= s
    BY <1>4, <1>7, <2>1, <2>2, <2>3 DEF WritesInOrder
  <2>4. ASSUME NEW w \in Written', NEW x \in w..n
        PROVE  /\ payload'[w].session <= payload'[x].session
               /\ payload'[w].session = payload'[x].session
                    => payload'[w].version <= payload'[x].version
    <3>1. CASE x = n
      <4>1. payload'[x] = r
        BY <1>4, <3>1
      <4> QED
        BY <1>7, <2>3, <4>1
    <3>2. CASE x # n
      <4>1. w \in Written /\ x \in w..saveIssued /\ x \in Written
        BY <1>1, <1>4, <2>4, <3>2 DEF Written
      <4>2. payload'[w] = payload[w] /\ payload'[x] = payload[x]
        BY <1>4, <4>1
      <4> QED
        BY <2>1, <4>1, <4>2 DEF WritesInOrder
    <3> QED
      BY <3>1, <3>2
  <2> QED
    BY <1>3, <1>6, <2>1, <2>3, <2>4 DEF WritesInOrder
<1> QED
  BY <1>5, <1>8, <1>9, <1>10

(* The save of a stop arrives.                                             *)
LEMMA StopExports ==
  ASSUME Parts, Covered, NEW c \in Calls, Export(c)
  PROVE  Parts'
<1> DEFINE s == request[c].session
<1>1. /\ phase[c] = "exporting" /\ ControllerInv /\ RequestOK(c) /\ Position(c) /\ Owner(c)
      /\ AloneOnCore => OneCoreCall(c)
      /\ Due(c) /\ phase[c] # "returned" /\ BringsSave(c)
      /\ UNCHANGED hostVars
  BY DEF Export, Parts, ControllerInv, Own, Due, Micro, RequestOK, BringsSave, Pending, Waiting
<1>2. /\ s \in Session /\ op[s] = "launch" /\ request[c].answer = "save" /\ worker[s] = "gone"
      /\ on[c] \in Controllers /\ (AloneOnCore => held[on[c]] = s)
  <2>1. /\ s \in Session /\ op[s] = "launch" /\ request[c].answer = "save" /\ worker[s] = "gone"
        /\ on[c] \in Controllers
    BY <1>1, SessionsOfLaunches DEF RequestOK, BringsSave
  <2>2. AloneOnCore => held[on[c]] = s
    BY <1>1, <2>1 DEF Parts, ControllerInv, SaveOK, OneCore
  <2> QED
    BY <2>1, <2>2
<1>3. GameOf(s) \in Games /\ GameOf(s) # NoGame /\ s # NoSession
  BY <1>2, GameOfLaunch, Types
<1>4. at[c] \in {"ending", "undoing"} /\ result[c] = "none" /\ Main(c)
  <2>1. at[c] \in {"ending", "undoing"}
    BY <1>1, Types DEF Position, Launching, Await
  <2> QED
    BY <1>1, <2>1, Types DEF Position, Main, Runs, Ticks
<1>5. UNCHANGED <<op, args, caller, at, result, local, states, activeSaveKey, activeGameId,
                  activePlugin, controller, keyVars, callVars>>
  BY <1>1 DEF hostVars, keyVars, callVars, diskVars
<1>6. Sequential => /\ activeSaveKey = GameOf(s) /\ on[c] = controller
                    /\ held[controller] = s /\ MainCall(c) /\ FindsKey(c)
  BY <1>1, <1>4 DEF Parts, Own, FindsKey, MainCall, Pending, Waiting
<1>7. activeSaveKey # NoGame => activeSaveKey = GameOf(s)
  <2>1. ASSUME AloneOnCore PROVE activeSaveKey \in {NoGame, GameOf(s)}
    <3>1. \A d \in Calls : ~RefusedNow(d)
      BY <1>1 DEF RefusedNow
    <3> QED
      BY <1>2, <1>3, <2>1, <3>1 DEF Parts, Refusal
  <2> QED
    BY <1>6, <2>1 DEF Covered
<1>8. /\ UNCHANGED <<core, worker, battery, on, request>>
      /\ \A d \in Calls \ {c} : phase'[d] = phase[d] /\ outcome'[d] = outcome[d]
  BY Types DEF Export, SavePersisted, Stopped, Return, To, sessionVars
<1>9. (Sequential' <=> Sequential) /\ (AloneOnCore' <=> AloneOnCore)
  BY <1>5 DEF Sequential, AloneOnCore
<1>10. ASSUME phase'[c] \in {"persisting", "returned"}
       PROVE  Position(c)' /\ Owner(c)' /\ (AloneOnCore => OneCoreCall(c)')
  BY <1>1, <1>4, <1>5, <1>8, <1>10 DEF Position, Owner, OneCoreCall, StopPhase
<1>11. CASE activeSaveKey # NoGame
  <2>1. /\ Persist(s) /\ awaited' = [awaited EXCEPT ![c] = saveIssued + 1]
        /\ To(c, "persisting") /\ UNCHANGED <<sessionVars, held, ctlStatus, on>>
    BY <1>11 DEF Export
  <2>2. /\ phase'[c] = "persisting" /\ outcome' = outcome
    BY <2>1, Types DEF To
  <2>3. awaited' \in [Calls -> 0..MaxWrites] /\ awaited'[c] = saveIssued + 1
        /\ \A d \in Calls \ {c} : awaited'[d] = awaited[d]
    <3>1. saveIssued + 1 \in 0..MaxWrites /\ awaited \in [Calls -> 0..MaxWrites]
      BY <2>1, TypesOfSaves DEF Parts, Persist, Saves!Accept
    <3> QED
      BY <2>1, <3>1
  <2>4. HostTypeOK' /\ WritesOK' /\ SavesGrow /\ (Sequential => WritesInOrder')
    BY <1>1, <1>2, <1>6, <1>7, <1>8, <1>11, <2>1, <2>3, Persists
  <2>5. ControllerInv'
    BY <1>1, <2>1, ExportBegins DEF Step
  <2>6. Own(c)'
    <3>1. ASSUME Sequential
          PROVE  (MainCall(c) /\ FindsKey(c) /\ FindsGame(c) /\ FinalSave(c))'
      <4>1. MainCall(c)'
        BY <1>1, <1>4, <1>5, <1>6, <1>8, <2>1, <2>2, <3>1 DEF MainCall, Pending, Waiting
      <4>2. FindsKey(c)'
        BY <1>5, <1>6, <1>8, <3>1 DEF FindsKey, GameOf
      <4>3. FindsGame(c)'
        BY <1>4, <1>5 DEF FindsGame
      <4>4. FinalSave(c)'
        <5>1. /\ saveIssued' = saveIssued + 1
              /\ payload'[saveIssued + 1] = [session |-> s, version |-> battery[s]]
              /\ saveIssued + 1 \in Written'
          <6>1. saveIssued + 1 \in Saves!Write /\ saveIssued' = saveIssued + 1
            BY <2>1, TypesOfSaves DEF Parts, Persist, Saves!Accept
          <6>2. DOMAIN payload = Saves!Write /\ saveIssued \in Nat
            BY TypesOfSaves DEF Parts
          <6> QED
            BY <2>1, <6>1, <6>2 DEF Persist, Written
        <5> QED
          BY <1>4, <1>5, <1>8, <2>2, <2>3, <5>1 DEF FinalSave
      <4> QED
        BY <4>1, <4>2, <4>3, <4>4
    <3> QED
      BY <1>9, <1>10, <2>2, <3>1 DEF Own
  <2>7. Between({c})
    BY <1>1, <1>5, <1>8, <2>1, <2>2, <2>3, <2>4 DEF Between, Dead
  <2>8. {c} \in SUBSET Calls /\ \A d \in {c} : Own(d)'
    BY <2>6
  <2> QED
    BY <2>4, <2>5, <2>7, <2>8, Stays
<1>12. CASE activeSaveKey = NoGame
  <2>1. SavePersisted(c) /\ UNCHANGED saveVars
    BY <1>12 DEF Export
  <2>2. ~Sequential
    BY <1>3, <1>6, <1>12
  <2>3. /\ phase'[c] = "returned" /\ UNCHANGED awaited
        /\ \A k \in Controllers : held'[k] = held[k] \/ held'[k] = NoSession
    BY <2>1, Types DEF SavePersisted, Stopped, Return, Dispose, saveVars
  <2>4. HostTypeOK' /\ WritesOK' /\ SavesGrow
    BY <1>1, <1>5, <2>1, TypesStay, WritesStay DEF Parts
  <2>5. ControllerInv'
    BY <1>1, <2>1, ExportEnds DEF Step
  <2>6. Own(c)'
    BY <1>9, <1>10, <2>2, <2>3 DEF Own
  <2>7. Between({c})
    BY <1>1, <1>5, <1>8, <2>2, <2>3, <2>4 DEF Between, Dead
  <2>8. {c} \in SUBSET Calls /\ \A d \in {c} : Own(d)'
    BY <2>6
  <2> QED
    BY <2>2, <2>4, <2>5, <2>7, <2>8, Stays
<1> QED
  BY <1>11, <1>12

(* A periodic save arrives. *)
LEMMA Flushes ==
  ASSUME Parts, Covered, NEW s \in Session, Flush(s)
  PROVE  Parts'
<1>1. /\ Quiet /\ worker[s] = "live" /\ battery[s] > 0 /\ activeSaveKey # NoGame /\ Persist(s)
      /\ UNCHANGED <<awaited, sessionVars, controllerVars, hostVars>>
  BY DEF Flush, MayEmitSave
<1>2. PICK k \in Controllers : held[k] = s
  BY DEF Flush, Subscribed
<1>3. /\ s # NoSession /\ op[s] = "launch" /\ ~Dead(s)
      /\ UNCHANGED <<core, worker, battery, held, on, phase, outcome, request, op, args, caller,
                     at, result, local, states, keyVars, callVars>>
  BY <1>1, Types, SessionsOfLaunches DEF Dead, sessionVars, controllerVars, hostVars, keyVars,
     callVars, diskVars
<1>4. ASSUME Sequential
      PROVE  k = controller /\ activeSaveKey = GameOf(s) /\ WritesInOrder
  BY <1>1, <1>2, <1>3, <1>4 DEF Parts, HostKeys, WritesInOrder
<1>5. ASSUME AloneOnCore PROVE activeSaveKey = GameOf(s)
  <2>1. \A d \in Calls : ~RefusedNow(d)
    BY <1>1 DEF RefusedNow, Quiet, Due, Micro
  <2> QED
    BY <1>1, <1>2, <1>3, <1>5, <2>1 DEF Parts, Refusal
<1>6. awaited' \in [Calls -> 0..MaxWrites]
  BY <1>1, TypesOfSaves DEF Parts
<1>7. HostTypeOK' /\ WritesOK' /\ SavesGrow /\ (Sequential => WritesInOrder')
  BY <1>1, <1>2, <1>3, <1>4, <1>5, <1>6, Persists DEF Covered
<1>8. ControllerInv'
  BY <1>1, Stutters DEF Step, Parts
<1>9. Between({})
  BY <1>1, <1>3, <1>7 DEF Between, Dead
<1> QED
  BY <1>7, <1>8, <1>9, Stays

(* The store takes a step.                                                 *)
LEMMA StoreTypes ==
  ASSUME HostTypeOK, NEW w \in Saves!Write,
         Saves!Commit(w) \/ Saves!Acknowledge(w) \/ Saves!Refuse(w),
         saveKeyOf[w] \in Games, UNCHANGED <<payload, awaited, hostVars>>
  PROVE  /\ HostTypeOK'
         /\ saveIssued' = saveIssued /\ saveKeyOf' = saveKeyOf
         /\ saveOutcome[w] = "pending"
         /\ \A x \in Saves!Write : saveOutcome'[x] = "unused" <=> saveOutcome[x] = "unused"
         /\ \A g \in Games : \/ saved'[g] = saved[g]
                             \/ g = saveKeyOf[w] /\ saved'[g] = w /\ saved[g] < w
<1>1. UNCHANGED <<caller, activeSaveKey, activeGameId, activePlugin, controller, autosaveTimer,
                  playtimeTimer, intervals, checkpointAt, clock, op, at, args, result, local,
                  states, playtime>>
  BY DEF hostVars, keyVars, timerVars, callVars, diskVars
<1>2. saved \in [Games -> 0..MaxWrites]
      /\ saveOutcome \in [Saves!Write -> {"unused", "pending", "ok", "failed", "lost"}]
      /\ w \in 0..MaxWrites
  <2>1. Saves!TypeOK
    BY DEF HostTypeOK
  <2>2. w \in 0..MaxWrites
    BY HostAssumption DEF Saves!Write
  <2> QED
    BY <2>1, <2>2 DEF Saves!TypeOK, Saves!Outcome
<1>3. /\ saveOutcome[w] = "pending" /\ UNCHANGED <<saveIssued, saveKeyOf>>
      /\ \/ saved' = [saved EXCEPT ![saveKeyOf[w]] = w] /\ saved[saveKeyOf[w]] < w
            /\ saveOutcome' = saveOutcome
         \/ \E o \in {"ok", "failed"} : saveOutcome' = [saveOutcome EXCEPT ![w] = o]
            /\ saved' = saved
  BY DEF Saves!Commit, Saves!Acknowledge, Saves!Refuse
<1>4. saved' \in [Games -> 0..MaxWrites]
      /\ saveOutcome' \in [Saves!Write -> {"unused", "pending", "ok", "failed", "lost"}]
  BY <1>2, <1>3
<1>5. Saves!TypeOK'
  BY <1>3, <1>4 DEF HostTypeOK, Saves!TypeOK, Saves!Outcome
<1>6. HostTypeOK'
  BY <1>1, <1>5 DEF HostTypeOK
<1>7. \A x \in Saves!Write : saveOutcome'[x] = "unused" <=> saveOutcome[x] = "unused"
  BY <1>2, <1>3
<1>8. \A g \in Games : \/ saved'[g] = saved[g]
                       \/ g = saveKeyOf[w] /\ saved'[g] = w /\ saved[g] < w
  BY <1>2, <1>3
<1> QED
  BY <1>3, <1>6, <1>7, <1>8

LEMMA StoreSteps ==
  ASSUME Parts, Covered, NEW w \in Saves!Write, StoreStep(w)
  PROVE  Parts'
<1>1. /\ Quiet /\ UNCHANGED <<payload, awaited, hostVars>>
      /\ Saves!Commit(w) \/ Saves!Acknowledge(w) \/ Saves!Refuse(w)
  BY DEF StoreStep
<1>2. saveOutcome[w] = "pending" /\ w \in Written
  BY <1>1 DEF Parts, WritesOK, Saves!Commit, Saves!Acknowledge, Saves!Refuse
<1>3. saveKeyOf[w] \in Games /\ saveKeyOf[w] = GameOf(payload[w].session)
  BY <1>2, GameOfLaunch DEF Parts, WritesOK
<1>4. /\ HostTypeOK' /\ saveIssued' = saveIssued /\ saveKeyOf' = saveKeyOf
      /\ \A x \in Saves!Write : saveOutcome'[x] = "unused" <=> saveOutcome[x] = "unused"
      /\ \A g \in Games : \/ saved'[g] = saved[g]
                          \/ g = saveKeyOf[w] /\ saved'[g] = w /\ saved[g] < w
  BY <1>1, <1>3, StoreTypes DEF Parts
<1>5. UNCHANGED <<op, args, caller, at, result, local, states, activeSaveKey, activeGameId,
                  activePlugin, controller, keyVars, callVars>>
  BY <1>1 DEF hostVars, keyVars, callVars, diskVars
<1>6. SavesGrow
  <2>1. saved \in [Games -> Nat] /\ saveIssued \in Nat /\ w \in Nat
    BY TypesOfSaves DEF Parts
  <2> QED
    BY <1>1, <1>4, <2>1 DEF SavesGrow
<1>7. WritesOK'
  <2>1. WritesOK /\ Written' = Written
    BY <1>4 DEF Parts, Written
  <2>2. \A g \in Games : saved'[g] # 0 => saved'[g] \in Written' /\ saveKeyOf'[saved'[g]] = g
    BY <1>2, <1>4, <2>1 DEF WritesOK
  <2> QED
    BY <1>1, <1>4, <1>5, <2>1, <2>2 DEF WritesOK, GameOf, Saves!Write
<1>8. \/ UNCHANGED <<sessionVars, controllerVars>>
      \/ \E c \in Waiters(w) : SavePersisted(c) /\ Saves!Acknowledge(w)
      \/ \E c \in Waiters(w) : SaveRejected(c)
  BY DEF StoreStep
<1>9. CASE UNCHANGED <<sessionVars, controllerVars>>
  <2>1. UNCHANGED <<core, worker, battery, held, on, phase, outcome, request>>
    BY <1>9 DEF sessionVars, controllerVars
  <2>2. Between({})
    BY <1>1, <1>5, <1>6, <2>1 DEF Between, Dead
  <2>3. ControllerInv'
    BY <1>9, Stutters DEF Step, Parts
  <2>4. Sequential => WritesInOrder'
    BY <1>1, <1>4, <1>5, <2>1 DEF Parts, WritesInOrder, Written
  <2> QED
    BY <1>4, <1>7, <2>2, <2>3, <2>4, Stays
<1>10. ASSUME NEW c \in Waiters(w),
              (SavePersisted(c) /\ Saves!Acknowledge(w)) \/ SaveRejected(c)
       PROVE  Parts'
  <2>1. c \in Calls /\ phase[c] = "persisting" /\ awaited[c] = w
    BY <1>10 DEF Waiters
  <2>2. /\ RequestOK(c) /\ Position(c) /\ Owner(c)
        /\ AloneOnCore => OneCoreCall(c)
        /\ Sequential => MainCall(c) /\ FinalSave(c)
    BY <2>1 DEF Parts, ControllerInv, Own
  <2>3. at[c] \in {"ending", "undoing"} /\ result[c] = "none" /\ Main(c)
    <3>1. at[c] \in {"ending", "undoing"}
      BY <2>1, <2>2, Types DEF Position, Launching, Await
    <3> QED
      BY <2>1, <2>2, <3>1, Types DEF Position, Main, Runs, Ticks
  <2>4. /\ request[c].session \in Session /\ worker[request[c].session] = "gone"
        /\ on[c] \in Controllers
    BY <2>1, <2>2 DEF RequestOK, Request, Pending, Waiting
  <2>5. /\ UNCHANGED <<core, worker, battery, on, request>>
        /\ \A d \in Calls \ {c} : phase'[d] = phase[d] /\ outcome'[d] = outcome[d]
        /\ phase'[c] = "returned"
        /\ \/ /\ SavePersisted(c) /\ Saves!Acknowledge(w) /\ outcome'[c] = "ok"
              /\ held' = [held EXCEPT ![on[c]] = NoSession]
           \/ outcome'[c] = "error" /\ held' = held
    BY <1>10, <2>1, Types DEF SavePersisted, SaveRejected, Stopped, Return, Dispose, sessionVars
  <2>6. held'[on[c]] = NoSession \/ held' = held
    BY <2>4, <2>5, Types
  <2>7. \A k \in Controllers : held'[k] = held[k] \/ held'[k] = NoSession
    BY <2>5, Types
  <2>8. ControllerInv'
    BY <1>10, <2>1, ExportEnds DEF Step, Parts
  <2>9. ASSUME Sequential
        PROVE  (MainCall(c) /\ FindsKey(c) /\ FindsGame(c) /\ FinalSave(c))'
    <3>1. on[c] = controller /\ held[controller] = request[c].session
      BY <2>1, <2>2, <2>3, <2>9 DEF MainCall, Pending, Waiting
    <3>2. MainCall(c)'
      <4>1. \/ outcome'[c] = "ok" /\ held'[controller] = NoSession
            \/ outcome'[c] = "error" /\ worker'[held'[controller]] = "gone"
        BY <2>4, <2>5, <3>1, Types
      <4> QED
        BY <1>5, <2>3, <2>5, <3>1, <4>1 DEF MainCall, Dead, Pending, Waiting
    <3>3. FindsKey(c)' /\ FindsGame(c)'
      BY <1>5, <2>3, <2>5 DEF FindsKey, FindsGame, BringsSave, Pending, Waiting
    <3>4. FinalSave(c)'
      <4>1. ASSUME outcome'[c] = "ok" PROVE Home(request[c].session)'
        <5>1. saved[saveKeyOf[w]] >= w /\ saved' = saved
          BY <2>5, <4>1 DEF Saves!Acknowledge
        <5>2. payload[w] = [session |-> request[c].session, version |-> battery[request[c].session]]
          BY <2>1, <2>2, <2>9 DEF FinalSave
        <5>3. saveKeyOf[w] = GameOf(request[c].session)
          BY <1>3, <5>2
        <5>4. saved[saveKeyOf[w]] \in Nat /\ w \in Nat /\ w >= 1
          <6>1. saved \in [Games -> Nat] /\ w \in 1..MaxWrites
            BY TypesOfSaves DEF Parts
          <6> QED
            BY <1>3, <6>1
        <5>5. w \in 1..saved'[GameOf(request[c].session)]
          BY <5>1, <5>3, <5>4
        <5> QED
          BY <1>1, <1>5, <2>4, <2>5, <5>2, <5>5 DEF Home, GameOf
      <4> QED
        BY <1>5, <2>3, <2>5, <4>1 DEF FinalSave
    <3> QED
      BY <3>2, <3>3, <3>4
  <2>10. Own(c)'
    <3>1. Position(c)' /\ Owner(c)' /\ (AloneOnCore => OneCoreCall(c)')
      BY <1>5, <2>1, <2>2, <2>3, <2>5 DEF Position, Owner, OneCoreCall
    <3>2. (Sequential' <=> Sequential) /\ (AloneOnCore' <=> AloneOnCore)
      BY <1>5 DEF Sequential, AloneOnCore
    <3> QED
      BY <2>9, <3>1, <3>2 DEF Own
  <2>11. Between({c})
    BY <1>1, <1>5, <1>6, <2>3, <2>5, <2>7 DEF Between, Dead
  <2>12. Sequential => WritesInOrder'
    BY <1>1, <1>4, <1>5, <2>5, <2>7, Types DEF Parts, WritesInOrder, Written
  <2>13. {c} \in SUBSET Calls /\ \A d \in {c} : Own(d)'
    BY <2>1, <2>10
  <2> QED
    BY <1>4, <1>7, <2>8, <2>11, <2>12, <2>13, Stays
<1> QED
  BY <1>8, <1>9, <1>10

-----------------------------------------------------------------------------
(* A thread takes a step: what it answers in time comes from a session     *)
(* that is held, and so from that of the keys.                             *)
LEMMA Threads ==
  ASSUME Parts, Covered, NEW s \in Session, ThreadStep(s)
  PROVE  Parts'
<1>1. /\ Quiet /\ WorkerStep(s) /\ ControllerInv
      /\ UNCHANGED <<controllerVars, hostVars, saveVars>>
  BY DEF ThreadStep, Parts
<1>2. ControllerInv'
  BY <1>1, ThreadSteps
<1>3. /\ UNCHANGED <<op, args, caller, at, result, local, states, activeSaveKey, activeGameId,
                     activePlugin, controller, keyVars, callVars, held, phase, on, outcome>>
      /\ UNCHANGED <<saveIssued, saveKeyOf, saveOutcome, saved, payload, awaited>>
  BY <1>1 DEF hostVars, keyVars, callVars, diskVars, controllerVars, saveVars
<1>4. /\ \A t \in Session \ {s} : worker'[t] = worker[t] /\ battery'[t] = battery[t]
      /\ core' = core
      /\ worker[s] \notin {"none", "gone"}
      /\ worker'[s] = worker[s] \/ worker'[s] \in {"crashed", "gone"}
      /\ battery'[s] >= battery[s]
  BY <1>1, ThreadFrame
<1>5. HostTypeOK' /\ WritesOK' /\ SavesGrow
  BY <1>1, <1>3, TypesStay, WritesStay DEF Parts
<1>6. \A t \in Session : /\ worker'[t] = "none" <=> worker[t] = "none"
                         /\ Dead(t) => Dead(t)'
                         /\ worker[t] = "gone" => worker'[t] = "gone" /\ battery'[t] = battery[t]
                         /\ battery'[t] >= battery[t]
  <2> SUFFICES ASSUME NEW t \in Session
               PROVE  /\ worker'[t] = "none" <=> worker[t] = "none"
                      /\ Dead(t) => Dead(t)'
                      /\ worker[t] = "gone" => worker'[t] = "gone" /\ battery'[t] = battery[t]
                      /\ battery'[t] >= battery[t]
    OBVIOUS
  <2>1. CASE t = s
    BY <1>4, <2>1 DEF Dead
  <2>2. CASE t # s
    <3>1. battery[t] \in Nat
      BY Types, SessionsAssumption
    <3> QED
      BY <1>4, <2>2, <3>1 DEF Dead
  <2> QED
    BY <2>1, <2>2
<1>7. ASSUME Sequential PROVE WritesInOrder'
  <2>1. WritesInOrder /\ WritesOK
    BY <1>7 DEF Parts
  <2>2. \A t \in Session : battery[t] \in Nat /\ battery'[t] \in Nat
    BY <1>2, Types, SessionsAssumption DEF ControllerInv, ControllerTypeOK, SessionsTypeOK
  <2>3. \A w \in Written : payload[w].version \in Nat
    <3>1. payload \in [Saves!Write -> [session : Session \union {NoSession}, version : 0..MaxBattery]]
          /\ Written \subseteq Saves!Write
      BY TypesOfSaves DEF Parts
    <3> QED
      BY <3>1, SessionsAssumption
  <2>4. \A w \in Written : /\ payload[w].session \in Session
                           /\ payload[w].version <= battery'[payload[w].session]
    BY <1>6, <2>1, <2>2, <2>3 DEF WritesOK, WritesInOrder
  <2> QED
    BY <1>3, <2>1, <2>4 DEF WritesInOrder, Written
<1> DEFINE C == {d \in Calls : request'[d] # request[d]}
<1>8. Between(C)
  BY <1>1, <1>3, <1>4, <1>5, <1>6 DEF Between
<1>9. ASSUME NEW d \in C PROVE Own(d)'
  <2>1. d \in Calls /\ request'[d] # request[d] /\ Own(d) /\ RequestOK(d) /\ Position(d)
    BY DEF Parts, ControllerInv, Own
  <2>2. /\ request'[d].session = request[d].session
        /\ request[d].answer = "waiting"
        /\ request'[d].answer # "error" =>
             /\ request[d].session = s /\ Reaches(s) /\ UNCHANGED worker
             /\ \A x \in Calls \ {d} : request'[x] = request[x]
    BY <1>1, <2>1, ThreadAnswers
  <2>3. /\ phase[d] \in Waiting /\ phase[d] \in Pending /\ phase[d] # "persisting"
        /\ phase[d] \notin {"idle", "returned"}
    BY <2>1, <2>2 DEF RequestOK, Pending, Waiting, Answered
  <2>4. result[d] = "none"
    BY <2>1, <2>3, Types DEF Position
  <2>5. Position(d)' /\ Owner(d)' /\ (AloneOnCore => OneCoreCall(d)')
    BY <1>3, <1>6, <2>1 DEF Own, Position, Owner, OneCoreCall, Session
  <2>6. (Sequential' <=> Sequential) /\ (AloneOnCore' <=> AloneOnCore)
    BY <1>3 DEF Sequential, AloneOnCore
  <2>7. ASSUME Sequential
        PROVE  (MainCall(d) /\ FindsKey(d) /\ FindsGame(d) /\ FinalSave(d))'
    <3>1. MainCall(d) /\ FindsGame(d) /\ HostKeys
      BY <2>1, <2>7 DEF Parts, Own
    <3>2. MainCall(d)'
      BY <1>3, <2>2, <2>3, <3>1 DEF MainCall
    <3>3. ASSUME request'[d].answer # "error"
          PROVE  /\ activeSaveKey = GameOf(s)
                 /\ activeGameId = IF Library(s) THEN GameOf(s) ELSE NoGame
                 /\ request[d].session = s
      <4>1. request[d].session = s /\ ~Dead(s) /\ worker[s] \notin {"crashed", "gone"}
        BY <2>2, <3>3 DEF Reaches, Dead
      <4>2. held[on[d]] = s /\ on[d] \in Controllers /\ s # NoSession
        BY <1>1, <2>1, <2>3, <4>1, HeldWhenQuiet, Types DEF RequestOK
      <4> QED
        BY <3>1, <4>1, <4>2 DEF HostKeys
    <3>4. FindsKey(d)'
      BY <1>3, <2>2, <3>3 DEF FindsKey, BringsSave, GameOf
    <3>5. FindsGame(d)'
      <4> SUFFICES ASSUME at[d] = "capturing" PROVE FindsGame(d)'
        BY <1>3, <2>1, <2>3 DEF FindsGame, Position
      <4>1. phase[d] = "asking"
        BY <2>1, <2>3 DEF Position
      <4>2. request[d].session \in Session /\ op[request[d].session] = "launch"
            /\ Library(request[d].session)
        BY <3>1, <4>1 DEF FindsGame
      <4>3. ASSUME Arrived(d)'
            PROVE  /\ activeGameId = GameOf(request[d].session)
                   /\ \A x \in Calls \ {d} : ~Due(x)'
        <5>1. request'[d].answer = "ok"
          BY <1>3, <4>1, <4>3 DEF Arrived
        <5>2. UNCHANGED worker /\ \A x \in Calls \ {d} : request'[x] = request[x]
          BY <2>2, <5>1
        <5>3. \A x \in Calls \ {d} : ~Due(x)'
          BY <1>1, <1>3, <5>2 DEF Quiet, Due, Answered
        <5> QED
          BY <3>3, <4>2, <5>1, <5>3
      <4> QED
        BY <1>3, <2>2, <4>1, <4>2, <4>3 DEF FindsGame, GameOf, Library
    <3>6. FinalSave(d)'
      BY <1>3, <2>3, <2>4 DEF FinalSave
    <3> QED
      BY <3>2, <3>4, <3>5, <3>6
  <2> QED
    BY <2>5, <2>6, <2>7 DEF Own
<1>10. C \in SUBSET Calls
  OBVIOUS
<1> QED
  BY <1>2, <1>5, <1>7, <1>8, <1>9, <1>10, Stays

(* Nothing happens but that time passes, or nothing at all.                *)
LEMMA TimePasses ==
  ASSUME Parts, Covered, Advance \/ UNCHANGED vars
  PROVE  Parts'
<1>1. /\ UNCHANGED <<sessionVars, controllerVars, keyVars, timerVars, callVars, at, result, local,
                     diskVars, saveVars>>
      /\ clock' \in 0..MaxClock
  <2>1. Advance => clock' \in 0..MaxClock
    <3>1. caller.time \in 0..MaxClock /\ clock \in 0..MaxClock /\ MaxClock \in Nat
      BY Types, HostAssumption DEF Caller, Parts, HostTypeOK
    <3> QED
      BY <3>1 DEF Advance
  <2> QED
    BY <2>1 DEF Advance, vars, Parts, HostTypeOK
<1>2. /\ UNCHANGED <<core, worker, battery, request, held, phase, on, outcome>>
      /\ UNCHANGED <<caller, activeSaveKey, activeGameId, activePlugin, controller, autosaveTimer,
                     playtimeTimer, intervals, checkpointAt, op, at, args, result, local, states,
                     playtime, saveIssued, saveKeyOf, saveOutcome, saved, payload, awaited>>
  BY <1>1 DEF sessionVars, controllerVars, keyVars, timerVars, callVars, diskVars, saveVars
<1>3. ControllerInv'
  BY <1>1, Stutters DEF Step, Parts
<1>4. HostTypeOK'
  BY <1>1, <1>2 DEF Parts, HostTypeOK, Saves!TypeOK
<1>5. WritesOK'
  BY <1>1, <1>2, WritesStay
<1>6. (Sequential' <=> Sequential) /\ (AloneOnCore' <=> AloneOnCore)
  BY <1>2 DEF Sequential, AloneOnCore
<1>7. \A d \in Calls : Due(d)' <=> Due(d)
  BY <1>2 DEF Due, Answered
<1>8. ASSUME NEW d \in Calls PROVE Own(d)'
  <2>1. Position(d)' /\ Owner(d)' /\ (AloneOnCore => OneCoreCall(d)')
    BY <1>2 DEF Parts, Own, Position, Owner, OneCoreCall
  <2>2. Sequential => (MainCall(d) /\ FindsKey(d) /\ FindsGame(d) /\ FinalSave(d))'
    <3>1. MainCall(d) => MainCall(d)'
      BY <1>2 DEF MainCall, Dead
    <3>2. FindsKey(d) => FindsKey(d)'
      BY <1>2 DEF FindsKey, BringsSave, GameOf
    <3>3. FindsGame(d) => FindsGame(d)'
      BY <1>2, <1>7 DEF FindsGame, Arrived, GameOf, Library
    <3>4. FinalSave(d) => FinalSave(d)'
      BY <1>2 DEF FinalSave, Written, Home, GameOf
    <3> QED
      BY <3>1, <3>2, <3>3, <3>4 DEF Parts, Own
  <2> QED
    BY <1>6, <2>1, <2>2 DEF Own
<1>9. \A d \in Calls : Made(d)'
  BY <1>2 DEF Parts, Made
<1>10. Sequential => (InOrder /\ HostKeys /\ StoredStates /\ WritesInOrder)'
  BY <1>2 DEF Parts, InOrder, Main, Runs, HostKeys, Dead, GameOf, Library, StoredStates,
     WritesInOrder, Written
<1>11. AloneOnCore => (Refusal /\ OneCore)'
  <2>1. (Refusal => Refusal') /\ (OneCore => OneCore')
    BY <1>2, <1>7 DEF Refusal, RefusedNow, GameOf, OneCore, Runs, IsMgba
  <2> QED
    BY <2>1 DEF Parts
<1> QED
  BY <1>3, <1>4, <1>5, <1>6, <1>8, <1>9, <1>10, <1>11 DEF Parts

-----------------------------------------------------------------------------
(* The turns of the host.                                                  *)

Timers ==
  /\ autosaveTimer \in Calls \union {0} /\ playtimeTimer \in Calls \union {0}
  /\ intervals \subseteq Ticks \X Calls
  /\ checkpointAt \in 0..NoCheckpoint

Local == [gameId : Games \union {NoGame}, now : 0..MaxClock, elapsed : 0..MaxClock]

(* A call begins, or goes on, and the disk and the timers are what they    *)
(* may be.                                                                 *)
Base(c) ==
  /\ \/ Runs(c) /\ UNCHANGED callVars
     \/ \E kind \in Operations, a \in Args \union {NoArgs} :
          /\ Begin(c, kind, a)
          /\ kind = "launch" =>
               a \in Args /\ a.game \in caller.games /\ a.mode \in caller.modes
  /\ Quiet \/ phase[c] = "returned"
  /\ phase[c] \in {"idle", "returned"}
  /\ Timers'
  /\ states' \in [Slots \X (Games \union {NoGame}) -> Session \union {NoSession}]
  /\ Sequential => StoredStates'
  /\ playtime' \in [Games -> Nat]
  /\ UNCHANGED <<clock, saveVars>>

LEMMA BaseTurns ==
  ASSUME Parts, NEW c \in Calls, NEW p \in Await \ {"none"}, Base(c),
         at' = [at EXCEPT ![c] = p], Keys(c), Fits(c, p),
         local' = local \/ \E r \in Local : local' = [local EXCEPT ![c] = r],
         result' = result \/ \E r \in {"none", "ok", "error"} : result' = [result EXCEPT ![c] = r],
         AloneOnCore => ~RefusedNow(c) \/ activeSaveKey' = NoGame
  PROVE  Turns(c, p)
<1>1. Turn(c, p)
  BY DEF Base, Turn
<1>2. HostTypeOK
  BY DEF Parts
<1>3. local \in [Calls -> Local] /\ result \in [Calls -> {"none", "ok", "error"}]
      /\ at \in [Calls -> Await] /\ op \in [Calls -> Operations \union {"none"}]
      /\ args \in [Calls -> Args \union {NoArgs}]
  BY <1>2 DEF HostTypeOK, Local
<1>4. \A d \in Calls \ {c} : result'[d] = result[d] /\ local'[d] = local[d]
  BY <1>3
<1>5. HostTypeOK'
  <2>1. /\ local' \in [Calls -> Local] /\ result' \in [Calls -> {"none", "ok", "error"}]
        /\ at' \in [Calls -> Await]
    BY <1>3
  <2>2. /\ op' \in [Calls -> Operations \union {"none"}]
        /\ args' \in [Calls -> Args \union {NoArgs}] /\ caller' = caller
    <3>1. CASE UNCHANGED callVars
      BY <1>3, <3>1 DEF callVars
    <3>2. ASSUME NEW kind \in Operations, NEW a \in Args \union {NoArgs}, Begin(c, kind, a)
          PROVE  /\ op' \in [Calls -> Operations \union {"none"}]
                 /\ args' \in [Calls -> Args \union {NoArgs}] /\ caller' = caller
      BY <1>3, <3>2 DEF Begin
    <3> QED
      BY <1>1, <3>1, <3>2 DEF Turn
  <2>3. /\ activeSaveKey' \in Games \union {NoGame} /\ activeGameId' \in {activeSaveKey', NoGame}
        /\ activePlugin' \in Cores \union {NoCore} /\ controller' \in Controllers
    BY <1>2, Types, HostAssumption DEF Keys, KeysGo, KeysNew, keyVars, HostTypeOK
  <2>4. UNCHANGED <<saveIssued, saveKeyOf, saveOutcome, saved, payload, awaited, clock>>
        /\ Timers' /\ playtime' \in [Games -> Nat]
        /\ states' \in [Slots \X (Games \union {NoGame}) -> Session \union {NoSession}]
    BY DEF Base, saveVars
  <2>5. Saves!TypeOK'
    BY <1>2, <2>4 DEF HostTypeOK, Saves!TypeOK
  <2>6. Timers' = (/\ autosaveTimer' \in Calls \union {0} /\ playtimeTimer' \in Calls \union {0}
                   /\ intervals' \subseteq Ticks \X Calls
                   /\ checkpointAt' \in 0..NoCheckpoint)
    BY DEF Timers, NoCheckpoint
  <2> QED
    BY <1>2, <2>1, <2>2, <2>3, <2>4, <2>5, <2>6 DEF HostTypeOK, Local
<1> QED
  BY <1>1, <1>4, <1>5 DEF Turns, Base

(* What a call that began, or runs, says of the operation it is. *)
LEMMA BaseFrame ==
  ASSUME Parts, NEW c \in Calls, Base(c)
  PROVE  /\ Runs(c) => op'[c] = op[c] /\ args'[c] = args[c]
         /\ ~Runs(c) => at[c] = "none"
         /\ at[c] # "done"
         /\ ~Runs(c) /\ op'[c] = "launch" =>
              args'[c] \in Args /\ args'[c].game \in caller.games /\ args'[c].mode \in caller.modes
BY Types DEF Base, Runs, Begin, callVars

LEMMA OnToCapture ==
  ASSUME Parts, Covered, NEW c \in Calls, Base(c), Capture(c), UNCHANGED keyVars,
         at[c] = "none", activeGameId # NoGame,
         op'[c] \in {"stop", "launch", "capture", "autosave"},
         AloneOnCore => op'[c] # "launch"
  PROVE  Parts'
<1>1. Fits(c, "capturing")
  BY BaseFrame DEF Fits, Controlling
<1>2. Turns(c, "capturing")
  BY <1>1, BaseTurns DEF Capture, GoTo, Keys, Await, RefusedNow
<1> QED
  BY <1>2, TurnsToAsk DEF Capture, GoTo

LEMMA OnToCount ==
  ASSUME Parts, Covered, NEW c \in Calls, Base(c), CountPlaytime(c), MayCount,
         UNCHANGED keyVars, at[c] \notin Controlling,
         op'[c] \in {"stop", "launch", "checkpoint"}, AloneOnCore => op'[c] # "launch"
  PROVE  Parts'
<1>1. Fits(c, "counting")
  BY BaseFrame DEF Fits, Controlling
<1>2. [gameId |-> activeGameId, now |-> clock, elapsed |-> clock - checkpointAt] \in Local
  BY HostAssumption DEF Parts, HostTypeOK, NoCheckpoint, MayCount, Local
<1>3. Turns(c, "counting")
  BY <1>1, <1>2, BaseTurns DEF CountPlaytime, GoTo, Keys, Await, RefusedNow, Controlling
<1> QED
  BY <1>3, TurnsAside DEF CountPlaytime, GoTo, LeaveController

LEMMA OnToEnd ==
  ASSUME Parts, Covered, NEW c \in Calls, NEW p \in {"ending", "undoing"}, Base(c),
         EndSession(c, p), UNCHANGED keyVars,
         p = "ending" => at[c] \notin Controlling /\ op'[c] \in {"stop", "launch"},
         p = "undoing" => Runs(c) /\ op'[c] = "launch" /\ at[c] = "restoring",
         AloneOnCore => op'[c] # "launch"
  PROVE  Parts'
<1>1. Fits(c, p)
  BY BaseFrame DEF Fits, Controlling
<1>2. Turns(c, p)
  BY <1>1, BaseTurns DEF EndSession, GoTo, Keys, Await, RefusedNow, Controlling
<1> QED
  BY <1>2, TurnsToEnd DEF EndSession, GoTo

LEMMA OnToCountAndEnd ==
  ASSUME Parts, Covered, NEW c \in Calls, Base(c), CountAndEnd(c), UNCHANGED keyVars,
         at[c] \notin Controlling, op'[c] \in {"stop", "launch"},
         AloneOnCore => op'[c] # "launch"
  PROVE  Parts'
BY OnToCount, OnToEnd DEF CountAndEnd

LEMMA OnToStop ==
  ASSUME Parts, Covered, NEW c \in Calls, Base(c), StopCleanly(c), UNCHANGED keyVars,
         at[c] = "none", op'[c] \in {"stop", "launch"}, AloneOnCore => op'[c] # "launch"
  PROVE  Parts'
BY OnToCapture, OnToCountAndEnd DEF StopCleanly, Controlling

LEMMA OnToSettle ==
  ASSUME Parts, Covered, NEW c \in Calls, Base(c), NEW how \in {"none", "ok", "error"},
         Settle(c, how),
         Runs(c), UNCHANGED keyVars \/ KeysGo(c),
         AloneOnCore => ~RefusedNow(c) \/ activeSaveKey' = NoGame,
         op[c] = "stop" /\ how = "ok" => phase[c] = "returned" /\ outcome[c] = "ok"
  PROVE  Parts'
<1>1. Fits(c, "done")
  BY DEF Fits, Controlling
<1>2. Turns(c, "done")
  BY <1>1, BaseTurns DEF Settle, Keys, Await
<1>3. op'[c] = op[c] /\ result'[c] = how
  BY BaseFrame, Types DEF Settle
<1> QED
  BY <1>2, <1>3, TurnsAside DEF Settle, LeaveController

(* A new controller: the host had no session, or has none any more.        *)
LEMMA OnToNewController ==
  ASSUME Parts, Covered, NEW c \in Calls, Base(c), NewController(c), op'[c] = "launch",
         activeSaveKey' = NoGame, activeGameId' = NoGame,
         at[c] \in {"none", "ending"}, at[c] = "none" => ~Runs(c),
         Sequential => NothingLeft,
         AloneOnCore => at[c] = "none" /\ activePlugin # CoreOf[args'[c].game]
  PROVE  Parts'
<1>1. args'[c].game \in caller.games \intersect Games
  <2>1. Runs(c) => op[c] = "launch" /\ args'[c] = args[c] /\ Position(c)
    BY BaseFrame DEF Parts, Own
  <2>2. args'[c] \in Args /\ args'[c].game \in caller.games
    BY <2>1, BaseFrame DEF Position
  <2> QED
    BY <2>2 DEF Args
<1>2. KeysNew(c)
  BY <1>1, Types DEF KeysNew, NewController, GoTo
<1>3. Fits(c, "reading")
  BY BaseFrame DEF Fits, NewController, Controlling
<1>4. Turns(c, "reading")
  BY <1>2, <1>3, BaseTurns DEF NewController, GoTo, Keys, Await, RefusedNow
<1> QED
  BY <1>2, <1>4, TurnsAside DEF NewController, GoTo, LeaveController

LEMMA TimersStay ==
  ASSUME Parts, UNCHANGED timerVars \/ ClearTimers
  PROVE  Timers'
<1>1. Timers
  BY DEF Parts, HostTypeOK, Timers
<1> QED
  BY <1>1 DEF timerVars, ClearTimers, Timers, NoCheckpoint

LEMMA StatesStay ==
  ASSUME Parts, NEW c \in Calls, UNCHANGED states,
         \/ Runs(c) /\ UNCHANGED callVars
         \/ \E kind \in Operations, a \in Args \union {NoArgs} : Begin(c, kind, a)
  PROVE  /\ states' \in [Slots \X (Games \union {NoGame}) -> Session \union {NoSession}]
         /\ Sequential => StoredStates'
         /\ \A s \in Session : op[s] = "launch" => op'[s] = "launch" /\ args'[s] = args[s]
<1>1. states \in [Slots \X (Games \union {NoGame}) -> Session \union {NoSession}]
  BY DEF Parts, HostTypeOK
<1>2. \A s \in Session : op[s] = "launch" => op'[s] = "launch" /\ args'[s] = args[s]
  <2>1. CASE UNCHANGED callVars
    BY <2>1 DEF callVars
  <2>2. ASSUME NEW kind \in Operations, NEW a \in Args \union {NoArgs}, Begin(c, kind, a)
        PROVE  \A s \in Session : op[s] = "launch" => op'[s] = "launch" /\ args'[s] = args[s]
    <3>1. op[c] # "launch"
      BY <2>2 DEF Begin, Parts, Own, Position
    <3> QED
      BY <2>2, <3>1, Types DEF Begin
  <2> QED
    BY <2>1, <2>2
<1>3. ASSUME Sequential PROVE StoredStates'
  BY <1>1, <1>2, <1>3 DEF Parts, StoredStates, GameOf
<1> QED
  BY <1>1, <1>2, <1>3

LEMMA BaseBegins ==
  ASSUME Parts, NEW c \in Calls, NEW kind \in Operations, NEW a \in Args \union {NoArgs},
         Begin(c, kind, a),
         kind = "launch" => a \in Args /\ a.game \in caller.games /\ a.mode \in caller.modes,
         UNCHANGED timerVars \/ ClearTimers, UNCHANGED <<clock, diskVars, saveVars>>
  PROVE  /\ Base(c) /\ op'[c] = kind /\ args'[c] = a
         /\ at[c] = "none" /\ ~Runs(c) /\ phase[c] = "idle"
<1>1. at[c] = "none" /\ Quiet /\ op'[c] = kind /\ args'[c] = a
  BY Types DEF Begin
<1>2. phase[c] = "idle"
  BY <1>1 DEF Parts, Own, Position
<1>3. UNCHANGED <<states, playtime>> /\ playtime \in [Games -> Nat]
  BY DEF diskVars, Parts, HostTypeOK
<1>4. /\ states' \in [Slots \X (Games \union {NoGame}) -> Session \union {NoSession}]
      /\ Sequential => StoredStates'
  BY <1>3, StatesStay
<1> QED
  BY <1>1, <1>2, <1>3, <1>4, TimersStay DEF Base, Runs

LEMMA CallBegins ==
  ASSUME Parts, Covered, NEW c \in Calls, Call(c)
  PROVE  Parts'
<1>1. caller.games \subseteq Games /\ caller.modes \subseteq Modes
  BY Types, HostAssumption DEF Caller
<1>2. NoArgs \in Args \union {NoArgs}
  OBVIOUS
<1>3. \A kind \in Operations : kind # "launch" => (kind = "launch" =>
        NoArgs \in Args /\ NoArgs.game \in caller.games /\ NoArgs.mode \in caller.modes)
  OBVIOUS
<1>4. /\ "stop" \in Operations /\ "launch" \in Operations /\ "pause" \in Operations
      /\ "resume" \in Operations /\ "capture" \in Operations /\ "autosave" \in Operations
      /\ "restore" \in Operations /\ "checkpoint" \in Operations
  BY DEF Operations, Ticks
<1>5. CASE BeginStop(c)
  <2>1. Base(c) /\ op'[c] = "stop" /\ at[c] = "none"
    BY <1>2, <1>4, <1>5, BaseBegins DEF BeginStop
  <2> QED
    BY <1>5, <2>1, OnToStop DEF BeginStop
<1>6. ASSUME NEW g \in caller.games, NEW m \in caller.modes,
             BeginLaunch(c, [game |-> g, mode |-> m])
      PROVE  Parts'
  <2> DEFINE a == [game |-> g, mode |-> m]
  <2>1. a \in Args /\ a.game = g /\ a.mode = m
    BY <1>1 DEF Args
  <2>2. /\ Base(c) /\ op'[c] = "launch" /\ args'[c] = a /\ at[c] = "none" /\ ~Runs(c)
        /\ phase[c] = "idle"
    BY <1>4, <1>6, <2>1, BaseBegins DEF BeginLaunch
  <2> HIDE DEF a
  <2>3. CASE activePlugin = CoreOf[g]
    <3>1. /\ at' = [at EXCEPT ![c] = "reading"]
          /\ UNCHANGED <<sessionVars, controllerVars, local, keyVars, result>>
          /\ caller.relaunch \/ held[controller] = NoSession
      BY <1>6, <2>3 DEF BeginLaunch, GoTo
    <3>2. Fits(c, "reading")
      BY <2>1, <2>2, <2>3, <3>1 DEF Fits, keyVars, Controlling
    <3>3. Turns(c, "reading")
      BY <2>2, <3>1, <3>2, BaseTurns DEF Keys, Await, RefusedNow
    <3>4. phase' = [phase EXCEPT ![c] = "idle"]
      BY <2>2, <3>1, Types DEF controllerVars
    <3> QED
      BY <3>1, <3>3, <3>4, TurnsAside DEF controllerVars, Sequential
  <2>4. CASE activePlugin # CoreOf[g] /\ activeSaveKey = NoGame
    <3>1. NewController(c) /\ UNCHANGED <<activeSaveKey, activeGameId>>
      BY <1>6, <2>4 DEF BeginLaunch
    <3>2. activeGameId = NoGame
      BY <2>4 DEF Parts, HostTypeOK
    <3>3. Sequential => NothingLeft
      <4>1. \A s \in Session : op[s] = "launch" => GameOf(s) # NoGame
        BY GameOfLaunch
      <4> QED
        BY <2>4, <4>1, SessionsOfLaunches, Types DEF Parts, HostKeys, NothingLeft
    <3> QED
      BY <2>1, <2>2, <2>4, <3>1, <3>2, <3>3, OnToNewController
  <2>5. CASE activePlugin # CoreOf[g] /\ activeSaveKey # NoGame
    <3>1. ClearTimers /\ StopCleanly(c) /\ UNCHANGED keyVars
      BY <1>6, <2>5 DEF BeginLaunch
    <3>2. ~AloneOnCore
      BY <2>5 DEF Parts, OneCore
    <3> QED
      BY <2>2, <3>1, <3>2, OnToStop
  <2> QED
    BY <2>3, <2>4, <2>5
<1>7. ASSUME NEW kind \in {"pause", "resume"}, BeginPauseOrResume(c, kind) PROVE Parts'
  <2>1. Base(c) /\ op'[c] = kind /\ at[c] = "none" /\ ~Runs(c)
    BY <1>2, <1>4, <1>7, BaseBegins DEF BeginPauseOrResume
  <2>2. Fits(c, "asking")
    BY <2>1 DEF Fits, Controlling
  <2>3. Turns(c, "asking")
    BY <1>7, <2>1, <2>2, BaseTurns DEF BeginPauseOrResume, GoTo, Keys, Await, RefusedNow
  <2> QED
    BY <1>7, <2>3, TurnsToAsk DEF BeginPauseOrResume, GoTo
<1>8. CASE BeginCapture(c)
  <2>1. Base(c) /\ op'[c] \in {"capture", "autosave"} /\ at[c] = "none"
    BY <1>2, <1>4, <1>8, BaseBegins DEF BeginCapture
  <2> QED
    BY <1>8, <2>1, OnToCapture DEF BeginCapture
<1>9. CASE BeginRestore(c)
  <2>1. Base(c) /\ op'[c] = "restore" /\ at[c] = "none" /\ ~Runs(c) /\ phase[c] = "idle"
    BY <1>2, <1>4, <1>9, BaseBegins DEF BeginRestore, timerVars
  <2>2. /\ at' = [at EXCEPT ![c] = "reading"]
        /\ UNCHANGED <<sessionVars, controllerVars, keyVars, result>>
        /\ local' = [local EXCEPT ![c] = [local[c] EXCEPT !.gameId = activeGameId]]
        /\ [local[c] EXCEPT !.gameId = activeGameId] \in Local
    <3>1. local \in [Calls -> Local] /\ activeGameId \in Games \union {NoGame}
      BY DEF Parts, HostTypeOK, Local
    <3>2. local[c] \in Local
      BY <3>1
    <3> QED
      BY <1>9, <3>1, <3>2 DEF BeginRestore, GoTo, Local
  <2>3. Fits(c, "reading")
    BY <2>1 DEF Fits, Controlling
  <2>4. Turns(c, "reading")
    BY <2>1, <2>2, <2>3, BaseTurns DEF Keys, Await, RefusedNow
  <2>5. phase' = [phase EXCEPT ![c] = "idle"]
    BY <2>1, <2>2, Types DEF controllerVars
  <2> QED
    BY <2>1, <2>2, <2>4, <2>5, TurnsAside DEF controllerVars
<1>10. CASE BeginCheckpoint(c)
  <2>1. Base(c) /\ op'[c] = "checkpoint" /\ at[c] = "none"
    BY <1>2, <1>4, <1>10, BaseBegins DEF BeginCheckpoint
  <2> QED
    BY <1>10, <2>1, OnToCount DEF BeginCheckpoint, Controlling
<1> QED
  BY <1>5, <1>6, <1>7, <1>8, <1>9, <1>10 DEF Call

(* A call that is at an await goes on.                                     *)
LEMMA BaseGoesOn ==
  ASSUME Parts, NEW c \in Calls, Runs(c), UNCHANGED <<callVars, clock, saveVars>>,
         (Quiet /\ at[c] \in {"storing", "counting", "reading"}) \/ phase[c] = "returned",
         Timers',
         states' \in [Slots \X (Games \union {NoGame}) -> Session \union {NoSession}],
         Sequential => StoredStates',
         playtime' \in [Games -> Nat]
  PROVE  Base(c) /\ op'[c] = op[c] /\ phase[c] \in {"idle", "returned"}
<1>1. phase[c] \in {"idle", "returned"}
  BY DEF Parts, Own, Position
<1> QED
  BY <1>1 DEF Base, callVars

LEMMA BaseFollows ==
  ASSUME Parts, NEW c \in Calls, Runs(c), UNCHANGED <<callVars, clock, saveVars, diskVars>>,
         (Quiet /\ at[c] \in {"storing", "counting", "reading"}) \/ phase[c] = "returned",
         Timers'
  PROVE  Base(c) /\ op'[c] = op[c] /\ phase[c] \in {"idle", "returned"}
<1>1. UNCHANGED <<states, playtime>> /\ playtime \in [Games -> Nat]
  BY DEF diskVars, Parts, HostTypeOK
<1> QED
  BY <1>1, StatesStay, BaseGoesOn

LEMMA ArmTimers ==
  ASSUME Parts, NEW c \in Calls, Arm(c), UNCHANGED clock
  PROVE  Timers'
<1>1. Timers /\ clock \in 0..NoCheckpoint
  BY HostAssumption DEF Parts, HostTypeOK, Timers, NoCheckpoint
<1>2. intervals' \subseteq Ticks \X Calls
  BY <1>1 DEF Arm, Timers, Ticks
<1> QED
  BY <1>1, <1>2 DEF Arm, Timers, NoCheckpoint

LEMMA StateArrives ==
  ASSUME Parts, Covered, NEW c \in Calls, Captured(c)
  PROVE  Parts'
<1>1. at[c] = "capturing" /\ phase[c] = "returned" /\ Runs(c) /\ at[c] \notin Controlling
      /\ UNCHANGED <<keyVars, timerVars, clock, callVars, diskVars, saveVars>>
  BY DEF Captured, Runs, Controlling
<1>2. Base(c) /\ op'[c] = op[c]
  BY <1>1, BaseFollows, TimersStay
<1>3. op[c] \in {"stop", "launch", "capture", "autosave"} /\ (AloneOnCore => op[c] # "launch")
  BY <1>1 DEF Parts, Own, Position, OneCoreCall
<1>4. CASE outcome[c] = "ok" /\ local' = [local EXCEPT ![c].gameId = activeGameId]
           /\ GoTo(c, "storing") /\ LeaveController(c)
  <2>1. /\ local' = [local EXCEPT ![c] = [local[c] EXCEPT !.gameId = activeGameId]]
        /\ [local[c] EXCEPT !.gameId = activeGameId] \in Local
        /\ local'[c].gameId = activeGameId
    <3>1. local \in [Calls -> Local] /\ activeGameId \in Games \union {NoGame}
      BY DEF Parts, HostTypeOK, Local
    <3>2. local[c] \in Local
      BY <3>1
    <3> QED
      BY <1>4, <3>1, <3>2 DEF Local
  <2>2. Fits(c, "storing")
    BY <1>1, <1>2, <1>3 DEF Fits, Controlling
  <2>3. Turns(c, "storing")
    BY <1>1, <1>2, <1>4, <2>1, <2>2, BaseTurns DEF GoTo, Keys, Await, RefusedNow
  <2> QED
    BY <1>1, <1>4, <2>1, <2>3, TurnsAside DEF GoTo, LeaveController
<1>5. CASE op[c] \in {"stop", "launch"} /\ CountAndEnd(c)
  BY <1>1, <1>2, <1>3, <1>5, OnToCountAndEnd
<1>6. CASE op[c] \notin {"stop", "launch"} /\ Settle(c, "error")
  BY <1>1, <1>2, <1>6, OnToSettle DEF RefusedNow
<1> QED
  BY <1>4, <1>5, <1>6 DEF Captured

LEMMA StateIsStored ==
  ASSUME Parts, Covered, NEW c \in Calls, Stored(c)
  PROVE  Parts'
<1>1. at[c] = "storing" /\ Quiet /\ Runs(c) /\ at[c] \notin Controlling
      /\ UNCHANGED <<keyVars, timerVars, clock, callVars, playtime, saveVars>>
  BY DEF Stored, Runs, Controlling
<1>2. PICK how \in {"ok", "error"} : AfterStore(c, how)
  BY DEF Stored
<1>3. /\ states' \in [Slots \X (Games \union {NoGame}) -> Session \union {NoSession}]
      /\ Sequential => StoredStates'
      /\ playtime' \in [Games -> Nat]
  <2>1. /\ states \in [Slots \X (Games \union {NoGame}) -> Session \union {NoSession}]
        /\ playtime' \in [Games -> Nat]
    BY <1>1 DEF Parts, HostTypeOK
  <2>2. CASE UNCHANGED states
    BY <1>1, <2>1, <2>2, StatesStay
  <2>3. CASE states' = [states EXCEPT ![<<SlotOf(c), local[c].gameId>>] = request[c].session]
    <3>1. request[c].session \in Session \union {NoSession}
      BY Types DEF Request, NoRequest
    <3>2. states' \in [Slots \X (Games \union {NoGame}) -> Session \union {NoSession}]
      BY <2>1, <2>3, <3>1
    <3>3. ASSUME Sequential PROVE StoredStates'
      <4>1. StoredStates /\ request[c].session \in Session /\ op[request[c].session] = "launch"
            /\ local[c].gameId = GameOf(request[c].session)
        BY <1>1, <3>3 DEF Parts, Own, FindsGame
      <4>2. \A x \in DOMAIN states :
              \/ states'[x] = states[x]
              \/ states'[x] = request[c].session /\ x[2] = local[c].gameId
        <5> DEFINE y == <<SlotOf(c), local[c].gameId>>
        <5>1. y[2] = local[c].gameId
          OBVIOUS
        <5>2. states' = [states EXCEPT ![y] = request[c].session]
          BY <2>3
        <5> HIDE DEF y
        <5> QED
          BY <2>1, <5>1, <5>2
      <4>3. DOMAIN states' = DOMAIN states /\ UNCHANGED <<op, args>>
        BY <1>1, <2>3 DEF callVars
      <4> QED
        BY <4>1, <4>2, <4>3 DEF StoredStates, GameOf
    <3> QED
      BY <2>1, <3>2, <3>3
  <2> QED
    BY <2>2, <2>3 DEF Stored
<1>4. Base(c) /\ op'[c] = op[c]
  BY <1>1, <1>3, BaseGoesOn, TimersStay
<1>5. AloneOnCore => op[c] # "launch"
  BY <1>1 DEF Parts, Own, OneCoreCall
<1>6. CASE op[c] \in {"stop", "launch"}
  BY <1>1, <1>2, <1>4, <1>5, <1>6, OnToCountAndEnd DEF AfterStore
<1>7. CASE op[c] \notin {"stop", "launch"}
  BY <1>1, <1>2, <1>4, <1>7, OnToSettle DEF AfterStore, RefusedNow
<1> QED
  BY <1>6, <1>7

LEMMA TimeIsCounted ==
  ASSUME Parts, Covered, NEW c \in Calls, Counted(c)
  PROVE  Parts'
<1>1. at[c] = "counting" /\ Quiet /\ Runs(c) /\ at[c] \notin Controlling
      /\ UNCHANGED <<keyVars, autosaveTimer, playtimeTimer, intervals, clock, callVars, states, saveVars>>
  BY DEF Counted, Runs, Controlling
<1>2. local[c].elapsed \in 0..MaxClock /\ local[c].now \in 0..MaxClock
  <2>1. local \in [Calls -> Local]
    BY DEF Parts, HostTypeOK, Local
  <2> QED
    BY <2>1 DEF Local
<1>3. Timers' /\ playtime' \in [Games -> Nat]
  <2>1. Timers /\ playtime \in [Games -> Nat] /\ MaxClock \in Nat
    BY HostAssumption DEF Parts, HostTypeOK, Timers
  <2>2. playtime' \in [Games -> Nat]
    <3>1. \A g \in Games : playtime[g] + local[c].elapsed \in Nat
      BY <1>2, <2>1
    <3> QED
      BY <2>1, <3>1 DEF Counted
  <2>3. checkpointAt' \in 0..NoCheckpoint
    BY <1>2, <2>1 DEF Counted, Timers, NoCheckpoint
  <2> QED
    BY <1>1, <2>1, <2>2, <2>3 DEF Timers, NoCheckpoint
<1>4. Base(c) /\ op'[c] = op[c]
  BY <1>1, <1>3, StatesStay, BaseGoesOn
<1>5. op[c] \in {"stop", "launch", "checkpoint"} /\ (AloneOnCore => op[c] # "launch")
  BY <1>1 DEF Parts, Own, Position, OneCoreCall
<1>6. CASE op[c] = "checkpoint"
  BY <1>1, <1>4, <1>6, OnToSettle DEF Counted, RefusedNow
<1>7. CASE op[c] # "checkpoint"
  BY <1>1, <1>4, <1>5, <1>7, OnToEnd DEF Counted
<1> QED
  BY <1>6, <1>7

LEMMA SessionEnded ==
  ASSUME Parts, Covered, NEW c \in Calls, Ended(c)
  PROVE  Parts'
<1>1. at[c] = "ending" /\ phase[c] = "returned" /\ Runs(c)
      /\ UNCHANGED <<autosaveTimer, playtimeTimer, intervals, clock, callVars, diskVars, saveVars>>
  BY DEF Ended, Runs
<1>2. Timers'
  <2>1. Timers /\ NoCheckpoint \in 0..NoCheckpoint
    BY HostAssumption DEF Parts, HostTypeOK, Timers, NoCheckpoint
  <2>2. checkpointAt' \in {checkpointAt, NoCheckpoint}
    BY DEF Ended
  <2> QED
    BY <1>1, <2>1, <2>2 DEF Timers, NoCheckpoint
<1>3. Base(c) /\ op'[c] = op[c]
  BY <1>1, <1>2, BaseFollows
<1>4. op[c] \in {"stop", "launch"} /\ (AloneOnCore => op[c] # "launch") /\ Main(c)
  BY <1>1 DEF Parts, Own, Position, OneCoreCall, Main, Ticks
<1>5. CASE outcome[c] = "error" /\ Settle(c, "error") /\ UNCHANGED keyVars
  BY <1>1, <1>3, <1>5, OnToSettle DEF RefusedNow
<1>6. ASSUME outcome[c] = "ok", activeSaveKey' = NoGame, activeGameId' = NoGame
      PROVE  Sequential => NothingLeft
  BY <1>1, <1>6 DEF Parts, Own, MainCall, NothingLeft
<1>7. CASE outcome[c] = "ok" /\ activeSaveKey' = NoGame /\ activeGameId' = NoGame
           /\ op[c] = "launch" /\ NewController(c)
  BY <1>1, <1>3, <1>4, <1>6, <1>7, OnToNewController
<1>8. CASE outcome[c] = "ok" /\ activeSaveKey' = NoGame /\ activeGameId' = NoGame
           /\ Settle(c, "ok") /\ UNCHANGED <<activePlugin, controller>>
  BY <1>1, <1>3, <1>4, <1>6, <1>8, OnToSettle DEF KeysGo
<1> QED
  BY <1>5, <1>7, <1>8 DEF Ended, keyVars

(* The turns of a launch after its save was read. *)
LEMMA LaunchTypes ==
  ASSUME Parts, NEW c \in Calls, ReadSave(c), at' = [at EXCEPT ![c] = "launching"],
         SetKeys(args[c].game, IF Library(c) THEN args[c].game ELSE NoGame),
         UNCHANGED <<result, local, timerVars>>
  PROVE  HostTypeOK'
<1>1. at[c] = "reading" /\ op[c] = "launch"
      /\ UNCHANGED <<clock, callVars, diskVars, saveVars>>
  BY DEF ReadSave
<1>2. args[c].game \in Games
  BY <1>1 DEF Parts, Own, Position, Args
<1>3. UNCHANGED <<caller, activePlugin, controller, autosaveTimer, playtimeTimer, intervals,
                  checkpointAt, clock, op, args, result, local, states, playtime, saveIssued,
                  saveKeyOf, saveOutcome, saved, payload, awaited>>
      /\ activeSaveKey' \in Games /\ activeGameId' \in {activeSaveKey', NoGame}
  BY <1>1, <1>2 DEF SetKeys, timerVars, callVars, diskVars, saveVars
<1>4. HostTypeOK /\ at' \in [Calls -> Await]
  <2>1. HostTypeOK /\ at \in [Calls -> Await]
    BY DEF Parts, HostTypeOK
  <2>2. at' \in [Calls -> Await]
    BY <2>1 DEF Await
  <2> QED
    BY <2>1, <2>2
<1>5. Saves!TypeOK'
  BY <1>3, <1>4 DEF HostTypeOK, Saves!TypeOK
<1> QED
  BY <1>3, <1>4, <1>5 DEF HostTypeOK

LEMMA SaveIsRead ==
  ASSUME Parts, Covered, NEW c \in Calls, ReadSave(c)
  PROVE  Parts'
<1>1. at[c] = "reading" /\ op[c] = "launch" /\ Quiet /\ Runs(c) /\ Main(c)
      /\ UNCHANGED <<clock, callVars, diskVars, saveVars>>
  BY DEF ReadSave, Runs, Main, Ticks
<1>2. CASE /\ SetKeys(args[c].game, IF Library(c) THEN args[c].game ELSE NoGame)
           /\ Launch(c, controller, activePlugin)
           /\ GoTo(c, "launching")
           /\ UNCHANGED <<local, timerVars>>
  <2>1. at' = [at EXCEPT ![c] = "launching"] /\ UNCHANGED <<result, states>>
    BY <1>1, <1>2 DEF GoTo, diskVars
  <2>2. HostTypeOK'
    BY <1>2, <2>1, LaunchTypes
  <2> QED
    BY <1>1, <1>2, <2>1, <2>2, TurnsToLaunch
<1>3. CASE ClearTimers /\ SetKeys(NoGame, NoGame) /\ Settle(c, "error")
  <2>1. Base(c)
    BY <1>1, <1>3, BaseFollows, TimersStay
  <2>2. Sequential => NothingLeft
    BY <1>1 DEF Parts, Own, MainCall, NothingLeft
  <2> QED
    BY <1>1, <1>3, <2>1, <2>2, OnToSettle DEF KeysGo, SetKeys
<1> QED
  BY <1>2, <1>3 DEF ReadSave

LEMMA StateIsRead ==
  ASSUME Parts, Covered, NEW c \in Calls, ReadState(c)
  PROVE  Parts'
<1>1. at[c] = "reading" /\ op[c] = "restore" /\ Quiet /\ Runs(c)
      /\ UNCHANGED <<keyVars, timerVars, clock, callVars, diskVars, saveVars>>
  BY DEF ReadState, Runs
<1>2. Base(c) /\ op'[c] = op[c]
  BY <1>1, BaseFollows, TimersStay
<1>3. CASE /\ Ask(c, controller, "restore-save-state") /\ GoTo(c, "asking") /\ UNCHANGED local
  <2>1. Fits(c, "asking")
    BY <1>1, <1>2 DEF Fits
  <2>2. Turns(c, "asking")
    BY <1>1, <1>2, <1>3, <2>1, BaseTurns DEF GoTo, Keys, Await, RefusedNow
  <2> QED
    BY <1>1, <1>3, <2>2, TurnsToAsk DEF GoTo
<1>4. CASE Settle(c, "error")
  BY <1>1, <1>2, <1>4, OnToSettle DEF RefusedNow
<1> QED
  BY <1>3, <1>4 DEF ReadState

LEMMA LaunchReturned ==
  ASSUME Parts, Covered, NEW c \in Calls, Launched(c)
  PROVE  Parts'
<1>1. at[c] = "launching" /\ phase[c] = "returned" /\ Runs(c)
      /\ UNCHANGED <<clock, callVars, diskVars, saveVars>>
  BY DEF Launched, Runs
<1>2. op[c] = "launch" /\ args[c].mode \in caller.modes /\ Main(c)
  BY <1>1 DEF Parts, Own, Position, Main, Ticks
<1>3. CASE /\ outcome[c] = "ok" /\ Restore(c) /\ Ask(c, controller, "restore-save-state")
           /\ GoTo(c, "restoring") /\ UNCHANGED <<local, keyVars, timerVars>>
  <2>1. Base(c) /\ op'[c] = op[c]
    BY <1>1, <1>3, BaseFollows, TimersStay
  <2>2. ~AloneOnCore
    BY <1>2, <1>3 DEF AloneOnCore, Restore
  <2>3. Fits(c, "restoring")
    BY <1>1, <1>2, <2>1, <2>2 DEF Fits, Controlling
  <2>4. Turns(c, "restoring")
    BY <1>3, <2>1, <2>2, <2>3, BaseTurns DEF GoTo, Keys, Await
  <2> QED
    BY <1>3, <2>4, TurnsToAsk DEF GoTo
<1>4. CASE outcome[c] = "ok" /\ Arm(c)
  <2>1. Base(c)
    BY <1>1, <1>4, BaseFollows, ArmTimers
  <2> QED
    BY <1>1, <1>2, <1>4, <2>1, OnToSettle DEF Arm, RefusedNow
<1>5. CASE outcome[c] = "error" /\ ClearTimers /\ SetKeys(NoGame, NoGame) /\ Settle(c, "error")
  <2>1. Base(c)
    BY <1>1, <1>5, BaseFollows, TimersStay
  <2>2. Sequential => NothingLeft
    BY <1>1, <1>5 DEF Parts, Own, MainCall, NothingLeft
  <2> QED
    BY <1>1, <1>2, <1>5, <2>1, <2>2, OnToSettle DEF KeysGo, SetKeys
<1> QED
  BY <1>3, <1>4, <1>5 DEF Launched

LEMMA StateIsRestored ==
  ASSUME Parts, Covered, NEW c \in Calls, Restored(c)
  PROVE  Parts'
<1>1. at[c] = "restoring" /\ phase[c] = "returned" /\ Runs(c)
      /\ UNCHANGED <<clock, callVars, diskVars, saveVars>>
  BY DEF Restored, Runs
<1>2. op[c] = "launch" /\ ~AloneOnCore
  BY <1>1 DEF Parts, Own, Position, OneCoreCall
<1>3. CASE outcome[c] = "ok" /\ Arm(c)
  <2>1. Base(c)
    BY <1>1, <1>3, BaseFollows, ArmTimers
  <2> QED
    BY <1>1, <1>2, <1>3, <2>1, OnToSettle DEF Arm
<1>4. CASE outcome[c] = "error" /\ EndSession(c, "undoing") /\ UNCHANGED <<keyVars, timerVars>>
  <2>1. Base(c) /\ op'[c] = op[c]
    BY <1>1, <1>4, BaseFollows, TimersStay
  <2> QED
    BY <1>1, <1>2, <1>4, <2>1, OnToEnd
<1> QED
  BY <1>3, <1>4 DEF Restored

LEMMA LaunchIsUndone ==
  ASSUME Parts, Covered, NEW c \in Calls, Undone(c)
  PROVE  Parts'
<1>1. at[c] = "undoing" /\ phase[c] = "returned" /\ Runs(c)
      /\ UNCHANGED <<timerVars, clock, callVars, diskVars, saveVars>>
      /\ SetKeys(NoGame, NoGame) /\ Settle(c, "error")
  BY DEF Undone, Runs
<1>2. op[c] = "launch" /\ ~AloneOnCore /\ Main(c)
  BY <1>1 DEF Parts, Own, Position, OneCoreCall, Main, Ticks
<1>3. Base(c)
  BY <1>1, BaseFollows, TimersStay
<1>4. Sequential => NothingLeft
  BY <1>1 DEF Parts, Own, MainCall, NothingLeft
<1> QED
  BY <1>1, <1>2, <1>3, <1>4, OnToSettle DEF KeysGo, SetKeys

LEMMA AnswerArrives ==
  ASSUME Parts, Covered, NEW c \in Calls, Asked(c)
  PROVE  Parts'
<1>1. at[c] = "asking" /\ phase[c] = "returned" /\ Runs(c)
      /\ UNCHANGED <<keyVars, timerVars, clock, callVars, diskVars, saveVars>>
      /\ Settle(c, outcome[c])
  BY DEF Asked, Runs
<1>2. outcome[c] \in {"none", "ok", "error"} /\ op[c] # "stop"
  BY <1>1, Types DEF Parts, Own, Position
<1>3. Base(c)
  BY <1>1, BaseFollows, TimersStay
<1> QED
  BY <1>1, <1>2, <1>3, OnToSettle DEF RefusedNow

-----------------------------------------------------------------------------
LEMMA NextKeeps ==
  ASSUME Parts, Covered, [Next]_vars
  PROVE  Parts'
<1>1. ASSUME NEW c \in Calls, Call(c) \/ HostStep(c) \/ ControllerStep(c) PROVE Parts'
  BY <1>1, CallBegins, StateArrives, StateIsStored, TimeIsCounted, SessionEnded, SaveIsRead,
     StateIsRead, LaunchReturned, StateIsRestored, LaunchIsUndone, AnswerArrives, StopExports,
     MethodGoesOn DEF HostStep
<1>2. ASSUME NEW s \in Session, ThreadStep(s) \/ Flush(s) PROVE Parts'
  BY <1>2, Threads, Flushes
<1>3. ASSUME NEW w \in Saves!Write, StoreStep(w) PROVE Parts'
  BY <1>3, StoreSteps
<1>4. CASE Advance \/ UNCHANGED vars
  BY <1>4, TimePasses
<1> QED
  BY <1>1, <1>2, <1>3, <1>4 DEF Next

LEMMA CallerStays ==
  ASSUME [Next]_vars
  PROVE  caller' = caller
<1>1. ASSUME NEW c \in Calls, Call(c) \/ HostStep(c) \/ ControllerStep(c) PROVE caller' = caller
  <2>1. Call(c) => caller' = caller
    BY DEF Call, BeginStop, BeginLaunch, BeginPauseOrResume, BeginCapture, BeginRestore,
       BeginCheckpoint, Begin
  <2>2. HostStep(c) => caller' = caller
    BY DEF HostStep, Captured, Stored, Counted, Ended, ReadSave, ReadState, Launched, Restored,
       Undone, Asked, Export, callVars, hostVars
  <2>3. ControllerStep(c) => caller' = caller
    BY DEF ControllerStep, hostVars, callVars
  <2> QED
    BY <1>1, <2>1, <2>2, <2>3
<1>2. ASSUME NEW s \in Session, ThreadStep(s) \/ Flush(s) PROVE caller' = caller
  BY <1>2 DEF ThreadStep, Flush, hostVars, callVars
<1>3. ASSUME NEW w \in Saves!Write, StoreStep(w) PROVE caller' = caller
  BY <1>3 DEF StoreStep, hostVars, callVars
<1>4. CASE Advance \/ UNCHANGED vars
  BY <1>4 DEF Advance, vars, callVars
<1> QED
  BY <1>1, <1>2, <1>3, <1>4 DEF Next

LEMMA InitKeeps ==
  ASSUME Init
  PROVE  IInv
<1>1. caller \in Callers
  BY DEF Init
<1>2. ControllerInv
  BY InitInductive DEF Init
<1>3. HostTypeOK
  <2>1. MaxWrites \in Nat /\ MaxClock \in Nat /\ NoController \in Controllers /\ MaxBattery \in Nat
    BY HostAssumption, SessionsAssumption DEF NoController
  <2>2. Saves!TypeOK
    BY <2>1 DEF Init, Saves!Init, Saves!TypeOK, Saves!Outcome, Saves!NoWrite, Saves!Write
  <2>3. NoLocal \in [gameId : Games \union {NoGame}, now : 0..MaxClock, elapsed : 0..MaxClock]
    BY <2>1 DEF NoLocal
  <2>4. [session |-> NoSession, version |-> 0] \in
          [session : Session \union {NoSession}, version : 0..MaxBattery]
    BY <2>1
  <2> QED
    BY <1>1, <2>1, <2>2, <2>3, <2>4 DEF Init, HostTypeOK, NoCheckpoint, Await
<1>4. /\ \A c \in Calls : at[c] = "none" /\ op[c] = "none" /\ phase[c] = "idle" /\ result[c] = "none"
                          /\ on[c] = NoController
      /\ \A s \in Session : worker[s] = "none" /\ battery[s] = 0
      /\ \A k \in Controllers : held[k] = NoSession
      /\ activeSaveKey = NoGame /\ activeGameId = NoGame /\ controller = NoController
      /\ saveIssued = 0 /\ (\A g \in Games : saved[g] = 0)
      /\ \A w \in Saves!Write : saveOutcome[w] = "unused"
      /\ \A x \in DOMAIN states : states[x] = NoSession
  BY DEF Init, ControllerInit, SessionsInit, Saves!Init, Saves!NoWrite, Session
<1>5. WritesOK
  BY <1>4 DEF WritesOK, Written
<1>6. \A c \in Calls : Made(c)
  BY <1>4, SessionsAssumption DEF Made, NoController
<1>7. \A c \in Calls : Own(c)
  <2> SUFFICES ASSUME NEW c \in Calls PROVE Own(c)
    OBVIOUS
  <2>1. at[c] = "none" /\ op[c] = "none" /\ phase[c] = "idle" /\ result[c] = "none"
        /\ worker[c] = "none"
    BY <1>4 DEF Session
  <2>2. Position(c) /\ Owner(c) /\ OneCoreCall(c)
    BY <2>1 DEF Position, Owner, OneCoreCall
  <2>3. MainCall(c)
    BY <2>1 DEF MainCall
  <2>4. FindsKey(c)
    BY <2>1 DEF FindsKey, BringsSave, Pending, Waiting
  <2>5. FindsGame(c)
    BY <2>1 DEF FindsGame, Arrived
  <2>6. FinalSave(c)
    BY <2>1 DEF FinalSave
  <2> QED
    BY <2>2, <2>3, <2>4, <2>5, <2>6 DEF Own
<1>8. InOrder /\ HostKeys /\ StoredStates /\ WritesInOrder
  <2>1. controller \in Controllers
    BY <1>3 DEF HostTypeOK
  <2> QED
    BY <1>4, <2>1 DEF InOrder, Main, Runs, HostKeys, StoredStates, WritesInOrder, Written
<1>9. Refusal /\ OneCore
  BY <1>4 DEF Refusal, OneCore, Runs
<1> QED
  BY <1>1, <1>2, <1>3, <1>5, <1>6, <1>7, <1>8, <1>9 DEF IInv, Parts

LEMMA HostInvariance == Spec => []IInv
<1>1. Init => IInv
  BY InitKeeps
<1>2. IInv /\ [Next]_vars => IInv'
  <2> SUFFICES ASSUME IInv, [Next]_vars PROVE IInv'
    OBVIOUS
  <2>1. caller' = caller
    BY CallerStays
  <2>2. Covered' <=> Covered
    BY <2>1 DEF Covered, Sequential, AloneOnCore
  <2>3. Covered => Parts'
    BY NextKeeps DEF IInv
  <2> QED
    BY <2>1, <2>2, <2>3 DEF IInv
<1> QED
  BY <1>1, <1>2, PTL DEF Spec
-----------------------------------------------------------------------------
(* The properties of the runs.                                             *)

(* No value of the host, of a controller or of a session is outside its    *)
(* type, whatever a covered caller asks for.                               *)
THEOREM HostTypesHold == Spec => [](Covered => TypeOK)
<1>1. IInv => (Covered => TypeOK)
  BY DEF IInv, Parts, ControllerInv, TypeOK
<1> QED
  BY <1>1, HostInvariance, PTL

(* onCartridgeSave writes under the key that is active when the save       *)
(* arrives, and that is the key of the session it comes from: no game gets *)
(* the battery RAM of another one.                                         *)
THEOREM NoSaveGoesAstray == Spec => []SavesGoToTheirGame
<1>1. IInv => SavesGoToTheirGame
  <2> SUFFICES ASSUME IInv, Covered, NEW g \in Games, saved[g] # 0
               PROVE  GameOf(payload[saved[g]].session) = g
    BY DEF SavesGoToTheirGame, NoForeignSave, Covered
  <2>1. WritesOK
    BY DEF IInv, Parts
  <2> QED
    BY <2>1 DEF WritesOK
<1> QED
  BY <1>1, HostInvariance, PTL

(* A stop that returned ok brought the final save of its session home, and *)
(* it is on disk unless a later session of the game replaced it: the       *)
(* writes of one game are in the order of its sessions and of the versions *)
(* of their battery RAM.                                                   *)
THEOREM FinalSavesComeHome == Spec => []StopLeavesItsSave
<1>1. IInv => StopLeavesItsSave
  <2> SUFFICES ASSUME IInv, Sequential, NEW c \in Calls,
                      op[c] = "stop", result[c] = "ok", request[c].answer = "save"
               PROVE  LET s == request[c].session
                          p == payload[saved[GameOf(s)]]
                      IN  /\ saved[GameOf(s)] # 0
                          /\ p.session >= s
                          /\ p.session = s => p.version = battery[s]
    BY DEF StopLeavesItsSave, FinalSaveIsOnDisk
  <2> DEFINE s == request[c].session
             g == GameOf(s)
             x == saved[g]
  <2>1. Parts /\ FinalSave(c) /\ WritesOK /\ WritesInOrder
    BY DEF IInv, Parts, Own, Covered
  <2>2. s \in Session
    BY <2>1, Types DEF Request, NoRequest
  <2>3. Home(s)
    BY <2>1 DEF FinalSave
  <2>4. PICK w \in 1..x : payload[w] = [session |-> s, version |-> battery[s]]
    BY <2>3 DEF Home
  <2>5. op[s] = "launch" /\ g \in Games
    <3>1. worker[s] # "none"
      BY <2>3 DEF Home
    <3>2. op[s] = "launch" /\ Position(s)
      BY <2>1, <2>2, <3>1, Types, SessionsOfLaunches DEF Parts, Own
    <3> QED
      BY <3>2 DEF Position, Args, GameOf
  <2>6. x \in Nat /\ x \in Written /\ saveIssued \in Nat /\ x # 0
    <3>1. x \in 0..MaxWrites /\ saveIssued \in 0..MaxWrites /\ MaxWrites \in Nat
      BY <2>1, <2>5, HostAssumption DEF Parts, HostTypeOK, Saves!TypeOK
    <3>2. x # 0
      BY <2>4, <3>1
    <3>3. x \in Written
      BY <2>1, <2>5, <3>2 DEF WritesOK
    <3> QED
      BY <3>1, <3>2, <3>3
  <2>7. w \in Written /\ x \in w..saveIssued
    BY <2>4, <2>6 DEF Written
  <2>8. /\ s <= payload[x].session
        /\ s = payload[x].session => battery[s] <= payload[x].version
        /\ payload[x].version <= battery[payload[x].session]
    BY <2>1, <2>4, <2>6, <2>7 DEF WritesInOrder
  <2>9. payload[x].session \in Session /\ payload[x].version \in Int
    <3>1. payload[x].session \in Session
      BY <2>1, <2>6 DEF WritesOK
    <3>2. x \in Saves!Write /\ MaxBattery \in Nat
      BY <2>1, <2>5, <2>6, HostAssumption, SessionsAssumption
      DEF Parts, HostTypeOK, Saves!TypeOK, Saves!Write
    <3>3. payload[x] \in [session : Session \union {NoSession}, version : 0..MaxBattery]
      BY <2>1, <3>2 DEF Parts, HostTypeOK
    <3> QED
      BY <3>1, <3>2, <3>3
  <2>10. battery[s] \in Int /\ s \in Nat /\ payload[x].session \in Nat
    <3>1. battery[s] \in 0..MaxBattery /\ MaxBattery \in Nat
      BY <2>1, <2>2, Types, SessionsAssumption
    <3> QED
      BY <2>1, <2>2, <2>9, <3>1, Types
  <2>11. payload[x].session = s => payload[x].version = battery[s]
    BY <2>8, <2>9, <2>10
  <2> QED
    BY <2>6, <2>8, <2>10, <2>11
<1> QED
  BY <1>1, HostInvariance, PTL

(* Between calls, a session that plays is the one the controller of the    *)
(* host holds, and its saves find their key: none is dropped.              *)
THEOREM ThePlayingSessionHasTheKeys == Spec => []KeysFollowTheSession
<1>1. IInv => KeysFollowTheSession
  <2> SUFFICES ASSUME IInv, Sequential, NEW s \in Session, worker[s] = "live"
               PROVE  held[controller] = s /\ activeSaveKey = GameOf(s)
    BY DEF KeysFollowTheSession, KeysNameTheSession
  <2>1. Parts /\ HostKeys /\ HeldOK /\ Covered
    BY DEF IInv, Parts, Covered, ControllerInv
  <2>2. on[s] \in Controllers /\ held[on[s]] = s
    BY <2>1 DEF HeldOK
  <2>3. s # NoSession /\ ~Dead(s)
    BY <2>1, Types DEF Dead
  <2>4. on[s] = controller
    BY <2>1, <2>2, <2>3 DEF HostKeys
  <2>5. activeSaveKey = GameOf(s)
    BY <2>1, <2>2, <2>3, <2>4 DEF HostKeys
  <2> QED
    BY <2>2, <2>4, <2>5
<1> QED
  BY <1>1, HostInvariance, PTL

(* A save state is stored for the game whose session it was captured from: *)
(* the game that is active when the state arrives is still that one.       *)
THEOREM StatesFindTheirGame == Spec => []StatesGoToTheirGame
<1>1. IInv => StatesGoToTheirGame
  <2>1. IInv /\ Sequential => StoredStates
    BY DEF IInv, Parts, Covered
  <2>2. StoredStates => StatesBelongToTheirGame
    BY DEF StoredStates, StatesBelongToTheirGame
  <2> QED
    BY <2>1, <2>2 DEF StatesGoToTheirGame
<1> QED
  BY <1>1, HostInvariance, PTL
-----------------------------------------------------------------------------
(***************************************************************************)
(* Playtime, for callers whose intervals do not tick beside a call that    *)
(* counts (TimeIsAlone); relaunches are allowed.  What was counted lies    *)
(* before the checkpoint (TimeIsCounted), and nobody moves the checkpoint  *)
(* while a call has the library add the time since (Takes).                *)
(***************************************************************************)
Counts(c) == Runs(c) /\ op[c] # "autosave"

(* Only the ticks of the autosave run beside another call.                 *)
OneCounts ==
  /\ \A c \in Calls : Runs(c) => op[c] \in Operations
  /\ \A c \in Calls : Runs(c) /\ op[c] = "autosave" => at[c] \in {"capturing", "storing"}
  /\ \A c, d \in Calls : Counts(c) /\ Counts(d) => c = d

(* A call that has the library add time has read it off the clock.         *)
Takes(c) ==
  /\ checkpointAt <= local[c].now /\ local[c].now \in 0..clock
  /\ local[c].elapsed = local[c].now - checkpointAt

SoFar == IF checkpointAt = NoCheckpoint THEN clock ELSE checkpointAt

TimeParts ==
  /\ clock \in 0..MaxClock /\ playtime \in [Games -> Nat]
  /\ checkpointAt = NoCheckpoint \/ checkpointAt \in 0..clock
  /\ DOMAIN at = Calls /\ DOMAIN op = Calls /\ DOMAIN local = Calls
  /\ OneCounts
  /\ \A c \in Calls : at[c] = "counting" => Takes(c)
  /\ SharedOut(playtime, SoFar)

TimeInv == caller \in Callers /\ (TimeIsAlone => TimeParts)

LEMMA SharedLonger ==
  ASSUME NEW counted, NEW t \in Nat, NEW u \in Nat, t <= u, SharedOut(counted, t)
  PROVE  SharedOut(counted, u)
<1>1. PICK share \in [Games -> SUBSET (1..t)] :
        /\ \A g \in Games : Cardinality(share[g]) = counted[g]
        /\ \A g, h \in Games : g # h => share[g] \intersect share[h] = {}
  BY DEF SharedOut
<1>2. 1..t \subseteq 1..u
  OBVIOUS
<1>3. share \in [Games -> SUBSET (1..u)]
  BY <1>2
<1> QED
  BY <1>1, <1>3 DEF SharedOut

(* The time from t to u goes to one game. *)
LEMMA SharedWith ==
  ASSUME NEW counted \in [Games -> Nat], NEW t \in Nat, NEW u \in Nat, t <= u, NEW x,
         SharedOut(counted, t)
  PROVE  SharedOut([counted EXCEPT ![x] = @ + (u - t)], u)
<1> DEFINE more == [counted EXCEPT ![x] = @ + (u - t)]
           new  == (t + 1)..u
<1>1. PICK share \in [Games -> SUBSET (1..t)] :
        /\ \A g \in Games : Cardinality(share[g]) = counted[g]
        /\ \A g, h \in Games : g # h => share[g] \intersect share[h] = {}
  BY DEF SharedOut
<1> DEFINE wider == [g \in Games |-> IF g = x THEN share[g] \union new ELSE share[g]]
<1>2. 1..t \subseteq 1..u /\ new \subseteq 1..u /\ (1..t) \intersect new = {}
  OBVIOUS
<1>3. IsFiniteSet(new) /\ Cardinality(new) = u - t
  <2>1. t + 1 \in Int /\ u \in Int
    OBVIOUS
  <2>2. IsFiniteSet(new) /\ Cardinality(new) = IF t + 1 > u THEN 0 ELSE u - (t + 1) + 1
    BY <2>1, FS_Interval
  <2> HIDE DEF new
  <2> QED
    BY <2>2
<1>4. \A g \in Games : more[g] = IF g = x THEN counted[g] + (u - t) ELSE counted[g]
  OBVIOUS
<1> HIDE DEF new, more
<1>5. wider \in [Games -> SUBSET (1..u)]
  BY <1>2
<1>6. \A g \in Games : Cardinality(wider[g]) = more[g]
  <2> SUFFICES ASSUME NEW g \in Games PROVE Cardinality(wider[g]) = more[g]
    OBVIOUS
  <2>1. CASE g # x
    BY <1>1, <1>4, <2>1
  <2>2. CASE g = x
    <3>1. share[g] \subseteq 1..t /\ IsFiniteSet(1..t)
      BY FS_Interval
    <3>2. IsFiniteSet(share[g])
      BY <3>1, FS_Subset
    <3>3. share[g] \intersect new = {} /\ Cardinality({}) = 0
      BY <1>2, <3>1, FS_EmptySet
    <3>4. Cardinality(share[g] \union new)
            = Cardinality(share[g]) + Cardinality(new) - Cardinality(share[g] \intersect new)
      BY <1>3, <3>2, FS_Union
    <3>5. wider[g] = share[g] \union new
      BY <2>2
    <3>6. Cardinality(share[g]) = counted[g] /\ counted[g] \in Nat
      BY <1>1
    <3> HIDE DEF wider
    <3>7. Cardinality(wider[g]) = counted[g] + (u - t) - 0
      BY <1>3, <3>3, <3>4, <3>5, <3>6
    <3>8. more[g] = counted[g] + (u - t)
      BY <1>4, <2>2
    <3> QED
      BY <3>6, <3>7, <3>8
  <2> QED
    BY <2>1, <2>2
<1>7. \A g, h \in Games : g # h => wider[g] \intersect wider[h] = {}
  <2> SUFFICES ASSUME NEW g \in Games, NEW h \in Games, g # h PROVE wider[g] \intersect wider[h] = {}
    OBVIOUS
  <2>1. share[g] \subseteq 1..t /\ share[h] \subseteq 1..t /\ share[g] \intersect share[h] = {}
    BY <1>1
  <2>2. /\ wider[g] = IF g = x THEN share[g] \union new ELSE share[g]
        /\ wider[h] = IF h = x THEN share[h] \union new ELSE share[h]
    OBVIOUS
  <2> HIDE DEF wider
  <2> QED
    BY <1>2, <2>1, <2>2
<1> HIDE DEF wider
<1> QED
  BY <1>5, <1>6, <1>7 DEF SharedOut, more

(* A step of call c: it goes to an await, and if that is the one at which  *)
(* the library adds time, it has read it.                                  *)
Goes(c) ==
  \E p \in Await \ {"none"} :
    /\ at' = [at EXCEPT ![c] = p]
    /\ op'[c] = "autosave" => p \in {"capturing", "storing", "done"}
    /\ p = "counting" => MayCount /\ CountPlaytime(c)

OwnLocal(c) == DOMAIN local' = DOMAIN local /\ \A d \in Calls \ {c} : local'[d] = local[d]

Acts(c) ==
  /\ \/ Runs(c) /\ UNCHANGED op
     \/ \E kind \in Operations : \E a : Begin(c, kind, a)
  /\ OwnLocal(c)
  /\ UNCHANGED <<caller, clock>>

LEMMA StillOneCounts ==
  ASSUME TimeParts, TimeIsAlone, NEW c \in Calls, Acts(c), Goes(c)
  PROVE  /\ OneCounts'
         /\ DOMAIN at' = Calls /\ DOMAIN op' = Calls /\ DOMAIN local' = Calls
         /\ \A d \in Calls \ {c} : at'[d] = at[d] /\ local'[d] = local[d]
<1>1. PICK p \in Await \ {"none"} :
        /\ at' = [at EXCEPT ![c] = p]
        /\ op'[c] = "autosave" => p \in {"capturing", "storing", "done"}
  BY DEF Goes
<1>2. /\ DOMAIN at' = Calls /\ at'[c] = p
      /\ \A d \in Calls \ {c} : at'[d] = at[d]
  BY <1>1 DEF TimeParts
<1>3. DOMAIN local' = Calls /\ \A d \in Calls \ {c} : local'[d] = local[d]
  BY DEF Acts, OwnLocal, TimeParts
<1>4. DOMAIN op' = Calls /\ (\A d \in Calls \ {c} : op'[d] = op[d])
  BY DEF Acts, Begin, TimeParts
<1>5. /\ op'[c] \in Operations
      /\ op'[c] # "autosave" => \A d \in Calls \ {c} : ~Counts(d)
  <2>1. CASE Runs(c) /\ UNCHANGED op
    BY <2>1 DEF TimeParts, OneCounts, Counts
  <2>2. CASE \E kind \in Operations : \E a : Begin(c, kind, a)
    <3>1. PICK kind \in Operations : \E a : Begin(c, kind, a)
      BY <2>2
    <3>2. op'[c] = kind
      BY <3>1 DEF Begin, TimeParts
    <3>3. "calls" \notin caller.overlapping /\ "checkpoint" \notin caller.overlapping
      BY DEF TimeIsAlone
    <3>4. kind # "autosave" => ~Running((Operations \ Ticks) \union {"checkpoint"})
      BY <3>1, <3>3 DEF Begin, Running, Ticks, Operations
    <3>5. ASSUME kind # "autosave", NEW d \in Calls, Counts(d) PROVE FALSE
      <4>1. op[d] \in Operations /\ op[d] # "autosave" /\ at[d] \notin {"none", "done"}
        BY <3>5 DEF Counts, Runs, TimeParts, OneCounts
      <4> QED
        BY <3>4, <3>5, <4>1 DEF Running, Operations, Ticks
    <3> QED
      BY <3>2, <3>5
  <2> QED
    BY <2>1, <2>2 DEF Acts
<1>6. \A d \in Calls \ {c} : (Counts(d))' = Counts(d) /\ (Runs(d))' = Runs(d)
  BY <1>2, <1>4 DEF Counts, Runs
<1>7. OneCounts'
  <2>1. ASSUME NEW d \in Calls, Runs(d)'
        PROVE  op'[d] \in Operations /\ (op'[d] = "autosave" => at'[d] \in {"capturing", "storing"})
    <3>1. CASE d = c
      BY <1>1, <1>2, <1>5, <2>1, <3>1 DEF Runs
    <3>2. CASE d # c
      BY <1>2, <1>4, <1>6, <2>1, <3>2 DEF TimeParts, OneCounts
    <3> QED
      BY <3>1, <3>2
  <2>2. ASSUME NEW d \in Calls, NEW e \in Calls, Counts(d)', Counts(e)' PROVE d = e
    <3>1. op'[c] = "autosave" => ~Counts(c)'
      BY DEF Counts
    <3> QED
      BY <1>5, <1>6, <2>2, <3>1 DEF TimeParts, OneCounts
  <2> QED
    BY <2>1, <2>2 DEF OneCounts
<1> QED
  BY <1>2, <1>3, <1>4, <1>7

(* A step that moves neither the checkpoint nor what was counted.          *)
LEMMA TimeStands ==
  ASSUME TimeParts, TimeIsAlone, NEW c \in Calls, Acts(c), Goes(c),
         UNCHANGED <<checkpointAt, playtime>>
  PROVE  TimeParts'
<1>1. clock \in 0..MaxClock /\ clock' = clock /\ MaxClock \in Nat
  BY HostAssumption DEF TimeParts, Acts
<1>2. ASSUME NEW d \in Calls, at'[d] = "counting" PROVE Takes(d)'
  <2>1. CASE d # c
    <3>1. at[d] = "counting" /\ local'[d] = local[d]
      BY <1>2, <2>1, StillOneCounts
    <3> QED
      BY <1>1, <3>1 DEF Takes, TimeParts
  <2>2. CASE d = c
    <3>1. MayCount /\ CountPlaytime(c)
      BY <1>2, <2>2 DEF Goes, TimeParts
    <3>2. local'[c].now = clock /\ local'[c].elapsed = clock - checkpointAt /\ checkpointAt < clock
      BY <3>1 DEF CountPlaytime, MayCount, TimeParts
    <3> QED
      BY <1>1, <2>2, <3>2 DEF Takes, TimeParts, NoCheckpoint
  <2> QED
    BY <2>1, <2>2
<1>3. SoFar' = SoFar
  BY <1>1 DEF SoFar, NoCheckpoint
<1> QED
  BY <1>1, <1>2, <1>3, StillOneCounts DEF TimeParts, SharedOut, NoCheckpoint
(* The library added the time, or failed to: no other call is about to.    *)
LEMMA TimeIsAdded ==
  ASSUME TimeParts, TimeIsAlone, NEW c \in Calls, Acts(c), Goes(c),
         at[c] = "counting", at'[c] # "counting",
         playtime' = [playtime EXCEPT ![local[c].gameId] = @ + local[c].elapsed],
         checkpointAt' = local[c].now
  PROVE  TimeParts'
<1>1. clock \in 0..MaxClock /\ clock' = clock /\ MaxClock \in Nat /\ playtime \in [Games -> Nat]
  BY HostAssumption DEF TimeParts, Acts
<1>2. /\ checkpointAt \in Nat /\ checkpointAt <= local[c].now /\ local[c].now \in 0..clock
      /\ local[c].elapsed = local[c].now - checkpointAt
  BY <1>1 DEF TimeParts, Takes, NoCheckpoint
<1>3. SoFar = checkpointAt /\ SoFar' = local[c].now
  BY <1>1, <1>2 DEF SoFar, NoCheckpoint
<1>4. SharedOut(playtime', SoFar')
  <2> DEFINE t == checkpointAt
             u == local[c].now
  <2>1. t \in Nat /\ u \in Nat /\ t <= u /\ SharedOut(playtime, t)
    BY <1>1, <1>2, <1>3 DEF TimeParts
  <2> HIDE DEF t, u
  <2>2. SharedOut([playtime EXCEPT ![local[c].gameId] = @ + (u - t)], u)
    BY <1>1, <2>1, SharedWith
  <2> QED
    BY <1>2, <1>3, <2>2 DEF t, u
<1>5. playtime' \in [Games -> Nat]
  <2>1. local[c].elapsed \in Nat
    BY <1>1, <1>2
  <2>2. \A g \in Games : playtime[g] + local[c].elapsed \in Nat
    BY <1>1, <2>1
  <2> QED
    BY <1>1, <2>2
<1>6. \A d \in Calls : at'[d] # "counting"
  <2>1. Counts(c)
    BY DEF Counts, Runs, TimeParts, OneCounts
  <2>2. ASSUME NEW d \in Calls \ {c} PROVE at[d] # "counting"
    BY <2>1 DEF Counts, Runs, TimeParts, OneCounts
  <2> QED
    BY <2>2, StillOneCounts
<1> QED
  BY <1>1, <1>2, <1>4, <1>5, <1>6, StillOneCounts DEF TimeParts, SharedOut

(* A launch that arms the intervals, or a stop that has ended the session, *)
(* sets the checkpoint: no other call counts.                              *)
LEMMA CheckpointIsSet ==
  ASSUME TimeParts, TimeIsAlone, NEW c \in Calls, Acts(c), Goes(c),
         Counts(c), at[c] # "counting", at'[c] # "counting",
         checkpointAt' \in {clock, NoCheckpoint}, playtime' = playtime
  PROVE  TimeParts'
<1>1. clock \in 0..MaxClock /\ clock' = clock /\ MaxClock \in Nat
  BY HostAssumption DEF TimeParts, Acts
<1>2. \A d \in Calls : at'[d] # "counting"
  <2>1. ASSUME NEW d \in Calls \ {c} PROVE at[d] # "counting"
    BY DEF Counts, Runs, TimeParts, OneCounts
  <2> QED
    BY <2>1, StillOneCounts
<1>3. SoFar \in Nat /\ SoFar <= clock /\ SoFar' = clock
  BY <1>1 DEF SoFar, NoCheckpoint, TimeParts
<1>4. SharedOut(playtime, clock)
  BY <1>1, <1>3, SharedLonger DEF TimeParts
<1>5. SharedOut(playtime', SoFar')
  BY <1>3, <1>4
<1> QED
  BY <1>1, <1>2, <1>5, StillOneCounts DEF TimeParts, SharedOut, NoCheckpoint
(* Where the parts of a call go.                                           *)
LEMMA GoesAside ==
  ASSUME TimeParts, NEW c \in Calls, NEW p \in Await \ {"none", "counting"}, NEW how,
         op'[c] = "autosave" => p \in {"capturing", "storing", "done"}
  PROVE  /\ GoTo(c, p) => Goes(c) /\ at'[c] = p
         /\ Settle(c, how) => Goes(c) /\ OwnLocal(c) /\ at'[c] = "done"
<1>1. \A q : at' = [at EXCEPT ![c] = q] => at'[c] = q
  BY DEF TimeParts
<1> QED
  BY <1>1 DEF GoTo, Settle, Goes, OwnLocal, Await

LEMMA GoesOnToStop ==
  ASSUME TimeParts, NEW c \in Calls, op'[c] # "autosave"
  PROVE  /\ CountAndEnd(c) \/ StopCleanly(c) => Goes(c) /\ OwnLocal(c)
         /\ NewController(c) => Goes(c) /\ OwnLocal(c) /\ at'[c] = "reading"
         /\ EndSession(c, "ending") => Goes(c) /\ OwnLocal(c) /\ at'[c] = "ending"
<1>1. MayCount /\ CountPlaytime(c) => Goes(c) /\ OwnLocal(c)
  BY DEF CountPlaytime, GoTo, Goes, OwnLocal, Await, TimeParts
<1>2. EndSession(c, "ending") => Goes(c) /\ OwnLocal(c) /\ at'[c] = "ending"
  BY GoesAside DEF EndSession, OwnLocal, Await
<1>3. Capture(c) => Goes(c) /\ OwnLocal(c)
  BY GoesAside DEF Capture, OwnLocal, Await
<1>4. NewController(c) => Goes(c) /\ OwnLocal(c) /\ at'[c] = "reading"
  BY GoesAside DEF NewController, OwnLocal, Await
<1> QED
  BY <1>1, <1>2, <1>3, <1>4 DEF CountAndEnd, StopCleanly

(* The calls begin. *)
LEMMA TimeBegins ==
  ASSUME TimeParts, TimeIsAlone, NEW c \in Calls, Call(c)
  PROVE  TimeParts'
<1>1. ASSUME NEW kind \in Operations, NEW a, Begin(c, kind, a),
             Goes(c), OwnLocal(c), UNCHANGED <<clock, checkpointAt, playtime>>
      PROVE  TimeParts'
  BY <1>1, TimeStands DEF Acts, Begin
<1>2. ASSUME NEW kind, NEW a, Begin(c, kind, a) PROVE op'[c] = kind
  BY <1>2 DEF Begin, TimeParts
<1>3. ASSUME BeginStop(c) PROVE TimeParts'
  BY <1>1, <1>2, <1>3, GoesOnToStop DEF BeginStop, ClearTimers, Operations, diskVars
<1>4. ASSUME NEW g \in caller.games, NEW m \in caller.modes, BeginLaunch(c, [game |-> g, mode |-> m])
      PROVE  TimeParts'
  <2> DEFINE a == [game |-> g, mode |-> m]
  <2>1. /\ Begin(c, "launch", a) /\ op'[c] = "launch"
        /\ UNCHANGED <<clock, checkpointAt, playtime>>
    BY <1>2, <1>4 DEF BeginLaunch, ClearTimers, diskVars, timerVars
  <2>2. \/ GoTo(c, "reading") /\ UNCHANGED local
        \/ NewController(c)
        \/ StopCleanly(c)
    BY <1>4 DEF BeginLaunch
  <2> HIDE DEF a
  <2>3. Goes(c) /\ OwnLocal(c)
    BY <2>1, <2>2, GoesOnToStop, GoesAside DEF OwnLocal, Await
  <2> QED
    BY <1>1, <1>4, <2>1, <2>3 DEF a, Operations
<1>5. ASSUME NEW kind \in {"pause", "resume"}, BeginPauseOrResume(c, kind) PROVE TimeParts'
  <2>1. /\ Begin(c, kind, NoArgs) /\ op'[c] = kind /\ GoTo(c, "asking") /\ UNCHANGED local
        /\ UNCHANGED <<clock, checkpointAt, playtime>>
    BY <1>2, <1>5 DEF BeginPauseOrResume, timerVars, diskVars
  <2>2. Goes(c) /\ OwnLocal(c)
    BY <2>1, GoesAside DEF OwnLocal, Await
  <2> QED
    BY <1>1, <2>1, <2>2 DEF Operations
<1>6. ASSUME BeginCapture(c) PROVE TimeParts'
  <2>1. PICK kind \in {"capture", "autosave"} : Begin(c, kind, NoArgs)
    BY <1>6 DEF BeginCapture
  <2>2. /\ GoTo(c, "capturing") /\ UNCHANGED local
        /\ UNCHANGED <<clock, checkpointAt, playtime>>
    BY <1>6 DEF BeginCapture, Capture, timerVars, diskVars
  <2>3. Goes(c) /\ OwnLocal(c)
    BY <2>2, GoesAside DEF OwnLocal, Await
  <2> QED
    BY <1>1, <2>1, <2>2, <2>3 DEF Operations, Ticks
<1>7. ASSUME BeginRestore(c) PROVE TimeParts'
  <2>1. /\ Begin(c, "restore", NoArgs) /\ op'[c] = "restore" /\ GoTo(c, "reading")
        /\ local' = [local EXCEPT ![c].gameId = activeGameId]
        /\ UNCHANGED <<clock, checkpointAt, playtime>>
    BY <1>2, <1>7 DEF BeginRestore, timerVars, diskVars
  <2>2. Goes(c) /\ OwnLocal(c)
    BY <2>1, GoesAside DEF OwnLocal, Await, TimeParts
  <2> QED
    BY <1>1, <2>1, <2>2 DEF Operations
<1>8. ASSUME BeginCheckpoint(c) PROVE TimeParts'
  <2>1. /\ Begin(c, "checkpoint", NoArgs) /\ op'[c] = "checkpoint" /\ MayCount /\ CountPlaytime(c)
        /\ UNCHANGED <<clock, checkpointAt, playtime>>
    BY <1>2, <1>8 DEF BeginCheckpoint, timerVars, diskVars
  <2>2. Goes(c) /\ OwnLocal(c)
    BY <2>1 DEF CountPlaytime, GoTo, Goes, OwnLocal, Await, TimeParts
  <2> QED
    BY <1>1, <2>1, <2>2 DEF Operations, Ticks
<1> QED
  BY <1>3, <1>4, <1>5, <1>6, <1>7, <1>8 DEF Call
(* The calls go on after an await. *)
LEMMA TimeGoesOn ==
  ASSUME TimeParts, TimeIsAlone, NEW c \in Calls, HostStep(c), ~Export(c)
  PROVE  TimeParts'
<1>1. ASSUME Runs(c), Goes(c), OwnLocal(c), UNCHANGED <<callVars, clock>>
      PROVE  /\ Acts(c)
             /\ UNCHANGED <<checkpointAt, playtime>> => TimeParts'
             /\ /\ checkpointAt' \in {clock, NoCheckpoint} /\ playtime' = playtime
                /\ op[c] # "autosave" /\ at[c] # "counting" /\ at'[c] # "counting"
                => TimeParts'
  BY <1>1, TimeStands, CheckpointIsSet DEF Acts, callVars, Counts
<1>2. op[c] = "autosave" /\ Runs(c) => at[c] \in {"capturing", "storing"}
  BY DEF TimeParts, OneCounts
<1>3. ASSUME NEW how, Settle(c, how), callVars' = callVars
      PROVE  Goes(c) /\ OwnLocal(c) /\ at'[c] = "done"
  BY <1>3, GoesAside DEF Await
<1>4. ASSUME NEW p \in Await \ {"none", "counting"}, GoTo(c, p), callVars' = callVars,
             op[c] = "autosave" => p = "storing"
      PROVE  Goes(c) /\ at'[c] = p
  BY <1>4, GoesAside DEF callVars
<1>5. ASSUME CountAndEnd(c) \/ NewController(c) \/ EndSession(c, "ending"), callVars' = callVars,
             op[c] # "autosave"
      PROVE  /\ Goes(c) /\ OwnLocal(c)
             /\ NewController(c) => at'[c] = "reading"
             /\ EndSession(c, "ending") => at'[c] = "ending"
  BY <1>5, GoesOnToStop DEF callVars
<1>6. ASSUME Captured(c) PROVE TimeParts'
  <2>1. /\ Runs(c) /\ UNCHANGED <<callVars, clock, checkpointAt, playtime>>
        /\ \/ GoTo(c, "storing") /\ local' = [local EXCEPT ![c].gameId = activeGameId]
           \/ CountAndEnd(c) /\ op[c] # "autosave"
           \/ Settle(c, "error")
    BY <1>6 DEF Captured, Runs, timerVars, diskVars
  <2>2. Goes(c) /\ OwnLocal(c)
    BY <1>3, <1>4, <1>5, <2>1 DEF Await, OwnLocal, TimeParts
  <2> QED
    BY <1>1, <2>1, <2>2
<1>7. ASSUME Stored(c) PROVE TimeParts'
  <2>1. /\ Runs(c) /\ UNCHANGED <<callVars, clock, checkpointAt, playtime>>
        /\ \/ CountAndEnd(c) /\ op[c] # "autosave"
           \/ \E how : Settle(c, how)
    BY <1>7 DEF Stored, AfterStore, Runs, timerVars
  <2>2. Goes(c) /\ OwnLocal(c)
    BY <1>3, <1>5, <2>1
  <2> QED
    BY <1>1, <2>1, <2>2
<1>8. ASSUME Counted(c) PROVE TimeParts'
  <2>1. /\ Runs(c) /\ at[c] = "counting" /\ op[c] # "autosave" /\ UNCHANGED <<callVars, clock>>
        /\ Settle(c, "ok") \/ EndSession(c, "ending")
    BY <1>2, <1>8 DEF Counted, Runs
  <2>2. Goes(c) /\ OwnLocal(c) /\ at'[c] # "counting"
    BY <1>3, <1>5, <2>1
  <2>3. \/ /\ playtime' = [playtime EXCEPT ![local[c].gameId] = @ + local[c].elapsed]
           /\ checkpointAt' = local[c].now
        \/ UNCHANGED <<playtime, checkpointAt>>
    BY <1>8 DEF Counted
  <2> QED
    BY <1>1, <2>1, <2>2, <2>3, TimeIsAdded
<1>9. ASSUME Ended(c) PROVE TimeParts'
  <2>1. /\ Runs(c) /\ op[c] # "autosave" /\ at[c] # "counting"
        /\ UNCHANGED <<callVars, clock, playtime>>
        /\ (\E how : Settle(c, how)) \/ NewController(c)
        /\ checkpointAt' \in {checkpointAt, NoCheckpoint}
    BY <1>2, <1>9 DEF Ended, Runs, diskVars
  <2>2. Goes(c) /\ OwnLocal(c) /\ at'[c] # "counting"
    BY <1>3, <1>5, <2>1
  <2> QED
    BY <1>1, <2>1, <2>2
<1>10. ASSUME ReadSave(c) \/ ReadState(c) \/ Undone(c) \/ Asked(c) PROVE TimeParts'
  <2>1. /\ Runs(c) /\ op[c] # "autosave" /\ UNCHANGED <<callVars, clock, playtime, checkpointAt>>
        /\ \/ \E how : Settle(c, how)
           \/ GoTo(c, "launching") /\ UNCHANGED local
           \/ GoTo(c, "asking") /\ UNCHANGED local
    <3>1. ReadSave(c) => /\ Runs(c) /\ op[c] # "autosave"
                         /\ UNCHANGED <<callVars, clock, playtime, checkpointAt>>
                         /\ \/ Settle(c, "error")
                            \/ GoTo(c, "launching") /\ UNCHANGED local
      BY <1>2 DEF ReadSave, Runs, diskVars, timerVars, ClearTimers
    <3>2. ReadState(c) => /\ Runs(c) /\ op[c] # "autosave"
                          /\ UNCHANGED <<callVars, clock, playtime, checkpointAt>>
                          /\ \/ Settle(c, "error")
                             \/ GoTo(c, "asking") /\ UNCHANGED local
      BY <1>2 DEF ReadState, Runs, diskVars, timerVars
    <3>3. Undone(c) \/ Asked(c) => /\ Runs(c) /\ op[c] # "autosave"
                                   /\ UNCHANGED <<callVars, clock, playtime, checkpointAt>>
                                   /\ \E how : Settle(c, how)
      BY <1>2 DEF Undone, Asked, Runs, diskVars, timerVars
    <3> QED
      BY <1>10, <3>1, <3>2, <3>3
  <2>2. Goes(c) /\ OwnLocal(c)
    BY <1>3, <1>4, <2>1 DEF Await, OwnLocal
  <2> QED
    BY <1>1, <2>1, <2>2
<1>11. ASSUME Arm(c), Runs(c), op[c] # "autosave", at[c] # "counting",
              UNCHANGED <<callVars, clock, playtime>>
       PROVE  TimeParts'
  <2>1. Settle(c, "ok") /\ checkpointAt' \in {checkpointAt, clock}
    BY <1>11 DEF Arm
  <2>2. Goes(c) /\ OwnLocal(c) /\ at'[c] # "counting"
    BY <1>3, <1>11, <2>1
  <2> QED
    BY <1>1, <1>11, <2>1, <2>2
<1>12. ASSUME Launched(c) \/ Restored(c) PROVE TimeParts'
  <2>1. /\ Runs(c) /\ op[c] # "autosave" /\ at[c] # "counting"
        /\ UNCHANGED <<callVars, clock, playtime>>
        /\ \/ Arm(c)
           \/ /\ UNCHANGED checkpointAt
              /\ \/ Settle(c, "error")
                 \/ GoTo(c, "restoring") /\ UNCHANGED local
                 \/ GoTo(c, "undoing") /\ UNCHANGED local
    BY <1>2, <1>12 DEF Launched, Restored, EndSession, Runs, diskVars, timerVars, ClearTimers
  <2>2. CASE ~Arm(c)
    <3>1. Goes(c) /\ OwnLocal(c)
      BY <1>3, <1>4, <2>1, <2>2 DEF Await, OwnLocal
    <3> QED
      BY <1>1, <2>1, <2>2, <3>1
  <2> QED
    BY <1>11, <2>1, <2>2
<1> QED
  BY <1>6, <1>7, <1>8, <1>9, <1>10, <1>12 DEF HostStep

(* Nothing else touches the host but the clock. *)
LEMMA TimeSits ==
  ASSUME TimeParts, UNCHANGED <<caller, at, op, local, checkpointAt, playtime>>,
         clock' = clock \/ (clock' = clock + 1 /\ clock < MaxClock)
  PROVE  TimeParts'
<1>1. clock \in 0..MaxClock /\ clock' \in 0..MaxClock /\ MaxClock \in Nat /\ clock <= clock'
  BY HostAssumption DEF TimeParts
<1>2. SoFar \in Nat /\ SoFar' \in Nat /\ SoFar <= SoFar'
  BY <1>1 DEF SoFar, NoCheckpoint, TimeParts
<1>3. SharedOut(playtime, SoFar')
  BY <1>2, SharedLonger DEF TimeParts
<1>4. SharedOut(playtime', SoFar')
  BY <1>3
<1>5. \A c \in Calls : at'[c] = "counting" => Takes(c)'
  BY <1>1 DEF TimeParts, Takes
<1>6. OneCounts'
  BY DEF TimeParts, OneCounts, Counts, Runs
<1>7. checkpointAt' = NoCheckpoint \/ checkpointAt' \in 0..clock'
  BY <1>1 DEF TimeParts
<1> QED
  BY <1>1, <1>4, <1>5, <1>6, <1>7 DEF TimeParts, SharedOut, NoCheckpoint

LEMMA TimeKeeps ==
  ASSUME TimeParts, TimeIsAlone, caller \in Callers, [Next]_vars
  PROVE  TimeParts'
<1>1. ASSUME NEW c \in Calls, Call(c) \/ HostStep(c) PROVE TimeParts'
  <2>1. CASE Export(c)
    BY <2>1, TimeSits DEF Export, hostVars, callVars, timerVars, diskVars
  <2> QED
    BY <1>1, <2>1, TimeBegins, TimeGoesOn
<1>2. ASSUME NEW c \in Calls, ControllerStep(c) PROVE TimeParts'
  BY <1>2, TimeSits DEF ControllerStep, hostVars, callVars, timerVars, diskVars
<1>3. ASSUME NEW s \in Session, ThreadStep(s) \/ Flush(s) PROVE TimeParts'
  BY <1>3, TimeSits DEF ThreadStep, Flush, hostVars, callVars, timerVars, diskVars
<1>4. ASSUME NEW w \in Saves!Write, StoreStep(w) PROVE TimeParts'
  BY <1>4, TimeSits DEF StoreStep, hostVars, callVars, timerVars, diskVars
<1>5. CASE Advance
  <2>1. caller.time \in 0..MaxClock /\ clock \in Nat /\ MaxClock \in Nat
    BY HostAssumption DEF Caller, TimeParts
  <2>2. clock' = clock + 1 /\ clock < MaxClock
    BY <1>5, <2>1 DEF Advance
  <2> QED
    BY <1>5, <2>2, TimeSits DEF Advance, callVars, timerVars, diskVars
<1>6. CASE UNCHANGED vars
  BY <1>6, TimeSits DEF vars, callVars, timerVars, diskVars
<1> QED
  BY <1>1, <1>2, <1>3, <1>4, <1>5, <1>6 DEF Next

LEMMA TimeStarts == Init => TimeInv
<1> SUFFICES ASSUME Init PROVE TimeInv
  OBVIOUS
<1>1. /\ caller \in Callers /\ clock = 0 /\ MaxClock \in Nat /\ checkpointAt = NoCheckpoint
      /\ \A c \in Calls : at[c] = "none"
      /\ DOMAIN at = Calls /\ DOMAIN op = Calls /\ DOMAIN local = Calls
      /\ playtime = [g \in Games |-> 0]
  BY HostAssumption DEF Init
<1>2. SharedOut(playtime, 0)
  <2> DEFINE none == [g \in Games |-> {}]
  <2>1. none \in [Games -> SUBSET (1..0)]
    OBVIOUS
  <2>2. \A g \in Games : none[g] = {}
    OBVIOUS
  <2>3. \A g \in Games : Cardinality(none[g]) = playtime[g]
    BY <1>1, <2>2, FS_EmptySet
  <2> HIDE DEF none
  <2> QED
    BY <2>1, <2>2, <2>3 DEF SharedOut
<1>3. SoFar = 0
  BY <1>1 DEF SoFar
<1>4. OneCounts
  BY <1>1 DEF OneCounts, Counts, Runs
<1> QED
  BY <1>1, <1>2, <1>3, <1>4 DEF TimeInv, TimeParts

(* While no call that counts overlaps with another, the playtime of the    *)
(* games is time that passed, each moment of it counted once at most       *)
(* (checkpointPlaytime); with a relaunch too, which the others except.     *)
THEOREM PlaytimeIsTime == Spec => []NoTimeCountsTwice
<1>1. TimeInv /\ [Next]_vars => TimeInv'
  <2> SUFFICES ASSUME TimeInv, [Next]_vars PROVE TimeInv'
    OBVIOUS
  <2>1. caller' = caller
    BY CallerStays
  <2>2. TimeIsAlone' <=> TimeIsAlone
    BY <2>1 DEF TimeIsAlone
  <2> QED
    BY <2>1, <2>2, TimeKeeps DEF TimeInv
<1>2. TimeInv => NoTimeCountsTwice
  <2> SUFFICES ASSUME TimeParts PROVE SharedOut(playtime, clock)
    BY DEF TimeInv, NoTimeCountsTwice, PlaytimeWithinClock
  <2>1. SoFar \in Nat /\ clock \in Nat /\ SoFar <= clock
    BY HostAssumption DEF TimeParts, SoFar, NoCheckpoint
  <2> QED
    BY <2>1, SharedLonger DEF TimeParts
<1> QED
  BY <1>1, <1>2, TimeStarts, PTL DEF Spec
=============================================================================
